SPECIFICATION Spec
CONSTANTS
    Ids = {i1, i2}
    PortLow = 1
    PortHigh = 2
    EgressOffset = 1
    PortFile <- NoFile
    Handlers = {h1, h2}
    Scheduler = Scheduler
    Loader = Loader
    MaxObjects = 2
    MaxCrashes = 1
SYMMETRY Symmetry
INVARIANTS
    SettledFileIsCurrent
    StoppedOnce
    NothingComesBack
CHECK_DEADLOCK FALSE
