SPECIFICATION Spec
CONSTANTS
    Ids = {i1, i2}
    PortLow = 1
    PortHigh = 3
    EgressOffset = 1
    PortFile <- CrossingPairs
    Handlers = {h1}
    Scheduler = Scheduler
    Loader = Loader
    MaxObjects = 3
    MaxCrashes = 1
SYMMETRY Symmetry
INVARIANTS
    PortsExclusive
    SettledFileIsCurrent
    StoppedOnce
    NothingComesBack
    StrayOnlyIfReplaced
    LostOnlyInWrite
PROPERTY RestartRestores
CHECK_DEADLOCK FALSE
