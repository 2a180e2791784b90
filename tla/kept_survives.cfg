SPECIFICATION Spec
CONSTANTS
    Ids = {i1, i2}
    PortLow = 1
    PortHigh = 3
    EgressOffset = 1
    PortFile <- NoFile
    Handlers = {h1}
    Scheduler = Scheduler
    Loader = Loader
    MaxObjects = 2
    MaxCrashes = 1
INVARIANT
    KeptSurvives
CHECK_DEADLOCK FALSE
