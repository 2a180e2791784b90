SPECIFICATION Spec
CONSTANTS
    Ids = {i1, i2}
    PortLow = 1
    PortHigh = 1
    EgressOffset = 1
    PortFile <- NoFile
    Handlers = {h1, h2}
    Scheduler = Scheduler
    Loader = Loader
    MaxObjects = 2
    MaxCrashes = 0
INVARIANT
    PortsExclusive
CHECK_DEADLOCK FALSE
