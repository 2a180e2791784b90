SPECIFICATION Spec
CONSTANTS
    Day = 4
    Grace = 1
    TickPeriod = 2
    IdleMin = 1
    Horizon = 32
    Instants = {2, 7, 21}
    Recurrences = {"none", "daily", "weekly"}
    Unset = Unset
INVARIANTS
    LatestIsLatest
    FlagFollowsSchedule
    OverIsRemoved
PROPERTIES
    RemovedIsOver
CHECK_DEADLOCK FALSE
