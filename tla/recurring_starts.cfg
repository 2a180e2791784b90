SPECIFICATION Spec
CONSTANTS
    Day = 4
    Grace = 1
    TickPeriod = 2
    IdleMin = 1
    Horizon = 32
    Instants = {2, 3}
    Recurrences = {"daily"}
    Unset = Unset
PROPERTY
    StartsAtItsTime
CHECK_DEADLOCK FALSE
