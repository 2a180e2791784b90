SPECIFICATION Spec
CONSTANTS
    Streams = {s1}
    Workers = {w1}
    Connections <- TwoConnections
    Room = 1
    MaxVersion = 2
INVARIANTS
    TypeOK
    PageIsRight
    NothingHidden
CHECK_DEADLOCK FALSE
