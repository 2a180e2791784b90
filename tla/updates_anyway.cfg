SPECIFICATION FairSpec
CONSTANTS
    Streams = {s1}
    Workers = {w1}
    Connections <- OneConnection
    Room = 1
    MaxVersion = 2
PROPERTY UpdatesReturnAnyway
CHECK_DEADLOCK FALSE
