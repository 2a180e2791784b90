SPECIFICATION FairSpec
CONSTANTS
    Streams = {s1}
    Workers = {w1}
    Connections <- OneConnection
    Room = 1
    MaxVersion = 2
PROPERTY UpdatesReturn
CHECK_DEADLOCK FALSE
