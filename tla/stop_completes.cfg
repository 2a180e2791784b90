SPECIFICATION FairSpec
CONSTANTS
    Streams = {s1}
    Senders = {x1}
    Readers = {}
    Actors = {a1}
    MaxFlips = 0
PROPERTIES
    StopCompletes
CHECK_DEADLOCK FALSE
