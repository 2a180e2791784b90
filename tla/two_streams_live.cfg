SPECIFICATION FairSpecLoaded
CONSTANTS
    Streams = {s1, s2}
    Senders = {x1}
    Readers = {}
    Actors = {a1}
    MaxFlips = 1
PROPERTIES
    StopTakesEffect
    DeactivationTakesEffect
CHECK_DEADLOCK FALSE
