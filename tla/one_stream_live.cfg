SPECIFICATION FairSpec
CONSTANTS
    Streams = {s1}
    Senders = {x1}
    Readers = {r1}
    Actors = {a1}
    MaxFlips = 2
PROPERTIES
    StopTakesEffect
    DeactivationTakesEffect
CHECK_DEADLOCK FALSE
