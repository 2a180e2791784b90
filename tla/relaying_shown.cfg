SPECIFICATION Spec
CONSTANTS
    Streams = {s1}
    Senders = {x1}
    Readers = {}
    Actors = {a1}
    MaxFlips = 1
INVARIANTS
    RelayingShown
CHECK_DEADLOCK FALSE
