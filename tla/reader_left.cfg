SPECIFICATION Spec
CONSTANTS
    Streams = {s1}
    Senders = {}
    Readers = {r1}
    Actors = {a1}
    MaxFlips = 0
INVARIANTS
    NoReaderLeft
CHECK_DEADLOCK FALSE
