SPECIFICATION Spec
CONSTANTS
    Streams = {s1, s2}
    Senders = {x1}
    Readers = {}
    Actors = {a1}
    MaxFlips = 2
INVARIANTS
    PumpFeedsReaders
CHECK_DEADLOCK FALSE
