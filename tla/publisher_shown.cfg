SPECIFICATION Spec
CONSTANTS
    Streams = {s1, s2}
    Senders = {x1, x2}
    Readers = {}
    Actors = {a1}
    MaxFlips = 0
INVARIANTS
    PublisherShown
CHECK_DEADLOCK FALSE
