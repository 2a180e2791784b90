SPECIFICATION SpecPolled
CONSTANTS
    Streams = {s1, s2}
    Senders = {x1, x2}
    Readers = {}
    Actors = {a1, a2}
    MaxFlips = 1
SYMMETRY Symmetry
INVARIANTS
    StopHandshake
    NoPhantomPublisher
PROPERTIES
    PublisherKept
CHECK_DEADLOCK FALSE
