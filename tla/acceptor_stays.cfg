SPECIFICATION FairSpec
CONSTANTS
    Streams = {s1}
    Senders = {}
    Readers = {}
    Actors = {a1}
    MaxFlips = 2
PROPERTIES
    ActiveAcceptsReaders
CHECK_DEADLOCK FALSE
