SPECIFICATION Spec
CONSTANTS
    Streams = {s1}
    Senders = {x1, x2}
    Readers = {r1, r2}
    Actors = {a1, a2}
    MaxFlips = 2
SYMMETRY Symmetry
INVARIANTS
    TypeOK
    ReaderHasOneHome
    QuietHoldsNothing
    OwnPumpFeedsReaders
    ReaderShown
PROPERTIES
    QuietFanoutsAreSealed
    ImplementsContract
CHECK_DEADLOCK FALSE
