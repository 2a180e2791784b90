SPECIFICATION FairSpec
CONSTANTS
    PacketSize = 32
    Chunks = {31, 32, 34, 65}
    Lengths <- Edges
    PIDs = {0, 256}
    StreamTypes = {"Private", "Other"}
    Named = {"Private"}
    Private = "Private"
INVARIANTS
    TypeOK
    ReadsInPacket
PROPERTIES
    Advances
    Returns
CHECK_DEADLOCK FALSE
