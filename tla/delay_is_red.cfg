SPECIFICATION Spec
CONSTANTS
    Senders <- Kinds
    Sends <- Sent
    Contents <- Names
    MaxMsgs = 4
    Samples <- Statistics
    Latency = 2000
    MaxSessions = 1
INVARIANT DelayIsRed
CHECK_DEADLOCK FALSE
