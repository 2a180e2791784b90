SPECIFICATION Spec
CONSTANTS
    Senders <- Kinds
    Sends <- Sent
    Contents <- Names
    MaxMsgs = 4
    Samples <- Statistics
    Latency = 120
    MaxSessions = 1
INVARIANT TailsAreTold
CHECK_DEADLOCK FALSE
