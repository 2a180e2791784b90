SPECIFICATION Spec
CONSTANTS
    Senders <- Kinds
    Sends <- Sent
    Contents <- Names
    MaxMsgs = 4
    Samples <- Statistics
    Latency = 120
    MaxSessions = 2
INVARIANTS
    ShownIsDetected
    SendersAreTold
PROPERTIES
    HealthFollowsLink
CHECK_DEADLOCK FALSE
