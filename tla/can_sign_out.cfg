SPECIFICATION Spec
CONSTANTS
    Users = {"admin", "ann"}
    Admin = "admin"
    Passwords = {"admin", "pass", "long"}
    Default = "admin"
    TooLong = {"long"}
    Provisioned <- ByHand
    Clients = {c1, c2}
    MaxTokens = 2
    MaxCrashes = 1
INVARIANT CanSignOut
CHECK_DEADLOCK FALSE
