\* One monitored quantity, three requests, one power loss, one fault.
CONSTANTS
    Monitors = {"P"}
    OverLimitCount = 1
    Times = {20, 21}
    BadTime = 19
    Passwords = {"zero", "default", "other"}
    ZeroPassword = "zero"
    NoValue = NoValue
    None = NoValue
    Default <- DefaultSettings
    Requests <- HostRequests
    MaxRequests = 3
    MaxBoots = 1
    MaxFaults = 1
SPECIFICATION FairSpec
INVARIANTS UnsavedHasCause
PROPERTIES RestartKeepsSaved  ChangesReachFlash
CHECK_DEADLOCK FALSE
