SPECIFICATION SessionSpec
CONSTANTS
    BaseDelay = 1
    MaxDelay = 1
    MaxJitter = 0
    MaxAttempts = 2
    Commands = {c1}
    NoCommand = none
    Replies = 1
    MaxFaults = 1
    MaxRequests = 0
PROPERTY
    CancelledAgentExits
CHECK_DEADLOCK FALSE
