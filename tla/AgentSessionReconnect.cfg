SPECIFICATION SessionSpec
CONSTANTS
    BaseDelay = 1
    MaxDelay = 1
    MaxJitter = 0
    MaxAttempts = 3
    Commands = {c1}
    NoCommand = none
    Replies = 2
    MaxFaults = 2
    MaxRequests = 0
INVARIANTS
    SessionTypeOK
    HelloAfterAuth
    RepliesInOrder
PROPERTY
    ComesBack
CHECK_DEADLOCK FALSE
