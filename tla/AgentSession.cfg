SPECIFICATION SessionSpec
CONSTANTS
    BaseDelay = 1
    MaxDelay = 1
    MaxJitter = 0
    MaxAttempts = 2
    Commands = {}
    NoCommand = none
    Replies = 1
    MaxFaults = 1
    MaxRequests = 2
INVARIANTS
    InlineAnswersMatch
    ServesAcceptedConnection
CHECK_DEADLOCK FALSE
