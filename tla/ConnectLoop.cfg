SPECIFICATION LoopSpec
CONSTANTS
    BaseDelay = 2
    MaxDelay = 10
    MaxJitter = 2
    MaxAttempts = 5
INVARIANTS
    LoopTypeOK
    DelayFollowsFailures
    ExitsOnlyWhenCancelled
    OneLateConnection
PROPERTY
    CancelledLoopExits
CHECK_DEADLOCK FALSE
