SPECIFICATION HandlerSpec
CONSTANTS
    PipeCap = 2
    ChanCap = 1
    MaxLines = 5
    ExitCodes = {0, 2}
    Overlong = {4}
INVARIANTS
    HandlerTypeOK
    StreamInOrder
    ExitCodeIsFaithful
    DoneIsComplete
    NoWaitCycle
    HandlerOutlivesStream
    ResultCoversOutput
PROPERTIES
    FollowsReplyProtocol
    StreamEnds
    CancelEndsStream
    ClearCommandAnswered
CHECK_DEADLOCK FALSE
