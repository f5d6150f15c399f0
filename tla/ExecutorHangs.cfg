SPECIFICATION EndingSpec
CONSTANTS
    PipeCap = 2
    ChanCap = 2
    MaxLines = 4
    ExitCodes = {0, 2}
    Overlong = {1}
PROPERTY
    CommandAnswered
CHECK_DEADLOCK FALSE
