SPECIFICATION ExchangeSpec
CONSTANTS
    Base = 3
    RequestIDSize = 1
    IDSize = 2
    Names <- ShortAndLong
    Payloads <- PayloadsTried
    Extras <- Followers
INVARIANTS
    ExchangeTypeOK
    FrameSurvives
    CutIsRefused
    NothingInvented
    AnswerReachesAsker
CHECK_DEADLOCK FALSE
