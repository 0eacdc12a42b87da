SPECIFICATION MemorySpec
CONSTANTS
    Replies <- MCReplies
    LongReplies = {"no"}
    Sizes <- MCSizes
    Budget = 5
    MaxRounds = 2
    MaxCalls = 2
    MaxHistory = 5
    MidTurnClears = FALSE
CHECK_DEADLOCK FALSE
INVARIANTS
    PromptIsValid
    PromptIsRecentHistory
PROPERTY
    EarlierTurnsSurvive
