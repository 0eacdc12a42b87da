SPECIFICATION Spec
CONSTANTS
    MaxSentences = 2
    MaxChunks = 1
    MaxFlushes = 2
    MaxDisturb = 1
    Deployments <- MCDeployments
CHECK_DEADLOCK FALSE
INVARIANTS
    SentInItsResponse
    OneRuntimeUser
PROPERTIES
    SpeechInOrder
    AbortSilences
    FlushIsAnswered
    LeaveReleases
