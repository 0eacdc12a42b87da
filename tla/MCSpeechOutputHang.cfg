SPECIFICATION Spec
CONSTANTS
    MaxSentences = 2
    MaxChunks = 1
    MaxFlushes = 2
    MaxDisturb = 1
    Deployments <- FailingSession
CHECK_DEADLOCK FALSE
PROPERTIES
    TeardownReleases
