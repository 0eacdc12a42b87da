SPECIFICATION Spec
CONSTANTS
    MaxUtterances = 3
    MaxGen = 4
    MaxDisturb = 1
    Deployments <- MCDeployments
CHECK_DEADLOCK FALSE
INVARIANTS
    FinalsInOrder
    QueuedSpeechIsTakenUp
    CancelSparesNewTurn
PROPERTIES
    SpeechIsAnswered
    NotTooEarly
