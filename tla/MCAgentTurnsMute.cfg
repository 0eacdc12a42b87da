SPECIFICATION Spec
CONSTANTS
    MaxTurns = 2
    MaxSegments = 2
    MaxQueue = 1
    MaxDisturb = 1
    Deployments <- EagerUser
CHECK_DEADLOCK FALSE
INVARIANT
    RepliesAreAudible
