SPECIFICATION Spec
CONSTANTS
    MaxTurns = 2
    MaxSegments = 2
    MaxQueue = 1
    MaxDisturb = 1
    Deployments <- MCDeployments
CHECK_DEADLOCK FALSE
INVARIANTS
    RepliesDontMix
    BargedInIsSilent
PROPERTIES
    ThinkingEnds
    BargedInEnds
