\* Three connections and two HTTP sessions.
CONSTANTS
    V2V = {v1, v2, v3}
    Https = {h1, h2}
    EvictOnFull = TRUE
    MaxPolls = 2
    Nobody = Nobody
    Deployments <- MCDeployments
SPECIFICATION FairSpec
INVARIANTS
    ActiveCountsSessions
    SlotsComeBack
    EvictionSeesSessions
PROPERTIES
    NewcomerIsAnswered
CHECK_DEADLOCK FALSE
