\* Three streams, a file decode, a Kokoro synthesis and a clone stream; which of
\* them come is in the deployments.
CONSTANTS
    s1 = s1
    s2 = s2
    s3 = s3
    d1 = d1
    k1 = k1
    c1 = c1
    Streams = {s1, s2, s3}
    Decodes = {d1}
    Joined = {k1}
    Clones = {c1}
    Uncapped = Uncapped
    GateConcurrency = 2
    QueueDepth = 1
    Deployments <- MCDeployments
SPECIFICATION FairSpec
INVARIANTS
    NoStrandedSlot
    SerializedInferences
    ExclusiveBackends
PROPERTIES
    UtteranceIsServed
