\* Both managers over the one process environment: a request and a session race
\* reloads that succeed, time out, roll back or fail.
CONSTANTS
    Kinds = {"asr", "tts"}
    LazyKinds = {}
    Requests = {r1}
    Sessions = {s1}
    SessionKind = "asr"
    Refs = {boot, other}
    Boot = boot
    Conflicting = {}
    InitialRef = boot
    NoRef = NoRef
    MaxBuilt = 4
SPECIFICATION FairSpec
INVARIANTS
    HttpHoldsLiveBackend
    ReadyServesCache
    NoDrift
PROPERTIES
    RollbackRestores
    ReloadTerminates
CHECK_DEADLOCK FALSE
