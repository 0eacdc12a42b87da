\* Two coroutines and a thread on one slot, an executor with and without a thread for each coroutine.
CONSTANTS
    Coroutines = {c1, c2}
    Threads = {t1}
    Slots = 1
    Queueing = TRUE
    PoolSizes = {1, 2}
    MaxQueued = 1
SPECIFICATION FairSpec
INVARIANTS
    PermitsConserved
    AnswerToCome
PROPERTIES
    ExitWakesWaiters
CHECK_DEADLOCK FALSE
