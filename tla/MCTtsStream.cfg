SPECIFICATION StreamSpec
CONSTANTS
    NJobs = 3
    PrefetchMax = 1
    Workers = 2
    MaxChunks = 1
INVARIANTS
    LeasesOutliveWorkers
    QuarantineIsTracked
PROPERTIES
    LeasesReturn
    PullsAreAnswered
CHECK_DEADLOCK FALSE
