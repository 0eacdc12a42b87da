\* Two permits, a queue of two: the queue is full with one task to spare.
CONSTANTS
    Tasks = {t1, t2, t3, t4, t5}
    Concurrency = 2
    MaxWaiting = 2
    Unbounded = Unbounded
SPECIFICATION FairSpec
PROPERTIES
    ImplementsSemaphore
    NoStarvation
