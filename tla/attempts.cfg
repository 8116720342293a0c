SPECIFICATION FairSpec
INVARIANTS
    CycleHistory
    RetryBudget
    DeadLetterIsQuiescent
PROPERTIES
    EventuallyDecided
    ImplementsLifecycle
CONSTANTS
    Workers = {w1, w2}
    Keys = {k1, k2}
    Requests = {r1}
    MaxAttempts = 3
    MaxCrashes = 2
    SuspendPastLease = FALSE
    NoWorker = NoWorker
    NoRequest = NoRequest
CHECK_DEADLOCK FALSE
