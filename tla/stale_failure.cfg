SPECIFICATION Spec
PROPERTIES
    FailureAdvancesAttempt
CONSTANTS
    Workers = {w1, w2}
    Keys = {k1, k2}
    Requests = {r1}
    MaxAttempts = 2
    MaxCrashes = 1
    SuspendPastLease = TRUE
    NoWorker = NoWorker
    NoRequest = NoRequest
CHECK_DEADLOCK FALSE
