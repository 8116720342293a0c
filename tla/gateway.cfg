SPECIFICATION MCSpec
SYMMETRY Symmetry
INVARIANTS
    OnlyOutagesAreRetried
    FallbackIsTried
    
    OneAlertPerRun
    CassetteIsOneCall
CONSTANTS
    Tasks = {t1, t2}
    Requests <- SomeRequests
    Runs = {r1, r2}
    Vectors = {1, 2, 3}
    r1 = r1
    r2 = r2
    n1 = n1
    Costs = {1}
    Hints = {3}
    Threshold = 2
    MaxRuns = 1
    MaxDistance = 1
    MaxEntries = 1
    HasFallback = TRUE
    TotalTimeout = 5
    RequestTimeout = 2
    MaxAttempts = 2
    Backoff = 1
    MaxDelay = 2
    MaxCalls = 3
    None = None
    Calls = {c1, c2}
    Paths = {p1, p2}
    p1 = p1
    Digests = {d1, d2}
    d1 = d1
    Fixtures <- SomeFixtures
    MaxOutcomes = 6
    MaxRequests = 2
    NoFile = NoFile
CHECK_DEADLOCK FALSE
