SPECIFICATION Spec
INVARIANTS
    ReviewRecordedOnce
CONSTANTS
    Extractions = {x1}
    MaxStops = 1
    MaxLosses = 1
    MaxErpChanges = 0
    Executors = {e1, e2}
    ErpVersions = {v1, v2}
    Clean <- CleanPairs
    x1 = x1
    v1 = v1
    None = None
CHECK_DEADLOCK FALSE
