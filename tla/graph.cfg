SPECIFICATION FairSpec
INVARIANTS
    EvidenceBehindCheckpoint
    ReplaysAgree
    
    OneDisposition
    SignedDecisionResumable
    ProgressIsTrue
PROPERTIES
    CheckpointAdvances
    RunsFinish
CONSTANTS
    Extractions = {x1}
    MaxStops = 2
    MaxLosses = 1
    MaxErpChanges = 1
    Executors = {e1, e2}
    ErpVersions = {v1, v2}
    Clean <- CleanPairs
    x1 = x1
    v1 = v1
    None = None
CHECK_DEADLOCK FALSE
