SPECIFICATION FairSpec
INVARIANTS
    ReviewIsSoleSignoff
    RecordsAgree
    StaleReadSettles
PROPERTIES
    SignedDecisionSettled
    ImplementsSignedDecision
CONSTANTS
    Exceptions = {x1, x2}
    Keys = {k1, k2, k3}
    Actions = {"APPROVE", "ESCALATE"}
    Workers = {w1, w2}
    MaxCrashes = 1
    None = None
CHECK_DEADLOCK FALSE
