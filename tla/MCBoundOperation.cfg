SPECIFICATION BoundFairSpec
CONSTANTS
    k1 = k1
    p1 = p1
    p2 = p2
    Pins <- MCPins
    Policies <- MCPolicies
    MaxAge <- MCMaxAge
    Evidences <- MCEvidences
    Expiries <- MCExpiries
    HasRefresh = TRUE
    Deadline = 1
    MaxTime = 1
    MaxCalls = 2
INVARIANTS
    AbandonedClean
    ProvenanceTrue
    CancelledTruth
PROPERTIES
    BoundSettles
    BoundReleases
    CallSettles
CHECK_DEADLOCK FALSE
