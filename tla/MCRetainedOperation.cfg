SPECIFICATION Spec
CONSTANTS
    k1 = k1
    k2 = k2
    p1 = p1
    p2 = p2
    Pins <- MCPins
    Policies <- MCPolicies
    MaxAge <- MCMaxAge
    Evidences <- MCEvidences
    Expiries <- MCExpiries
    HasRefresh = TRUE
    Deadline = 2
    MaxTime = 2
    MaxCalls = 3
INVARIANTS
    SoleSocket
    ContentAttested
    PaidOnce
    PhaseTruth
    RetryClean
    ClosedLetsGo
PROPERTIES
    ImplementsChannel
CHECK_DEADLOCK FALSE
