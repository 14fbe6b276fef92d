SPECIFICATION SourceSpec
CONSTANTS
    c1 = c1
    c2 = c2
    c3 = c3
    p = p
    q = q
    t = t
    Callers <- MCPair
    Processes <- MCOne
    Process <- MCPairInOne
    Signed <- MCSigned
    Checkpoints <- MCCheckpoints
    SyncFails = FALSE
    RefreshMs = 1
    MaxOfflineMs = 2
    MaxTime = 2
    MaxResolves = 2
    MaxFalls = 0
INVARIANTS
    OversizeRefused
CHECK_DEADLOCK FALSE
