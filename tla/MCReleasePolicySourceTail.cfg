SPECIFICATION SourceFairSpec
CONSTANTS
    c1 = c1
    c2 = c2
    c3 = c3
    p = p
    q = q
    t = t
    Callers <- MCPair
    Processes <- MCOne
    Process <- MCPairInOne
    Signed <- MCSigned
    Checkpoints <- MCCheckpoints
    SyncFails = TRUE
    RefreshMs = 1
    MaxOfflineMs = 2
    MaxTime = 1
    MaxResolves = 3
    MaxFalls = 1
PROPERTIES
    RevocationsKept
    ResolveSettles
CHECK_DEADLOCK FALSE
