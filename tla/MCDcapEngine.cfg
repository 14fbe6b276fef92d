SPECIFICATION DcapFairSpec
CONSTANTS
    c1 = c1
    c2 = c2
    q1 = q1
    q2 = q2
    f1 = f1
    f2 = f2
    r1 = r1
    r2 = r2
    Callers <- MCCallers
    Quotes <- MCQuotes
    Platforms <- MCPlatforms
    Platform <- MCPlatform
    Genuine <- MCGenuine
    Requests <- MCRequests
    Lifetimes = {1}
    MaxTime = 1
    Pinned = TRUE
INVARIANTS
    EarnedVerdict
    NothingLeftBehind
    CollateralFits
PROPERTIES
    PrepareSettles
CHECK_DEADLOCK FALSE
