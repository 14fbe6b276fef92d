SPECIFICATION SourceSpec
CONSTANTS
    c1 = c1
    c2 = c2
    c3 = c3
    p = p
    q = q
    t = t
    Callers <- MCCallers
    Processes <- MCProcesses
    Process <- MCProcess
    Signed <- MCSigned
    Checkpoints <- MCCheckpoints
    SyncFails = FALSE
    RefreshMs = 1
    MaxOfflineMs = 2
    MaxTime = 2
    MaxResolves = 3
    MaxFalls = 1
INVARIANTS
    PersistedFirst
    NoReplay
    ObservedDurable
PROPERTIES
    DurableForward
CHECK_DEADLOCK FALSE
