SPECIFICATION StoreSpec
CONSTANTS
    c1 = c1
    c2 = c2
    c3 = c3
    Callers <- MCCallers
    Checkpoints <- MCCheckpoints
    SyncFails = TRUE
INVARIANTS
    ObservedDurable
CHECK_DEADLOCK FALSE
