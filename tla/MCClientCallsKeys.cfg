SPECIFICATION Spec
CONSTANTS
    m1 = m1
    m2 = m2
    k1 = k1
    k2 = k2
    Deployments <- MCDeployments
    Providers <- MCProviders
    Models <- MCModels
    Keys <- MCKeys
    MaxCalls = 1
INVARIANTS
    KeysDisposed
CHECK_DEADLOCK FALSE
