SPECIFICATION RouteSpec
CONSTANTS
    Measurements <- MCMeasurements
    ComposeFiles <- MCComposeFiles
    ActionLogs <- MCActionLogs
    Asks <- MCAsks
    CommandLines <- MCCommandLines
    Documents <- MCDocuments
    Echoes <- MCEchoes
    Now = 5
    Skew = 1
    MaxEvidenceAge = 2
    KeyWidth = 2
INVARIANTS
    ProviderSound
    RouteBound
    HonestRoute
    ExitMet
    CredentialFree
CHECK_DEADLOCK FALSE
