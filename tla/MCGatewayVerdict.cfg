SPECIFICATION VerdictSpec
CONSTANTS
    CanonicalOrigin <- MCCanonicalOrigin
    Mentions <- MCMentions
    Manifests <- MCManifests
    Site <- MCSite
    Machines <- MCMachines
    Callers <- MCCallers
    Published <- MCPublished
    Registry <- MCRegistry
    Origin <- MCOrigin
    Claims <- MCClaims
    MaxTuples = 2
    MaxLifetime = 5
    MaxAge = 1
    MaxLoadAge = 2
    MaxNow = 3
INVARIANTS
    SoundVerdict
    HonestAccepted
    InstanceTruth
    FloorHolds
    ApprovalInForce
CHECK_DEADLOCK FALSE
