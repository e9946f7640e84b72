CONSTANTS
    ClaimCount = 2
    HandlerCount = 2
    MaxSize = 1
    Claims <- MCClaims
    Handlers <- MCHandlers
    Uuids <- MCUuids
    Sizes <- MCSizes
    NoVolume = NoVolume
    CreateQuota = TRUE
    TenantLimit = 1
    FaultKinds = {"timeout"}
    MaxFaults = 1
    EraseOfMissing = {"ok"}
SPECIFICATION Spec
CHECK_DEADLOCK FALSE
PROPERTY OnlyDeletedClaimsLoseData
