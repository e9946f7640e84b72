CONSTANTS
    ClaimCount = 2
    HandlerCount = 3
    MaxSize = 1
    Claims <- MCClaims
    Handlers <- MCHandlers
    Uuids <- MCUuids
    Sizes <- MCSizes
    NoVolume = NoVolume
    CreateQuota = FALSE
    TenantLimit = 3
    FaultKinds = {"timeout", "crash", "lost"}
    MaxFaults = 2
    EraseOfMissing = {"ok", "failed"}
SPECIFICATION Spec
CHECK_DEADLOCK FALSE
INVARIANT CreateIsIdempotent
PROPERTY OnlyDeletedClaimsLoseData
