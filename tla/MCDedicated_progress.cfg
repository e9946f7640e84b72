CONSTANTS
    ClaimCount = 2
    HandlerCount = 2
    MaxSize = 2
    Claims <- MCClaims
    Handlers <- MCHandlers
    Uuids <- MCUuids
    Sizes <- MCSizes
    NoVolume = NoVolume
    CreateQuota = TRUE
    TenantLimit = 4
    FaultKinds = {"api", "lost", "timeout", "crash"}
    MaxFaults = 1
    EraseOfMissing = {"ok"}
SPECIFICATION FairSpec
CHECK_DEADLOCK FALSE
PROPERTIES
    OnlyForgottenCallsShrinkQuotas
    WantedClaimIsBound
    RequestsEnd
