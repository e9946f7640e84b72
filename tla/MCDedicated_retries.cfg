CONSTANTS
    ClaimCount = 2
    HandlerCount = 3
    MaxSize = 2
    Claims <- MCClaims
    Handlers <- MCHandlers
    Uuids <- MCUuids
    Sizes <- MCSizes
    NoVolume = NoVolume
    CreateQuota = TRUE
    TenantLimit = 3
    FaultKinds = {"api", "lost", "crash"}
    MaxFaults = 2
    EraseOfMissing = {"ok", "failed"}
SPECIFICATION Spec
CHECK_DEADLOCK FALSE
INVARIANTS
    TypeOK
    BoundIsBacked
    DeletedLeavesNothing
PROPERTIES
    OnlyDeletedClaimsLoseData
    LedgerKept
