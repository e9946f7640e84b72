CONSTANTS
    Lower <- MCLower
    IntBits = 4
    TenantUuid <- MCTenantUuid
    UseK8SNamespaceAsQuobyteTenant = TRUE
    DefaultAccessModes = 1
    DefaultSharedVolumeAccessModes = 2
    DefaultPVCAccessModeInsideSharedVolume = 3
    CacheSize = 2
    Options <- MCOptions
    Requests <- MCRequests
    WhoAmI <- MCWhoAmI
    Handlers = {1, 2}
    FaultKinds = {"api", "fs", "crash"}
    MaxFaults = 2
SPECIFICATION Spec
CHECK_DEADLOCK FALSE
INVARIANTS
    TypeOK
    FieldsAreGiven
    ActsAsItself
    DedicatedVolumesAreApart
PROPERTY ServesAgain
