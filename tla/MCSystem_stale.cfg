CONSTANTS
    Claims <- MCClaims
    Volumes = {"v1"}
    Home <- MCHome
    Preexisting = {"v1"}
    Handlers <- MCHandlers
    UseDeleteFilesTask = FALSE
    FaultKinds = {"fs", "timeout", "unmount"}
    MaxFaults = 2
    SweepList <- MCSweepList
    Workers = {1}
    Capacity = 1
    CleanMountPath = TRUE
    SweepFaults = {}
SPECIFICATION System
INVARIANTS
    BoundHasDirectory
    BoundIsReady
PROPERTY StorageKept
