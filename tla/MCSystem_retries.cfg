CONSTANTS
    Claims <- MCClaims
    Volumes = {"v1"}
    Home <- MCHome
    Preexisting = {"v1"}
    Handlers <- MCHandlers
    UseDeleteFilesTask = FALSE
    FaultKinds = {"api", "fs", "lost", "crash"}
    MaxFaults = 2
    SweepList <- MCSweepList
    Workers = {1}
    Capacity = 1
    CleanMountPath = TRUE
    SweepFaults = {"partial", "remove"}
SPECIFICATION FairSystem
INVARIANTS
    SystemTypeOK
    DeletedIsGone
PROPERTIES
    DeletionMarks
    WantedClaimIsBound
    StorageIsReclaimed
