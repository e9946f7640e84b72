CONSTANTS
    Claims <- MCClaims
    Volumes = {"v1"}
    Home <- MCHome
    Preexisting = {}
    Handlers <- MCHandlers
    UseDeleteFilesTask = TRUE
    FaultKinds = {"api", "lost"}
    MaxFaults = 3
    SweepList <- MCSweepList
    Workers = {1}
    Capacity = 1
    CleanMountPath = TRUE
    SweepFaults = {}
SPECIFICATION FairSystem
CHECK_DEADLOCK FALSE
PROPERTY DeletionEnds
