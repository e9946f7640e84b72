CONSTANTS
    ProcessCount = 2
    WorkerCount = 1
    Capacity = 1
    CleanMountPath = TRUE
    Volumes <- MCVolumes
    SweepList <- MCTwoVolumes
    Existing = {"v1", "v2"}
    Markers = {"own1", "other"}
    Collectable = {"own1"}
    Processes <- MCProcesses
    Workers <- MCWorkers
    SweepFaults = {"partial", "remove", "restart", "unmount"}
    MaxFaults = 1
SPECIFICATION FairSpec
PROPERTIES
    OnlyOwnMarkersGo
    MarkersGo
