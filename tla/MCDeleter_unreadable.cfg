CONSTANTS
    ProcessCount = 1
    WorkerCount = 1
    Capacity = 1
    CleanMountPath = TRUE
    Volumes <- MCVolumes
    SweepList <- MCTwoVolumes
    Existing = {"v2"}
    Markers = {"own1", "own2"}
    Collectable <- MCCollectable
    Processes <- MCProcesses
    Workers <- MCWorkers
    SweepFaults = {}
    MaxFaults = 0
SPECIFICATION FairSpec
PROPERTY ReadableVolumesAreSwept
