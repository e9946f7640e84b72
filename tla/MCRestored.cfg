CONSTANTS
    Snaps = {"s1", "s2", "s3"}
    SourceHandle <- MCSourceHandle
    GivenId <- MCGivenId
    TenantUuid <- MCTenantUuid
    UuidOf <- MCUuidOf
    Restores = {"r1", "r2"}
    From <- MCFrom
    HandlersOf <- MCHandlersOf
    MaxContent = 1
    DeleteOfMissing = {TRUE, FALSE}
    ShorterIdIsIt = {TRUE, FALSE}
    Retained = {"s2", "s3"}
    FaultKinds = {"api", "lost", "timeout", "crash"}
    MaxFaults = 1
    Targets = {"p1", "p2"}
    KeyOf <- MCKeyOf
    WithUser = {}
    WithOptions = {}
    AccessKeyMounts = TRUE
    Contexts = {"x1", "x2", "x3", "x4"}
    CallsOf <- MCCallsOf
    NodeFaults = {"api", "busy", "timeout", "crash", "client"}
    ClaimOf <- MCClaimOf
    Subdirectories = {"sub"}
SPECIFICATION SystemSpec
CHECK_DEADLOCK FALSE
INVARIANTS
    SystemTypeOK
    AnswersAreTrue
    MountUsesOwnKey
    UnpublishedIsUnmounted
    RestoredShowsSource
PROPERTIES
    SnapshotsStay
    SnapshotsSettle
    TargetsSettle
