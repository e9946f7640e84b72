CONSTANTS
    Tests = {"t1", "t2"}
    Suites <- MCSuites
    FaultKinds = {"api", "slow", "assert"}
    MaxFaults = 1
SPECIFICATION Spec
CHECK_DEADLOCK FALSE
INVARIANTS
    TypeOK
    CredentialsOutliveVolume
    MountedHasVolume
    NothingLeaks
PROPERTIES
    GrantsAreKept
    TestsEnd
