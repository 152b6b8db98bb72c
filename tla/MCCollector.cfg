SPECIFICATION CollectorSpec
CONSTANTS
    Catalogue = {"H-04", "H-07"}
    Tunable = {"H-04"}
    Heaps = {50, 95}
    KillBursts = {3}
    MaxKills = 3
    TicksPerReading = 2
    Stabilization = 2
    MaxHealthFaults = 1
    ReturnQueries = 1
    Excusable = {"H-05", "H-08"}
    FailureThreshold = 3
    ResetTime = 3
    ReadRetries = 1
    QueryInterval = 2
    JmxInterval = 6
    InfoInterval = 6
    BackoffInterval = 4
    CrossCheckAge = 2
    ConfirmPolls = 2
    MBeans = 2
    Conditions = {"2xx", "flapping"}
    Grants = {"granted", "filtered", "denied"}
    Loads = {"idle", "busy", "flood"}
    MaxSaveFaults = 1
    MaxChanges = 3
    Collectors = {"one", "two"}
    LastCluster = 2
    MaxLoopFaults = 2
INVARIANTS
    CollectorTypeOK
    RaceCountsOnce
PROPERTIES
    HealthAccounted
    ExcusedRestartCompletes
    BreakerServes
    OneCollector
    EveryClusterKept
CHECK_DEADLOCK FALSE
