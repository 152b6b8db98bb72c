SPECIFICATION ConsoleSpec
CONSTANTS
    Machines = {"m1"}
    Twins = {"m1"}
    Callers = {"x", "y"}
    Typed <- MCTyped
    MaxScans = 1
    MaxNodeFaults = 1
    Environments = {"A", "B"}
    GroupNames = {"g"}
    Values = {"fair", "priority", "wrong"}
    Administrators = {"x", "y"}
    MaxSerial = 6
    MaxRevisions = 2
    Clusters = {"c", "d"}
    Aliases = {"n"}
    Operators = {"x", "y"}
    MaxBackends = 2
    MaxEdits = 1
    MaxGatewayFaults = 1
    Servers = {"p", "q"}
    Files <- MCFiles
    MaxFleetChanges = 2
    Tabs = {"a", "b"}
    IdleTimeout = 1
    AbsoluteTimeout = 2
    LockoutTime = 1
    FailedAttempts = 2
    MaxClock = 3
    MaxApiRestarts = 1
    Clerks = {"x", "y"}
    Grades = {"operator", "admin"}
    MaxCalls = 2
    MaxStoreFaults = 2
    Coordinators = {"c"}
    Workers = {"v", "w"}
    Texts = {"a"}
    MaxScanEvents = 2
    Names = {"q", "r"}
    Versions = {"s", "t"}
    Editors = {"x", "y"}
    MaxInSet = 2
    MaxRuns = 2
    MaxWrites = 2
    Members = {"x", "y"}
    Statuses = {"planned", "done"}
    MaxItems = 2
    MaxMoves = 3
    GroupPaths <- MCGroupPaths
    MaxWorkloadEvents = 2
    Every = 3
    Pressers = {"x", "y"}
    MaxMinute = 9
    MaxPresses = 2
INVARIANTS
    ConsoleTypeOK
    ListHolds
    GroupTreeKept
    OutMeansOut
    SessionHolds
    EveryActionAccounted
    ScanTellsTruth
    UnmarkedIsOneStatement
    BoardRemembers
    WorkloadTold
    SlotsKept
PROPERTIES
    GapExplained
CHECK_DEADLOCK FALSE
