SPECIFICATION WatchedSpec
CONSTANTS
    Requests = {r1}
    SeqIds = {s1, s2}
    MaxQueries = 0
    MaxFaults = 2
    Automated = TRUE
    LostReplies = FALSE
    StoreAnswers <- StoreOff
    HealthReports <- OneHealth
    Pressed <- AllButtons
VIEW WithoutHistory
INVARIANTS
    TypeOK
    NoSilentOutage
    TrafficHeld
PROPERTIES
    ImplementsProtocol
    LaunchGated
    SuccessNoticed
    AbortGetsOut
