SPECIFICATION Spec
CONSTANTS
    Requests = {r1, r2}
    SeqIds = {s1}
    MaxQueries = 0
    MaxFaults = 0
    Automated = TRUE
    LostReplies = FALSE
    StoreAnswers <- StoreOff
    HealthReports <- AnyHealth
    Pressed <- AllButtons
VIEW WithoutHistory
SYMMETRY Symmetry
INVARIANTS
    NoSilentOutage
