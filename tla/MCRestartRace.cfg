SPECIFICATION Spec
CONSTANTS
    Requests = {r1, r2}
    SeqIds = {s1, s2}
    MaxQueries = 0
    MaxFaults = 0
    Automated = TRUE
    LostReplies = FALSE
    StoreAnswers <- StoreOff
    HealthReports <- OneHealth
    Pressed <- Core
VIEW WithoutFreshness
SYMMETRY Symmetry
INVARIANTS
    OneActivePerCluster
    NoStepSkipped
