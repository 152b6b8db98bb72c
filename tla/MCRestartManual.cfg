SPECIFICATION Spec
CONSTANTS
    Requests = {r1}
    SeqIds = {s1}
    MaxQueries = 1
    MaxFaults = 2
    Automated = FALSE
    LostReplies = TRUE
    StoreAnswers <- StoreOn
    HealthReports <- AnyHealth
    Pressed <- AllButtons
PROPERTIES
    BouncedOutOfRotation
