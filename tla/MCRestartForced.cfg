SPECIFICATION Spec
CONSTANTS
    Requests = {r1}
    SeqIds = {s1}
    MaxQueries = 1
    MaxFaults = 0
    Automated = FALSE
    LostReplies = FALSE
    StoreAnswers <- StoreOff
    HealthReports <- AnyHealth
    Pressed <- AllButtons
PROPERTIES
    ForcedDrainProceeds
