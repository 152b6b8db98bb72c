SPECIFICATION ReturnSpec
CONSTANTS
    ReturnQueries = 1
    Excusable = {"H-05", "H-08"}
PROPERTIES
    HealthIsSeenAgain
