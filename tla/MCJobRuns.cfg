SPECIFICATION Spec
CONSTANTS
    Jobs = {j1, j2}
    Benchmarks = {b1, b2}
    Schedules = {s1}
    Clusters = {k1}
    MaxQueries = 1
    FailureLimit = 2
    MaxFaults = 2
    None = None
SYMMETRY Symmetry
INVARIANTS
    TypeOK
    OneAtATime
    NoOrphans
    PausedByFailures
PROPERTIES
    VerdictsStand
