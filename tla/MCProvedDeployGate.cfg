SPECIFICATION FairSpec
CONSTANTS
    Requests = {r1}
    Catalogs = {i1}
    Changes = {i2}
    Deployments = {d1, d2}
    dev = dev
    prod = prod
    c1 = c1
    c2 = c2
    None = None
    Deleted = Deleted
    Clusters <- Pair
    Development <- DevOnly
    Contents <- TwoContents
    Known <- OneUnknown
    MaxFaults = 1
    Patient = TRUE
INVARIANTS
    TypeOK
    MarkIsAboutContent
    ShippedWasProved
    OneWriter
PROPERTIES
    ClaimsEnd
