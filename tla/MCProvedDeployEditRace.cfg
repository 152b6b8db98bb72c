SPECIFICATION Spec
CONSTANTS
    Requests = {r1}
    Catalogs = {}
    Changes = {i1}
    Deployments = {d1, d2}
    dev = dev
    prod = prod
    c1 = c1
    c2 = c2
    None = None
    Deleted = Deleted
    Clusters <- Pair
    Development <- DevOnly
    Contents <- TwoContents
    Known <- OneUnknown
    MaxFaults = 0
    Patient = FALSE
INVARIANTS
    ShippedWasProved
