SPECIFICATION Spec
CONSTANTS
    Tenants = {1, 2}
    TenantRows = {1, 2}
    NoTenant = 0
    Keys = {1}
    h1 = h1
    h2 = h2
    Hashes = {h1, h2}
    NoHash = NoHash
    Requests = {r1, r2, r3}
    Workers = {w1, w2}
    NoJob = NoJob
    Shapes <- QueueShapes
    MaxInFlight = 2
    MaxClock = 1
    ListCap = 2
    ProductLimit = 3
    MaxPerClaim = 2
    FaultsHappen = FALSE
    ApiMayCrash = FALSE
    WorkerMayCrash = TRUE
    QueueFaults = TRUE
CONSTRAINT OverlapBound
SYMMETRY Symmetry
INVARIANTS
    SingleOwner
    AtMostOnce
    OldestFirst
PROPERTIES
    QueueRefined
