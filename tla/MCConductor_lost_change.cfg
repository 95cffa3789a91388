SPECIFICATION Spec
CONSTANTS
    Tenants = {1, 2}
    TenantRows = {1, 2}
    NoTenant = 0
    Keys = {1, 2}
    h1 = h1
    h2 = h2
    Hashes = {h1, h2}
    NoHash = NoHash
    Requests = {r1, r2}
    Workers = {w1}
    NoJob = NoJob
    Shapes <- RetryShapes
    MaxInFlight = 1
    MaxClock = 0
    ListCap = 2
    ProductLimit = 3
    MaxPerClaim = 1
    FaultsHappen = FALSE
    ApiMayCrash = FALSE
    WorkerMayCrash = FALSE
    QueueFaults = FALSE
INVARIANT UnchangedWasScheduled
