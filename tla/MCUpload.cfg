SPECIFICATION Spec
CONSTANTS
    Tenants = {1}
    TenantRows = {1}
    NoTenant = 0
    Keys = {1}
    h1 = h1
    h2 = h2
    Hashes = {h1, h2}
    NoHash = NoHash
    Requests = {r1, r2, r3}
    Shapes <- UploadShapes
    MaxInFlight = 2
    MaxClock = 0
    ListCap = 2
    FaultsHappen = TRUE
    ApiMayCrash = TRUE
    IdemKeys = {k1}
    MaxOpen = 2
    None = None
SYMMETRY Symmetry
CONSTRAINT Bounded
INVARIANTS
    TypeOK
    AnswerAccounts
    RefusalSchedulesNothing
    ScheduledOnce
CHECK_DEADLOCK FALSE
