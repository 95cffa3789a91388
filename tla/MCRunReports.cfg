\* Readers, uploads and workers over either store.
SPECIFICATION Spec
CONSTANTS
    Tenants = {1, 2}
    TenantRows = {1}
    NoTenant = NoTenant
    Keys = {1, 2, 3}
    h1 = h1
    h2 = h2
    Hashes = {h1, h2}
    NoHash = NoHash
    Requests = {r1, r2}
    Readers = {v1, v2}
    MaxClock = 1
    ListCap = 2
    Backends = {"memory", "mysql"}
    Uploads <- MixedUploads
    Limits <- EdgeLimits
    ListDefault = 1
    ListMax = 1
    DetailDefault = 1
    DetailMax = 2
    RowsDefault = 1
    MaxPerClaim = 1
    NoRead = NoRead
CONSTRAINT OneRunInDetail
ACTION_CONSTRAINT ListsAreReads
SYMMETRY Symmetry
CHECK_DEADLOCK FALSE
INVARIANTS TypeOK DetailAgrees
PROPERTIES ListsNewestOwn ReadsForward
