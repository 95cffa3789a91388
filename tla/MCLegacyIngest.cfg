\* The endpoints of internal/ingest, fed with JSON documents.
SPECIFICATION Spec
CONSTANTS
    Requests = {r1, r2, r3}
    r1 = r1
    r2 = r2
    r3 = r3
    Plans <- LegacyPlans
    NoCall = NoCall
    EnabledChannels = {"google"}
    NoIdemKey = NoIdemKey
    NoHash = NoHash
    NoProduct = NoProduct
    NoSale = NoSale
    NoState = NoState
    Fold <- FoldedNames
    AnyValue <- Floats
    TTL = 1
    MaxClock = 2
SYMMETRY Symmetry
CHECK_DEADLOCK FALSE
INVARIANTS TypeOK ValidationExact DeltaExact StoredWasEnqueued ReplayIsFresh
PROPERTY ExecutedOncePerKey
