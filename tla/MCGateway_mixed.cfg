SPECIFICATION Spec
CONSTANTS
    Calls = {c1, c2, c3}
    Messages <- MixedMessages
    Tenants = {1, 2}
    TenantRows = {1, 2}
    DefaultTenant = 1
    Endpoints = {"upsert", "bulk"}
    k1 = k1
    IdemKeys = {k1}
    None = None
    Bad = Bad
    Envs = {"dev", "prod"}
    TTL = 1
    Second = 3
    MaxNow = 2
    Faults = TRUE
SYMMETRY Symmetry
INVARIANTS
    TypeOK
    ReplayInScope
    
    AnswersAuthenticated
CHECK_DEADLOCK FALSE
