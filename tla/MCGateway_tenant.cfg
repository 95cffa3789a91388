SPECIFICATION Spec
CONSTANTS
    Calls = {c1, c2}
    Messages <- TwoTenants
    Tenants = {1, 2}
    TenantRows = {1, 2}
    DefaultTenant = 1
    Endpoints = {"upsert", "bulk"}
    k1 = k1
    IdemKeys = {k1}
    None = None
    Bad = Bad
    Envs = {"prod"}
    TTL = 1
    Second = 1
    MaxNow = 2
    Faults = FALSE
INVARIANT TenantFromToken
CHECK_DEADLOCK FALSE
