\* Two users who may get the same slug, two slugs, two tenants; any number of
\* crashes.
SPECIFICATION Spec
CONSTANTS
    u1 = u1
    u2 = u2
    t1 = t1
    t2 = t2
    s1 = s1
    s2 = s2
    Users = {u1, u2}
    Tenants = {t1, t2}
    Slugs = {s1, s2}
    TenantsOf <- MCTenantsOf
    SlugsOf <- MCSlugsOf
    NoTenant = NoTenant
    None = None
    MaxEvents = 2
INVARIANTS JournalsSafe StaleAborted
PROPERTIES EndedStays
