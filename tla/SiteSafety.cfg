SPECIFICATION Spec
CONSTANTS
    c1 = c1
    c2 = c2
    r1 = r1
    r2 = r2
    r3 = r3
    r4 = r4
    k1 = k1
    Clients = {c1, c2}
    Requests = {r1, r2, r3, r4}
    Keys = {k1}
    NoKey = NoKey
    None = None
    NoTenant = NoTenant
    ClientOf <- MCClientOf
    KeyOf <- MCKeyOf
    Limits <- MCLimits
    GlobalConcurrency = 1
    GlobalMaxPending = 2
    MaxActiveDedupKeys = 1
    LossyHooks = FALSE
    MaxReloads = 1
CHECK_DEADLOCK FALSE
INVARIANTS
    Accounting
    OneExecutionPerKey
    JoinedRowsNameTheOwner
PROPERTIES
    ImplementsSemaphore
