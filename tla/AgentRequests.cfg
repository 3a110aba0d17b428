SPECIFICATION FairSpec
CONSTANTS
    c1 = c1
    c2 = c2
    r1 = r1
    r2 = r2
    r3 = r3
    t1 = t1
    t2 = t2
    t3 = t3
    Clients = {c1, c2}
    Requests = {r1, r2, r3}
    Tokens = {t1, t2, t3}
    NoTenant = NoTenant
    ClientOf <- MCClientOf
    TokenOf <- MCTokenOf
    OwnerOf <- MCOwnerOf
    Limits <- MCLimits
    GlobalConcurrency = 2
    GlobalMaxPending = 2
    MaxActiveDedupKeys = 1
    ProviderLimit = 1
    LossyHooks = TRUE
    MaxReloads = 1
CHECK_DEADLOCK FALSE
INVARIANTS
    ExecutionsHoldSlots
    ClientShareOfGlobalQueue
    FirstDecides
PROPERTIES
    ImplementsSemaphore
    SlotsComeBack
