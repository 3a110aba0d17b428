SPECIFICATION RFairSpec
CONSTANTS
    c1 = c1
    c2 = c2
    Global = Global
    r1 = r1
    r2 = r2
    r3 = r3
    r4 = r4
    k1 = k1
    Clients = {c1}
    Requests = {r1, r3}
    Keys = {k1}
    NoKey = NoKey
    None = None
    NoTenant = NoTenant
    ClientOf <- MCOneClient
    KeyOf <- MCKeyOf
    Limits <- MCLimits
    GlobalConcurrency = 1
    GlobalMaxPending = 3
    MaxActiveDedupKeys = 1
    LossyHooks = TRUE
    SustainTicks = 2
    ShortWindows = FALSE
    MaxReloads = 1
CHECK_DEADLOCK FALSE
INVARIANTS
    CorrectionsSound
PROPERTIES
    LeaksHeal
