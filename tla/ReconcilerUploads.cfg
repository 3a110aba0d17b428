SPECIFICATION RSpec
CONSTANTS
    c1 = c1
    c2 = c2
    Global = Global
    r1 = r1
    r2 = r2
    r3 = r3
    r4 = r4
    k1 = k1
    Clients = {c1}
    Requests = {r1, r2, r3, r4}
    Keys = {k1}
    NoKey = NoKey
    None = None
    NoTenant = NoTenant
    ClientOf <- MCOneClient
    KeyOf <- MCNoKeys
    Limits <- MCWide
    GlobalConcurrency = 1
    GlobalMaxPending = 4
    MaxActiveDedupKeys = 2
    LossyHooks = FALSE
    SustainTicks = 4
    ShortWindows = TRUE
    MaxReloads = 0
INVARIANT
    AliveKeepSlots
CHECK_DEADLOCK FALSE
