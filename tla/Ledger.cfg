SPECIFICATION LedgerSpec
CONSTANTS
    own = own
    router = router
    m1 = m1
    t1 = t1
    t2 = t2
    x1 = x1
    x2 = x2
    Executions = {x1, x2}
    MaxNo = 2
    Callers <- MCCallers
    Providers = {own, router}
    OpenRouter = router
    Models = {m1}
    Tokens = {t1, t2}
    BuiltIn <- MCBuiltIn
    Prices <- MCPrices
    Usages <- MCUsages
    CatalogueCost = 5
    DayHours = 2
    WeekDays = 2
    Weekend = {1}
    Offset = 1
    MaxHour = 1
    MaxChanges = 2
    MaxRows = 2
SYMMETRY Symmetry
CHECK_DEADLOCK FALSE
INVARIANTS
    EstimatesSound
    ReportsAddUp
PROPERTIES
    SeedsOnce
