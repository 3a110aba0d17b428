SPECIFICATION PartsSpec
CONSTANTS
    Prices = {p1, p2}
    Unlisted = Unlisted
    Attempts = {a1}
    DayLength = 3
    SyncHour = 1
    Backoff = 2
    MaxNow = 6
    MaxChanges = 2
    MaxRestarts = 1
    Owners = {k1, k2}
    MaxHits = 1
    HitWindow = 3
    Second = 2
    Tasks = {t1, t2, t3, t4}
    ProviderLimits = {1, 2}
    NoLimit = NoLimit
    FailureWindow = 3
    MaxEvents = 3
    AlertThreshold = 2
    NotifyEvery = 2
    LogBurst = 1
    LogWindow = 2
    MaxClock = 8
    MaxCalls = 6
    MaxLimitChanges = 3
    Text = {"x"}
    MaxBufferedBytes = 4
    MaxReceived = 6
    MaxChunk = 2
    Names <- MCNames
    Sheets <- MCSheets
    Blank <- NoName
    TooLong <- LongName
    LoginMax = 2
    SlugMax = 3
    AdminEmployees <- MCAdminEmployees
    AdminDepartments <- MCAdminDepartments
    MaxEmployees = 3
    MaxDepartments = 3
    MaxAdminChanges = 2
    NotSaid = NotSaid
    Absent = NotSaid
    OtherType = OtherType
    Bodies <- MCBodies
    Sites <- MCSites
    Targets <- MCTargets
    Sentinels = {"auto"}
    AnyModel = "*"
    QwenModels = {"m1"}
    Outcomes <- MCOutcomes
    Charges <- MCCharges
    Calls = {1, 2}
    NoSum = NoSum
    Portion <- Half
    SampleSize = 3
    ErrorsTold = 1
    PageLength = 2
    MaxWritten = 4
    MaxEntries = 5
    MaxLoads = 4
CHECK_DEADLOCK FALSE
INVARIANTS
    EstimatesStand
    EventsSound
    LimitersSound
    ImportSound
    PayloadsSound
    ReportsAgree
    LogHasNoGap
