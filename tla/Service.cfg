SPECIFICATION Spec
CONSTANTS
    Requests = {r1, r2}
    Hanging = {r2}
    Ticks = {w1, w2}
    DeadlineMs = 1
    StuckMs = 0
    ReactsIn = 1
    DrainMs = 1
    CloseGraceMs = 1
    SettleMs = 1
    MaxNow = 2
    MaxStarts = 1
CHECK_DEADLOCK FALSE
INVARIANTS
    WatchdogSound
PROPERTIES
    ExitIsHonest
    NothingHangs
