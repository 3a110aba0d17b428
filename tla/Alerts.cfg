SPECIFICATION AlertsSpec
CONSTANTS
    c1 = c1 c2 = c2
    Clients <- MCClients
    ContourOf <- MCContourOf
    Contours = {"site", "agent"}
    Slots = {s1, s2}
    Cooldown <- MCCooldown
    StreakThreshold = 2
    RateWindow = 3
    RateSample = 2
    RatePercent = 50
    MaxClock = 2
    MaxEvents = 4
CHECK_DEADLOCK FALSE
INVARIANTS
    AlertsSound
    CooldownKept
