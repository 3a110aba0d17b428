SPECIFICATION HistorySpec
CONSTANTS
  Admins = {root}
  Logins = {root}
  Secrets = {s1, s2}
  Guesses = {s1, s2}
  Callers = {c1}
  MaxParallel = 2
  MaxAttempts = 2
  Window = 2
  TicksPerSecond = 1
  AccessTtl = 1
  RefreshTtl = 1
  AbsoluteTtl = 2
  Grace = 0
  Horizon = 1
  MaxRows = 2
CHECK_DEADLOCK FALSE
INVARIANTS OldPasswordIsOut
