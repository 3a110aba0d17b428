SPECIFICATION BothSpec
CONSTANTS
  t1 = t1
  t2 = t2
  j1 = j1
  j2 = j2
  j3 = j3
  Tabs <- MCTabs
  Jobs <- MCJobs
  TabOf <- MCTabOf
  MaxDeeds = 2
  MaxLosses = 1
  LoginRows = 2
  root = root
  deputy = deputy
  c1 = c1
  c2 = c2
  s1 = s1
  s2 = s2
  Admins <- MCAdmins
  Logins <- MCAdmins
  Secrets <- MCSecrets
  Guesses <- MCGuesses
  Callers <- MCCallers
  MaxParallel = 2
  MaxAttempts = 1
  Window = 4
  TicksPerSecond = 2
  AccessTtl = 1
  RefreshTtl = 2
  AbsoluteTtl = 2
  Grace = 0
  Horizon = 7
  SessionHorizon = 2
  MaxRows = 3
SYMMETRY Symmetric
CHECK_DEADLOCK FALSE
INVARIANTS
    GuessesBounded
    FamiliesAreChains
    WaitIsEnough
    PagesSound
PROPERTIES
    FamiliesStayDead
