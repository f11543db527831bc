\* The ACCESS owner on a lock with a gateway: custom codes, saved plans, re-arming.
SPECIFICATION Spec
CONSTANTS
  g1 = g1
  g2 = g2
  p1 = p1
  p2 = p2
  Grants = {g1}
  Procs = {p1}
  WindowOf <- OneWindow
  Codes = {1, 2}
  Custom = TRUE
  AccessOwner = TRUE
  E15Enabled = TRUE
  RearmEnabled = TRUE
  MaxAttempts = 2
  LeaseMs = 2
  RetryMs = 1
  PhysicalMs = 1
  LockMs = 2
  AbsenceMinMs = 3
  EffectMs = 1
  TickMs = 1
  MaxClock = 6
  MaxClaims = 3
  MaxFaults = 1
INVARIANTS
  FirstRearmSafe
  ReleasedCredentialWorks
  CallsWithinBudget
CHECK_DEADLOCK FALSE
