\* Two replicas, two grants for different dates, a lock without a gateway.
SPECIFICATION Spec
CONSTANTS
  g1 = g1
  g2 = g2
  p1 = p1
  p2 = p2
  Grants = {g1, g2}
  Procs = {p1, p2}
  WindowOf <- TwoWindows
  Codes = {1, 2}
  Custom = FALSE
  AccessOwner = FALSE
  E15Enabled = TRUE
  RearmEnabled = FALSE
  MaxAttempts = 2
  LeaseMs = 2
  RetryMs = 1
  PhysicalMs = 1
  LockMs = 2
  AbsenceMinMs = 2
  EffectMs = 1
  TickMs = 1
  MaxClock = 3
  MaxClaims = 2
  MaxFaults = 1
INVARIANTS
  TypeOK
  OneCredential
  OneFenceHeld
SYMMETRY ProcSymmetry
CHECK_DEADLOCK FALSE
