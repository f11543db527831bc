\* One worker of each kind, three revisions, the second a cancellation; the upsert's
\* guard is effective (one price, nothing collected); liveness under the loops' fairness.
SPECIFICATION FairSpec
CONSTANTS
  Revisions = {1, 2, 3}
  At <- OneByOne
  Cancels = {2}
  Amount <- SamePrice
  Collected = FALSE
  Events = {1}
  Recoverers = {w1}
  Feeders = {w2}
  MaxAttempts = 2
  MaxPerRun = 2
  MaxFaults = 1
INVARIANTS
  TypeOK
  AckedIsApplied
  AckedIsRecorded
PROPERTIES
  MirrorsForward
  EventResolved
