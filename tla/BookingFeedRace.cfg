\* One worker of each kind; every revision has its price and the channel collects.
SPECIFICATION Spec
CONSTANTS
  Revisions = {1, 2}
  At <- OneByOne
  Cancels = {2}
  Amount <- Repriced
  Collected = TRUE
  Events = {1}
  Recoverers = {w1}
  Feeders = {w2}
  MaxAttempts = 2
  MaxPerRun = 2
  MaxFaults = 0
PROPERTIES
  NeverRolledBack
