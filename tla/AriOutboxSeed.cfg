\* More ready increments than a claim takes.
SPECIFICATION Spec
CONSTANTS
    Event = {1, 2}
    Worker = {w1}
    PartitionOf <- OnePartition
    FullSync = {}
    InsideHorizon = {1, 2}
    CoalesceMs = {0, 2}
    MaxAttempts = 1
    LeaseMs = 2
    RetryDelayMs <- CappedDelay
    ClaimLimit = 1
    MaxFaults = 0
CHECK_DEADLOCK FALSE
INVARIANTS
    SeedInBatch
