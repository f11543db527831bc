\* One materializer, a Full Sync between two increments; liveness under the loop fairness.
SPECIFICATION FairSpec
CONSTANTS
    Event = {1, 2, 3}
    Worker = {w1}
    PartitionOf <- OnePartition
    FullSync = {2}
    InsideHorizon = {1, 3}
    CoalesceMs = {0}
    MaxAttempts = 2
    LeaseMs = 1
    RetryDelayMs <- CappedDelay
    ClaimLimit = 3
    MaxFaults = 1
CHECK_DEADLOCK FALSE
INVARIANTS
    ClaimsConsistent
    MergedIsInSnapshot
PROPERTIES
    ImplementsOutbox
    EventuallyResolved
