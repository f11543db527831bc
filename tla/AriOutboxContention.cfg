\* Two materializers contend for two increments; a failure or crash.
SPECIFICATION Spec
CONSTANTS
    Event = {1, 2}
    Worker = {w1, w2}
    PartitionOf <- OnePartition
    FullSync = {}
    InsideHorizon = {1, 2}
    CoalesceMs = {0}
    MaxAttempts = 2
    LeaseMs = 2
    RetryDelayMs <- CappedDelay
    ClaimLimit = 2
    MaxFaults = 1
SYMMETRY WorkerSymmetry
CHECK_DEADLOCK FALSE
INVARIANTS
    TypeOK
    ResolvedOnce
PROPERTIES
    FencedMaterialization
