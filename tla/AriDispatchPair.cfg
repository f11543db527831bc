\* A correlated FULL pair behind one worker that can crash, retried.
SPECIFICATION Spec
CONSTANTS
    Delivery = {1, 2}
    Worker = {w1}
    Property = {"villa"}
    Kind = {"AVAILABILITY", "RATES"}
    PropertyOf <- OnePropertyOf
    KindOf <- PairKindOf
    Sibling <- PairSibling
    MaxAttempts = 2
    LeaseMs = 2
    BudgetMs = 1
    SpacingMs = 1
    MinPauseMs = 1
    BackoffMs <- CappedBackoff
    JitterMs = 0
    RetryAfterMs = {2}
    SelectionLimit = 2
    ScanLimit = 2
    MaxFaults = 1
CHECK_DEADLOCK FALSE
INVARIANTS
    VerdictMatchesLastAttempt
    PauseCoversRetry
    FullSyncRecorded
