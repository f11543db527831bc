\* Two workers contend for one delivery, spaced further apart than its first retry;
\* two faults; liveness under the loop fairness.
SPECIFICATION FairSpec
CONSTANTS
    Delivery = {1}
    Worker = {w1, w2}
    Property = {"villa"}
    Kind = {"AVAILABILITY"}
    PropertyOf <- OnePropertyOf
    KindOf <- OneKindOf
    Sibling <- NoSibling
    MaxAttempts = 2
    LeaseMs = 2
    BudgetMs = 1
    SpacingMs = 2
    MinPauseMs = 1
    BackoffMs <- CappedBackoff
    JitterMs = 0
    RetryAfterMs = {2}
    SelectionLimit = 1
    ScanLimit = 1
    MaxFaults = 2
CHECK_DEADLOCK FALSE
INVARIANTS
    TypeOK
    AttemptLedger
    ClaimSpacing
PROPERTIES
    SendsUnderOwnLease
    FencedCompletion
    ImplementsLifecycle
    EventuallySettled
