\* Evidence that goes back and forth between two that need an evaluation and one that
\* does not, one owner process that may die; liveness under the fairness of the cycles.
SPECIFICATION FairSpec
CONSTANTS
    Evidence = {"unpaid", "unverified", "ready"}
    Required = {"unpaid", "unverified"}
    Eligible = {"ready"}
    Worker = {w1}
    MaxClaims = 2
    LeaseMs = 1
    RetryMs <- CappedRetry
    MaxAge = 1
    MaxChanges = 3
INVARIANTS
    OneActiveIntent
PROPERTIES
    LiveClaimsPreserved
    ImplementsLedger
    IntentSettled
CHECK_DEADLOCK FALSE
