\* Evidence that comes back after its intent was claimed.
SPECIFICATION Spec
CONSTANTS
    Evidence = {"unpaid", "ready"}
    Required = {"unpaid"}
    Eligible = {"ready"}
    Worker = {w1}
    MaxClaims = 2
    LeaseMs = 1
    RetryMs <- CappedRetry
    MaxAge = 1
    MaxChanges = 2
INVARIANTS
    ReactivatedIsClaimable
CHECK_DEADLOCK FALSE
