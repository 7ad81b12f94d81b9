\* Two requests at once through one breaker.  No symmetry, which liveness does not allow.
SPECIFICATION FairSpec
CONSTANTS
    Requests = {r1, r2}
    Methods = {"GET", "POST"}
    Retryable = {"GET"}
    MaxAttempts = 2
    FailureThreshold = 2
    RecoveryTimeout = 2
INVARIANTS TypeOK SendBudget RefreshPerAttempt
PROPERTIES NoBlindResend OpenHoldsBack RequestEnds
\* The requests end.
CHECK_DEADLOCK FALSE
