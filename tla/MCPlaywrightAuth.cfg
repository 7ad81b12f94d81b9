\* Two callers with a call each: flights are shared, cancelled, capped and retried, and
\* every call returns.  No symmetry, which liveness does not allow.
SPECIFICATION FairSpec
CONSTANTS
    Callers = {c1, c2}
    Flights = {f1, f2}
    NoFlight = NoFlight
    MaxCalls = 1
    MaxAttempts = 2
    FailureThreshold = 2
    RecoveryTimeout = 2
    Interval = 3
    MinValidity = 2
    VerifyClock = TRUE
    ClockHardFail = TRUE
INVARIANTS TypeOK SingleFlight SubmittedInWindow
PROPERTIES LockoutBudget LoginIsShared LoginReturns
\* The callers stop when they have made their calls.
CHECK_DEADLOCK FALSE
