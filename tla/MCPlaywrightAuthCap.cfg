\* A caller that times out after the submission, and tries again, is not capped.
SPECIFICATION FairSpec
CONSTANTS
    Callers = {c1, c2}
    Flights = {f1}
    NoFlight = NoFlight
    MaxCalls = 3
    MaxAttempts = 1
    FailureThreshold = 2
    RecoveryTimeout = 3
    Interval = 4
    MinValidity = 2
    VerifyClock = TRUE
    ClockHardFail = TRUE
PROPERTIES LockoutCap
CHECK_DEADLOCK FALSE
