\* A retry inside one TOTP window submits the same code again.
SPECIFICATION FairSpec
CONSTANTS
    Callers = {c1, c2}
    Flights = {f1}
    NoFlight = NoFlight
    MaxCalls = 1
    MaxAttempts = 2
    FailureThreshold = 2
    RecoveryTimeout = 3
    Interval = 4
    MinValidity = 2
    VerifyClock = TRUE
    ClockHardFail = TRUE
PROPERTIES NoReplay
CHECK_DEADLOCK FALSE
