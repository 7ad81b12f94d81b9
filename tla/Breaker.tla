------------------------------- MODULE Breaker -------------------------------
(***************************************************************************)
(* The state machine inside `CircuitBreaker` (kite_auto/utils/retry.py) as *)
(* operators on one record.  The callers that go through a breaker, and    *)
(* how their calls overlap, are modelled by the modules that extend this   *)
(* one.                                                                    *)
(*                                                                         *)
(* `age` stands for `clock() - _opened_at`: the code reads `_opened_at`    *)
(* only to compare that difference with the recovery timeout, so the       *)
(* model keeps the difference and lets it saturate there.                  *)
(***************************************************************************)
EXTENDS Integers

CONSTANTS
    FailureThreshold,   \* failure_threshold
    RecoveryTimeout     \* recovery_timeout, in whole seconds

ASSUME BreakerAssumption ==
    /\ FailureThreshold \in Nat \ {0}
    /\ RecoveryTimeout \in Nat

NotOpened == -1         \* _opened_at is None

Breakers == [ state    : {"closed", "open", "half_open"},
              failures : Nat,
              age      : NotOpened..RecoveryTimeout ]

NewBreaker == [state |-> "closed", failures |-> 0, age |-> NotOpened]

\* Mutated form: forgets the failures when it lets a probe through.
AdmitForgetting(b) ==
    IF b.state = "open" THEN [b EXCEPT !.state = "half_open", !.failures = 0] ELSE b

\* Mutated form: probes without waiting for the cooldown.
CanProbeAtOnce(b) == b.age # NotOpened

CanProbe(b) == b.age # NotOpened /\ b.age >= RecoveryTimeout

Refuses(b) == b.state = "open" /\ ~CanProbe(b)

\* What `call` does to a breaker that does not refuse, before the operation.
Admit(b) == IF b.state = "open" THEN [b EXCEPT !.state = "half_open"] ELSE b

RecordFailure(b) ==
    IF b.failures + 1 >= FailureThreshold
        THEN [state |-> "open", failures |-> b.failures + 1, age |-> 0]
        ELSE [b EXCEPT !.failures = @ + 1]

RecordSuccess(b) == NewBreaker

\* One second on the monotonic clock.
Older(age) == IF age < RecoveryTimeout THEN age + 1 ELSE age
Elapse(b) == IF b.age = NotOpened THEN b ELSE [b EXCEPT !.age = Older(@)]
==============================================================================
