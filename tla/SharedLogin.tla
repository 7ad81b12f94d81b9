----------------------------- MODULE SharedLogin -----------------------------
(***************************************************************************)
(* What `PlaywrightAuthStrategy.login` promises its callers                *)
(* ("Concurrent calls share a single in-flight login"), and TokenManager   *)
(* takes for granted: there is one login at a time, all who call while it  *)
(* runs wait for it, and it ends for all of them at once and in one way,   *)
(* with a token, an error or a cancellation.  Only a caller that is        *)
(* cancelled after the end, on its way back, returns with its own          *)
(* cancellation.  Until it is forgotten, a login that has ended is still   *)
(* the one that callers join.                                              *)
(***************************************************************************)
CONSTANTS Callers, Outcomes, None, Cancelled

VARIABLES
    waiting,    \* callers of the login that runs
    told,       \* [Callers -> the outcome a caller has yet to return with, or None]
    last        \* the outcome of a login that has ended and is not forgotten, or None

Init ==
    /\ waiting = {}
    /\ told = [c \in Callers |-> None]
    /\ last = None

Free(c) == c \notin waiting /\ told[c] = None

Call(c) ==
    /\ Free(c)
    /\ last = None
    /\ waiting' = waiting \cup {c}
    /\ UNCHANGED <<told, last>>

\* A call between the login's end and its being forgotten.
CallLate(c) ==
    /\ Free(c)
    /\ last # None
    /\ told' = [told EXCEPT ![c] = last]
    /\ UNCHANGED <<waiting, last>>

End(outcome) ==
    /\ waiting # {}
    /\ last = None
    /\ waiting' = {}
    /\ told' = [c \in Callers |-> IF c \in waiting THEN outcome ELSE told[c]]
    /\ last' = outcome

Forget ==
    /\ last # None
    /\ last' = None
    /\ UNCHANGED <<waiting, told>>

\* The caller is cancelled after the login's end.
Withdraw(c) ==
    /\ told[c] # None
    /\ told' = [told EXCEPT ![c] = Cancelled]
    /\ UNCHANGED <<waiting, last>>

Return(c) ==
    /\ told[c] # None
    /\ told' = [told EXCEPT ![c] = None]
    /\ UNCHANGED <<waiting, last>>

Next ==
    \/ \E c \in Callers : Call(c) \/ CallLate(c) \/ Withdraw(c) \/ Return(c)
    \/ \E outcome \in Outcomes : End(outcome)
    \/ Forget

Spec == Init /\ [][Next]_<<waiting, told, last>>
==============================================================================
