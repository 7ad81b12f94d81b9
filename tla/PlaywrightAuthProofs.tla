------------------------ MODULE PlaywrightAuthProofs ------------------------
(***************************************************************************)
(* Proofs about PlaywrightAuth, for any callers, slots, bounds, window     *)
(* and thresholds that satisfy its assumptions.  The invariants build on   *)
(* one another: types, then one login at a time, then what a flight's      *)
(* fields say about its place in the TOTP window, then the breaker's count *)
(* against the server's.                                                   *)
(***************************************************************************)
EXTENDS PlaywrightAuth, TLAPS

(* What each flight's fields say about one another. *)

\* Attempts are counted from one, and a backoff leads to another.
AttemptOK ==
    \A f \in Flights :
        /\ Live(f) => flight[f].attempt >= 1
        /\ flight[f].pc = "backoff" => flight[f].attempt < MaxAttempts

\* The server's verdict is kept from the submission to the end of the attempt, a
\* token is only ever read from an accepted login, and nothing is overdue but a sleep
\* that is over and a code that is not submitted.
Fields(fl) ==
    /\ fl.pc \notin {"submitted", "closing"} => fl.verdict = "none"
    /\ fl.pc = "closing" /\ fl.outcome = "token" => fl.verdict = "accepted"
    /\ fl.pc \notin {"typing", "totp_sleep"} => fl.lag = 0

\* A sleep for the next window ends as the window turns; the time lost since then, or
\* since the code was generated, is what lag counts.  Until a whole window is lost, that
\* time and what is left of the code's window add up to the headroom, or to a window.
Window(fl) ==
    /\ fl.pc = "totp_sleep" =>
           IF fl.timer = 0 THEN fl.lag < Interval => phase = fl.lag
                           ELSE phase + fl.timer = Interval /\ fl.lag = 0
    /\ fl.pc = "typing" /\ fl.lag < Interval =>
           fl.codeLeft + fl.lag >= MinValidity \/ fl.codeLeft + fl.lag >= Interval

FlightOK == \A f \in Flights : Fields(flight[f]) /\ Window(flight[f])

\* The breaker on its own: failures past the threshold keep it off "closed", and
\* it probes only once the cooldown is over.
BreakerOK ==
    /\ breaker.failures >= FailureThreshold <=> breaker.state # "closed"
    /\ breaker.state # "closed" => breaker.age # NotOpened
    /\ breaker.state = "half_open" => breaker.age = RecoveryTimeout

\* No browser is driven through an open breaker.
AdmittedOK ==
    \A f \in Flights : flight[f].pc \in BrowserPcs => breaker.state # "open"

\* A rejection the breaker has not been told of yet.
Pending == \E f \in Flights : flight[f].verdict = "rejected"

\* The server's count against the breaker's.
CountOK ==
    /\ \A f \in Flights : flight[f].verdict = "accepted" => rejects = 0
    /\ ~unrecorded =>
           /\ rejects <= breaker.failures + (IF Pending THEN 1 ELSE 0)
           /\ breaker.state # "closed" /\ ~Pending => rejectAge >= breaker.age

USE PlaywrightAssumption, BreakerAssumption

------------------------------------------------------------------------------
(* The states a flight can be given. *)

LEMMA BackoffType == \A n \in Nat \ {0} : Backoff(n) \in Nat
  <1> SUFFICES ASSUME NEW n \in Nat \ {0} PROVE Backoff(n) \in Nat
    OBVIOUS
  <1> DEFINE i == IF n < 4 THEN n ELSE 4
  <1>1. i \in {1, 2, 3, 4}
    OBVIOUS
  <1>2. <<1, 2, 4, 8>>[i] \in Nat
    BY <1>1
  <1> QED BY <1>2 DEF Backoff

\* One field at a time.
LEMMA FieldTypes ==
    /\ Blank \in FlightStates
    /\ \A fl \in FlightStates :
           /\ \A v \in LivePcs \cup {"unused", "done"} : [fl EXCEPT !.pc = v] \in FlightStates
           /\ \A v \in 0..MaxAttempts : [fl EXCEPT !.attempt = v] \in FlightStates
           /\ \A v \in BOOLEAN : [fl EXCEPT !.cancelled = v] \in FlightStates
           /\ \A v \in {"none", "accepted", "rejected"} :
                  [fl EXCEPT !.verdict = v] \in FlightStates
           /\ \A v \in Outcomes : [fl EXCEPT !.outcome = v] \in FlightStates
           /\ \A v \in Nat : [fl EXCEPT !.timer = v] \in FlightStates
           /\ \A v \in 0..Interval : [fl EXCEPT !.lag = v] \in FlightStates
           /\ \A v \in 0..Interval : [fl EXCEPT !.codeLeft = v] \in FlightStates
  <1>1. Blank \in FlightStates
    BY DEF Blank, FlightStates, Outcomes
  <1>2. ASSUME NEW fl \in FlightStates
        PROVE  /\ \A v \in LivePcs \cup {"unused", "done"} : [fl EXCEPT !.pc = v] \in FlightStates
               /\ \A v \in 0..MaxAttempts : [fl EXCEPT !.attempt = v] \in FlightStates
               /\ \A v \in BOOLEAN : [fl EXCEPT !.cancelled = v] \in FlightStates
               /\ \A v \in {"none", "accepted", "rejected"} :
                      [fl EXCEPT !.verdict = v] \in FlightStates
               /\ \A v \in Outcomes : [fl EXCEPT !.outcome = v] \in FlightStates
               /\ \A v \in Nat : [fl EXCEPT !.timer = v] \in FlightStates
               /\ \A v \in 0..Interval : [fl EXCEPT !.lag = v] \in FlightStates
               /\ \A v \in 0..Interval : [fl EXCEPT !.codeLeft = v] \in FlightStates
    BY <1>2 DEF FlightStates
  <1> QED BY <1>1, <1>2

LEMMA FlightTypes ==
    /\ NewFlight \in FlightStates
    /\ \A outcome \in Outcomes : Done(outcome) \in FlightStates
    /\ \A fl \in FlightStates, outcome \in Outcomes : Closing(fl, outcome) \in FlightStates
  <1>1. "verify" \in LivePcs /\ "attempt" \in LivePcs /\ "closing" \in LivePcs
    BY DEF LivePcs, BrowserPcs
  <1>2. NewFlight \in FlightStates
    <2> DEFINE start == IF VerifyClock THEN "verify" ELSE "attempt"
    <2>1. start \in LivePcs
      BY <1>1
    <2>2. 1 \in 0..MaxAttempts
      OBVIOUS
    <2> HIDE DEF start
    <2>3. [Blank EXCEPT !.pc = start, !.attempt = 1] \in FlightStates
      BY FieldTypes, <2>1, <2>2
    <2> QED BY <2>3 DEF NewFlight, start
  <1>3. \A outcome \in Outcomes : Done(outcome) \in FlightStates
    BY FieldTypes DEF Done
  <1>4. \A fl \in FlightStates, outcome \in Outcomes : Closing(fl, outcome) \in FlightStates
    <2> TAKE fl \in FlightStates, outcome \in Outcomes
    <2>1. [fl EXCEPT !.pc = "closing"] \in FlightStates
      BY FieldTypes, <1>1
    <2> DEFINE closed == [fl EXCEPT !.pc = "closing", !.outcome = outcome]
    <2>2. closed \in FlightStates
      BY FieldTypes, <2>1
    <2>4. 0 \in 0..Interval
      OBVIOUS
    <2> HIDE DEF closed
    <2>5. [closed EXCEPT !.timer = 0, !.lag = 0, !.codeLeft = 0] \in FlightStates
      BY <2>2, <2>4, FieldTypes
    <2> QED BY <2>5 DEF Closing, closed
  <1> QED BY <1>2, <1>3, <1>4

\* The one way a step changes a single flight.
LEMMA BecomeType ==
    ASSUME NEW f \in Flights, NEW state \in FlightStates,
           flight \in [Flights -> FlightStates], Become(f, state)
    PROVE  flight' \in [Flights -> FlightStates]
  BY DEF Become

LEMMA BreakerTypes ==
    /\ NewBreaker \in Breakers
    /\ \A b \in Breakers : /\ Admit(b) \in Breakers
                           /\ RecordFailure(b) \in Breakers
                           /\ RecordSuccess(b) \in Breakers
                           /\ Elapse(b) \in Breakers
  <1>1. NewBreaker \in Breakers
    BY DEF NewBreaker, Breakers, NotOpened
  <1>2. ASSUME NEW b \in Breakers PROVE Admit(b) \in Breakers
    BY <1>2 DEF Admit, Breakers
  <1>3. ASSUME NEW b \in Breakers PROVE RecordFailure(b) \in Breakers
    BY <1>3 DEF RecordFailure, Breakers, NotOpened
  <1>4. ASSUME NEW b \in Breakers PROVE Elapse(b) \in Breakers
    BY <1>4 DEF Elapse, Older, Breakers, NotOpened
  <1> QED BY <1>1, <1>2, <1>3, <1>4 DEF RecordSuccess

\* Leaving an attempt leaves a well-typed breaker and flight.
LEMMA LeaveAttemptType ==
    ASSUME NEW f \in Flights, NEW outcome \in Outcomes, TypeOK,
           flight[f].pc \in LivePcs, LeaveAttempt(f, outcome), flight[f].attempt >= 1
    PROVE  /\ breaker' \in Breakers
           /\ unrecorded' \in BOOLEAN
           /\ flight' \in [Flights -> FlightStates]
  <1>1. breaker' \in Breakers
    BY BreakerTypes DEF LeaveAttempt, TypeOK
  <1>2. unrecorded' \in BOOLEAN
    BY DEF LeaveAttempt, Unrecorded, TypeOK
  <1> DEFINE back == [Blank EXCEPT !.pc = "backoff", !.attempt = flight[f].attempt,
                                   !.timer = Backoff(flight[f].attempt)]
  <1>3. flight[f].attempt \in Nat \ {0} /\ flight[f].attempt \in 0..MaxAttempts
    BY DEF TypeOK, FlightStates
  <1>4. Backoff(flight[f].attempt) \in Nat
    BY <1>3, BackoffType
  <1>5. back \in FlightStates
    BY <1>3, <1>4, FieldTypes DEF LivePcs
  <1>6. Done(outcome) \in FlightStates
    BY FlightTypes
  <1>7. flight' \in [Flights -> FlightStates]
    BY <1>5, <1>6 DEF LeaveAttempt, Become, TypeOK
  <1> QED BY <1>1, <1>2, <1>7

------------------------------------------------------------------------------
(* Type correctness, with the attempt counter that backoff depends on. *)

LEMMA TypeStep ==
    ASSUME TypeOK, AttemptOK, [Next]_vars
    PROVE  TypeOK' /\ AttemptOK'
  <1> USE DEF callerVars, serverVars
  <1>1. ASSUME NEW c \in Callers, NEW f \in Flights, StartLogin(c, f)
        PROVE  TypeOK' /\ AttemptOK'
    <2>1. NewFlight \in FlightStates
      BY FlightTypes
    <2>2. flight' = [flight EXCEPT ![f] = NewFlight]
      BY <1>1 DEF StartLogin
    <2>3. TypeOK'
      <3>1. calls' \in [Callers -> 0..MaxCalls]
        BY <1>1 DEF StartLogin, TypeOK
      <3>2. awaiting' \in [Callers -> Flights \cup {NoFlight}]
        BY <1>1 DEF StartLogin, TypeOK
      <3> QED BY <1>1, <2>1, <2>2, <3>1, <3>2 DEF StartLogin, TypeOK
    <2>4. NewFlight.attempt = 1 /\ NewFlight.pc # "backoff"
      BY DEF NewFlight, Blank
    <2> QED BY <2>2, <2>3, <2>4 DEF AttemptOK, Live, TypeOK
  <1>2. ASSUME NEW c \in Callers, JoinLogin(c) PROVE TypeOK' /\ AttemptOK'
    <2>1. calls' \in [Callers -> 0..MaxCalls]
      BY <1>2 DEF JoinLogin, TypeOK
    <2>2. awaiting' \in [Callers -> Flights \cup {NoFlight}]
      BY <1>2 DEF JoinLogin, TypeOK
    <2> QED BY <1>2, <2>1, <2>2 DEF JoinLogin, TypeOK, AttemptOK, Live
  <1>3. ASSUME NEW c \in Callers, CancelCaller(c) PROVE TypeOK' /\ AttemptOK'
    <2> DEFINE f == awaiting[c]
    <2>1. f \in Flights /\ flight[f] \in FlightStates
      BY <1>3 DEF CancelCaller, TypeOK
    <2>2. flight' = [flight EXCEPT ![f] = [flight[f] EXCEPT !.cancelled = TRUE]]
      BY <1>3 DEF CancelCaller
    <2>3. [flight[f] EXCEPT !.cancelled = TRUE] \in FlightStates
      BY <2>1, FieldTypes
    <2>4. flight' \in [Flights -> FlightStates]
      BY <2>2, <2>3 DEF TypeOK
    <2>5. \A g \in Flights : /\ flight'[g].pc = flight[g].pc
                             /\ flight'[g].attempt = flight[g].attempt
      BY <2>1, <2>2 DEF TypeOK, FlightStates
    <2> QED BY <1>3, <2>4, <2>5 DEF CancelCaller, TypeOK, AttemptOK, Live
  <1>4. ASSUME NEW c \in Callers, Return(c) PROVE TypeOK' /\ AttemptOK'
    BY <1>4 DEF Return, TypeOK, AttemptOK, Live
  <1>5. ASSUME NEW f \in Flights, ClearInflight(f) PROVE TypeOK' /\ AttemptOK'
    BY <1>5 DEF ClearInflight, TypeOK, AttemptOK, Live
  <1>6. ASSUME NEW f \in Flights, FlightStep(f) PROVE TypeOK' /\ AttemptOK'
    <2> DEFINE fl == flight[f]
    <2>1. fl \in FlightStates
      BY DEF TypeOK
    \* What remains to be shown of a step that gives the flight a new state.
    <2>2. ASSUME NEW state \in FlightStates, Become(f, state),
                 UNCHANGED <<callerVars, phase>>,
                 used' \in BOOLEAN, rejects' \in Nat, rejectAge' \in 0..RecoveryTimeout,
                 breaker' \in Breakers, unrecorded' \in BOOLEAN,
                 state.pc \in LivePcs => state.attempt >= 1,
                 state.pc = "backoff" => state.attempt < MaxAttempts
          PROVE  TypeOK' /\ AttemptOK'
      <3>1. flight' \in [Flights -> FlightStates]
        BY <2>2, BecomeType DEF TypeOK
      <3>2. TypeOK'
        BY <2>2, <3>1 DEF TypeOK
      <3>3. AttemptOK'
        BY <2>2, <3>1 DEF AttemptOK, Live, Become, TypeOK
      <3> QED BY <3>2, <3>3
    <2> HIDE DEF fl
    <2>3. CASE CheckClock(f)
      <3>1. "attempt" \in LivePcs /\ fl.pc \in LivePcs /\ fl.attempt >= 1
        BY <2>3 DEF CheckClock, At, AttemptOK, Live, LivePcs, fl
      <3>2. [fl EXCEPT !.pc = "attempt"] \in FlightStates
        BY <2>1, <3>1, FieldTypes
      <3>3. Done("clock_error") \in FlightStates /\ Done("clock_error").pc = "done"
        BY FlightTypes DEF Done, Blank, Outcomes
      <3>4. "done" \notin LivePcs /\ "done" # "backoff"
        BY DEF LivePcs, BrowserPcs
      <3>5. /\ [fl EXCEPT !.pc = "attempt"].attempt >= 1
            /\ [fl EXCEPT !.pc = "attempt"].pc # "backoff"
        BY <2>1, <3>1 DEF FlightStates
      <3>6. CASE Become(f, [fl EXCEPT !.pc = "attempt"])
        BY <2>2, <2>3, <3>2, <3>5, <3>6 DEF CheckClock, TypeOK
      <3>7. CASE Become(f, Done("clock_error"))
        BY <2>2, <2>3, <3>3, <3>4, <3>7 DEF CheckClock, TypeOK
      <3> QED BY <2>3, <3>6, <3>7 DEF CheckClock, fl
    <2>4. CASE Attempt(f)
      <3>1. "page" \in LivePcs /\ fl.pc \in LivePcs /\ fl.attempt >= 1
        BY <2>4 DEF Attempt, At, AttemptOK, Live, LivePcs, BrowserPcs, fl
      <3>2. /\ Done("lockout") \in FlightStates
            /\ Done("lockout").pc \notin LivePcs /\ Done("lockout").pc # "backoff"
        BY FlightTypes DEF Done, Blank, Outcomes, LivePcs, BrowserPcs
      <3>3. /\ [fl EXCEPT !.pc = "page"] \in FlightStates
            /\ [fl EXCEPT !.pc = "page"].attempt >= 1
            /\ [fl EXCEPT !.pc = "page"].pc # "backoff"
        BY <2>1, <3>1, FieldTypes DEF FlightStates
      <3>4. Admit(breaker) \in Breakers
        BY BreakerTypes DEF TypeOK
      <3>5. CASE Become(f, Done("lockout")) /\ UNCHANGED breaker
        BY <2>2, <2>4, <3>2, <3>5 DEF Attempt, TypeOK
      <3>6. CASE Become(f, [fl EXCEPT !.pc = "page"]) /\ breaker' = Admit(breaker)
        BY <2>2, <2>4, <3>3, <3>4, <3>6 DEF Attempt, TypeOK
      <3> QED BY <2>4, <3>5, <3>6 DEF Attempt, fl
    <2>5. CASE PageFails(f)
      <3>1. fl.pc \in LivePcs /\ fl.attempt >= 1
        BY <2>5 DEF PageFails, At, AttemptOK, Live, LivePcs, BrowserPcs, fl
      <3>2. PICK outcome \in {"structure_error", "crash"} : Become(f, Closing(fl, outcome))
        BY <2>5 DEF PageFails, fl
      <3>3. Closing(fl, outcome) \in FlightStates
        BY <2>1, FlightTypes DEF Outcomes
      <3>4. Closing(fl, outcome).attempt >= 1 /\ Closing(fl, outcome).pc # "backoff"
        BY <2>1, <3>1 DEF Closing, FlightStates
      <3> QED BY <2>2, <2>5, <3>2, <3>3, <3>4 DEF PageFails, TypeOK
    <2>6. \* Generating a code.
          /\ WithCode(fl) \in FlightStates
          /\ WithCode(fl).attempt = fl.attempt
          /\ WithCode(fl).pc = "typing"
      <3>1. Remaining \in 0..Interval /\ "typing" \in LivePcs
        BY DEF Remaining, TypeOK, LivePcs, BrowserPcs
      <3>2. WithCode(fl) \in FlightStates
        BY <2>1, <3>1, FieldTypes DEF WithCode
      <3> QED BY <2>1, <3>2 DEF WithCode, FlightStates
    <2>7. CASE PageReady(f)
      <3>1. fl.attempt >= 1
        BY <2>7 DEF PageReady, At, AttemptOK, Live, LivePcs, BrowserPcs, fl
      <3> DEFINE asleep == [fl EXCEPT !.pc = "totp_sleep", !.timer = Remaining]
      <3>2. "totp_sleep" \in LivePcs /\ Remaining \in Nat
        BY DEF Remaining, TypeOK, LivePcs, BrowserPcs
      <3>3. asleep \in FlightStates
        BY <2>1, <3>2, FieldTypes
      <3>4. asleep.attempt >= 1 /\ asleep.pc # "backoff"
        BY <2>1, <3>1 DEF FlightStates
      <3>5. CASE Become(f, WithCode(fl))
        BY <2>2, <2>6, <2>7, <3>1, <3>5 DEF PageReady, TypeOK
      <3>6. CASE Become(f, asleep)
        BY <2>2, <2>7, <3>3, <3>4, <3>6 DEF PageReady, TypeOK
      <3> QED BY <2>7, <3>5, <3>6 DEF PageReady, fl
    <2>8. CASE WakeForTotp(f)
      <3>1. fl.attempt >= 1
        BY <2>8 DEF WakeForTotp, At, AttemptOK, Live, LivePcs, BrowserPcs, fl
      <3>2. Become(f, WithCode(fl))
        BY <2>8 DEF WakeForTotp, fl
      <3> QED BY <2>2, <2>6, <2>8, <3>1, <3>2 DEF WakeForTotp, TypeOK
    <2>9. CASE SubmitTotp(f)
      <3>1. fl.attempt >= 1 /\ "submitted" \in LivePcs /\ 0 \in 0..Interval
        BY <2>9 DEF SubmitTotp, At, AttemptOK, Live, LivePcs, BrowserPcs, fl
      <3> DEFINE judged(v) == [fl EXCEPT !.pc = "submitted", !.verdict = v,
                                         !.lag = 0, !.codeLeft = 0]
      <3>2. \A v \in {"accepted", "rejected"} : judged(v) \in FlightStates
        BY <2>1, <3>1, FieldTypes
      <3>3. \A v \in {"accepted", "rejected"} :
                judged(v).attempt >= 1 /\ judged(v).pc # "backoff"
        BY <2>1, <3>1 DEF FlightStates
      <3>4. PICK v \in {"accepted", "rejected"} : Become(f, judged(v))
        BY <2>9 DEF SubmitTotp, fl
      <3>5. used' \in BOOLEAN /\ unrecorded' \in BOOLEAN
        BY <2>9, Zenon DEF SubmitTotp, TypeOK
      <3>6. /\ rejects' \in Nat /\ rejectAge' \in 0..RecoveryTimeout
        BY <2>9 DEF SubmitTotp, TypeOK
      <3> QED BY <2>2, <2>9, <3>2, <3>3, <3>4, <3>5, <3>6 DEF SubmitTotp, TypeOK
    <2>10. CASE AwaitRedirect(f)
      <3>1. fl.attempt >= 1
        BY <2>10 DEF AwaitRedirect, At, AttemptOK, Live, LivePcs, BrowserPcs, fl
      <3>2. PICK outcome \in {"token", "auth_error", "crash"} : Become(f, Closing(fl, outcome))
        BY <2>10 DEF AwaitRedirect, ReadRedirect, fl
      <3>3. Closing(fl, outcome) \in FlightStates
        BY <2>1, FlightTypes DEF Outcomes
      <3>4. Closing(fl, outcome).attempt >= 1 /\ Closing(fl, outcome).pc # "backoff"
        BY <2>1, <3>1 DEF Closing, FlightStates
      <3> QED BY <2>2, <2>10, <3>2, <3>3, <3>4 DEF AwaitRedirect, TypeOK
    <2>11. ASSUME NEW outcome \in Outcomes, fl.pc = "closing", LeaveAttempt(f, outcome),
                  UNCHANGED <<callerVars, phase, serverVars>>
           PROVE  TypeOK' /\ AttemptOK'
      <3>1. fl.pc \in LivePcs /\ fl.attempt >= 1
        BY <2>11 DEF AttemptOK, Live, LivePcs, BrowserPcs, fl
      <3>2. breaker' \in Breakers /\ unrecorded' \in BOOLEAN
        BY <2>11, <3>1, LeaveAttemptType DEF fl
      <3> DEFINE back == [Blank EXCEPT !.pc = "backoff", !.attempt = fl.attempt,
                                       !.timer = Backoff(fl.attempt)]
      <3>3. fl.attempt \in Nat \ {0} /\ fl.attempt \in 0..MaxAttempts
        BY <2>1, <3>1 DEF FlightStates
      <3>4. Backoff(fl.attempt) \in Nat /\ "backoff" \in LivePcs
        BY <3>3, BackoffType DEF LivePcs
      <3>5. back \in FlightStates
        BY <3>3, <3>4, FieldTypes
      <3>6. back.attempt = fl.attempt /\ back.pc = "backoff"
        BY DEF Blank
      <3>7. /\ Done(outcome) \in FlightStates
            /\ Done(outcome).pc \notin LivePcs /\ Done(outcome).pc # "backoff"
        BY FlightTypes DEF Done, Blank, LivePcs, BrowserPcs
      <3>8. CASE fl.attempt < MaxAttempts /\ Become(f, back)
        BY <2>2, <2>11, <3>1, <3>2, <3>5, <3>6, <3>8 DEF TypeOK
      <3>9. CASE Become(f, Done(outcome))
        BY <2>2, <2>11, <3>2, <3>7, <3>9 DEF TypeOK
      <3> QED BY <2>11, <3>8, <3>9 DEF LeaveAttempt, fl
    <2>12. CASE CloseBrowser(f)
      <3>1. PICK outcome \in Outcomes : LeaveAttempt(f, outcome)
        BY <2>1, <2>12 DEF CloseBrowser, Outcomes, FlightStates, fl
      <3> QED BY <2>11, <2>12, <3>1 DEF CloseBrowser, At, fl
    <2>13. CASE BackoffOver(f)
      <3>1. /\ fl.attempt + 1 \in 0..MaxAttempts /\ fl.attempt + 1 >= 1
            /\ "attempt" \in LivePcs
        BY <2>1, <2>13 DEF BackoffOver, At, AttemptOK, Live, LivePcs, FlightStates, fl
      <3> DEFINE again == [fl EXCEPT !.pc = "attempt", !.attempt = fl.attempt + 1]
      <3>2. again \in FlightStates
        BY <2>1, <3>1, FieldTypes
      <3>3. again.attempt >= 1 /\ again.pc # "backoff"
        BY <2>1, <3>1 DEF FlightStates
      <3>4. Become(f, again)
        BY <2>1, <2>13 DEF BackoffOver, FlightStates, fl
      <3> QED BY <2>2, <2>13, <3>2, <3>3, <3>4 DEF BackoffOver, TypeOK
    <2>14. CASE Abort(f)
      <3>1. fl.pc \in LivePcs /\ fl.attempt >= 1
        BY <2>14 DEF Abort, AttemptOK, Live, fl
      <3> DEFINE unwinding == [Closing(fl, "cancelled") EXCEPT !.cancelled = FALSE]
      <3>2. Closing(fl, "cancelled") \in FlightStates
        BY <2>1, FlightTypes DEF Outcomes
      <3>3. /\ Closing(fl, "cancelled").attempt >= 1
            /\ Closing(fl, "cancelled").pc # "backoff"
        BY <2>1, <3>1 DEF Closing, FlightStates
      <3>4. unwinding \in FlightStates /\ unwinding.attempt >= 1 /\ unwinding.pc # "backoff"
        <4> DEFINE closing == Closing(fl, "cancelled")
        <4> HIDE DEF closing
        <4>1. closing \in FlightStates /\ closing.attempt >= 1 /\ closing.pc # "backoff"
          BY <3>2, <3>3 DEF closing
        <4>2. [closing EXCEPT !.cancelled = FALSE] \in FlightStates
          BY <4>1, FieldTypes
        <4>3. /\ [closing EXCEPT !.cancelled = FALSE].attempt >= 1
              /\ [closing EXCEPT !.cancelled = FALSE].pc # "backoff"
          BY <4>1 DEF FlightStates
        <4> QED BY <4>2, <4>3 DEF closing
      <3>5. /\ Done("cancelled") \in FlightStates
            /\ Done("cancelled").pc \notin LivePcs /\ Done("cancelled").pc # "backoff"
        BY FlightTypes DEF Done, Blank, Outcomes, LivePcs, BrowserPcs
      <3>6. CASE Become(f, unwinding) /\ UNCHANGED <<breaker, unrecorded>>
        BY <2>2, <2>14, <3>4, <3>6 DEF Abort, TypeOK
      <3>7. CASE fl.pc = "closing" /\ LeaveAttempt(f, "cancelled")
        BY <2>11, <2>14, <3>7 DEF Abort, Outcomes
      <3>8. CASE Become(f, Done("cancelled")) /\ UNCHANGED <<breaker, unrecorded>>
        BY <2>2, <2>14, <3>5, <3>8 DEF Abort, TypeOK
      <3> QED BY <2>14, <3>6, <3>7, <3>8 DEF Abort, fl
    <2> QED BY <1>6, <2>3, <2>4, <2>5, <2>7, <2>8, <2>9, <2>10, <2>12, <2>13, <2>14
            DEF FlightStep, OutsideStep, LoopStep
  <1>7. CASE Tick
    <2>1. ASSUME NEW f \in Flights
          PROVE  /\ Elapsed(flight[f]) \in FlightStates
                 /\ Elapsed(flight[f]).pc = flight[f].pc
                 /\ Elapsed(flight[f]).attempt = flight[f].attempt
      <3> DEFINE fl == flight[f]
                 timer == Less(fl.timer)
                 codeLeft == Less(fl.codeLeft)
                 lag == IF Overdue(fl) /\ fl.lag < Interval THEN fl.lag + 1 ELSE fl.lag
      <3>1. fl \in FlightStates
        BY DEF TypeOK
      <3>2. timer \in Nat /\ codeLeft \in 0..Interval /\ lag \in 0..Interval
        BY <3>1 DEF FlightStates, Less
      <3> DEFINE later == [fl EXCEPT !.timer = timer, !.codeLeft = codeLeft, !.lag = lag]
      <3>3. Elapsed(fl) = later
        BY DEF Elapsed
      <3> HIDE DEF timer, codeLeft, lag
      <3>4. later \in FlightStates
        BY <3>1, <3>2, FieldTypes
      <3>5. later.pc = fl.pc /\ later.attempt = fl.attempt
        BY <3>1 DEF FlightStates
      <3> QED BY <3>3, <3>4, <3>5
    <2>2. flight' \in [Flights -> FlightStates] /\ AttemptOK'
      BY <1>7, <2>1 DEF Tick, AttemptOK, Live, TypeOK
    <2>3. breaker' \in Breakers
      BY <1>7, BreakerTypes DEF Tick, TypeOK
    <2>4. phase' \in 0..Interval - 1 /\ used' \in BOOLEAN /\ rejectAge' \in 0..RecoveryTimeout
      BY <1>7 DEF Tick, Older, TypeOK
    <2> QED BY <1>7, <2>2, <2>3, <2>4 DEF Tick, TypeOK
  <1>9. ASSUME NEW c \in Callers, CancelLate(c) PROVE TypeOK' /\ AttemptOK'
    BY <1>9 DEF CancelLate, TypeOK, AttemptOK, Live
  <1>8. CASE UNCHANGED vars
    BY <1>8 DEF vars, TypeOK, AttemptOK, Live
  <1> QED BY <1>1, <1>2, <1>3, <1>4, <1>5, <1>6, <1>7, <1>8, <1>9 DEF Next

LEMMA TypesHold == Spec => [](TypeOK /\ AttemptOK)
  <1>1. Init => TypeOK /\ AttemptOK
    <2> SUFFICES ASSUME Init PROVE TypeOK /\ AttemptOK
      OBVIOUS
    <2>1. Blank \in FlightStates /\ Blank.pc = "unused"
      BY FieldTypes DEF Blank
    <2>2. breaker \in Breakers
      BY BreakerTypes DEF Init
    <2>3. "unused" \notin LivePcs
      BY DEF LivePcs, BrowserPcs
    <2>4. flight \in [Flights -> FlightStates] /\ \A f \in Flights : flight[f].pc = "unused"
      BY <2>1 DEF Init
    <2>5. /\ calls \in [Callers -> 0..MaxCalls]
          /\ awaiting \in [Callers -> Flights \cup {NoFlight}]
          /\ rejectAge \in 0..RecoveryTimeout
      BY DEF Init
    <2>6. TypeOK
      BY <2>2, <2>4, <2>5 DEF Init, TypeOK
    <2>7. AttemptOK
      BY <2>3, <2>4 DEF AttemptOK, Live
    <2> QED BY <2>6, <2>7
  <1>2. TypeOK /\ AttemptOK /\ [Next]_vars => TypeOK' /\ AttemptOK'
    BY TypeStep
  <1> QED BY <1>1, <1>2, PTL DEF Spec

\* TypeOK holds of every reachable state.
THEOREM TypeCorrect == Spec => []TypeOK
  BY TypesHold, PTL

------------------------------------------------------------------------------
(* One login at a time. *)

\* A step of a flight is taken by a live one, and touches no other.
LEMMA FlightStepFrame ==
    ASSUME TypeOK, NEW f \in Flights, FlightStep(f)
    PROVE  /\ Live(f)
           /\ UNCHANGED <<callerVars, phase>>
           /\ \A g \in Flights \ {f} : flight'[g] = flight[g]
  <1> USE DEF TypeOK, Become, LeaveAttempt
  <1>1. Live(f)
    BY DEF FlightStep, OutsideStep, LoopStep, CheckClock, Attempt, PageFails, PageReady, WakeForTotp, SubmitTotp,
           AwaitRedirect, CloseBrowser, BackoffOver, Abort, At, Live, LivePcs, BrowserPcs
  <1>2. UNCHANGED <<callerVars, phase>>
    BY DEF FlightStep, OutsideStep, LoopStep, CheckClock, Attempt, PageFails, PageReady, WakeForTotp, SubmitTotp,
           AwaitRedirect, CloseBrowser, BackoffOver, Abort
  <1>3. PICK state : Become(f, state)
    BY DEF FlightStep, OutsideStep, LoopStep, CheckClock, Attempt, PageFails, PageReady, WakeForTotp, SubmitTotp,
           AwaitRedirect, CloseBrowser, BackoffOver, Abort
  <1> QED BY <1>1, <1>2, <1>3

LEMMA SingleFlightStep ==
    ASSUME TypeOK, SingleFlight, [Next]_vars
    PROVE  SingleFlight'
  <1> USE DEF SingleFlight, Live
  <1>1. ASSUME NEW c \in Callers, NEW f \in Flights, StartLogin(c, f) PROVE SingleFlight'
    <2>1. \A g \in Flights : ~Live(g)
      BY <1>1, PlaywrightAssumption DEF StartLogin
    <2> QED BY <1>1, <2>1 DEF StartLogin, TypeOK
  <1>2. ASSUME NEW c \in Callers, JoinLogin(c) PROVE SingleFlight'
    BY <1>2 DEF JoinLogin
  <1>3. ASSUME NEW c \in Callers, CancelCaller(c) PROVE SingleFlight'
    <2>1. \A g \in Flights : flight'[g].pc = flight[g].pc
      BY <1>3 DEF CancelCaller, TypeOK, FlightStates
    <2> QED BY <1>3, <2>1 DEF CancelCaller, callerVars
  <1>4. ASSUME NEW c \in Callers, Return(c) PROVE SingleFlight'
    BY <1>4 DEF Return
  <1>5. ASSUME NEW f \in Flights, ClearInflight(f) PROVE SingleFlight'
    <2>1. ~Live(f)
      BY <1>5 DEF ClearInflight, LivePcs, BrowserPcs
    <2> QED BY <1>5, <2>1 DEF ClearInflight
  <1>6. ASSUME NEW f \in Flights, FlightStep(f) PROVE SingleFlight'
    BY <1>6, FlightStepFrame DEF callerVars
  <1>7. CASE Tick
    <2>1. \A g \in Flights : flight'[g].pc = flight[g].pc
      BY <1>7 DEF Tick, Elapsed, TypeOK, FlightStates
    <2> QED BY <1>7, <2>1 DEF Tick, callerVars
  <1>9. ASSUME NEW c \in Callers, CancelLate(c) PROVE SingleFlight'
    BY <1>9 DEF CancelLate
  <1>8. CASE UNCHANGED vars
    BY <1>8 DEF vars
  <1> QED BY <1>1, <1>2, <1>3, <1>4, <1>5, <1>6, <1>7, <1>8, <1>9 DEF Next

\* No two login tasks ever run at once, and a running one is the one callers join.
THEOREM SingleFlightHolds == Spec => []SingleFlight
  <1>1. Init => SingleFlight
    BY DEF Init, SingleFlight, Live, Blank, LivePcs, BrowserPcs
  <1>2. TypeOK /\ SingleFlight /\ [Next]_vars => SingleFlight'
    BY SingleFlightStep
  <1> QED BY <1>1, <1>2, TypeCorrect, PTL DEF Spec

------------------------------------------------------------------------------
(* A code is submitted in its own window. *)

\* Fields and Window say nothing of a state in which nothing is submitted, slept
\* for or overdue.
LEMMA Quiet ==
    ASSUME NEW fl, fl.lag = 0, fl.verdict = "none",
           fl.pc \notin {"closing", "totp_sleep", "typing"}
    PROVE  Fields(fl) /\ Window(fl)
  BY DEF Fields, Window

LEMMA QuietStates ==
    /\ Fields(NewFlight) /\ Window(NewFlight)
    /\ Fields(Blank) /\ Window(Blank)
    /\ \A outcome : Fields(Done(outcome)) /\ Window(Done(outcome))
  BY DEF NewFlight, Blank, Done, Fields, Window

\* A code that is generated with enough of the window left, for the time lost before,
\* is valid long enough.
LEMMA WithCodeOK ==
    ASSUME TypeOK, NEW fl \in FlightStates, fl.verdict = "none",
           fl.lag < Interval => \/ Remaining + fl.lag >= MinValidity
                                \/ Remaining + fl.lag >= Interval
    PROVE  Fields(WithCode(fl)) /\ Window(WithCode(fl))
  <1>1. Remaining \in Nat
    BY DEF Remaining, TypeOK
  <1>2. /\ WithCode(fl).pc = "typing" /\ WithCode(fl).verdict = "none"
        /\ WithCode(fl).lag = fl.lag /\ WithCode(fl).codeLeft = Remaining
    BY DEF WithCode, FlightStates
  <1> QED BY <1>1, <1>2 DEF Fields, Window

LEMMA FlightOKStep ==
    ASSUME TypeOK, FlightOK, [Next]_vars
    PROVE  FlightOK'
  <1> USE DEF FlightOK
  <1>1. ASSUME NEW c \in Callers, NEW f \in Flights, StartLogin(c, f) PROVE FlightOK'
    <2>1. /\ phase' = phase
          /\ \A g \in Flights : flight'[g] = IF g = f THEN NewFlight ELSE flight[g]
      BY <1>1 DEF StartLogin, TypeOK
    <2> QED BY <2>1, QuietStates DEF Fields, Window
  <1>2. ASSUME NEW c \in Callers, JoinLogin(c) PROVE FlightOK'
    BY <1>2 DEF JoinLogin, Fields, Window
  <1>3. ASSUME NEW c \in Callers, CancelCaller(c) PROVE FlightOK'
    <2>1. /\ phase' = phase
          /\ \A g \in Flights :
                 /\ flight'[g].pc = flight[g].pc /\ flight'[g].verdict = flight[g].verdict
                 /\ flight'[g].outcome = flight[g].outcome
                 /\ flight'[g].timer = flight[g].timer /\ flight'[g].lag = flight[g].lag
                 /\ flight'[g].codeLeft = flight[g].codeLeft
      BY <1>3 DEF CancelCaller, TypeOK, FlightStates
    <2> QED BY <2>1 DEF Fields, Window
  <1>4. ASSUME NEW c \in Callers, Return(c) PROVE FlightOK'
    BY <1>4 DEF Return, Fields, Window
  <1>5. ASSUME NEW f \in Flights, ClearInflight(f) PROVE FlightOK'
    BY <1>5 DEF ClearInflight, Fields, Window
  <1>6. ASSUME NEW f \in Flights, FlightStep(f) PROVE FlightOK'
    <2> DEFINE fl == flight[f]
    <2>1. fl \in FlightStates /\ Fields(fl) /\ Window(fl) /\ phase \in Nat
      BY DEF TypeOK
    <2>2. ASSUME NEW state, Become(f, state), Fields(state), Window(state)
          PROVE  FlightOK'
      <3>1. phase' = phase
        BY <1>6, FlightStepFrame
      <3>2. \A g \in Flights : flight'[g] = IF g = f THEN state ELSE flight[g]
        BY <2>2 DEF Become, TypeOK
      <3> QED BY <2>2, <3>1, <3>2 DEF Fields, Window
    <2>3. fl.lag = 0 /\ fl.verdict = "none"
          => \A pc \in {"attempt", "page"} : Fields([fl EXCEPT !.pc = pc])
                                            /\ Window([fl EXCEPT !.pc = pc])
      BY <2>1, Quiet DEF FlightStates
    <2>4. ASSUME NEW outcome, fl.verdict # "accepted" => outcome # "token"
          PROVE  Fields(Closing(fl, outcome)) /\ Window(Closing(fl, outcome))
      <3>1. /\ Closing(fl, outcome).pc = "closing" /\ Closing(fl, outcome).lag = 0
            /\ Closing(fl, outcome).verdict = fl.verdict
            /\ Closing(fl, outcome).outcome = outcome
        BY <2>1 DEF Closing, FlightStates
      <3> QED BY <2>4, <3>1 DEF Fields, Window
    <2>5. ASSUME NEW outcome, LeaveAttempt(f, outcome) PROVE FlightOK'
      <3> DEFINE back == [Blank EXCEPT !.pc = "backoff", !.attempt = fl.attempt,
                                       !.timer = Backoff(fl.attempt)]
      <3>1. Fields(back) /\ Window(back)
        BY Quiet DEF Blank
      <3>2. Become(f, back) \/ Become(f, Done(outcome))
        BY <2>5 DEF LeaveAttempt
      <3> HIDE DEF back
      <3> QED BY <2>2, <3>1, <3>2, QuietStates
    <2> HIDE DEF fl
    <2>6. CASE CheckClock(f)
      <3>1. fl.pc = "verify"
        BY <2>6 DEF CheckClock, At, fl
      <3> QED BY <2>1, <2>2, <2>3, <2>6, <3>1, QuietStates DEF CheckClock, Fields, fl
    <2>7. CASE Attempt(f)
      <3>1. fl.pc = "attempt"
        BY <2>7 DEF Attempt, At, fl
      <3> QED BY <2>1, <2>2, <2>3, <2>7, <3>1, QuietStates DEF Attempt, Fields, fl
    <2>8. CASE PageFails(f)
      <3>1. PICK outcome \in {"structure_error", "crash"} : Become(f, Closing(fl, outcome))
        BY <2>8 DEF PageFails, fl
      <3> QED BY <2>2, <2>4, <3>1
    <2>9. CASE PageReady(f)
      <3>1. fl.pc = "page" /\ fl.lag = 0 /\ fl.verdict = "none"
        BY <2>1, <2>9 DEF PageReady, At, Fields, fl
      <3>2. Remaining \in Nat /\ Remaining = Interval - phase /\ Remaining > 0
        BY DEF Remaining, TypeOK
      <3> DEFINE asleep == [fl EXCEPT !.pc = "totp_sleep", !.timer = Remaining]
      <3>3. /\ asleep.pc = "totp_sleep" /\ asleep.timer = Remaining
            /\ asleep.lag = 0 /\ asleep.verdict = "none"
        BY <2>1, <3>1 DEF FlightStates
      <3> HIDE DEF asleep
      <3>4. Fields(asleep) /\ Window(asleep)
        BY <2>1, <3>2, <3>3 DEF Fields, Window
      <3>5. CASE Remaining < MinValidity
        <4>1. Become(f, asleep)
          BY <2>9, <3>5 DEF PageReady, asleep, fl
        <4> QED BY <2>2, <3>4, <4>1
      <3>6. CASE ~(Remaining < MinValidity)
        <4>1. Become(f, WithCode(fl))
          BY <2>9, <3>6 DEF PageReady, fl
        <4>2. Remaining + fl.lag >= MinValidity
          BY <3>1, <3>2, <3>6
        <4> QED BY <2>1, <2>2, <3>1, <4>1, <4>2, WithCodeOK
      <3> QED BY <3>5, <3>6
    <2>10. CASE WakeForTotp(f)
      <3>1. fl.pc = "totp_sleep" /\ fl.timer = 0 /\ fl.verdict = "none"
        BY <2>1, <2>10 DEF WakeForTotp, At, Fields, fl
      <3>2. fl.lag < Interval => phase = fl.lag
        BY <2>1, <3>1 DEF Window
      <3>3. fl.lag < Interval => Remaining + fl.lag >= Interval
        BY <2>1, <3>2 DEF Remaining, TypeOK, FlightStates
      <3>4. Become(f, WithCode(fl))
        BY <2>10 DEF WakeForTotp, fl
      <3> QED BY <2>1, <2>2, <3>1, <3>3, <3>4, WithCodeOK
    <2>11. CASE SubmitTotp(f)
      <3> DEFINE judged(v) == [fl EXCEPT !.pc = "submitted", !.verdict = v,
                                         !.lag = 0, !.codeLeft = 0]
      <3>1. PICK v \in {"accepted", "rejected"} : Become(f, judged(v))
        BY <2>11 DEF SubmitTotp, fl
      <3>2. judged(v).pc = "submitted" /\ judged(v).lag = 0
        BY <2>1 DEF FlightStates
      <3> HIDE DEF judged
      <3>3. Fields(judged(v)) /\ Window(judged(v))
        BY <3>2 DEF Fields, Window
      <3> QED BY <2>2, <3>1, <3>3
    <2>12. CASE AwaitRedirect(f)
      <3>1. \/ fl.verdict = "accepted" /\ Become(f, Closing(fl, "token"))
            \/ Become(f, Closing(fl, "auth_error"))
            \/ Become(f, Closing(fl, "crash"))
        BY <2>12 DEF AwaitRedirect, ReadRedirect, fl
      <3> QED BY <2>2, <2>4, <3>1
    <2>13. CASE CloseBrowser(f)
      BY <2>5, <2>13 DEF CloseBrowser
    <2>14. CASE BackoffOver(f)
      <3> DEFINE again == [fl EXCEPT !.pc = "attempt", !.attempt = fl.attempt + 1]
      <3>1. fl.pc = "backoff"
        BY <2>14 DEF BackoffOver, At, fl
      <3>2. again.pc = "attempt" /\ again.lag = 0 /\ again.verdict = "none"
        BY <2>1, <3>1 DEF FlightStates, Fields
      <3>3. Become(f, again)
        BY <2>14 DEF BackoffOver, fl
      <3> HIDE DEF again
      <3> QED BY <2>2, <3>2, <3>3, Quiet
    <2>15. CASE Abort(f)
      <3> DEFINE closing == Closing(fl, "cancelled")
                 unwinding == [closing EXCEPT !.cancelled = FALSE]
      <3>1. Fields(closing) /\ Window(closing) /\ closing \in FlightStates
        BY <2>1, <2>4, FlightTypes DEF Outcomes
      <3> HIDE DEF closing
      <3>2. Fields(unwinding) /\ Window(unwinding)
        BY <3>1 DEF Fields, Window, FlightStates
      <3> HIDE DEF unwinding
      <3>3. \/ Become(f, unwinding)
            \/ LeaveAttempt(f, "cancelled")
            \/ Become(f, Done("cancelled"))
        BY <2>15 DEF Abort, unwinding, closing, fl
      <3> QED BY <2>2, <2>5, <3>2, <3>3, QuietStates
    <2> QED BY <1>6, <2>6, <2>7, <2>8, <2>9, <2>10, <2>11, <2>12, <2>13, <2>14, <2>15
            DEF FlightStep, OutsideStep, LoopStep
  <1>7. CASE Tick
    <2> SUFFICES ASSUME NEW f \in Flights PROVE Fields(flight[f])' /\ Window(flight[f])'
      OBVIOUS
    <2> DEFINE fl == flight[f]
               later == flight'[f]
    <2>1. fl \in FlightStates /\ Fields(fl) /\ Window(fl)
      BY <1>7 DEF TypeOK
    <2>2. /\ later.pc = fl.pc /\ later.verdict = fl.verdict /\ later.outcome = fl.outcome
          /\ later.timer = Less(fl.timer) /\ later.codeLeft = Less(fl.codeLeft)
          /\ later.lag = IF Overdue(fl) /\ fl.lag < Interval THEN fl.lag + 1 ELSE fl.lag
      BY <1>7 DEF Tick, Elapsed, TypeOK, FlightStates
    <2>3. phase \in 0..Interval - 1
          /\ phase' = IF phase + 1 = Interval THEN 0 ELSE phase + 1
      BY <1>7 DEF Tick, TypeOK
    <2>4. fl.timer \in Nat /\ fl.lag \in 0..Interval /\ fl.codeLeft \in 0..Interval
      BY <2>1 DEF FlightStates
    <2> HIDE DEF fl, later
    <2>5. Fields(later)
      BY <2>1, <2>2 DEF Fields, Overdue
    <2>6. CASE fl.pc = "totp_sleep" /\ fl.timer = 0
      <3>1. fl.lag < Interval => phase = fl.lag
        BY <2>1, <2>6 DEF Window
      <3>2. /\ later.pc = "totp_sleep" /\ later.timer = 0
            /\ later.lag = IF fl.lag < Interval THEN fl.lag + 1 ELSE fl.lag
        BY <2>2, <2>6 DEF Less, Overdue
      <3>3. later.lag < Interval => phase' = later.lag
        BY <2>3, <2>4, <3>1, <3>2
      <3> QED BY <2>5, <3>2, <3>3 DEF Window, Fields, later
    <2>7. CASE fl.pc = "totp_sleep" /\ fl.timer # 0
      <3>1. phase + fl.timer = Interval /\ fl.lag = 0
        BY <2>1, <2>7 DEF Window
      <3>2. /\ later.pc = "totp_sleep" /\ later.timer = fl.timer - 1
            /\ later.lag = 0
        BY <2>2, <2>4, <2>7, <3>1 DEF Less, Overdue
      <3>3. CASE fl.timer = 1
        <4>1. phase' = 0 /\ later.timer = 0
          BY <2>3, <2>4, <3>1, <3>2, <3>3
        <4> QED BY <2>5, <3>2, <4>1 DEF Window, Fields, later
      <3>4. CASE fl.timer # 1
        <4>1. phase' + later.timer = Interval /\ later.timer # 0
          BY <2>3, <2>4, <2>7, <3>1, <3>2, <3>4
        <4> QED BY <2>5, <3>2, <4>1 DEF Window, Fields, later
      <3> QED BY <3>3, <3>4
    <2>8. CASE fl.pc = "typing"
      <3>1. fl.lag < Interval => \/ fl.codeLeft + fl.lag >= MinValidity
                                 \/ fl.codeLeft + fl.lag >= Interval
        BY <2>1, <2>8 DEF Window
      <3>2. /\ later.pc = "typing"
            /\ later.lag = IF fl.lag < Interval THEN fl.lag + 1 ELSE fl.lag
            /\ later.codeLeft = IF fl.codeLeft > 0 THEN fl.codeLeft - 1 ELSE 0
        BY <2>2, <2>8 DEF Less, Overdue
      <3>3. later.lag < Interval => \/ later.codeLeft + later.lag >= MinValidity
                                    \/ later.codeLeft + later.lag >= Interval
        BY <2>4, <3>1, <3>2
      <3> QED BY <2>5, <3>2, <3>3 DEF Window, Fields, later
    <2>9. CASE fl.pc \notin {"totp_sleep", "typing"}
      BY <2>2, <2>5, <2>9 DEF Window, Fields, later
    <2> QED BY <2>6, <2>7, <2>8, <2>9
  <1>9. ASSUME NEW c \in Callers, CancelLate(c) PROVE FlightOK'
    BY <1>9 DEF CancelLate, Fields, Window
  <1>8. CASE UNCHANGED vars
    BY <1>8 DEF vars, Fields, Window
  <1> QED BY <1>1, <1>2, <1>3, <1>4, <1>5, <1>6, <1>7, <1>8, <1>9 DEF Next

LEMMA FlightOKHolds == Spec => []FlightOK
  <1>1. Init => FlightOK
    BY QuietStates DEF Init, FlightOK
  <1>2. TypeOK /\ FlightOK /\ [Next]_vars => FlightOK'
    BY FlightOKStep
  <1> QED BY <1>1, <1>2, TypeCorrect, PTL DEF Spec

\* For any window and headroom, a code held no longer than the headroom is in its window.
THEOREM SubmittedInWindowHolds == Spec => []SubmittedInWindow
  <1>1. TypeOK /\ FlightOK => SubmittedInWindow
    <2> SUFFICES ASSUME TypeOK, FlightOK, NEW f \in Flights, flight[f].pc = "typing",
                        flight[f].lag < MinValidity, flight[f].lag < Interval
                 PROVE  flight[f].codeLeft > 0
      BY DEF SubmittedInWindow
    <2>1. /\ flight[f].lag \in Nat /\ flight[f].codeLeft \in Nat
          /\ \/ flight[f].codeLeft + flight[f].lag >= MinValidity
             \/ flight[f].codeLeft + flight[f].lag >= Interval
      BY DEF TypeOK, FlightStates, FlightOK, Window
    <2> QED BY <2>1
  <1> QED BY <1>1, TypeCorrect, FlightOKHolds, PTL

------------------------------------------------------------------------------
(* The lockout budget. *)

LockoutInv == BreakerOK /\ AdmittedOK /\ CountOK

\* While a flight drives a browser no other does, nor has a verdict outstanding.
LEMMA Alone ==
    ASSUME SingleFlight, FlightOK, NEW f \in Flights, Live(f), NEW g \in Flights \ {f}
    PROVE  flight[g].pc \notin LivePcs /\ flight[g].verdict = "none"
  <1>1. flight[g].pc \notin LivePcs
    BY DEF SingleFlight, Live
  <1>2. flight[g].pc \notin {"submitted", "closing"}
    BY <1>1 DEF LivePcs, BrowserPcs
  <1> QED BY <1>1, <1>2 DEF FlightOK, Fields

\* Steps that change neither the breaker, nor a verdict, nor the server's count.
LEMMA LockoutFrame ==
    ASSUME LockoutInv, UNCHANGED <<breaker, rejects, rejectAge, unrecorded>>,
           \A g \in Flights :
               /\ flight'[g].verdict = flight[g].verdict
               /\ flight'[g].pc \in BrowserPcs => flight[g].pc \in BrowserPcs
    PROVE  LockoutInv'
  <1>1. BreakerOK'
    BY DEF LockoutInv, BreakerOK
  <1>2. AdmittedOK'
    BY DEF LockoutInv, AdmittedOK
  <1>3. Pending' <=> Pending
    BY DEF Pending
  <1>4. CountOK'
    BY <1>3 DEF LockoutInv, CountOK
  <1> QED BY <1>1, <1>2, <1>4 DEF LockoutInv

\* What the breaker does with a failure it counts.
LEMMA RecordFailureOK ==
    ASSUME TypeOK, BreakerOK, breaker' = RecordFailure(breaker)
    PROVE  /\ BreakerOK'
           /\ breaker'.failures = breaker.failures + 1
           /\ breaker'.state # "closed" => breaker'.age = 0
  <1>1. breaker \in Breakers
    BY DEF TypeOK
  <1>2. CASE breaker.failures + 1 >= FailureThreshold
    <2>1. breaker' = [state |-> "open", failures |-> breaker.failures + 1, age |-> 0]
      BY <1>2 DEF RecordFailure
    <2> QED BY <1>1, <1>2, <2>1 DEF BreakerOK, NotOpened
  <1>3. CASE ~(breaker.failures + 1 >= FailureThreshold)
    <2>1. breaker' = [breaker EXCEPT !.failures = breaker.failures + 1]
      BY <1>1, <1>3 DEF RecordFailure, Breakers
    <2>2. /\ breaker'.failures = breaker.failures + 1 /\ breaker.failures \in Nat
          /\ breaker'.state = breaker.state /\ breaker'.age = breaker.age
      BY <1>1, <2>1 DEF Breakers
    <2>3. breaker.state = "closed"
      BY <1>3, <2>2 DEF BreakerOK
    <2> QED BY <1>3, <2>2, <2>3 DEF BreakerOK
  <1> QED BY <1>2, <1>3

\* An attempt ends: the verdict is settled, with the breaker or as unrecorded.
LEMMA LeaveAttemptOK ==
    ASSUME TypeOK, SingleFlight, FlightOK, LockoutInv, NEW f \in Flights,
           NEW outcome \in Outcomes, flight[f].pc = "closing", LeaveAttempt(f, outcome),
           outcome = "token" => flight[f].verdict = "accepted",
           UNCHANGED <<rejects, rejectAge>>
    PROVE  LockoutInv'
  <1> DEFINE fl == flight[f]
  <1>1. Live(f)
    BY DEF Live, LivePcs, BrowserPcs
  <1>2. \A g \in Flights : flight'[g].verdict = "none" /\ flight'[g].pc \notin BrowserPcs
    <2> DEFINE back == [Blank EXCEPT !.pc = "backoff", !.attempt = fl.attempt,
                                     !.timer = Backoff(fl.attempt)]
    <2>1. /\ back.verdict = "none" /\ back.pc \notin BrowserPcs
          /\ Done(outcome).verdict = "none" /\ Done(outcome).pc \notin BrowserPcs
      BY DEF Blank, Done, BrowserPcs
    <2>2. Become(f, back) \/ Become(f, Done(outcome))
      BY DEF LeaveAttempt
    <2> HIDE DEF back
    <2>3. flight'[f].verdict = "none" /\ flight'[f].pc \notin BrowserPcs
      BY <2>1, <2>2 DEF Become, TypeOK
    <2>4. ASSUME NEW g \in Flights \ {f}
          PROVE  flight'[g].verdict = "none" /\ flight'[g].pc \notin BrowserPcs
      <3>1. flight'[g] = flight[g]
        BY <2>2 DEF Become, TypeOK
      <3> QED BY <1>1, <3>1, Alone DEF LivePcs
    <2> QED BY <2>3, <2>4
  <1>3. ~Pending' /\ AdmittedOK'
    BY <1>2 DEF Pending, AdmittedOK
  <1>4. Pending => fl.verdict = "rejected"
    BY <1>1, Alone DEF Pending
  <1>5. breaker \in Breakers /\ rejects \in Nat /\ rejectAge \in Nat /\ breaker.failures \in Nat
    BY DEF TypeOK, Breakers
  <1>6. unrecorded' = Unrecorded(fl, outcome)
    BY DEF LeaveAttempt
  <1>7. ~unrecorded' => ~unrecorded /\ (fl.verdict = "rejected" => Counts(outcome))
    BY <1>6, Zenon DEF Unrecorded
  <1>8. ~unrecorded => rejects <= breaker.failures + (IF Pending THEN 1 ELSE 0)
    BY DEF LockoutInv, CountOK
  <1>9. CASE Counts(outcome)
    <2>1. breaker' = RecordFailure(breaker)
      BY <1>9 DEF LeaveAttempt, Counts
    <2>2. /\ BreakerOK' /\ breaker'.failures = breaker.failures + 1
          /\ breaker'.state # "closed" => breaker'.age = 0
      BY <2>1, RecordFailureOK DEF LockoutInv
    <2>3. ~unrecorded' => rejects' <= breaker'.failures
      BY <1>5, <1>7, <1>8, <2>2
    <2>4. CountOK'
      BY <1>2, <1>3, <1>5, <2>2, <2>3 DEF CountOK
    <2> QED BY <1>3, <2>2, <2>4 DEF LockoutInv
  <1>10. CASE outcome = "token"
    <2>1. breaker' = NewBreaker
      BY <1>10 DEF LeaveAttempt, RecordSuccess, Counts
    <2>2. /\ breaker'.state = "closed" /\ breaker'.failures = 0
      BY <2>1 DEF NewBreaker
    <2>3. BreakerOK'
      BY <2>2 DEF BreakerOK
    <2>4. rejects' = 0
      BY <1>10 DEF LockoutInv, CountOK
    <2>5. CountOK'
      BY <1>2, <1>3, <2>2, <2>4 DEF CountOK
    <2> QED BY <1>3, <2>3, <2>5 DEF LockoutInv
  <1>11. CASE ~Counts(outcome) /\ outcome # "token"
    <2>1. breaker' = breaker
      BY <1>11 DEF LeaveAttempt
    <2>2. BreakerOK'
      BY <2>1 DEF LockoutInv, BreakerOK
    <2>3. ~unrecorded' => ~unrecorded /\ ~Pending
      BY <1>4, <1>7, <1>11
    <2>4. CountOK'
      BY <1>2, <1>3, <2>1, <2>3 DEF LockoutInv, CountOK
    <2> QED BY <1>3, <2>2, <2>4 DEF LockoutInv
  <1> QED BY <1>9, <1>10, <1>11

LEMMA LockoutInvStep ==
    ASSUME TypeOK, SingleFlight, FlightOK, LockoutInv, [Next]_vars
    PROVE  LockoutInv'
  <1> DEFINE unchanged == UNCHANGED <<breaker, rejects, rejectAge, unrecorded>>
  <1>1. ASSUME NEW c \in Callers, NEW f \in Flights, StartLogin(c, f) PROVE LockoutInv'
    <2>1. unchanged /\ flight' = [flight EXCEPT ![f] = NewFlight]
      BY <1>1 DEF StartLogin, serverVars
    <2>2. flight[f].verdict = "none"
      BY <1>1 DEF StartLogin, FlightOK, Fields
    <2>3. NewFlight.verdict = "none" /\ NewFlight.pc \notin BrowserPcs
      BY DEF NewFlight, Blank, BrowserPcs
    <2> QED BY <2>1, <2>2, <2>3, LockoutFrame DEF TypeOK
  <1>2. ASSUME NEW c \in Callers, JoinLogin(c) PROVE LockoutInv'
    BY <1>2, LockoutFrame DEF JoinLogin, serverVars
  <1>3. ASSUME NEW c \in Callers, CancelCaller(c) PROVE LockoutInv'
    <2>1. \A g \in Flights : /\ flight'[g].pc = flight[g].pc
                             /\ flight'[g].verdict = flight[g].verdict
      BY <1>3 DEF CancelCaller, TypeOK, FlightStates
    <2>2. unchanged
      BY <1>3 DEF CancelCaller, serverVars
    <2> QED BY <2>1, <2>2, LockoutFrame
  <1>4. ASSUME NEW c \in Callers, Return(c) PROVE LockoutInv'
    BY <1>4, LockoutFrame DEF Return, serverVars
  <1>5. ASSUME NEW f \in Flights, ClearInflight(f) PROVE LockoutInv'
    BY <1>5, LockoutFrame DEF ClearInflight, serverVars
  <1>6. ASSUME NEW f \in Flights, FlightStep(f) PROVE LockoutInv'
    <2> DEFINE fl == flight[f]
    <2>1. fl \in FlightStates /\ Fields(fl) /\ Live(f)
      BY <1>6, FlightStepFrame DEF TypeOK, FlightOK
    \* A step that only moves the flight on, outside or inside the browser.
    <2>2. ASSUME NEW state, Become(f, state), unchanged, state.verdict = fl.verdict,
                 state.pc \in BrowserPcs => fl.pc \in BrowserPcs
          PROVE  LockoutInv'
      <3>1. \A g \in Flights : flight'[g] = IF g = f THEN state ELSE flight[g]
        BY <2>2 DEF Become, TypeOK
      <3> QED BY <2>2, <3>1, LockoutFrame
    <2>3. \A outcome : /\ Closing(fl, outcome).pc = "closing"
                       /\ Closing(fl, outcome).verdict = fl.verdict
                       /\ Done(outcome).pc \notin BrowserPcs
                       /\ Done(outcome).verdict = "none"
      BY <2>1 DEF Closing, Done, Blank, FlightStates, BrowserPcs
    <2>4. WithCode(fl).verdict = fl.verdict
      BY <2>1 DEF WithCode, FlightStates
    <2> HIDE DEF fl
    <2>5. CASE CheckClock(f)
      <3>1. fl.verdict = "none" /\ unchanged
        BY <2>1, <2>5 DEF CheckClock, At, Fields, serverVars, fl
      <3>2. /\ [fl EXCEPT !.pc = "attempt"].verdict = "none"
            /\ [fl EXCEPT !.pc = "attempt"].pc \notin BrowserPcs
        BY <2>1, <3>1 DEF FlightStates, BrowserPcs
      <3>3. Become(f, [fl EXCEPT !.pc = "attempt"]) \/ Become(f, Done("clock_error"))
        BY <2>5 DEF CheckClock, fl
      <3> QED BY <2>2, <2>3, <3>1, <3>2, <3>3
    <2>6. CASE Attempt(f)
      <3>1. fl.verdict = "none" /\ UNCHANGED <<rejects, rejectAge, unrecorded>>
        BY <2>1, <2>6 DEF Attempt, At, Fields, serverVars, fl
      <3>2. CASE Become(f, Done("lockout")) /\ UNCHANGED breaker
        BY <2>2, <2>3, <3>1, <3>2
      <3>3. CASE /\ ~Refuses(breaker)
                 /\ Become(f, [fl EXCEPT !.pc = "page"])
                 /\ breaker' = Admit(breaker)
        <4>1. \A g \in Flights : flight'[g].verdict = flight[g].verdict
          <5>1. [fl EXCEPT !.pc = "page"].verdict = fl.verdict
            BY <2>1 DEF FlightStates
          <5> QED BY <3>3, <5>1 DEF Become, TypeOK, fl
        <4>2. /\ breaker'.failures = breaker.failures /\ breaker'.age = breaker.age
              /\ breaker'.state = IF breaker.state = "open" THEN "half_open" ELSE breaker.state
          BY <3>3 DEF Admit, TypeOK, Breakers
        <4>3. breaker.state = "open" => breaker.age = RecoveryTimeout
          <5>1. /\ breaker.age \in NotOpened..RecoveryTimeout
                /\ breaker.state = "open" => breaker.age >= RecoveryTimeout
            BY <3>3 DEF Refuses, CanProbe, TypeOK, Breakers
          <5> QED BY <5>1 DEF NotOpened
        <4>4. BreakerOK'
          BY <4>2, <4>3 DEF LockoutInv, BreakerOK
        <4>5. AdmittedOK'
          BY <4>2 DEF AdmittedOK
        <4>6. Pending' <=> Pending
          BY <4>1 DEF Pending
        <4>7. CountOK'
          BY <3>1, <4>1, <4>2, <4>6 DEF LockoutInv, CountOK
        <4> QED BY <4>4, <4>5, <4>7 DEF LockoutInv
      <3> QED BY <2>6, <3>2, <3>3 DEF Attempt, fl
    <2>7. CASE PageFails(f)
      <3>1. fl.pc \in BrowserPcs /\ unchanged
        BY <2>7 DEF PageFails, At, BrowserPcs, serverVars, fl
      <3>2. PICK outcome \in {"structure_error", "crash"} : Become(f, Closing(fl, outcome))
        BY <2>7 DEF PageFails, fl
      <3> QED BY <2>2, <2>3, <3>1, <3>2
    <2>8. CASE PageReady(f)
      <3> DEFINE asleep == [fl EXCEPT !.pc = "totp_sleep", !.timer = Remaining]
      <3>1. fl.pc \in BrowserPcs /\ unchanged
        BY <2>8 DEF PageReady, At, BrowserPcs, serverVars, fl
      <3>2. asleep.verdict = fl.verdict
        BY <2>1 DEF FlightStates
      <3>3. Become(f, asleep) \/ Become(f, WithCode(fl))
        BY <2>8 DEF PageReady, fl
      <3> QED BY <2>2, <2>4, <3>1, <3>2, <3>3
    <2>9. CASE WakeForTotp(f)
      <3>1. fl.pc \in BrowserPcs /\ unchanged /\ Become(f, WithCode(fl))
        BY <2>9 DEF WakeForTotp, At, BrowserPcs, serverVars, fl
      <3> QED BY <2>2, <2>4, <3>1
    <2>10. CASE SubmitTotp(f)
      <3> DEFINE judged(v) == [fl EXCEPT !.pc = "submitted", !.verdict = v,
                                         !.lag = 0, !.codeLeft = 0]
      <3>1. fl.pc = "typing" /\ fl.pc \in BrowserPcs /\ fl.verdict = "none"
        BY <2>1, <2>10 DEF SubmitTotp, At, BrowserPcs, Fields, fl
      <3>2. ~Pending
        BY <2>1, <3>1, Alone DEF Pending, fl
      <3>3. \A g \in Flights \ {f} : flight'[g] = flight[g] /\ flight[g].verdict = "none"
        BY <1>6, <2>1, FlightStepFrame, Alone
      <3>4. PICK v \in {"accepted", "rejected"} :
                /\ flight'[f].verdict = v
                /\ v = "accepted" => /\ rejects' = 0 /\ rejectAge' = RecoveryTimeout
                                     /\ unrecorded' = FALSE
                /\ v = "rejected" => /\ rejects' = rejects + 1 /\ rejectAge' = 0
                                     /\ unrecorded' = unrecorded
        <4>1. \A v : judged(v).verdict = v
          BY <2>1 DEF FlightStates
        <4>2. PICK v \in {"accepted", "rejected"} :
                /\ Become(f, judged(v))
                /\ v = "accepted" => /\ rejects' = 0 /\ rejectAge' = RecoveryTimeout
                                     /\ unrecorded' = FALSE
                /\ v = "rejected" => /\ rejects' = rejects + 1 /\ rejectAge' = 0
                                     /\ unrecorded' = unrecorded
          BY <2>10 DEF SubmitTotp, fl
        <4> HIDE DEF judged
        <4>3. flight'[f] = judged(v)
          BY <4>2 DEF Become, TypeOK
        <4> QED BY <4>1, <4>2, <4>3
      <3>5. breaker' = breaker
        BY <2>10 DEF SubmitTotp
      <3>6. BreakerOK'
        BY <3>5 DEF LockoutInv, BreakerOK
      <3>7. AdmittedOK'
        <4>1. breaker.state # "open"
          BY <3>1 DEF LockoutInv, AdmittedOK, fl
        <4> QED BY <3>5, <4>1 DEF AdmittedOK
      <3>8. rejects \in Nat /\ breaker.failures \in Nat /\ breaker.age <= RecoveryTimeout
        BY DEF TypeOK, Breakers, NotOpened
      <3>9. CASE v = "accepted"
        <4>1. ~Pending' /\ rejects' = 0 /\ rejectAge' >= breaker'.age
          BY <3>3, <3>4, <3>5, <3>8, <3>9 DEF Pending
        <4>2. CountOK'
          BY <3>5, <3>8, <4>1 DEF CountOK
        <4> QED BY <3>6, <3>7, <4>2 DEF LockoutInv
      <3>10. CASE v = "rejected"
        <4>1. Pending' /\ \A g \in Flights : flight'[g].verdict # "accepted"
          BY <3>3, <3>4, <3>10 DEF Pending
        <4>2. ~unrecorded => rejects <= breaker.failures
          BY <3>2, <3>8 DEF LockoutInv, CountOK
        <4>3. ~unrecorded' => rejects' <= breaker'.failures + 1
          BY <3>4, <3>5, <3>8, <3>10, <4>2
        <4>4. CountOK'
          BY <4>1, <4>3 DEF CountOK
        <4> QED BY <3>6, <3>7, <4>4 DEF LockoutInv
      <3> QED BY <3>9, <3>10
    <2>11. CASE AwaitRedirect(f)
      <3>1. fl.pc \in BrowserPcs /\ unchanged
        BY <2>11 DEF AwaitRedirect, At, BrowserPcs, serverVars, fl
      <3>2. PICK outcome \in {"token", "auth_error", "crash"} : Become(f, Closing(fl, outcome))
        BY <2>11 DEF AwaitRedirect, ReadRedirect, fl
      <3> QED BY <2>2, <2>3, <3>1, <3>2
    <2>12. CASE CloseBrowser(f)
      <3>1. /\ fl.pc = "closing" /\ UNCHANGED <<rejects, rejectAge>>
            /\ fl.outcome \in Outcomes /\ "crash" \in Outcomes
        BY <2>1, <2>12 DEF CloseBrowser, At, serverVars, FlightStates, Outcomes, fl
      <3>2. fl.outcome = "token" => fl.verdict = "accepted"
        BY <2>1, <3>1 DEF Fields
      <3>3. CASE LeaveAttempt(f, fl.outcome)
        BY <3>1, <3>2, <3>3, LeaveAttemptOK DEF fl
      <3>4. CASE LeaveAttempt(f, "crash")
        BY <3>1, <3>4, LeaveAttemptOK DEF fl
      <3> QED BY <2>12, <3>3, <3>4 DEF CloseBrowser, fl
    <2>13. CASE BackoffOver(f)
      <3> DEFINE again == [fl EXCEPT !.pc = "attempt", !.attempt = fl.attempt + 1]
      <3>1. unchanged
        BY <2>13 DEF BackoffOver, serverVars
      <3>2. again.verdict = fl.verdict /\ again.pc \notin BrowserPcs
        BY <2>1 DEF FlightStates, BrowserPcs
      <3>3. Become(f, again)
        BY <2>13 DEF BackoffOver, fl
      <3> HIDE DEF again
      <3> QED BY <2>2, <3>1, <3>2, <3>3
    <2>14. CASE Abort(f)
      <3> DEFINE closing == Closing(fl, "cancelled")
                 unwinding == [closing EXCEPT !.cancelled = FALSE]
      <3>1. UNCHANGED <<rejects, rejectAge>>
        BY <2>14 DEF Abort, serverVars
      <3>2. CASE /\ fl.pc \in BrowserPcs /\ Become(f, unwinding)
                 /\ UNCHANGED <<breaker, unrecorded>>
        <4>1. closing \in FlightStates
          BY <2>1, FlightTypes DEF Outcomes
        <4> HIDE DEF closing
        <4>2. unwinding.verdict = closing.verdict
          BY <4>1 DEF FlightStates
        <4>3. unwinding.verdict = fl.verdict
          BY <2>3, <4>2 DEF closing
        <4> HIDE DEF unwinding
        <4> QED BY <2>2, <3>1, <3>2, <4>3
      <3>3. CASE fl.pc = "closing" /\ LeaveAttempt(f, "cancelled")
        BY <3>1, <3>3, LeaveAttemptOK DEF Outcomes, fl
      <3>4. CASE /\ fl.pc \notin BrowserPcs /\ Become(f, Done("cancelled"))
                 /\ UNCHANGED <<breaker, unrecorded>>
        <4>1. fl.verdict = "none"
          BY <2>1, <3>4 DEF Fields, BrowserPcs
        <4> QED BY <2>2, <2>3, <3>1, <3>4, <4>1
      <3> QED BY <2>14, <3>2, <3>3, <3>4 DEF Abort, fl
    <2> QED BY <1>6, <2>5, <2>6, <2>7, <2>8, <2>9, <2>10, <2>11, <2>12, <2>13, <2>14
            DEF FlightStep, OutsideStep, LoopStep
  <1>7. CASE Tick
    <2>1. \A g \in Flights : /\ flight'[g].pc = flight[g].pc
                             /\ flight'[g].verdict = flight[g].verdict
      BY <1>7 DEF Tick, Elapsed, TypeOK, FlightStates
    <2>2. /\ breaker'.state = breaker.state /\ breaker'.failures = breaker.failures
          /\ breaker'.age = IF breaker.age = NotOpened THEN NotOpened ELSE Older(breaker.age)
      BY <1>7 DEF Tick, Elapse, TypeOK, Breakers
    <2>3. /\ breaker.age \in NotOpened..RecoveryTimeout /\ rejectAge \in 0..RecoveryTimeout
          /\ rejectAge' = Older(rejectAge) /\ UNCHANGED <<rejects, unrecorded>>
      BY <1>7 DEF Tick, TypeOK, Breakers
    <2>4. BreakerOK'
      BY <2>2, <2>3 DEF LockoutInv, BreakerOK, Older, NotOpened
    <2>5. AdmittedOK'
      BY <2>1, <2>2 DEF LockoutInv, AdmittedOK
    <2>6. Pending' <=> Pending
      BY <2>1 DEF Pending
    <2>7. breaker.age # NotOpened /\ rejectAge >= breaker.age => rejectAge' >= breaker'.age
      BY <2>2, <2>3 DEF Older, NotOpened
    <2>8. CountOK'
      BY <2>1, <2>2, <2>3, <2>6, <2>7 DEF LockoutInv, BreakerOK, CountOK
    <2> QED BY <2>4, <2>5, <2>8 DEF LockoutInv
  <1>9. ASSUME NEW c \in Callers, CancelLate(c) PROVE LockoutInv'
    BY <1>9, LockoutFrame DEF CancelLate, serverVars
  <1>8. CASE UNCHANGED vars
    BY <1>8, LockoutFrame DEF vars
  <1> QED BY <1>1, <1>2, <1>3, <1>4, <1>5, <1>6, <1>7, <1>8, <1>9 DEF Next

LEMMA LockoutInvHolds == Spec => []LockoutInv
  <1>1. Init => LockoutInv
    BY DEF Init, Blank, NewBreaker, LockoutInv, BreakerOK, AdmittedOK, CountOK, Pending,
           NotOpened, BrowserPcs
  <1>2. TypeOK /\ SingleFlight /\ FlightOK /\ LockoutInv /\ [Next]_vars => LockoutInv'
    BY LockoutInvStep
  <1> QED BY <1>1, <1>2, TypeCorrect, SingleFlightHolds, FlightOKHolds, PTL DEF Spec

\* While every rejection reaches the breaker, one beyond the threshold comes a
\* full cooldown after the one before it.
THEOREM LockoutBudgetHolds == Spec => LockoutBudget
  <1> DEFINE Spaced == Rejected /\ rejects >= FailureThreshold /\ ~unrecorded
                           => rejectAge = RecoveryTimeout
  <1>1. TypeOK /\ SingleFlight /\ FlightOK /\ LockoutInv /\ [Next]_vars => [Spaced]_vars
    <2> SUFFICES ASSUME TypeOK, SingleFlight, FlightOK, LockoutInv, Next,
                        Rejected, rejects >= FailureThreshold, ~unrecorded
                 PROVE  rejectAge = RecoveryTimeout
      OBVIOUS
    <2>1. rejects \in Nat /\ rejects' # rejects
      BY DEF TypeOK, Rejected
    <2>2. PICK f \in Flights : SubmitTotp(f)
      BY <2>1 DEF Next, StartLogin, JoinLogin, CancelCaller, CancelLate, Return, ClearInflight, Tick,
                  FlightStep, OutsideStep, LoopStep, CheckClock, Attempt, PageFails, PageReady, WakeForTotp,
                  AwaitRedirect, CloseBrowser, BackoffOver, Abort, serverVars
    <2>3. flight[f].pc = "typing" /\ flight[f].verdict = "none"
      BY <2>2 DEF SubmitTotp, At, FlightOK, Fields
    <2>4. Live(f) /\ breaker.state # "open"
      BY <2>3 DEF Live, LivePcs, BrowserPcs, LockoutInv, AdmittedOK
    <2>5. ~Pending
      BY <2>3, <2>4, Alone DEF Pending
    <2>6. /\ breaker.failures \in Nat /\ breaker.state \in {"closed", "open", "half_open"}
          /\ rejectAge \in 0..RecoveryTimeout
      BY DEF TypeOK, Breakers
    <2>7. breaker.failures >= FailureThreshold
      BY <2>1, <2>5, <2>6 DEF LockoutInv, CountOK
    <2>8. breaker.state = "half_open" /\ breaker.age = RecoveryTimeout
      BY <2>4, <2>6, <2>7 DEF LockoutInv, BreakerOK
    <2>9. rejectAge >= breaker.age
      BY <2>5, <2>8 DEF LockoutInv, CountOK
    <2> QED BY <2>6, <2>8, <2>9
  <1> QED BY <1>1, TypeCorrect, SingleFlightHolds, FlightOKHolds, LockoutInvHolds, PTL
          DEF Spec, LockoutBudget

------------------------------------------------------------------------------
(* The login is the shared one. *)

\* A flight that has begun to end knows how, one that is awaited or known to new
\* callers has started, and one that runs has a caller: cancelling a caller cancels
\* the flight, but the caller goes on waiting for it.  Who withdraws awaits a flight
\* that is done.
Settled(fl) == fl.pc \in {"closing", "done"} => fl.outcome # "none"

SharedInv ==
    /\ \A f \in Flights : Settled(flight[f])
    /\ \A c \in Callers : awaiting[c] # NoFlight => flight[awaiting[c]].pc # "unused"
    /\ inflight # NoFlight => flight[inflight].pc # "unused"
    /\ \A f \in Flights : Live(f) => \E c \in Callers : awaiting[c] = f
    /\ \A c \in Callers : c \in withdrawn =>
           awaiting[c] # NoFlight /\ flight[awaiting[c]].pc = "done"

\* A step keeps a flight on its way, and ends it with an outcome.
LEMMA FlightStepSettles ==
    ASSUME TypeOK, SharedInv, NEW f \in Flights, FlightStep(f)
    PROVE  Settled(flight'[f]) /\ flight'[f].pc # "unused"
  <1> DEFINE fl == flight[f]
  <1>1. fl \in FlightStates /\ Settled(fl)
    BY DEF TypeOK, SharedInv
  <1>2. ASSUME NEW state, Become(f, state), Settled(state), state.pc # "unused"
        PROVE  Settled(flight'[f]) /\ flight'[f].pc # "unused"
    BY <1>2 DEF Become, TypeOK
  <1>3. \A outcome \in Outcomes \ {"none"} :
            /\ Settled(Done(outcome)) /\ Done(outcome).pc = "done"
            /\ Settled(Closing(fl, outcome)) /\ Closing(fl, outcome).pc = "closing"
    BY <1>1 DEF Done, Blank, Closing, Settled, FlightStates
  <1>4. Settled(WithCode(fl)) /\ WithCode(fl).pc = "typing"
    BY <1>1 DEF WithCode, Settled, FlightStates
  <1>5. ASSUME NEW outcome \in Outcomes \ {"none"}, LeaveAttempt(f, outcome)
        PROVE  Settled(flight'[f]) /\ flight'[f].pc # "unused"
    <2> DEFINE back == [Blank EXCEPT !.pc = "backoff", !.attempt = fl.attempt,
                                     !.timer = Backoff(fl.attempt)]
    <2>1. back.pc = "backoff"
      BY DEF Blank
    <2>2. Become(f, back) \/ Become(f, Done(outcome))
      BY <1>5 DEF LeaveAttempt
    <2> HIDE DEF back, fl
    <2>3. Settled(back)
      BY <2>1 DEF Settled
    <2> QED BY <1>2, <1>3, <2>1, <2>2, <2>3
  <1> HIDE DEF fl
  <1>6. {"token", "auth_error", "structure_error", "crash", "lockout", "clock_error",
         "cancelled"} \subseteq Outcomes \ {"none"}
    BY DEF Outcomes
  <1>7. CASE CheckClock(f)
    <2>1. Become(f, [fl EXCEPT !.pc = "attempt"]) \/ Become(f, Done("clock_error"))
      BY <1>7 DEF CheckClock, fl
    <2>2. [fl EXCEPT !.pc = "attempt"].pc = "attempt"
      BY <1>1 DEF FlightStates
    <2>3. Settled([fl EXCEPT !.pc = "attempt"])
      BY <2>2 DEF Settled
    <2> QED BY <1>2, <1>3, <1>6, <2>1, <2>2, <2>3
  <1>8. CASE Attempt(f)
    <2>1. Become(f, [fl EXCEPT !.pc = "page"]) \/ Become(f, Done("lockout"))
      BY <1>8 DEF Attempt, fl
    <2>2. [fl EXCEPT !.pc = "page"].pc = "page"
      BY <1>1 DEF FlightStates
    <2>3. Settled([fl EXCEPT !.pc = "page"])
      BY <2>2 DEF Settled
    <2> QED BY <1>2, <1>3, <1>6, <2>1, <2>2, <2>3
  <1>9. CASE PageFails(f)
    <2>1. PICK outcome \in {"structure_error", "crash"} : Become(f, Closing(fl, outcome))
      BY <1>9 DEF PageFails, fl
    <2> QED BY <1>2, <1>3, <1>6, <2>1
  <1>10. CASE PageReady(f)
    <2> DEFINE asleep == [fl EXCEPT !.pc = "totp_sleep", !.timer = Remaining]
    <2>1. Become(f, asleep) \/ Become(f, WithCode(fl))
      BY <1>10 DEF PageReady, fl
    <2>2. asleep.pc = "totp_sleep"
      BY <1>1 DEF FlightStates
    <2> HIDE DEF asleep
    <2>3. Settled(asleep)
      BY <2>2 DEF Settled
    <2> QED BY <1>2, <1>4, <2>1, <2>2, <2>3
  <1>11. CASE WakeForTotp(f)
    <2>1. Become(f, WithCode(fl))
      BY <1>11 DEF WakeForTotp, fl
    <2> QED BY <1>2, <1>4, <2>1
  <1>12. CASE SubmitTotp(f)
    <2> DEFINE judged(v) == [fl EXCEPT !.pc = "submitted", !.verdict = v,
                                       !.lag = 0, !.codeLeft = 0]
    <2>1. PICK v \in {"accepted", "rejected"} : Become(f, judged(v))
      BY <1>12 DEF SubmitTotp, fl
    <2>2. judged(v).pc = "submitted"
      BY <1>1 DEF FlightStates
    <2> HIDE DEF judged
    <2>3. Settled(judged(v))
      BY <2>2 DEF Settled
    <2> QED BY <1>2, <2>1, <2>2, <2>3
  <1>13. CASE AwaitRedirect(f)
    <2>1. PICK outcome \in {"token", "auth_error", "crash"} : Become(f, Closing(fl, outcome))
      BY <1>13 DEF AwaitRedirect, ReadRedirect, fl
    <2> QED BY <1>2, <1>3, <1>6, <2>1
  <1>14. CASE CloseBrowser(f)
    <2>1. fl.outcome \in Outcomes \ {"none"}
      BY <1>1, <1>14 DEF CloseBrowser, At, Settled, FlightStates, fl
    <2>2. LeaveAttempt(f, fl.outcome) \/ LeaveAttempt(f, "crash")
      BY <1>14 DEF CloseBrowser, fl
    <2> QED BY <1>5, <1>6, <2>1, <2>2
  <1>15. CASE BackoffOver(f)
    <2> DEFINE again == [fl EXCEPT !.pc = "attempt", !.attempt = fl.attempt + 1]
    <2>1. Become(f, again)
      BY <1>15 DEF BackoffOver, fl
    <2>2. again.pc = "attempt"
      BY <1>1 DEF FlightStates
    <2> HIDE DEF again
    <2>3. Settled(again)
      BY <2>2 DEF Settled
    <2> QED BY <1>2, <2>1, <2>2, <2>3
  <1>16. CASE Abort(f)
    <2> DEFINE closing == Closing(fl, "cancelled")
               unwinding == [closing EXCEPT !.cancelled = FALSE]
    <2>1. Settled(closing) /\ closing.pc = "closing" /\ closing \in FlightStates
      BY <1>1, <1>3, <1>6, FlightTypes
    <2> HIDE DEF closing
    <2>2. Settled(unwinding) /\ unwinding.pc = "closing"
      BY <2>1 DEF Settled, FlightStates
    <2> HIDE DEF unwinding
    <2>3. \/ Become(f, unwinding)
          \/ LeaveAttempt(f, "cancelled")
          \/ Become(f, Done("cancelled"))
      BY <1>16 DEF Abort, unwinding, closing, fl
    <2> QED BY <1>2, <1>3, <1>5, <1>6, <2>2, <2>3
  <1> QED BY <1>7, <1>8, <1>9, <1>10, <1>11, <1>12, <1>13, <1>14, <1>15, <1>16
          DEF FlightStep, OutsideStep, LoopStep

\* Time ends no login.
LEMMA TickEnds ==
    ASSUME TypeOK, Tick, NEW g \in Flights
    PROVE  flight'[g].pc = flight[g].pc /\ flight'[g].outcome = flight[g].outcome
  <1>1. flight[g] \in FlightStates /\ flight'[g] = Elapsed(flight[g])
    BY DEF Tick, TypeOK
  <1>2. \A fl \in FlightStates : Elapsed(fl).pc = fl.pc /\ Elapsed(fl).outcome = fl.outcome
    BY DEF Elapsed, FlightStates
  <1> QED BY <1>1, <1>2

\* Nothing that SharedInv speaks of changes.
LEMMA SharedFrame ==
    ASSUME SharedInv, UNCHANGED <<awaiting, withdrawn, inflight>>,
           \A g \in Flights : /\ flight'[g].pc = flight[g].pc
                              /\ flight'[g].outcome = flight[g].outcome,
           TypeOK
    PROVE  SharedInv'
  <1>1. \A g \in Flights : Settled(flight'[g]) /\ (Live(g)' <=> Live(g))
    BY DEF SharedInv, Settled, Live
  <1>2. \A c \in Callers : awaiting[c] \in Flights \cup {NoFlight}
    BY DEF TypeOK
  <1>3. inflight \in Flights \cup {NoFlight}
    BY DEF TypeOK
  <1> QED BY <1>1, <1>2, <1>3 DEF SharedInv

LEMMA SharedInvStep ==
    ASSUME TypeOK, SingleFlight, SharedInv, [Next]_vars
    PROVE  SharedInv'
  <1>t. /\ \A c \in Callers : awaiting[c] \in Flights \cup {NoFlight}
        /\ inflight \in Flights \cup {NoFlight}
    BY DEF TypeOK
  <1>1. ASSUME NEW c \in Callers, NEW f \in Flights, StartLogin(c, f) PROVE SharedInv'
    <2>1. \A g \in Flights : flight'[g] = IF g = f THEN NewFlight ELSE flight[g]
      BY <1>1 DEF StartLogin, TypeOK
    <2>2. NewFlight.pc \in {"verify", "attempt"}
      BY DEF NewFlight, Blank
    <2>3. \A d \in Callers : awaiting'[d] = IF d = c THEN f ELSE awaiting[d]
      BY <1>1 DEF StartLogin, TypeOK
    <2>4. awaiting[c] = NoFlight /\ inflight' = f
          /\ withdrawn' = withdrawn
          /\ \A d \in Callers : awaiting[d] # f
      BY <1>1 DEF StartLogin
    <2>5. \A g \in Flights : Settled(flight'[g])
      BY <2>1, <2>2 DEF SharedInv, Settled
    <2>6. \A d \in Callers : awaiting'[d] # NoFlight => flight'[awaiting'[d]].pc # "unused"
      BY <1>t, <2>1, <2>2, <2>3, <2>4 DEF SharedInv
    <2>7. flight'[f].pc # "unused"
      BY <2>1, <2>2
    <2>8. \A g \in Flights : Live(g)' => \E d \in Callers : awaiting'[d] = g
      BY <2>1, <2>3, <2>4 DEF SharedInv, Live
    <2>9. \A d \in Callers : d \in withdrawn' =>
              awaiting'[d] # NoFlight /\ flight'[awaiting'[d]].pc = "done"
      BY <1>t, <2>1, <2>3, <2>4 DEF SharedInv
    <2> QED BY <2>4, <2>5, <2>6, <2>7, <2>8, <2>9 DEF SharedInv
  <1>2. ASSUME NEW c \in Callers, JoinLogin(c) PROVE SharedInv'
    <2>1. UNCHANGED <<withdrawn, inflight, flight>> /\ awaiting[c] = NoFlight
          /\ inflight # NoFlight
          /\ \A d \in Callers : awaiting'[d] = IF d = c THEN inflight ELSE awaiting[d]
      BY <1>2 DEF JoinLogin, TypeOK
    <2>2. \A g \in Flights : Live(g) => \E d \in Callers : awaiting'[d] = g
      BY <2>1 DEF SharedInv
    <2> QED BY <2>1, <2>2 DEF SharedInv, Live
  <1>3. ASSUME NEW c \in Callers, CancelCaller(c) PROVE SharedInv'
    <2>1. \A g \in Flights : /\ flight'[g].pc = flight[g].pc
                             /\ flight'[g].outcome = flight[g].outcome
      BY <1>3 DEF CancelCaller, TypeOK, FlightStates
    <2> QED BY <1>3, <2>1, SharedFrame DEF CancelCaller, callerVars
  <1>4. ASSUME NEW c \in Callers, Return(c) PROVE SharedInv'
    <2>1. UNCHANGED <<inflight, flight>> /\ flight[awaiting[c]].pc = "done"
          /\ withdrawn' = withdrawn \ {c}
          /\ \A d \in Callers : awaiting'[d] = IF d = c THEN NoFlight ELSE awaiting[d]
      BY <1>4 DEF Return, TypeOK
    <2>2. \A g \in Flights : Live(g) => awaiting[c] # g
      BY <2>1 DEF Live, LivePcs, BrowserPcs
    <2>3. \A g \in Flights : Live(g) => \E d \in Callers : awaiting'[d] = g
      BY <2>1, <2>2 DEF SharedInv
    <2> QED BY <2>1, <2>3 DEF SharedInv, Live
  <1>5. ASSUME NEW f \in Flights, ClearInflight(f) PROVE SharedInv'
    BY <1>5 DEF ClearInflight, SharedInv, Live
  <1>6. ASSUME NEW f \in Flights, FlightStep(f) PROVE SharedInv'
    <2>1. /\ Live(f) /\ UNCHANGED <<awaiting, withdrawn, inflight>>
          /\ \A g \in Flights \ {f} : flight'[g] = flight[g]
      BY <1>6, FlightStepFrame DEF callerVars
    <2>2. Settled(flight'[f]) /\ flight'[f].pc # "unused" /\ flight[f].pc # "done"
      BY <1>6, <2>1, FlightStepSettles DEF Live, LivePcs, BrowserPcs
    <2>3. \A g \in Flights : /\ Settled(flight'[g])
                             /\ flight[g].pc # "unused" => flight'[g].pc # "unused"
                             /\ flight[g].pc = "done" => flight'[g].pc = "done"
                             /\ Live(g)' => Live(g)
      BY <2>1, <2>2 DEF SharedInv, Live
    <2> QED BY <1>t, <2>1, <2>3 DEF SharedInv
  <1>7. CASE Tick
    <2>1. \A g \in Flights : /\ flight'[g].pc = flight[g].pc
                             /\ flight'[g].outcome = flight[g].outcome
      BY <1>7, TickEnds
    <2> QED BY <1>7, <2>1, SharedFrame DEF Tick, callerVars
  <1>9. ASSUME NEW c \in Callers, CancelLate(c) PROVE SharedInv'
    <2>1. UNCHANGED <<awaiting, inflight, flight>> /\ withdrawn' = withdrawn \cup {c}
          /\ awaiting[c] # NoFlight /\ flight[awaiting[c]].pc = "done"
      BY <1>9 DEF CancelLate
    <2> QED BY <2>1 DEF SharedInv, Live
  <1>8. CASE UNCHANGED vars
    BY <1>8, SharedFrame DEF vars
  <1> QED BY <1>1, <1>2, <1>3, <1>4, <1>5, <1>6, <1>7, <1>8, <1>9 DEF Next

LEMMA SharedInvHolds == Spec => []SharedInv
  <1>1. Init => SharedInv
    BY DEF Init, Blank, SharedInv, Settled, Live, LivePcs, BrowserPcs
  <1>2. TypeOK /\ SingleFlight /\ SharedInv /\ [Next]_vars => SharedInv'
    BY SharedInvStep
  <1> QED BY <1>1, <1>2, TypeCorrect, SingleFlightHolds, PTL DEF Spec

\* Who is told what depends on the flights' ends alone.
LEMMA SharedStutter ==
    ASSUME TypeOK, UNCHANGED <<awaiting, withdrawn, inflight>>,
           \A g \in Flights : Ended(g)' = Ended(g)
    PROVE  UNCHANGED <<Waiting, Told, Last>>
  <1>1. /\ \A c \in Callers : awaiting[c] \in Flights \cup {NoFlight}
        /\ inflight \in Flights \cup {NoFlight}
    BY DEF TypeOK
  <1>2. \A c \in Callers : awaiting[c] # NoFlight => Ended(awaiting[c])' = Ended(awaiting[c])
    BY <1>1
  <1>3. inflight # NoFlight => Ended(inflight)' = Ended(inflight)
    BY <1>1
  <1>4. Waiting' = Waiting
    BY <1>2 DEF Waiting
  <1>5. Told' = Told
    BY <1>2 DEF Told
  <1>6. Last' = Last
    BY <1>3 DEF Last
  <1> QED BY <1>4, <1>5, <1>6

\* A login that has not ended is the one that runs, and those who wait are its callers.
LEMMA UnendedIsInflight ==
    ASSUME TypeOK, SingleFlight, SharedInv, NEW c \in Callers, c \in Waiting
    PROVE  awaiting[c] = inflight /\ awaiting[c] \in Flights /\ Live(awaiting[c])
  <1>1. awaiting[c] \in Flights /\ flight[awaiting[c]] \in FlightStates
    BY DEF Waiting, TypeOK
  <1>2. flight[awaiting[c]].pc \notin {"unused", "done"}
    BY <1>1 DEF Waiting, Ended, SharedInv, Settled
  <1>3. Live(awaiting[c])
    BY <1>1, <1>2 DEF FlightStates, Live
  <1> QED BY <1>1, <1>3 DEF SingleFlight

LEMMA SharedStep ==
    ASSUME TypeOK, TypeOK', SingleFlight, SharedInv, [Next]_vars
    PROVE  [Shared!Next]_<<Waiting, Told, Last>>
  <1>t. /\ \A c \in Callers : awaiting[c] \in Flights \cup {NoFlight}
        /\ inflight \in Flights \cup {NoFlight}
    BY DEF TypeOK
  <1>1. ASSUME NEW c \in Callers, NEW f \in Flights, StartLogin(c, f) PROVE Shared!Call(c)
    <2>1. \A g \in Flights : flight'[g] = IF g = f THEN NewFlight ELSE flight[g]
      BY <1>1 DEF StartLogin, TypeOK
    <2>2. NewFlight.pc # "done"
      BY DEF NewFlight, Blank
    <2>3. \A d \in Callers : awaiting'[d] = IF d = c THEN f ELSE awaiting[d]
      BY <1>1 DEF StartLogin, TypeOK
    <2>4. /\ awaiting[c] = NoFlight /\ inflight = NoFlight /\ inflight' = f
          /\ withdrawn' = withdrawn /\ c \notin withdrawn
          /\ \A d \in Callers : awaiting[d] # f
      BY <1>1 DEF StartLogin, SharedInv
    <2>5. Ended(f)' = "none" /\ \A g \in Flights \ {f} : Ended(g)' = Ended(g)
      BY <2>1, <2>2 DEF Ended
    <2>6. Last = "none" /\ Last' = "none"
      BY <2>4, <2>5 DEF Last
    <2>7. \A d \in Callers \ {c} : awaiting'[d] # NoFlight
              => Ended(awaiting[d])' = Ended(awaiting[d]) /\ awaiting'[d] # f
      BY <1>t, <2>3, <2>4, <2>5
    <2>8. Waiting' = Waiting \cup {c}
      BY <2>3, <2>4, <2>5, <2>7 DEF Waiting
    <2>9. Told' = Told
      BY <2>3, <2>4, <2>5, <2>7 DEF Told
    <2>10. c \notin Waiting /\ Told[c] = "none"
      BY <2>4 DEF Waiting, Told
    <2> QED BY <2>6, <2>8, <2>9, <2>10 DEF Shared!Call, Shared!Free
  <1>2. ASSUME NEW c \in Callers, JoinLogin(c) PROVE Shared!Call(c) \/ Shared!CallLate(c)
    <2>1. UNCHANGED <<withdrawn, inflight, flight>> /\ awaiting[c] = NoFlight
          /\ inflight # NoFlight /\ c \notin withdrawn
          /\ \A d \in Callers : awaiting'[d] = IF d = c THEN inflight ELSE awaiting[d]
      BY <1>2 DEF JoinLogin, TypeOK, SharedInv
    <2>2. \A g : Ended(g)' = Ended(g)
      BY <2>1 DEF Ended
    <2>3. Last' = Last /\ Last = Ended(inflight)
      BY <2>1, <2>2 DEF Last
    <2>4. c \notin Waiting /\ Told[c] = "none"
      BY <2>1 DEF Waiting, Told
    <2>5. CASE Last = "none"
      <3>1. Waiting' = Waiting \cup {c}
        BY <2>1, <2>2, <2>3, <2>5 DEF Waiting
      <3>2. Told' = Told
        BY <2>1, <2>2, <2>3, <2>5 DEF Told
      <3> QED BY <2>3, <2>4, <2>5, <3>1, <3>2 DEF Shared!Call, Shared!Free
    <2>6. CASE Last # "none"
      <3>1. Waiting' = Waiting
        BY <2>1, <2>2, <2>3, <2>6 DEF Waiting
      <3>2. Told' = [Told EXCEPT ![c] = Last]
        BY <2>1, <2>2, <2>3, <2>6 DEF Told
      <3> QED BY <2>3, <2>4, <2>6, <3>1, <3>2 DEF Shared!CallLate, Shared!Free
    <2> QED BY <2>5, <2>6
  <1>3. ASSUME NEW c \in Callers, CancelCaller(c) PROVE UNCHANGED <<Waiting, Told, Last>>
    <2>1. \A g \in Flights : /\ flight'[g].pc = flight[g].pc
                             /\ flight'[g].outcome = flight[g].outcome
      BY <1>3 DEF CancelCaller, TypeOK, FlightStates
    <2>2. \A g \in Flights : Ended(g)' = Ended(g)
      BY <2>1 DEF Ended
    <2> QED BY <1>3, <2>2, SharedStutter DEF CancelCaller, callerVars
  <1>4. ASSUME NEW c \in Callers, Return(c) PROVE Shared!Return(c)
    <2>1. UNCHANGED <<inflight, flight>> /\ flight[awaiting[c]].pc = "done"
          /\ awaiting[c] # NoFlight
          /\ withdrawn' = withdrawn \ {c}
          /\ \A d \in Callers : awaiting'[d] = IF d = c THEN NoFlight ELSE awaiting[d]
      BY <1>4 DEF Return, TypeOK
    <2>2. \A g : Ended(g)' = Ended(g)
      BY <2>1 DEF Ended
    <2>3. Ended(awaiting[c]) # "none"
      BY <1>t, <2>1 DEF Ended, SharedInv, Settled
    <2>4. Told[c] # "none" /\ Told' = [Told EXCEPT ![c] = "none"]
      BY <2>1, <2>2, <2>3 DEF Told
    <2>5. Waiting' = Waiting
      BY <2>1, <2>2, <2>3 DEF Waiting
    <2>6. Last' = Last
      BY <2>1, <2>2 DEF Last
    <2> QED BY <2>4, <2>5, <2>6 DEF Shared!Return
  <1>5. ASSUME NEW f \in Flights, ClearInflight(f) PROVE Shared!Forget
    <2>1. /\ UNCHANGED <<awaiting, withdrawn, flight>> /\ flight[f].pc = "done"
          /\ inflight = f /\ inflight' = NoFlight
      BY <1>5 DEF ClearInflight
    <2>2. \A g : Ended(g)' = Ended(g)
      BY <2>1 DEF Ended
    <2>3. Last # "none" /\ Last' = "none"
      BY <2>1, PlaywrightAssumption DEF Last, Ended, SharedInv, Settled
    <2>4. Waiting' = Waiting
      BY <2>1, <2>2 DEF Waiting
    <2>5. Told' = Told
      BY <2>1, <2>2 DEF Told
    <2> QED BY <2>3, <2>4, <2>5 DEF Shared!Forget
  <1>6. ASSUME NEW f \in Flights, FlightStep(f)
        PROVE  \/ \E outcome \in Outcomes \ {"none"} : Shared!End(outcome)
               \/ UNCHANGED <<Waiting, Told, Last>>
    <2>1. /\ Live(f) /\ UNCHANGED <<awaiting, withdrawn, inflight>>
          /\ \A g \in Flights \ {f} : flight'[g] = flight[g]
      BY <1>6, FlightStepFrame DEF callerVars
    <2>2. Ended(f) = "none" /\ inflight = f
      BY <2>1 DEF Ended, Live, LivePcs, BrowserPcs, SingleFlight
    <2>3. \A g \in Flights \ {f} : Ended(g)' = Ended(g)
      BY <2>1 DEF Ended
    <2>4. CASE Ended(f)' = "none"
      <3>1. \A g \in Flights : Ended(g)' = Ended(g)
        BY <2>2, <2>3, <2>4
      <3> QED BY <2>1, <3>1, SharedStutter
    <2>5. CASE Ended(f)' # "none"
      <3> DEFINE outcome == Ended(f)'
      <3>1. outcome \in Outcomes \ {"none"}
        <4>1. flight'[f] \in FlightStates
          BY DEF TypeOK
        <4> QED BY <2>5, <4>1 DEF Ended, FlightStates
      <3>2. Last = "none" /\ Last' = outcome
        BY <2>1, <2>2, PlaywrightAssumption DEF Last
      <3>3. \A c \in Callers : c \in Waiting <=> awaiting[c] = f
        <4>1. \A c \in Callers : c \in Waiting => awaiting[c] = f
          BY <2>2, UnendedIsInflight
        <4>2. \A c \in Callers : awaiting[c] = f => c \in Waiting
          BY <2>2, PlaywrightAssumption DEF Waiting
        <4> QED BY <4>1, <4>2
      <3>4. Waiting # {}
        BY <2>1, <3>3 DEF SharedInv
      <3> HIDE DEF outcome
      <3>5. \A c \in Callers : awaiting[c] # NoFlight
                => Ended(awaiting[c])' = IF awaiting[c] = f THEN outcome ELSE Ended(awaiting[c])
        BY <1>t, <2>1, <2>3 DEF outcome
      <3>6. Waiting' = {}
        <4> SUFFICES ASSUME NEW c \in Callers, c \in Waiting' PROVE FALSE
          BY DEF Waiting
        <4>1. awaiting[c] # NoFlight /\ Ended(awaiting[c])' = "none"
          BY <2>1 DEF Waiting
        <4>2. awaiting[c] # f /\ Ended(awaiting[c]) = "none"
          BY <3>1, <3>5, <4>1
        <4>3. c \in Waiting
          BY <4>1, <4>2 DEF Waiting
        <4> QED BY <3>3, <4>2, <4>3
      <3>7. Told' = [c \in Callers |-> IF c \in Waiting THEN outcome ELSE Told[c]]
        <4>1. \A c \in Callers : c \in Waiting => c \notin withdrawn /\ awaiting[c] # NoFlight
          BY <2>1, <3>3, PlaywrightAssumption DEF SharedInv, Live, LivePcs, BrowserPcs
        <4>2. \A c \in Callers :
                  Told'[c] = IF awaiting[c] = NoFlight THEN "none"
                             ELSE IF c \in withdrawn THEN "cancelled"
                             ELSE Ended(awaiting[c])'
          BY <2>1 DEF Told
        <4>3. \A c \in Callers : Told'[c] = IF c \in Waiting THEN outcome ELSE Told[c]
          BY <3>3, <3>5, <4>1, <4>2 DEF Told
        <4> QED BY <4>3 DEF Told
      <3>8. Shared!End(outcome)
        BY <3>2, <3>4, <3>6, <3>7 DEF Shared!End
      <3> QED BY <3>1, <3>8
    <2> QED BY <2>4, <2>5
  <1>7. CASE Tick
    <2>1. \A g \in Flights : /\ flight'[g].pc = flight[g].pc
                             /\ flight'[g].outcome = flight[g].outcome
      BY <1>7, TickEnds
    <2>2. \A g \in Flights : Ended(g)' = Ended(g)
      BY <2>1 DEF Ended
    <2> QED BY <1>7, <2>2, SharedStutter DEF Tick, callerVars
  <1>9. ASSUME NEW c \in Callers, CancelLate(c) PROVE Shared!Withdraw(c)
    <2>1. UNCHANGED <<awaiting, inflight, flight>> /\ withdrawn' = withdrawn \cup {c}
          /\ awaiting[c] # NoFlight /\ flight[awaiting[c]].pc = "done" /\ c \notin withdrawn
      BY <1>9 DEF CancelLate
    <2>2. \A g : Ended(g)' = Ended(g)
      BY <2>1 DEF Ended
    <2>3. Ended(awaiting[c]) # "none"
      BY <1>t, <2>1 DEF Ended, SharedInv, Settled
    <2>4. Told[c] # "none" /\ Told' = [Told EXCEPT ![c] = "cancelled"]
      BY <2>1, <2>2, <2>3 DEF Told
    <2>5. Waiting' = Waiting
      BY <2>1, <2>2 DEF Waiting
    <2>6. Last' = Last
      BY <2>1, <2>2 DEF Last
    <2> QED BY <2>4, <2>5, <2>6 DEF Shared!Withdraw
  <1>8. CASE UNCHANGED vars
    <2>1. \A g \in Flights : Ended(g)' = Ended(g)
      BY <1>8 DEF vars, Ended
    <2> QED BY <1>8, <2>1, SharedStutter DEF vars
  <1> QED BY <1>1, <1>2, <1>3, <1>4, <1>5, <1>6, <1>7, <1>8, <1>9 DEF Next, Shared!Next

\* For any number of callers and however the login is retried or cancelled, all who call
\* while it runs are told the one outcome it ends with.
THEOREM LoginIsSharedHolds == Spec => LoginIsShared
  <1>1. Init => Shared!Init
    BY DEF Init, Shared!Init, Waiting, Told, Last
  <1>2. TypeOK /\ TypeOK' /\ SingleFlight /\ SharedInv /\ [Next]_vars
            => [Shared!Next]_<<Waiting, Told, Last>>
    BY SharedStep
  <1> QED BY <1>1, <1>2, TypeCorrect, SingleFlightHolds, SharedInvHolds, PTL
          DEF Spec, LoginIsShared, Shared!Spec

------------------------------------------------------------------------------
(* Every login ends: the steps it has left are fewer after each it takes.   *)

\* By the await it is suspended at, in the order a login gets to them.
Rank == [ verify |-> 8, attempt |-> 7, page |-> 6, totp_sleep |-> 5, typing |-> 4,
          submitted |-> 3, closing |-> 2, backoff |-> 1 ]

\* The most steps that the task of a login has left to take.
StepsLeft(fl) == IF fl.pc \in LivePcs THEN 7 * (MaxAttempts - fl.attempt) + Rank[fl.pc] ELSE 0

\* Whatever the clock, the page, the server and the breaker do, a login takes at most
\* seven steps for each of max_attempts and one for the host clock; nothing other tasks
\* do, or the passing of time, gives it more.
LoginSteps ==
    [][\A f \in Flights :
          LET left == StepsLeft(flight[f]) IN
          /\ left \in 0..7 * MaxAttempts + 1
          /\ FlightStep(f) => StepsLeft(flight'[f]) < left
          /\ Live(f) => StepsLeft(flight'[f]) <= left]_vars

LEMMA Ranks ==
    /\ Rank["verify"] = 8 /\ Rank["attempt"] = 7 /\ Rank["page"] = 6
    /\ Rank["totp_sleep"] = 5 /\ Rank["typing"] = 4 /\ Rank["submitted"] = 3
    /\ Rank["closing"] = 2 /\ Rank["backoff"] = 1
    /\ \A pc \in LivePcs : Rank[pc] \in 1..8 /\ (Rank[pc] = 8 => pc = "verify")
  <1>1. /\ Rank["verify"] = 8 /\ Rank["attempt"] = 7 /\ Rank["page"] = 6
        /\ Rank["totp_sleep"] = 5 /\ Rank["typing"] = 4 /\ Rank["submitted"] = 3
        /\ Rank["closing"] = 2 /\ Rank["backoff"] = 1
    BY DEF Rank
  <1> QED BY <1>1 DEF LivePcs, BrowserPcs

LEMMA StepsLeftBound ==
    ASSUME NEW fl \in FlightStates, fl.pc \in LivePcs => fl.attempt >= 1
    PROVE  StepsLeft(fl) \in 0..7 * MaxAttempts + 1
  <1>1. fl.attempt \in 0..MaxAttempts
    BY DEF FlightStates
  <1> QED BY <1>1, Ranks DEF StepsLeft

\* How a login moves on: it ends, goes on in its attempt, or begins another.
Onward(fl, state) ==
    \/ state.pc = "done"
    \/ /\ state.pc \in LivePcs /\ state.attempt = fl.attempt
       /\ Rank[state.pc] < Rank[fl.pc]
    \/ fl.pc = "backoff" /\ state.pc = "attempt" /\ state.attempt = fl.attempt + 1

LEMMA OnwardIsLess ==
    ASSUME NEW fl \in FlightStates, NEW state \in FlightStates, fl.pc \in LivePcs,
           Onward(fl, state)
    PROVE  StepsLeft(state) < StepsLeft(fl)
  <1>1. fl.attempt \in 0..MaxAttempts /\ state.attempt \in 0..MaxAttempts
    BY DEF FlightStates
  <1>2. "done" \notin LivePcs /\ "attempt" \in LivePcs
    BY DEF LivePcs, BrowserPcs
  <1> QED BY <1>1, <1>2, Ranks DEF StepsLeft, Onward

LEMMA FlightStepOnward ==
    ASSUME TypeOK, TypeOK', AttemptOK, NEW f \in Flights, FlightStep(f)
    PROVE  Onward(flight[f], flight'[f])
  <1> DEFINE fl == flight[f]
  <1>1. fl \in FlightStates
    BY DEF TypeOK
  <1>2. ASSUME NEW state, Become(f, state), Onward(fl, state)
        PROVE  Onward(flight[f], flight'[f])
    BY <1>2 DEF Become, TypeOK
  <1>3. \A outcome : /\ Done(outcome).pc = "done"
                     /\ Closing(fl, outcome).pc = "closing"
                     /\ Closing(fl, outcome).attempt = fl.attempt
    BY <1>1 DEF Done, Blank, Closing, FlightStates
  <1>4. WithCode(fl).pc = "typing" /\ WithCode(fl).attempt = fl.attempt
    BY <1>1 DEF WithCode, FlightStates
  <1>5. ASSUME NEW outcome, LeaveAttempt(f, outcome), fl.pc = "closing"
        PROVE  Onward(flight[f], flight'[f])
    <2> DEFINE back == [Blank EXCEPT !.pc = "backoff", !.attempt = fl.attempt,
                                     !.timer = Backoff(fl.attempt)]
    <2>1. back.pc = "backoff" /\ back.attempt = fl.attempt
      BY DEF Blank
    <2>2. Become(f, back) \/ Become(f, Done(outcome))
      BY <1>5 DEF LeaveAttempt
    <2> HIDE DEF back
    <2>3. Onward(fl, back) /\ Onward(fl, Done(outcome))
      <3> HIDE DEF fl
      <3> QED BY <1>3, <1>5, <2>1, Ranks DEF Onward, LivePcs
    <2> HIDE DEF fl
    <2> QED BY <1>2, <2>2, <2>3
  <1> HIDE DEF fl
  <1>6. \A state : \/ state.pc = "done"
                   \/ /\ state.attempt = fl.attempt
                      /\ state.pc \in LivePcs
                      /\ Rank[state.pc] < Rank[fl.pc]
                   => Onward(fl, state)
    BY DEF Onward
  <1>7. CASE CheckClock(f)
    <2> DEFINE checked == [fl EXCEPT !.pc = "attempt"]
    <2>1. fl.pc = "verify"
          /\ (Become(f, checked) \/ Become(f, Done("clock_error")))
      BY <1>7 DEF CheckClock, At, fl
    <2>2. checked.pc = "attempt"
          /\ checked.attempt = fl.attempt
      BY <1>1 DEF FlightStates
    <2> HIDE DEF checked
    <2>3. Onward(fl, checked)
      BY <2>1, <2>2, <1>6, Ranks DEF LivePcs
    <2> QED BY <1>2, <1>3, <1>6, <2>1, <2>3
  <1>8. CASE Attempt(f)
    <2> DEFINE admitted == [fl EXCEPT !.pc = "page"]
    <2>1. fl.pc = "attempt"
          /\ (Become(f, admitted) \/ Become(f, Done("lockout")))
      BY <1>8 DEF Attempt, At, fl
    <2>2. admitted.pc = "page"
          /\ admitted.attempt = fl.attempt
      BY <1>1 DEF FlightStates
    <2> HIDE DEF admitted
    <2>3. Onward(fl, admitted)
      BY <2>1, <2>2, <1>6, Ranks DEF LivePcs, BrowserPcs
    <2> QED BY <1>2, <1>3, <1>6, <2>1, <2>3
  <1>9. ASSUME NEW outcome, Become(f, Closing(fl, outcome)), fl.pc \in BrowserPcs \ {"closing"}
        PROVE  Onward(flight[f], flight'[f])
    <2>1. Onward(fl, Closing(fl, outcome))
      BY <1>3, <1>6, <1>9, Ranks DEF LivePcs, BrowserPcs
    <2> QED BY <1>2, <1>9, <2>1
  <1>10. CASE PageFails(f)
    BY <1>9, <1>10 DEF PageFails, At, BrowserPcs, fl
  <1>11. CASE PageReady(f)
    <2> DEFINE asleep == [fl EXCEPT !.pc = "totp_sleep", !.timer = Remaining]
    <2>1. fl.pc = "page" /\ (Become(f, asleep) \/ Become(f, WithCode(fl)))
      BY <1>11 DEF PageReady, At, fl
    <2>2. asleep.pc = "totp_sleep" /\ asleep.attempt = fl.attempt
      BY <1>1 DEF FlightStates
    <2> HIDE DEF asleep
    <2>3. Onward(fl, asleep) /\ Onward(fl, WithCode(fl))
      BY <1>4, <1>6, <2>1, <2>2, Ranks DEF LivePcs, BrowserPcs
    <2> QED BY <1>2, <2>1, <2>3
  <1>12. CASE WakeForTotp(f)
    <2>1. fl.pc = "totp_sleep" /\ Become(f, WithCode(fl))
      BY <1>12 DEF WakeForTotp, At, fl
    <2>2. Onward(fl, WithCode(fl))
      BY <1>4, <1>6, <2>1, Ranks DEF LivePcs, BrowserPcs
    <2> QED BY <1>2, <2>1, <2>2
  <1>13. CASE SubmitTotp(f)
    <2> DEFINE judged(v) == [fl EXCEPT !.pc = "submitted", !.verdict = v,
                                       !.lag = 0, !.codeLeft = 0]
    <2>1. fl.pc = "typing" /\ \E v \in {"accepted", "rejected"} : Become(f, judged(v))
      BY <1>13 DEF SubmitTotp, At, fl
    <2>2. PICK v \in {"accepted", "rejected"} : Become(f, judged(v))
      BY <2>1
    <2>3. judged(v).pc = "submitted" /\ judged(v).attempt = fl.attempt
      BY <1>1 DEF FlightStates
    <2> HIDE DEF judged
    <2>4. Onward(fl, judged(v))
      BY <1>6, <2>1, <2>3, Ranks DEF LivePcs, BrowserPcs
    <2> QED BY <1>2, <2>2, <2>4
  <1>14. CASE AwaitRedirect(f)
    BY <1>9, <1>14 DEF AwaitRedirect, At, BrowserPcs, fl
  <1>15. CASE CloseBrowser(f)
    BY <1>5, <1>15 DEF CloseBrowser, At, fl
  <1>16. CASE BackoffOver(f)
    <2> DEFINE again == [fl EXCEPT !.pc = "attempt", !.attempt = fl.attempt + 1]
    <2>1. fl.pc = "backoff" /\ Become(f, again)
      BY <1>16 DEF BackoffOver, At, fl
    <2>2. again.pc = "attempt" /\ again.attempt = fl.attempt + 1
      BY <1>1 DEF FlightStates
    <2> HIDE DEF again
    <2>3. Onward(fl, again)
      BY <2>1, <2>2 DEF Onward
    <2> QED BY <1>2, <2>1, <2>3
  <1>17. CASE Abort(f)
    <2> DEFINE closing == Closing(fl, "cancelled")
               unwinding == [closing EXCEPT !.cancelled = FALSE]
    <2>1. CASE fl.pc \in BrowserPcs \ {"closing"} /\ Become(f, unwinding)
      <3>1. closing.pc = "closing" /\ closing.attempt = fl.attempt /\ closing \in FlightStates
        BY <1>1, <1>3, FlightTypes DEF Outcomes
      <3> HIDE DEF closing
      <3>2. unwinding.pc = "closing" /\ unwinding.attempt = fl.attempt
        BY <3>1 DEF FlightStates
      <3> HIDE DEF unwinding
      <3>3. Onward(fl, unwinding)
        BY <1>6, <2>1, <3>2, Ranks DEF LivePcs, BrowserPcs
      <3> QED BY <1>2, <2>1, <3>3
    <2>2. CASE fl.pc = "closing" /\ LeaveAttempt(f, "cancelled")
      BY <1>5, <2>2
    <2>3. CASE Become(f, Done("cancelled"))
      BY <1>2, <1>3, <1>6, <2>3
    <2> QED BY <1>17, <2>1, <2>2, <2>3 DEF Abort, fl
  <1> QED BY <1>7, <1>8, <1>10, <1>11, <1>12, <1>13, <1>14, <1>15, <1>16, <1>17 DEF FlightStep, OutsideStep, LoopStep

LEMMA LoginStepsStep ==
    ASSUME TypeOK, TypeOK', AttemptOK, [Next]_vars, NEW f \in Flights
    PROVE  /\ StepsLeft(flight[f]) \in 0..7 * MaxAttempts + 1
           /\ FlightStep(f) => StepsLeft(flight'[f]) < StepsLeft(flight[f])
           /\ Live(f) => StepsLeft(flight'[f]) <= StepsLeft(flight[f])
  <1>1. flight[f] \in FlightStates /\ flight'[f] \in FlightStates
    BY DEF TypeOK
  <1>2. StepsLeft(flight[f]) \in 0..7 * MaxAttempts + 1
    BY <1>1, StepsLeftBound DEF AttemptOK, Live
  <1>3. ASSUME FlightStep(f) PROVE StepsLeft(flight'[f]) < StepsLeft(flight[f])
    BY <1>1, <1>3, FlightStepFrame, FlightStepOnward, OnwardIsLess DEF Live
  <1>4. ASSUME flight'[f].pc = flight[f].pc, flight'[f].attempt = flight[f].attempt
        PROVE  StepsLeft(flight'[f]) = StepsLeft(flight[f])
    BY <1>4 DEF StepsLeft
  <1>5. ASSUME Live(f), ~FlightStep(f)
        PROVE  flight'[f].pc = flight[f].pc /\ flight'[f].attempt = flight[f].attempt
    <2>1. ASSUME NEW c \in Callers, NEW g \in Flights, StartLogin(c, g)
          PROVE  flight'[f] = flight[f]
      <3>1. f # g
        BY <1>5, <2>1 DEF StartLogin, Live, LivePcs, BrowserPcs
      <3> QED BY <2>1, <3>1 DEF StartLogin, TypeOK
    <2>2. ASSUME NEW c \in Callers, JoinLogin(c) \/ CancelLate(c) \/ Return(c)
          PROVE  flight'[f] = flight[f]
      BY <2>2 DEF JoinLogin, CancelLate, Return
    <2>3. ASSUME NEW c \in Callers, CancelCaller(c)
          PROVE  flight'[f].pc = flight[f].pc /\ flight'[f].attempt = flight[f].attempt
      BY <2>3 DEF CancelCaller, TypeOK, FlightStates
    <2>4. ASSUME NEW g \in Flights, ClearInflight(g) PROVE flight'[f] = flight[f]
      BY <2>4 DEF ClearInflight
    <2>5. ASSUME NEW g \in Flights, FlightStep(g) PROVE flight'[f] = flight[f]
      BY <1>5, <2>5, FlightStepFrame
    <2>6. CASE Tick
      <3>1. flight'[f] = Elapsed(flight[f])
        BY <2>6 DEF Tick
      <3>2. \A fl \in FlightStates : Elapsed(fl).pc = fl.pc /\ Elapsed(fl).attempt = fl.attempt
        BY DEF Elapsed, FlightStates
      <3> QED BY <1>1, <3>1, <3>2
    <2>7. CASE UNCHANGED vars
      BY <2>7 DEF vars
    <2> QED BY <2>1, <2>2, <2>3, <2>4, <2>5, <2>6, <2>7 DEF Next
  <1>6. StepsLeft(flight[f]) \in Int /\ StepsLeft(flight'[f]) \in Int
    BY <1>1, Ranks DEF StepsLeft, FlightStates
  <1> QED BY <1>2, <1>3, <1>4, <1>5, <1>6

\* A login ends within seven steps of each attempt and one more, for any max_attempts,
\* whatever the clock, the page, the server and the breaker do: the safety half of
\* LoginReturns, which adds only that the steps a login has left are taken.
THEOREM LoginStepsHolds == Spec => LoginSteps
  <1>1. ASSUME TypeOK, TypeOK', AttemptOK, [Next]_vars
        PROVE  \A f \in Flights :
                  LET left == StepsLeft(flight[f]) IN
                  /\ left \in 0..7 * MaxAttempts + 1
                  /\ FlightStep(f) => StepsLeft(flight'[f]) < left
                  /\ Live(f) => StepsLeft(flight'[f]) <= left
    BY <1>1, LoginStepsStep
  <1> QED BY <1>1, TypesHold, PTL DEF Spec, LoginSteps
==============================================================================
