--------------------------- MODULE PlaywrightAuth ---------------------------
(***************************************************************************)
(* `PlaywrightAuthStrategy` (kite_auto/auth/playwright_auth.py): callers   *)
(* share one in-flight browser login, each attempt submits a time-based    *)
(* code, rejected codes advance a breaker that caps them, and counted      *)
(* failures are retried with backoff.  Any caller may be cancelled.        *)
(*                                                                         *)
(* A flight is the asyncio task that runs `_run_login`.  Its pc names the  *)
(* await it is suspended at:                                               *)
(*   verify      the host-clock check        typing     typing the code    *)
(*   attempt     about to enter the breaker  submitted  waiting for the    *)
(*   page        launch .. login button                 redirect           *)
(*   totp_sleep  waiting for a fresh window  closing    browser.close()    *)
(*   backoff     tenacity's wait             done       the future is set  *)
(*                                                                         *)
(* Time passes in whole seconds (Tick).  Nothing compares absolute times,  *)
(* so the state holds the phase inside the TOTP window and ages that       *)
(* saturate, and needs no bound on time.                                   *)
(***************************************************************************)
EXTENDS Breaker, FiniteSets

CONSTANTS
    Callers,        \* tasks that call login()
    Flights,        \* slots for login tasks
    NoFlight,       \* _inflight is None
    MaxCalls,       \* BOUND: login() calls each caller makes
    MaxAttempts,    \* max_attempts
    Interval,       \* seconds in a TOTP window
    MinValidity,    \* min_validity_seconds
    VerifyClock,    \* verify_clock
    ClockHardFail   \* clock_drift_hard_fail

\* FailureThreshold and RecoveryTimeout of Breaker are max_totp_failures and
\* lockout_cooldown_seconds here.
ASSUME PlaywrightAssumption ==
    /\ NoFlight \notin Flights
    /\ MaxCalls \in Nat
    /\ MaxAttempts \in Nat \ {0}
    /\ Interval \in Nat \ {0}
    /\ MinValidity \in Nat
    /\ VerifyClock \in BOOLEAN /\ ClockHardFail \in BOOLEAN

VARIABLES
    calls,       \* [Callers -> Nat] login() calls made
    awaiting,    \* [Callers -> Flights \cup {NoFlight}] the future awaited
    withdrawn,   \* callers cancelled after the flight they await was done
    inflight,    \* self._inflight
    flight,      \* [Flights -> FlightStates]
    breaker,     \* self._totp_breaker
    phase,       \* int(time()) % interval
    used,        \* history: the current window's code has been submitted
    rejects,     \* history: codes the server rejected since it accepted one
    rejectAge,   \* history: seconds since the last of them, saturating
    unrecorded   \* history: one of them never reached the breaker

vars == <<calls, awaiting, withdrawn, inflight, flight, breaker, phase,
          used, rejects, rejectAge, unrecorded>>
callerVars  == <<calls, awaiting, withdrawn, inflight>>
serverVars  == <<used, rejects, rejectAge>>

BrowserPcs == {"page", "totp_sleep", "typing", "submitted", "closing"}
LivePcs    == BrowserPcs \cup {"verify", "attempt", "backoff"}
Outcomes   == {"none", "token", "auth_error", "structure_error", "crash",
               "lockout", "clock_error", "cancelled"}

FlightStates ==
    [ pc        : LivePcs \cup {"unused", "done"},
      attempt   : 0..MaxAttempts,
      cancelled : BOOLEAN,                          \* Task.cancel() was called
      verdict   : {"none", "accepted", "rejected"}, \* the server's, on the code
      outcome   : Outcomes,
      timer     : Nat,                              \* seconds left to sleep
      lag       : 0..Interval,                      \* seconds past due, saturating
      codeLeft  : 0..Interval ]                     \* until the code's window ends

Blank == [ pc |-> "unused", attempt |-> 0, cancelled |-> FALSE, verdict |-> "none",
           outcome |-> "none", timer |-> 0, lag |-> 0, codeLeft |-> 0 ]

NewFlight == [Blank EXCEPT !.pc = IF VerifyClock THEN "verify" ELSE "attempt",
                           !.attempt = 1]

Done(outcome) == [Blank EXCEPT !.pc = "done", !.outcome = outcome]

Closing(fl, outcome) ==
    [fl EXCEPT !.pc = "closing", !.outcome = outcome,
               !.timer = 0, !.lag = 0, !.codeLeft = 0]

\* `_counts_as_totp_failure`: AuthenticationError, but neither a page-structure
\* error nor the cap's own.  The same errors are the ones tenacity retries.
Counts(outcome) == outcome = "auth_error"

\* wait_exponential(multiplier=1, min=1, max=8)
Backoff(n) == <<1, 2, 4, 8>>[IF n < 4 THEN n ELSE 4]

Remaining == Interval - phase

------------------------------------------------------------------------------
Init ==
    /\ calls = [c \in Callers |-> 0]
    /\ awaiting = [c \in Callers |-> NoFlight]
    /\ withdrawn = {}
    /\ inflight = NoFlight
    /\ flight = [f \in Flights |-> Blank]
    /\ breaker = NewBreaker
    /\ phase \in 0..Interval - 1
    /\ used = FALSE
    /\ rejects = 0 /\ rejectAge = RecoveryTimeout /\ unrecorded = FALSE

(* Callers *)

\* `login` with no flight: start the task and await it.
StartLogin(c, f) ==
    /\ awaiting[c] = NoFlight /\ calls[c] < MaxCalls
    /\ inflight = NoFlight
    /\ flight[f].pc \in {"unused", "done"} /\ \A d \in Callers : awaiting[d] # f
    /\ calls' = [calls EXCEPT ![c] = @ + 1]
    /\ awaiting' = [awaiting EXCEPT ![c] = f]
    /\ inflight' = f
    /\ flight' = [flight EXCEPT ![f] = NewFlight]
    /\ UNCHANGED <<withdrawn, breaker, phase, serverVars, unrecorded>>

\* `login` while a flight is known, finished or not: await the same future.
JoinLogin(c) ==
    /\ awaiting[c] = NoFlight /\ calls[c] < MaxCalls
    /\ inflight # NoFlight
    /\ calls' = [calls EXCEPT ![c] = @ + 1]
    /\ awaiting' = [awaiting EXCEPT ![c] = inflight]
    /\ UNCHANGED <<withdrawn, inflight, flight, breaker, phase, serverVars, unrecorded>>

\* Mutated form: forgets the flight as soon as its cancellation is requested.
CancelCallerForgetting(c) ==
    LET f == awaiting[c] IN
    /\ f # NoFlight
    /\ flight[f].pc \in LivePcs /\ ~flight[f].cancelled
    /\ flight' = [flight EXCEPT ![f].cancelled = TRUE]
    /\ inflight' = NoFlight
    /\ UNCHANGED <<calls, awaiting, withdrawn, breaker, phase, serverVars, unrecorded>>

\* Cancelling a caller cancels the task it awaits: nothing shields the flight.
\* The request is delivered when the task next resumes (Abort).
CancelCaller(c) ==
    LET f == awaiting[c] IN
    /\ f # NoFlight
    /\ flight[f].pc \in LivePcs /\ ~flight[f].cancelled
    /\ flight' = [flight EXCEPT ![f].cancelled = TRUE]
    /\ UNCHANGED <<callerVars, breaker, phase, serverVars, unrecorded>>

\* A caller is cancelled once the future is set and before it resumes: the future can be
\* cancelled no more, and the caller alone resumes with CancelledError.
CancelLate(c) ==
    /\ awaiting[c] # NoFlight
    /\ flight[awaiting[c]].pc = "done" /\ c \notin withdrawn
    /\ withdrawn' = withdrawn \cup {c}
    /\ UNCHANGED <<calls, awaiting, inflight, flight, breaker, phase, serverVars, unrecorded>>

\* The done callback.  asyncio queues it ahead of the callers' wake-ups.
ClearInflight(f) ==
    /\ flight[f].pc = "done" /\ inflight = f
    /\ inflight' = NoFlight
    /\ UNCHANGED <<calls, awaiting, withdrawn, flight, breaker, phase, serverVars, unrecorded>>

\* A caller resumes with the result of the flight it awaits, or with its own cancellation.
Return(c) ==
    LET f == awaiting[c] IN
    /\ f # NoFlight
    /\ flight[f].pc = "done" /\ inflight # f
    /\ awaiting' = [awaiting EXCEPT ![c] = NoFlight]
    /\ withdrawn' = withdrawn \ {c}
    /\ UNCHANGED <<calls, inflight, flight, breaker, phase, serverVars, unrecorded>>

(* The flight *)

At(f, pc) == flight[f].pc = pc /\ ~flight[f].cancelled

Become(f, state) == flight' = [flight EXCEPT ![f] = state]

\* `assert_clock_sync`: a drift that could not be measured never fails a login, and
\* one over the tolerance does so only under hard_fail.
Drifts == {"unknown", "tolerated", "excessive"}
ClockAccepted(drift) == drift # "excessive" \/ ~ClockHardFail

\* `_verify_host_clock`, before the first attempt and outside the retries.
CheckClock(f) ==
    /\ At(f, "verify")
    /\ \E drift \in Drifts :
           Become(f, IF ClockAccepted(drift) THEN [flight[f] EXCEPT !.pc = "attempt"]
                                             ELSE Done("clock_error"))
    /\ UNCHANGED <<callerVars, breaker, phase, serverVars, unrecorded>>

\* Entering `CircuitBreaker.call`; a refusal ends the login as TotpLockoutError.
Attempt(f) ==
    /\ At(f, "attempt")
    /\ \/ /\ Refuses(breaker)
          /\ Become(f, Done("lockout"))
          /\ UNCHANGED breaker
       \/ /\ ~Refuses(breaker)
          /\ Become(f, [flight[f] EXCEPT !.pc = "page"])
          /\ breaker' = Admit(breaker)
    /\ UNCHANGED <<callerVars, phase, serverVars, unrecorded>>

\* A timeout of a locator is LoginPageStructureError; any other Playwright error
\* escapes as it is.
PageFails(f) ==
    /\ At(f, "page") \/ At(f, "typing")
    /\ \E outcome \in {"structure_error", "crash"} :
           Become(f, Closing(flight[f], outcome))
    /\ UNCHANGED <<callerVars, breaker, phase, serverVars, unrecorded>>

\* A code of the current window is generated.
WithCode(fl) ==
    [fl EXCEPT !.pc = "typing", !.timer = 0, !.codeLeft = Remaining]

\* Mutated form: generates without looking at what is left of the window.
PageReadyUngated(f) ==
    /\ At(f, "page")
    /\ Become(f, WithCode(flight[f]))
    /\ UNCHANGED <<callerVars, breaker, phase, serverVars, unrecorded>>

\* Credentials are in, `_generate_fresh_totp` looks at the window.  The sleep is
\* Remaining + 0.5 s from inside a second: in whole seconds, at least Remaining.
PageReady(f) ==
    /\ At(f, "page")
    /\ Become(f, IF Remaining < MinValidity
                    THEN [flight[f] EXCEPT !.pc = "totp_sleep", !.timer = Remaining]
                    ELSE WithCode(flight[f]))
    /\ UNCHANGED <<callerVars, breaker, phase, serverVars, unrecorded>>

\* The sleep is over: the code is generated without a second look at the window.
WakeForTotp(f) ==
    /\ At(f, "totp_sleep") /\ flight[f].timer = 0
    /\ Become(f, WithCode(flight[f]))
    /\ UNCHANGED <<callerVars, breaker, phase, serverVars, unrecorded>>

\* The code reaches the server, which accepts or rejects it.  Typing it, a button that is
\* waited for in vain and then Enter take any time: the window may have turned meanwhile.
SubmitTotp(f) ==
    /\ At(f, "typing")
    /\ used' = (used \/ flight[f].codeLeft > 0)
    /\ \/ /\ Become(f, [flight[f] EXCEPT !.pc = "submitted", !.verdict = "accepted",
                                         !.lag = 0, !.codeLeft = 0])
          /\ rejects' = 0 /\ rejectAge' = RecoveryTimeout /\ unrecorded' = FALSE
       \/ /\ Become(f, [flight[f] EXCEPT !.pc = "submitted", !.verdict = "rejected",
                                         !.lag = 0, !.codeLeft = 0])
          /\ rejects' = rejects + 1 /\ rejectAge' = 0
          /\ UNCHANGED unrecorded
    /\ UNCHANGED <<callerVars, breaker, phase>>

\* `extract_request_token`: the redirect of an accepted login may be missed, and a
\* URL without a token is an AuthenticationError like status=error.
ReadRedirect(verdict) ==
    {"auth_error"} \cup (IF verdict = "accepted" THEN {"token"} ELSE {})

\* Waiting for the redirect; the browser may also fail between typing the code
\* and reading the URL.
AwaitRedirect(f) ==
    /\ At(f, "submitted")
    /\ \E outcome \in ReadRedirect(flight[f].verdict) \cup {"crash"} :
           Become(f, Closing(flight[f], outcome))
    /\ UNCHANGED <<callerVars, breaker, phase, serverVars, unrecorded>>

\* A rejection that leaves the attempt as anything but a counted failure.
Unrecorded(fl, outcome) == unrecorded \/ (fl.verdict = "rejected" /\ ~Counts(outcome))

\* Mutated form: retries without the attempt bound.
LeaveAttemptNoStop(f, outcome) ==
    /\ breaker' = CASE Counts(outcome)   -> RecordFailure(breaker)
                    [] outcome = "token" -> RecordSuccess(breaker)
                    [] OTHER             -> breaker
    /\ unrecorded' = Unrecorded(flight[f], outcome)
    /\ Become(f, IF Counts(outcome)
                    THEN [Blank EXCEPT !.pc = "backoff", !.attempt = flight[f].attempt,
                                       !.timer = Backoff(flight[f].attempt)]
                    ELSE Done(outcome))

\* `_login_once` ends with this outcome: the breaker records it, and tenacity
\* waits for another attempt or ends the login.
LeaveAttempt(f, outcome) ==
    /\ breaker' = CASE Counts(outcome)   -> RecordFailure(breaker)
                    [] outcome = "token" -> RecordSuccess(breaker)
                    [] OTHER             -> breaker
    /\ unrecorded' = Unrecorded(flight[f], outcome)
    /\ Become(f, IF Counts(outcome) /\ flight[f].attempt < MaxAttempts
                    THEN [Blank EXCEPT !.pc = "backoff", !.attempt = flight[f].attempt,
                                       !.timer = Backoff(flight[f].attempt)]
                    ELSE Done(outcome))

\* `browser.close()` in the finally block; an error there replaces the outcome.
CloseBrowser(f) ==
    /\ At(f, "closing")
    /\ \/ LeaveAttempt(f, flight[f].outcome)
       \/ LeaveAttempt(f, "crash")
    /\ UNCHANGED <<callerVars, phase, serverVars>>

BackoffOver(f) ==
    /\ At(f, "backoff") /\ flight[f].timer = 0
    /\ Become(f, [flight[f] EXCEPT !.pc = "attempt", !.attempt = @ + 1])
    /\ UNCHANGED <<callerVars, breaker, phase, serverVars, unrecorded>>

\* Mutated form: retries a cancelled attempt, without counting it.
AbortRetrying(f) ==
    /\ flight[f].pc \in LivePcs /\ flight[f].cancelled
    /\ Become(f, [Blank EXCEPT !.pc = "attempt", !.attempt = flight[f].attempt])
    /\ UNCHANGED <<callerVars, breaker, phase, serverVars, unrecorded>>

\* CancelledError at the await the task is suspended at.  With a browser open,
\* the finally block still closes it; at that close, it cuts the close short.
Abort(f) ==
    /\ flight[f].pc \in LivePcs /\ flight[f].cancelled
    /\ \/ /\ flight[f].pc \in BrowserPcs \ {"closing"}
          /\ Become(f, [Closing(flight[f], "cancelled") EXCEPT !.cancelled = FALSE])
          /\ UNCHANGED <<breaker, unrecorded>>
       \/ /\ flight[f].pc = "closing"
          /\ LeaveAttempt(f, "cancelled")
       \/ /\ flight[f].pc \notin BrowserPcs
          /\ Become(f, Done("cancelled"))
          /\ UNCHANGED <<breaker, unrecorded>>
    /\ UNCHANGED <<callerVars, phase, serverVars>>

(* Time *)

\* Late to wake for the window, or holding a code not submitted yet.
Overdue(fl) == fl.pc = "typing" \/ (fl.pc = "totp_sleep" /\ fl.timer = 0)

Less(n) == IF n > 0 THEN n - 1 ELSE 0

Elapsed(fl) ==
    [fl EXCEPT !.timer    = Less(fl.timer),
               !.codeLeft = Less(fl.codeLeft),
               !.lag      = IF Overdue(fl) /\ fl.lag < Interval THEN fl.lag + 1 ELSE fl.lag]

Tick ==
    /\ flight' = [f \in Flights |-> Elapsed(flight[f])]
    /\ breaker' = Elapse(breaker)
    /\ phase' = IF phase + 1 = Interval THEN 0 ELSE phase + 1
    /\ used' = (used /\ phase + 1 # Interval)
    /\ rejectAge' = Older(rejectAge)
    /\ UNCHANGED <<callerVars, rejects, unrecorded>>

------------------------------------------------------------------------------
\* Steps that wait for the time source or the browser driver, and steps of the event loop.
OutsideStep(f) ==
    \/ CheckClock(f) \/ PageFails(f) \/ PageReady(f)
    \/ SubmitTotp(f) \/ AwaitRedirect(f) \/ CloseBrowser(f)

LoopStep(f) == Attempt(f) \/ WakeForTotp(f) \/ BackoffOver(f) \/ Abort(f)

FlightStep(f) == OutsideStep(f) \/ LoopStep(f)

Next ==
    \/ \E c \in Callers, f \in Flights : StartLogin(c, f)
    \/ \E c \in Callers : JoinLogin(c) \/ CancelCaller(c) \/ CancelLate(c) \/ Return(c)
    \/ \E f \in Flights : ClearInflight(f) \/ FlightStep(f)
    \/ Tick

Spec == Init /\ [][Next]_vars

(***************************************************************************)
(* The event loop runs what is ready, wakes what has slept long enough and *)
(* delivers a cancellation; the clock advances.  Nothing is assumed of the *)
(* browser driver, several of whose calls have no timeout (browser.close,  *)
(* page.evaluate, new_context), nor of a time source given by the user.    *)
(* Nothing makes a caller call, or cancels one.                            *)
(***************************************************************************)
Fairness ==
    /\ \A f \in Flights : WF_vars(LoopStep(f)) /\ WF_vars(ClearInflight(f))
    /\ \A c \in Callers : WF_vars(Return(c))
    /\ WF_vars(Tick)

FairSpec == Spec /\ Fairness

------------------------------------------------------------------------------
TypeOK ==
    /\ calls \in [Callers -> 0..MaxCalls]
    /\ awaiting \in [Callers -> Flights \cup {NoFlight}]
    /\ withdrawn \subseteq Callers
    /\ inflight \in Flights \cup {NoFlight}
    /\ flight \in [Flights -> FlightStates]
    /\ breaker \in Breakers
    /\ phase \in 0..Interval - 1
    /\ used \in BOOLEAN /\ unrecorded \in BOOLEAN
    /\ rejects \in Nat
    /\ rejectAge \in 0..RecoveryTimeout

Live(f) == flight[f].pc \in LivePcs

\* A task that is still running is the one new callers join, so no two logins
\* ever drive a browser at once; and it is joined until its future is set, even
\* while it unwinds a cancellation (`login`: "two callers never race two TOTP
\* submissions in the same window").
SingleFlight == \A f \in Flights : Live(f) => inflight = f

\* The headroom is real: a delay shorter than min_validity_seconds never takes a code
\* out of its window, whether the event loop is late to wake for the window, typing and
\* submitting are slow, or both.  Nothing bounds the delay itself (Enter is pressed only
\* once a whole timeout_ms has been spent on the button), and a code submitted later than
\* that may be out of its window, against `_generate_fresh_totp`'s "so the code stays valid
\* through the (slow) browser submit".
SubmittedInWindow ==
    \A f \in Flights :
        flight[f].pc = "typing" /\ flight[f].lag < MinValidity /\ flight[f].lag < Interval
            => flight[f].codeLeft > 0

Rejected == rejects' > rejects

\* The safety cap as the server sees it: while every rejection reaches the
\* breaker, a rejection beyond max_totp_failures comes a full cooldown after the
\* one before it, whatever max_attempts is and however callers retry.
LockoutBudget ==
    [][Rejected /\ rejects >= FailureThreshold /\ ~unrecorded
          => rejectAge = RecoveryTimeout]_vars

\* The same cap without the proviso, as the constructor's comment states it: "so
\* neither a high max_attempts nor a buggy caller can lock the account".
LockoutCap ==
    [][Rejected /\ rejects >= FailureThreshold => rejectAge = RecoveryTimeout]_vars

\* `_generate_fresh_totp`: "never replay a previously submitted one".
NoReplay ==
    [][\A f \in Flights : flight[f].pc = "typing" /\ flight'[f].pc = "submitted"
          => ~used]_vars

\* The outcome a flight has ended with, if it has.
Ended(f) == IF flight[f].pc = "done" THEN flight[f].outcome ELSE "none"

Waiting == {c \in Callers : awaiting[c] # NoFlight /\ Ended(awaiting[c]) = "none"}
Told == [c \in Callers |-> IF awaiting[c] = NoFlight THEN "none"
                           ELSE IF c \in withdrawn THEN "cancelled"
                           ELSE Ended(awaiting[c])]
Last == IF inflight = NoFlight THEN "none" ELSE Ended(inflight)

Shared == INSTANCE SharedLogin
    WITH Outcomes <- Outcomes \ {"none"}, None <- "none", Cancelled <- "cancelled",
         waiting <- Waiting, told <- Told, last <- Last

\* Calls that overlap end with one outcome, that of the one login they share, whoever is
\* cancelled while it runs and however often it is tried again (`login`: "Concurrent calls
\* share a single in-flight login"); only a caller cancelled after its end hears another.
LoginIsShared == Shared!Spec

\* The awaits that only the time source or the browser driver ends.
OutsidePcs == {"verify", "page", "typing", "submitted", "closing"}

\* Every login() call returns, however it is shared, retried, put to sleep or cancelled, if
\* no flight stays for ever with the time source or the browser driver: an assumption on
\* both.  Without it a login that hangs there blocks all later calls, which join it.
LoginReturns ==
    (\A f \in Flights : []<>(flight[f].pc \notin OutsidePcs))
        => \A c \in Callers : awaiting[c] # NoFlight ~> awaiting[c] = NoFlight
==============================================================================
