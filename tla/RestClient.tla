----------------------------- MODULE RestClient -----------------------------
(***************************************************************************)
(* `RestClient` (kite_auto/client/rest_client.py) with the retry policy    *)
(* and the circuit breaker it is given: requests that run at once share    *)
(* one breaker, each is retried on its own, and a request the server       *)
(* refuses as unauthenticated is sent again with a refreshed token.        *)
(*                                                                         *)
(* A request's pc names the await it is suspended at:                      *)
(*   limit   RateLimiter.acquire            sleep  the retry policy's wait *)
(*   enter   about to enter the breaker     done                           *)
(*   token   the access token provider                                     *)
(*   sent    the response                                                  *)
(*                                                                         *)
(* A client without a retry policy is MaxAttempts = 1; one without a       *)
(* breaker is a FailureThreshold that is never reached.  How long the      *)
(* limiter, the provider, the server and the waits take is left open.      *)
(***************************************************************************)
EXTENDS Breaker, FiniteSets

CONSTANTS
    Requests,       \* calls of request() or get_text()
    Methods,        \* HTTP methods
    Retryable,      \* retryable_methods
    MaxAttempts     \* RetryConfig.max_attempts

ASSUME RestAssumption ==
    /\ Retryable \subseteq Methods
    /\ "none" \notin Methods
    /\ MaxAttempts \in Nat \ {0}

VARIABLES
    request,    \* [Requests -> RequestStates]
    breaker,    \* self._circuit_breaker
    sends,      \* history: [Requests -> Nat] times a request went to the server
    refreshes,  \* history: [Requests -> Nat] forced refreshes it asked for
    stale       \* history: requests past the breaker when it last opened

vars == <<request, breaker, sends, refreshes, stale>>

(* What the server, or the network, answers: 200, a 401 or 403, one of         *)
(* TRANSIENT_RETRY_STATUS_CODES, another error status, or an httpx.HTTPError.  *)
Answers == {"ok", "auth", "transient", "error", "network"}

LivePcs == {"limit", "enter", "token", "sent", "sleep"}

RequestStates ==
    [ pc       : LivePcs \cup {"idle", "done"},
      method   : Methods \cup {"none"},
      explicit : BOOLEAN,            \* the caller's force_refresh
      force    : BOOLEAN,            \* the force_refresh of this round of sends
      attempt  : 0..MaxAttempts,     \* of this round
      answer   : Answers \cup {"none"} ]

NotSent == [ pc |-> "idle", method |-> "none", explicit |-> FALSE, force |-> FALSE,
             attempt |-> 0, answer |-> "none" ]

Retries(r) == request[r].method \in Retryable

Init ==
    /\ request = [r \in Requests |-> NotSent]
    /\ breaker = NewBreaker
    /\ sends = [r \in Requests |-> 0]
    /\ refreshes = [r \in Requests |-> 0]
    /\ stale = {}

------------------------------------------------------------------------------
Goto(r, pc) == request' = [request EXCEPT ![r].pc = pc]

\* `request`, or `get_text`, which has no force_refresh of its own.
Begin(r) ==
    /\ request[r].pc = "idle"
    /\ \E method \in Methods, force \in BOOLEAN :
           request' = [request EXCEPT ![r] = [NotSent EXCEPT !.pc       = "limit",
                                                             !.method   = method,
                                                             !.explicit = force,
                                                             !.force    = force]]
    /\ UNCHANGED <<breaker, sends, refreshes, stale>>

\* One token of the limiter admits the whole round, its retries included.
Acquire(r) ==
    /\ request[r].pc = "limit"
    /\ request' = [request EXCEPT ![r].pc = "enter", ![r].attempt = 1]
    /\ UNCHANGED <<breaker, sends, refreshes, stale>>

\* Mutated form: retries a refusal, and does not count it as an attempt.
EnterRetrying(r) ==
    /\ request[r].pc = "enter"
    /\ \/ /\ Refuses(breaker)
          /\ request' = [request EXCEPT ![r] = [@ EXCEPT !.pc = "sleep",
                                                         !.attempt = request[r].attempt - 1]]
          /\ UNCHANGED <<breaker, refreshes, stale>>
       \/ /\ ~Refuses(breaker)
          /\ breaker' = Admit(breaker)
          /\ Goto(r, "token")
          /\ refreshes' = IF request[r].force THEN [refreshes EXCEPT ![r] = @ + 1] ELSE refreshes
          /\ stale' = stale \ {r}
    /\ UNCHANGED sends

\* Mutated form: only the first attempt of a round refreshes, as README.md has it.
EnterRefreshingOnce(r) ==
    /\ request[r].pc = "enter"
    /\ \/ /\ Refuses(breaker)
          /\ Goto(r, "done")
          /\ UNCHANGED <<breaker, refreshes, stale>>
       \/ /\ ~Refuses(breaker)
          /\ breaker' = Admit(breaker)
          /\ Goto(r, "token")
          /\ refreshes' = [refreshes EXCEPT ![r] =
                               IF request[r].force /\ request[r].attempt = 1 THEN @ + 1 ELSE @]
          /\ stale' = stale \ {r}
    /\ UNCHANGED sends

\* `CircuitBreaker.call` refuses with an error that is not retried, or lets the send
\* ask for its token.
EnterBreaker(r) ==
    /\ request[r].pc = "enter"
    /\ \/ /\ Refuses(breaker)
          /\ Goto(r, "done")
          /\ UNCHANGED <<breaker, refreshes, stale>>
       \/ /\ ~Refuses(breaker)
          /\ breaker' = Admit(breaker)
          /\ Goto(r, "token")
          /\ refreshes' = IF request[r].force THEN [refreshes EXCEPT ![r] = @ + 1] ELSE refreshes
          /\ stale' = stale \ {r}
    /\ UNCHANGED sends

\* The provider answers, and the request goes out.
Send(r) ==
    /\ request[r].pc = "token"
    /\ Goto(r, "sent")
    /\ sends' = [sends EXCEPT ![r] = @ + 1]
    /\ UNCHANGED <<breaker, refreshes, stale>>

\* TransientKiteApiError, which only retryable methods are given.
IsTransient(r, answer) == Retries(r) /\ answer \in {"transient", "network"}

\* What the breaker makes of an answer: KiteApiError for a lost POST is not counted,
\* and any response that is not raised, a POST's 503 too, is a success.
Recorded(r, answer) ==
    CASE IsTransient(r, answer) -> RecordFailure(breaker)
      [] answer = "network" /\ ~Retries(r) -> breaker
      [] OTHER -> RecordSuccess(breaker)

Witness(b) == IF b.state = "open" /\ breaker.state # "open"
                  THEN {r \in Requests : request[r].pc \in {"token", "sent"}}
                  ELSE stale

\* Mutated form: retries whatever the method is.
RetryAnyMethod(r, answer) ==
    CASE answer \in {"transient", "network"} /\ request[r].attempt < MaxAttempts -> "sleep"
      [] answer = "auth" /\ ~request[r].force -> "limit"
      [] OTHER -> "done"

\* Mutated form: one attempt too many.
RetryOnceMore(r, answer) ==
    CASE IsTransient(r, answer) /\ request[r].attempt <= MaxAttempts -> "sleep"
      [] answer = "auth" /\ ~request[r].force -> "limit"
      [] OTHER -> "done"

\* Where an answer sends a request: to another attempt, to a round with a refreshed
\* token, or back to its caller.
Onward(r, answer) ==
    CASE IsTransient(r, answer) /\ request[r].attempt < MaxAttempts -> "sleep"
      [] answer = "auth" /\ ~request[r].force -> "limit"
      [] OTHER -> "done"

Conclude(r, answer) ==
    LET pc == Onward(r, answer) IN
    /\ request' = [request EXCEPT ![r] = [@ EXCEPT !.pc = pc, !.answer = answer,
                                                   !.force = request[r].force \/ pc = "limit"]]
    /\ breaker' = Recorded(r, answer)
    /\ stale' = Witness(breaker')
    /\ UNCHANGED <<sends, refreshes>>

Answer(r) ==
    /\ request[r].pc = "sent"
    /\ \E answer \in Answers : Conclude(r, answer)

\* A provider that raises ends the request, and the breaker does not count it; but an
\* httpx.HTTPError of the provider is taken for one of the request itself.
TokenFails(r) ==
    /\ request[r].pc = "token"
    /\ \/ Goto(r, "done") /\ UNCHANGED <<breaker, sends, refreshes, stale>>
       \/ Conclude(r, "network")

\* The wait between two attempts of the retry policy is over.
Retry(r) ==
    /\ request[r].pc = "sleep"
    /\ request' = [request EXCEPT ![r] = [@ EXCEPT !.pc = "enter",
                                                   !.attempt = request[r].attempt + 1]]
    /\ UNCHANGED <<breaker, sends, refreshes, stale>>

\* The caller's task is cancelled: CancelledError is neither retried nor counted.
Cancel(r) ==
    /\ request[r].pc \in LivePcs
    /\ Goto(r, "done")
    /\ UNCHANGED <<breaker, sends, refreshes, stale>>

Tick ==
    /\ breaker' = Elapse(breaker) /\ breaker' # breaker
    /\ UNCHANGED <<request, sends, refreshes, stale>>

------------------------------------------------------------------------------
RequestStep(r) ==
    \/ Acquire(r) \/ EnterBreaker(r) \/ Send(r) \/ TokenFails(r) \/ Answer(r) \/ Retry(r)

Next ==
    \/ \E r \in Requests : Begin(r) \/ RequestStep(r) \/ Cancel(r)
    \/ Tick

Spec == Init /\ [][Next]_vars

(***************************************************************************)
(* The limiter admits, the provider answers or fails, every request has    *)
(* the client's timeout and every wait is finite.                          *)
(***************************************************************************)
FairSpec == Spec /\ \A r \in Requests : WF_vars(RequestStep(r))

------------------------------------------------------------------------------
TypeOK ==
    /\ request \in [Requests -> RequestStates]
    /\ breaker \in Breakers
    /\ sends \in [Requests -> Nat]
    /\ refreshes \in [Requests -> Nat]
    /\ stale \subseteq Requests

\* A request that is not retryable, an order for one, goes out a second time only
\* after the server refused the first as unauthenticated: never when it may have been
\* executed (README: "Retries are conservative").
NoBlindResend ==
    [][\A r \in Requests :
          sends'[r] > sends[r] /\ sends[r] > 0 /\ ~Retries(r) => request[r].answer = "auth"]_vars

\* The sends of a request are bounded, whatever the server answers and however the
\* breaker opens in between: two rounds, and the attempts of each.
SendBudget ==
    \A r \in Requests :
        sends[r] <= (IF Retries(r) THEN MaxAttempts ELSE 1) * (IF request[r].explicit THEN 1 ELSE 2)

\* Until the cooldown is over, the server sees only what was past the breaker when it
\* opened, and was waiting for a token then; and only the answer to such a request, sent
\* before or after, closes the breaker early.
OpenHoldsBack ==
    [][breaker.age \in 0..RecoveryTimeout - 1 =>
          /\ \A r \in Requests : sends'[r] > sends[r] => r \in stale
          /\ breaker'.state # "open" =>
                \E r \in stale : /\ request[r].pc = "sent" /\ request'[r].pc # "sent"
                               /\ breaker' = NewBreaker]_vars

\* The attempts of this round that got past the breaker, to the token provider.
Started(q) == CASE q.pc \in {"idle", "limit"} -> 0
                [] q.pc = "enter" -> q.attempt - 1
                [] OTHER -> q.attempt

\* `force_refresh` is the round's and not the attempt's: every attempt of the round
\* after a refusal, or of an explicit one, forces a refresh, a browser login, and nothing
\* else does.  With a retry policy a request may so log in max_attempts times, where
\* README.md and docs/SDK_GUIDE.md have the transport refresh once.
RefreshPerAttempt ==
    \A r \in Requests : LET q == request[r] IN
        q.pc # "done" => refreshes[r] = IF q.force THEN Started(q) ELSE 0

\* Every request ends.
RequestEnds == \A r \in Requests : request[r].pc \in LivePcs ~> request[r].pc = "done"
==============================================================================
