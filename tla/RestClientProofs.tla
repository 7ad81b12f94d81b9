-------------------------- MODULE RestClientProofs --------------------------
(***************************************************************************)
(* Proofs about RestClient, for any requests, methods, attempts and        *)
(* thresholds that satisfy its assumptions: types, then what the fields    *)
(* of one request and its two counts say about each other, then what the   *)
(* breaker's state says about the requests that are past it.               *)
(***************************************************************************)
EXTENDS RestClient, TLAPS

(* One request's state q, the times n it was sent, the refreshes m it asked for. *)

Attempts(q) == IF q.method \in Retryable THEN MaxAttempts ELSE 1

\* The most sends that rounds before this one can have made.
Before(q) == IF q.force /\ ~q.explicit THEN Attempts(q) ELSE 0

\* Each place allows the sends of the attempts that came before it, and has the
\* refreshes of those of its round.
Counted(q, n, m) ==
    /\ q.pc = "idle" => n = 0
    /\ q.pc = "limit" => n <= Before(q)
    /\ q.pc \in {"enter", "token"} => n <= Before(q) + q.attempt - 1
    /\ q.pc \in {"sent", "sleep"} => n <= Before(q) + q.attempt
    /\ q.pc = "done" => n <= Before(q) + Attempts(q)
    /\ q.pc # "done" => m = IF q.force THEN Started(q) ELSE 0

\* Rounds and attempts follow one another, and a request that is not retryable is on
\* its way to the server again only after a refusal.
Ordered(q, n) ==
    /\ q.explicit => q.force
    /\ q.pc \in {"enter", "token", "sent", "sleep"} => q.attempt \in 1..Attempts(q)
    /\ q.pc = "sleep" => q.attempt < Attempts(q)
    /\ q.pc \in {"limit", "enter", "token"} /\ n > 0 /\ q.method \notin Retryable
           => q.answer = "auth"

CountOK ==
    \A r \in Requests : /\ Counted(request[r], sends[r], refreshes[r])
                        /\ Ordered(request[r], sends[r])

\* The breaker on its own: closed until its failures reach the threshold, and a probe
\* leaves the cooldown over.
BreakerOK ==
    /\ breaker.state = "closed" <=> breaker.age = NotOpened
    /\ breaker.failures >= FailureThreshold <=> breaker.state # "closed"
    /\ breaker.state = "half_open" => breaker.age = RecoveryTimeout

\* Whoever is between an open breaker and its answer was past it when it opened.
Past(r) == request[r].pc \in {"token", "sent"}

StaleOK ==
    breaker.state = "open" => \A r \in Requests : Past(r) => r \in stale

USE RestAssumption, BreakerAssumption

------------------------------------------------------------------------------
(* Types. *)

LEMMA BreakerTypes ==
    /\ NewBreaker \in Breakers
    /\ \A b \in Breakers : /\ Admit(b) \in Breakers
                           /\ RecordFailure(b) \in Breakers
                           /\ RecordSuccess(b) \in Breakers
                           /\ Elapse(b) \in Breakers
  <1>1. NewBreaker \in Breakers
    BY DEF NewBreaker, Breakers, NotOpened
  <1>2. ASSUME NEW b \in Breakers PROVE Admit(b) \in Breakers
    BY <1>2 DEF Admit, Breakers
  <1>3. ASSUME NEW b \in Breakers PROVE RecordFailure(b) \in Breakers
    BY <1>3 DEF RecordFailure, Breakers, NotOpened
  <1>4. ASSUME NEW b \in Breakers PROVE Elapse(b) \in Breakers
    BY <1>4 DEF Elapse, Older, Breakers, NotOpened
  <1> QED BY <1>1, <1>2, <1>3, <1>4 DEF RecordSuccess

LEMMA RequestTypes ==
    /\ NotSent \in RequestStates
    /\ \A q \in RequestStates :
           /\ \A pc \in LivePcs \cup {"idle", "done"} : [q EXCEPT !.pc = pc] \in RequestStates
           /\ \A n \in 0..MaxAttempts : [q EXCEPT !.attempt = n] \in RequestStates
           /\ \A answer \in Answers : [q EXCEPT !.answer = answer] \in RequestStates
           /\ \A force \in BOOLEAN : [q EXCEPT !.force = force] \in RequestStates
  <1>1. NotSent \in RequestStates
    BY DEF NotSent, RequestStates, LivePcs
  <1>2. ASSUME NEW q \in RequestStates
        PROVE  /\ \A pc \in LivePcs \cup {"idle", "done"} : [q EXCEPT !.pc = pc] \in RequestStates
               /\ \A n \in 0..MaxAttempts : [q EXCEPT !.attempt = n] \in RequestStates
               /\ \A answer \in Answers : [q EXCEPT !.answer = answer] \in RequestStates
               /\ \A force \in BOOLEAN : [q EXCEPT !.force = force] \in RequestStates
    BY <1>2 DEF RequestStates
  <1> QED BY <1>1, <1>2

LEMMA GotoType ==
    ASSUME NEW r \in Requests, NEW pc \in LivePcs \cup {"idle", "done"},
           request \in [Requests -> RequestStates], Goto(r, pc)
    PROVE  /\ request' = [request EXCEPT ![r] = [request[r] EXCEPT !.pc = pc]]
           /\ request' \in [Requests -> RequestStates]
  BY RequestTypes DEF Goto

LEMMA ConcludeType ==
    ASSUME TypeOK, NEW r \in Requests, NEW answer \in Answers, Conclude(r, answer)
    PROVE  TypeOK'
  <1> DEFINE pc    == Onward(r, answer)
             moved == [request[r] EXCEPT !.pc = pc]
             heard == [moved EXCEPT !.answer = answer]
             force == request[r].force \/ pc = "limit"
             final == [heard EXCEPT !.force = force]
  <1>1. pc \in LivePcs
        \/ pc = "done"
    BY DEF Onward, LivePcs
  <1>2. final \in RequestStates
    <2>1. request[r] \in RequestStates
      BY DEF TypeOK
    <2>2. moved \in RequestStates
      BY <1>1, <2>1, RequestTypes
    <2>3. force \in BOOLEAN
      BY <2>1 DEF RequestStates
    <2> HIDE DEF pc, moved, force
    <2>4. heard \in RequestStates
      BY <2>2, RequestTypes
    <2> HIDE DEF heard
    <2> QED BY <2>3, <2>4, RequestTypes
  <1>3. request' = [request EXCEPT ![r] = final]
    <2>1. request[r] \in RequestStates
      BY DEF TypeOK
    <2>2. final = [request[r] EXCEPT !.pc = pc, !.answer = answer, !.force = force]
      OBVIOUS
    <2> QED BY <2>2 DEF Conclude
  <1>4. breaker' \in Breakers
    BY BreakerTypes DEF Conclude, Recorded, TypeOK
  <1>5. stale' \subseteq Requests
    BY DEF Conclude, Witness, TypeOK
  <1> HIDE DEF final
  <1> QED BY <1>2, <1>3, <1>4, <1>5 DEF TypeOK, Conclude

LEMMA StepType ==
    ASSUME TypeOK, CountOK, NEW r \in Requests,
           Begin(r) \/ RequestStep(r) \/ Cancel(r)
    PROVE  TypeOK'
  <1> USE DEF TypeOK
  <1> DEFINE q == request[r]
  <1>q. q \in RequestStates
    OBVIOUS
  <1>1. CASE Begin(r)
    <2>1. PICK method \in Methods, force \in BOOLEAN :
              request' = [request EXCEPT ![r] = [NotSent EXCEPT !.pc       = "limit",
                                                                !.method   = method,
                                                                !.explicit = force,
                                                                !.force    = force]]
      BY <1>1 DEF Begin
    <2> DEFINE new == [NotSent EXCEPT !.pc = "limit", !.method = method,
                                      !.explicit = force, !.force = force]
    <2>2. new \in RequestStates
      <3> DEFINE named == [NotSent EXCEPT !.method = method]
                 asked == [named EXCEPT !.explicit = force]
                 limit == [asked EXCEPT !.pc = "limit"]
      <3>1. named \in RequestStates
        BY RequestTypes DEF RequestStates
      <3> HIDE DEF named
      <3>2. asked \in RequestStates
        BY <3>1 DEF RequestStates
      <3> HIDE DEF asked
      <3>3. limit \in RequestStates
        BY <3>2, RequestTypes DEF LivePcs
      <3> HIDE DEF limit
      <3>4. [limit EXCEPT !.force = force] \in RequestStates
        BY <3>3, RequestTypes
      <3>5. new = [limit EXCEPT !.force = force]
        BY DEF named, asked, limit, NotSent
      <3> QED BY <3>4, <3>5
    <2> HIDE DEF new
    <2>3. request' \in [Requests -> RequestStates]
      BY <2>1, <2>2 DEF new
    <2> QED BY <1>1, <2>3 DEF Begin
  <1>2. CASE Acquire(r)
    <2> DEFINE new == [q EXCEPT !.pc = "enter", !.attempt = 1]
    <2>1. new \in RequestStates
      <3>1. 1 \in 0..MaxAttempts
        OBVIOUS
      <3>2. [q EXCEPT !.pc = "enter"] \in RequestStates
        BY <1>q, RequestTypes DEF LivePcs
      <3> QED BY <3>1, <3>2, RequestTypes
    <2>2. request' = [request EXCEPT ![r] = new]
      BY <1>2 DEF Acquire
    <2> HIDE DEF new
    <2> QED BY <1>2, <2>1, <2>2 DEF Acquire
  <1>3. CASE EnterBreaker(r)
    <2>1. CASE Goto(r, "done") /\ UNCHANGED <<breaker, sends, refreshes, stale>>
      BY <2>1, GotoType
    <2>2. CASE /\ Goto(r, "token")
               /\ breaker' = Admit(breaker)
               /\ refreshes' = IF request[r].force THEN [refreshes EXCEPT ![r] = @ + 1]
                                                   ELSE refreshes
               /\ stale' = stale \ {r}
               /\ UNCHANGED sends
      <3>1. request' \in [Requests -> RequestStates]
        BY <2>2, GotoType DEF LivePcs
      <3>2. breaker' \in Breakers
        BY <2>2, BreakerTypes
      <3>3. refreshes' \in [Requests -> Nat]
        BY <2>2
      <3> QED BY <2>2, <3>1, <3>2, <3>3
    <2> QED BY <1>3, <2>1, <2>2 DEF EnterBreaker
  <1>4. CASE Send(r)
    BY <1>4, GotoType DEF Send, LivePcs
  <1>5. CASE TokenFails(r)
    <2>1. CASE Goto(r, "done") /\ UNCHANGED <<breaker, sends, refreshes, stale>>
      BY <2>1, GotoType
    <2>2. CASE Conclude(r, "network")
      BY <2>2, ConcludeType DEF Answers
    <2> QED BY <1>5, <2>1, <2>2 DEF TokenFails
  <1>6. CASE Answer(r)
    BY <1>6, ConcludeType DEF Answer
  <1>7. CASE Cancel(r)
    BY <1>7, GotoType DEF Cancel
  <1>8. CASE Retry(r)
    <2> DEFINE new == [q EXCEPT !.pc = "enter", !.attempt = q.attempt + 1]
    <2>1. q.attempt < MaxAttempts /\ q.attempt \in Nat
      BY <1>8, <1>q DEF Retry, CountOK, Ordered, Attempts, RequestStates
    <2>2. new \in RequestStates
      <3>1. q.attempt + 1 \in 0..MaxAttempts
        BY <2>1
      <3>2. [q EXCEPT !.pc = "enter"] \in RequestStates
        BY <1>q, RequestTypes DEF LivePcs
      <3> QED BY <3>1, <3>2, RequestTypes
    <2>3. request' = [request EXCEPT ![r] = new]
      BY <1>8 DEF Retry
    <2> HIDE DEF new
    <2> QED BY <1>8, <2>2, <2>3 DEF Retry
  <1> QED BY <1>1, <1>2, <1>3, <1>4, <1>5, <1>6, <1>7, <1>8 DEF RequestStep

------------------------------------------------------------------------------
(* Sends and refreshes. *)

\* A step of one request leaves the others as they are.
LEMMA CountFrame ==
    ASSUME TypeOK, CountOK, NEW r \in Requests, NEW q, NEW n, NEW m,
           request'   = [request EXCEPT ![r] = q],
           sends'     = [sends EXCEPT ![r] = n],
           refreshes' = [refreshes EXCEPT ![r] = m],
           Counted(q, n, m), Ordered(q, n)
    PROVE  CountOK'
  <1> SUFFICES ASSUME NEW other \in Requests
               PROVE  /\ Counted(request'[other], sends'[other], refreshes'[other])
                      /\ Ordered(request'[other], sends'[other])
    BY DEF CountOK
  <1>1. CASE other = r
    <2>1. request'[r] = q /\ sends'[r] = n /\ refreshes'[r] = m
      BY DEF TypeOK
    <2> QED BY <1>1, <2>1
  <1>2. CASE other # r
    <2>1. /\ request'[other] = request[other] /\ sends'[other] = sends[other]
          /\ refreshes'[other] = refreshes[other]
      BY <1>2 DEF TypeOK
    <2> QED BY <2>1 DEF CountOK
  <1> QED BY <1>1, <1>2

LEMMA CountMove ==
    ASSUME TypeOK, CountOK, NEW r \in Requests, NEW q,
           request' = [request EXCEPT ![r] = q], UNCHANGED <<sends, refreshes>>,
           Counted(q, sends[r], refreshes[r]), Ordered(q, sends[r])
    PROVE  CountOK'
  <1>1. sends' = [sends EXCEPT ![r] = sends[r]] /\ refreshes' = [refreshes EXCEPT ![r] = refreshes[r]]
    BY DEF TypeOK
  <1> QED BY <1>1, CountFrame

\* However a request ends, it has made no more than its last attempt allows.
LEMMA CountDone ==
    ASSUME TypeOK, CountOK, NEW r \in Requests, request[r].pc \in LivePcs,
           Goto(r, "done"), UNCHANGED <<sends, refreshes>>
    PROVE  CountOK'
  <1> DEFINE q   == request[r]
             new == [q EXCEPT !.pc = "done"]
  <1>1. /\ q \in RequestStates /\ sends[r] \in Nat /\ refreshes[r] \in Nat
        /\ Counted(q, sends[r], refreshes[r]) /\ Ordered(q, sends[r])
    BY DEF TypeOK, CountOK
  <1>2. request' = [request EXCEPT ![r] = new]
    BY GotoType DEF TypeOK
  <1>3. /\ new.pc = "done" /\ new.attempt = q.attempt /\ new.force = q.force
        /\ new.explicit = q.explicit /\ new.method = q.method /\ new.answer = q.answer
    BY <1>1 DEF RequestStates
  <1>4. q.pc \in LivePcs /\ q.attempt \in Nat
    BY <1>1 DEF RequestStates
  <1> HIDE DEF q, new
  <1>5. Attempts(new) = Attempts(q) /\ Before(new) = Before(q)
    BY <1>3 DEF Attempts, Before
  <1>6. Attempts(q) \in Nat \ {0} /\ Before(q) \in Nat
    BY DEF Attempts, Before
  <1>7. Counted(new, sends[r], refreshes[r])
    BY <1>1, <1>3, <1>4, <1>5, <1>6 DEF Counted, Ordered, Started, LivePcs
  <1>8. Ordered(new, sends[r])
    BY <1>1, <1>3 DEF Ordered
  <1> QED BY <1>2, <1>7, <1>8, CountMove

LEMMA CountConclude ==
    ASSUME TypeOK, CountOK, NEW r \in Requests, NEW answer \in Answers, Conclude(r, answer),
           request[r].pc = "sent" \/ (request[r].pc = "token" /\ answer = "network")
    PROVE  CountOK'
  <1> DEFINE q   == request[r]
             pc  == Onward(r, answer)
             new == [q EXCEPT !.pc = pc, !.answer = answer, !.force = request[r].force \/ pc = "limit"]
  <1>1. /\ q \in RequestStates /\ sends[r] \in Nat /\ refreshes[r] \in Nat
        /\ Counted(q, sends[r], refreshes[r]) /\ Ordered(q, sends[r])
    BY DEF TypeOK, CountOK
  <1>2. request' = [request EXCEPT ![r] = new] /\ UNCHANGED <<sends, refreshes>>
    BY DEF Conclude
  <1>3. /\ new.pc = pc /\ new.attempt = q.attempt /\ new.answer = answer
        /\ new.force <=> (q.force \/ pc = "limit")
        /\ new.explicit = q.explicit /\ new.method = q.method
    BY <1>1 DEF RequestStates
  <1>4. /\ q.attempt \in Nat
        /\ q.pc = "sent" \/ (q.pc = "token" /\ answer = "network")
    BY <1>1 DEF RequestStates
  <1>5. \/ pc = "sleep" /\ q.attempt < MaxAttempts /\ q.method \in Retryable
        \/ pc = "limit" /\ answer = "auth" /\ ~q.force
        \/ pc = "done"
    BY DEF Onward, IsTransient, Retries
  <1> HIDE DEF q, pc, new
  <1>6. /\ Attempts(q) \in Nat \ {0} /\ Attempts(new) = Attempts(q)
        /\ q.method \in Retryable => Attempts(q) = MaxAttempts
        /\ Before(q) \in Nat /\ Before(new) \in Nat
    BY <1>3 DEF Attempts, Before
  <1>7. /\ sends[r] <= Before(q) + q.attempt
        /\ refreshes[r] = IF q.force THEN q.attempt ELSE 0
        /\ q.attempt \in 1..Attempts(q)
        /\ q.explicit => q.force
    BY <1>1, <1>4, <1>6 DEF Counted, Ordered, Started
  <1>8. CASE pc = "limit"
    <2>1. answer = "auth" /\ ~q.force /\ ~q.explicit
      BY <1>5, <1>7, <1>8
    <2>2. Before(q) = 0 /\ Before(new) = Attempts(new) /\ new.force
      BY <1>3, <1>8, <2>1 DEF Before
    <2>3. Counted(new, sends[r], refreshes[r])
      BY <1>1, <1>3, <1>6, <1>7, <1>8, <2>1, <2>2 DEF Counted, Started
    <2>4. Ordered(new, sends[r])
      BY <1>3, <1>8, <2>1, <2>2 DEF Ordered
    <2> QED BY <1>2, <2>3, <2>4, CountMove
  <1>9. CASE pc # "limit"
    <2>1. Before(new) = Before(q) /\ (new.force <=> q.force)
      BY <1>3, <1>6, <1>9 DEF Before
    <2>2. Counted(new, sends[r], refreshes[r])
      BY <1>1, <1>3, <1>5, <1>6, <1>7, <1>9, <2>1 DEF Counted, Started
    <2>3. Ordered(new, sends[r])
      BY <1>1, <1>3, <1>5, <1>6, <1>7, <1>9, <2>1 DEF Ordered
    <2> QED BY <1>2, <2>2, <2>3, CountMove
  <1> QED BY <1>8, <1>9

LEMMA CountStep ==
    ASSUME TypeOK, CountOK, NEW r \in Requests,
           Begin(r) \/ RequestStep(r) \/ Cancel(r)
    PROVE  CountOK'
  <1> DEFINE q == request[r]
             n == sends[r]
             m == refreshes[r]
  <1>q. /\ q \in RequestStates /\ n \in Nat /\ m \in Nat /\ q.attempt \in Nat
        /\ Counted(q, n, m) /\ Ordered(q, n)
    BY DEF TypeOK, CountOK, RequestStates
  <1>a. Attempts(q) \in Nat \ {0} /\ Before(q) \in Nat
    BY DEF Attempts, Before
  <1>1. CASE Begin(r)
    <2>1. PICK method \in Methods, force \in BOOLEAN :
              request' = [request EXCEPT ![r] = [NotSent EXCEPT !.pc       = "limit",
                                                                !.method   = method,
                                                                !.explicit = force,
                                                                !.force    = force]]
      BY <1>1 DEF Begin
    <2> DEFINE new == [NotSent EXCEPT !.pc = "limit", !.method = method,
                                      !.explicit = force, !.force = force]
    <2>2. n = 0 /\ m = 0
      BY <1>1, <1>q DEF Begin, Counted, Started
    <2>3. new.pc = "limit" /\ new.explicit = force /\ new.force = force
      BY DEF NotSent
    <2> HIDE DEF new
    <2>4. Before(new) = 0
      BY <2>3 DEF Before
    <2>5. Counted(new, n, m) /\ Ordered(new, n)
      BY <2>2, <2>3, <2>4 DEF Counted, Ordered, Started
    <2>6. request' = [request EXCEPT ![r] = new]
      BY <2>1 DEF new
    <2> QED BY <1>1, <2>5, <2>6, CountMove DEF Begin
  <1>2. CASE Acquire(r)
    <2> DEFINE new == [q EXCEPT !.pc = "enter", !.attempt = 1]
    <2>1. request' = [request EXCEPT ![r] = new] /\ q.pc = "limit"
      BY <1>2 DEF Acquire
    <2>2. /\ new.pc = "enter" /\ new.attempt = 1 /\ new.force = q.force
          /\ new.explicit = q.explicit /\ new.method = q.method /\ new.answer = q.answer
      BY <1>q DEF RequestStates
    <2> HIDE DEF q, n, m, new
    <2>3. Attempts(new) = Attempts(q) /\ Before(new) = Before(q)
      BY <2>2 DEF Attempts, Before
    <2>4. Counted(new, n, m) /\ Ordered(new, n)
      BY <1>q, <1>a, <2>1, <2>2, <2>3 DEF Counted, Ordered, Started
    <2> QED BY <1>2, <2>1, <2>4, CountMove DEF Acquire, n, m
  <1>3. CASE EnterBreaker(r)
    <2>1. CASE Goto(r, "done") /\ UNCHANGED <<breaker, sends, refreshes, stale>>
      BY <1>3, <2>1, CountDone DEF EnterBreaker, LivePcs
    <2>2. CASE /\ Goto(r, "token")
               /\ refreshes' = IF request[r].force THEN [refreshes EXCEPT ![r] = @ + 1]
                                                   ELSE refreshes
               /\ UNCHANGED sends
      <3> DEFINE new  == [q EXCEPT !.pc = "token"]
                 more == IF q.force THEN m + 1 ELSE m
      <3>1. request' = [request EXCEPT ![r] = new]
        BY <2>2, GotoType DEF LivePcs, TypeOK
      <3>2. /\ refreshes' = [refreshes EXCEPT ![r] = more]
            /\ sends' = [sends EXCEPT ![r] = n]
        BY <2>2 DEF TypeOK
      <3>3. /\ new.pc = "token" /\ new.attempt = q.attempt /\ new.force = q.force
            /\ new.explicit = q.explicit /\ new.method = q.method /\ new.answer = q.answer
        BY <1>q DEF RequestStates
      <3>4. q.pc = "enter"
        BY <1>3 DEF EnterBreaker
      <3> HIDE DEF q, n, m, new
      <3>5. Attempts(new) = Attempts(q) /\ Before(new) = Before(q)
        BY <3>3 DEF Attempts, Before
      <3>6. Counted(new, n, more) /\ Ordered(new, n)
        BY <1>q, <1>a, <3>3, <3>4, <3>5 DEF Counted, Ordered, Started
      <3> QED BY <3>1, <3>2, <3>6, CountFrame
    <2> QED BY <1>3, <2>1, <2>2 DEF EnterBreaker
  <1>4. CASE Send(r)
    <2> DEFINE new == [q EXCEPT !.pc = "sent"]
    <2>1. request' = [request EXCEPT ![r] = new]
      BY <1>4, GotoType DEF Send, LivePcs, TypeOK
    <2>2. /\ refreshes' = [refreshes EXCEPT ![r] = m]
          /\ sends' = [sends EXCEPT ![r] = n + 1]
      BY <1>4 DEF Send, TypeOK
    <2>3. /\ new.pc = "sent" /\ new.attempt = q.attempt /\ new.force = q.force
          /\ new.explicit = q.explicit /\ new.method = q.method
      BY <1>q DEF RequestStates
    <2>4. q.pc = "token"
      BY <1>4 DEF Send
    <2> HIDE DEF q, n, m, new
    <2>5. Attempts(new) = Attempts(q) /\ Before(new) = Before(q)
      BY <2>3 DEF Attempts, Before
    <2>6. Counted(new, n + 1, m) /\ Ordered(new, n + 1)
      BY <1>q, <1>a, <2>3, <2>4, <2>5 DEF Counted, Ordered, Started
    <2> QED BY <2>1, <2>2, <2>6, CountFrame
  <1>5. CASE TokenFails(r)
    <2>1. CASE Goto(r, "done") /\ UNCHANGED <<breaker, sends, refreshes, stale>>
      BY <1>5, <2>1, CountDone DEF TokenFails, LivePcs
    <2>2. CASE Conclude(r, "network")
      BY <1>5, <2>2, CountConclude DEF TokenFails, Answers
    <2> QED BY <1>5, <2>1, <2>2 DEF TokenFails
  <1>6. CASE Answer(r)
    <2>1. PICK answer \in Answers : Conclude(r, answer)
      BY <1>6 DEF Answer
    <2>2. request[r].pc = "sent"
      BY <1>6 DEF Answer
    <2> QED BY <2>1, <2>2, CountConclude
  <1>7. CASE Cancel(r)
    BY <1>7, CountDone DEF Cancel
  <1>8. CASE Retry(r)
    <2> DEFINE new == [q EXCEPT !.pc = "enter", !.attempt = q.attempt + 1]
    <2>1. request' = [request EXCEPT ![r] = new] /\ q.pc = "sleep"
      BY <1>8 DEF Retry
    <2>2. /\ new.pc = "enter" /\ new.attempt = q.attempt + 1 /\ new.force = q.force
          /\ new.explicit = q.explicit /\ new.method = q.method
      BY <1>q DEF RequestStates
    <2> HIDE DEF q, n, m, new
    <2>3. Attempts(new) = Attempts(q) /\ Before(new) = Before(q)
      BY <2>2 DEF Attempts, Before
    <2>4. q.attempt < Attempts(q) /\ q.attempt >= 1 /\ q.method \in Retryable
      BY <1>q, <2>1 DEF Ordered, Attempts
    <2>5. Counted(new, n, m) /\ Ordered(new, n)
      BY <1>q, <1>a, <2>1, <2>2, <2>3, <2>4 DEF Counted, Ordered, Started
    <2> QED BY <1>8, <2>1, <2>5, CountMove DEF Retry, n, m
  <1> QED BY <1>1, <1>2, <1>3, <1>4, <1>5, <1>6, <1>7, <1>8 DEF RequestStep

LEMMA CountInv == Spec => [](TypeOK /\ CountOK)
  <1>1. Init => TypeOK /\ CountOK
    <2> SUFFICES ASSUME Init PROVE TypeOK /\ CountOK
      OBVIOUS
    <2>1. TypeOK
      BY RequestTypes, BreakerTypes DEF Init, TypeOK
    <2>2. CountOK
      BY DEF Init, CountOK, NotSent, Counted, Ordered, Started
    <2> QED BY <2>1, <2>2
  <1>2. TypeOK /\ CountOK /\ [Next]_vars => TypeOK' /\ CountOK'
    <2> SUFFICES ASSUME TypeOK, CountOK, [Next]_vars PROVE TypeOK' /\ CountOK'
      OBVIOUS
    <2>1. CASE \E r \in Requests : Begin(r) \/ RequestStep(r) \/ Cancel(r)
      BY <2>1, StepType, CountStep
    <2>2. CASE Tick
      <3>1. TypeOK'
        BY <2>2, BreakerTypes DEF Tick, TypeOK
      <3>2. CountOK'
        BY <2>2 DEF Tick, CountOK
      <3> QED BY <3>1, <3>2
    <2>3. CASE UNCHANGED vars
      BY <2>3 DEF vars, TypeOK, CountOK
    <2> QED BY <2>1, <2>2, <2>3 DEF Next
  <1> QED BY <1>1, <1>2, PTL DEF Spec

\* Attempts stay within max_attempts: only an attempt that was not the last sleeps.
THEOREM TypeCorrect == Spec => []TypeOK
  BY CountInv, PTL

LEMMA CountBound ==
    ASSUME TypeOK, CountOK, NEW r \in Requests
    PROVE  /\ sends[r] <= Before(request[r]) + Attempts(request[r])
           /\ Attempts(request[r]) = IF Retries(r) THEN MaxAttempts ELSE 1
           /\ request[r].explicit => Before(request[r]) = 0
  <1> DEFINE q == request[r]
  <1>1. /\ q \in RequestStates /\ sends[r] \in Nat /\ refreshes[r] \in Nat
        /\ Counted(q, sends[r], refreshes[r]) /\ Ordered(q, sends[r])
    BY DEF TypeOK, CountOK
  <1>2. /\ q.pc \in LivePcs \cup {"idle", "done"} /\ q.attempt \in Nat
        /\ q.explicit \in BOOLEAN
    BY <1>1 DEF RequestStates
  <1>3. q.method \in Retryable <=> Retries(r)
    BY DEF Retries
  <1>4. q.explicit => Before(q) = 0
    BY DEF Before
  <1> HIDE DEF q
  <1>5. Attempts(q) \in Nat \ {0} /\ Before(q) \in Nat
    BY DEF Attempts, Before
  <1>6. Attempts(q) = IF Retries(r) THEN MaxAttempts ELSE 1
    BY <1>3 DEF Attempts
  <1>7. sends[r] <= Before(q) + Attempts(q)
    BY <1>1, <1>2, <1>5 DEF Counted, Ordered, LivePcs
  <1> QED BY <1>4, <1>6, <1>7 DEF q

\* However its answers and the breaker's openings fall, a request is sent at most its
\* attempts in each of its rounds.
THEOREM SendBudgetHolds == Spec => []SendBudget
  <1>1. TypeOK /\ CountOK => SendBudget
    <2> SUFFICES ASSUME TypeOK, CountOK, NEW r \in Requests
                 PROVE  sends[r] <= (IF Retries(r) THEN MaxAttempts ELSE 1)
                                        * (IF request[r].explicit THEN 1 ELSE 2)
      BY DEF SendBudget
    <2> DEFINE a == Attempts(request[r])
               b == Before(request[r])
    <2>1. /\ sends[r] <= b + a /\ (request[r].explicit => b = 0)
          /\ a = IF Retries(r) THEN MaxAttempts ELSE 1
      BY CountBound
    <2>2. a \in Nat /\ b \in Nat /\ b <= a /\ sends[r] \in Nat
      BY DEF Attempts, Before, TypeOK
    <2> HIDE DEF a, b
    <2>3. a * 1 = a /\ a * 2 = a + a
      BY <2>2
    <2>4. sends[r] <= a * (IF request[r].explicit THEN 1 ELSE 2)
      BY <2>1, <2>2, <2>3
    <2> QED BY <2>1, <2>4
  <1> QED BY <1>1, CountInv, PTL

\* A request forces one refresh per attempt of its forced round, as many as there are
\* attempts, and none in any other.
THEOREM RefreshPerAttemptHolds == Spec => []RefreshPerAttempt
  <1>1. CountOK => RefreshPerAttempt
    BY DEF CountOK, Counted, RefreshPerAttempt
  <1> QED BY <1>1, CountInv, PTL

\* What is not retryable goes out again only after the server refused it.
THEOREM NoBlindResendHolds == Spec => NoBlindResend
  <1> DEFINE Resent(r) == sends'[r] > sends[r] /\ sends[r] > 0 /\ ~Retries(r)
  <1>1. TypeOK /\ CountOK /\ [Next]_vars
            => [\A r \in Requests : Resent(r) => request[r].answer = "auth"]_vars
    <2> SUFFICES ASSUME TypeOK, CountOK, Next, NEW r \in Requests, Resent(r)
                 PROVE  request[r].answer = "auth"
      OBVIOUS
    <2>1. sends[r] \in Nat /\ sends'[r] # sends[r]
      BY DEF TypeOK
    <2>2. PICK other \in Requests : Send(other)
      BY <2>1 DEF Next, RequestStep, Begin, Acquire, EnterBreaker, TokenFails, Answer,
                  Conclude, Retry, Cancel, Tick
    <2>3. other = r
      BY <2>1, <2>2 DEF Send, TypeOK
    <2> QED BY <2>2, <2>3 DEF Send, CountOK, Ordered, Retries
  <1> QED BY <1>1, CountInv, PTL DEF Spec, NoBlindResend

------------------------------------------------------------------------------
(* The breaker and who is past it. *)

\* What an answer makes of the breaker.
LEMMA BreakerConclude ==
    ASSUME TypeOK, BreakerOK, StaleOK, NEW r \in Requests, NEW answer \in Answers,
           Conclude(r, answer)
    PROVE  BreakerOK' /\ StaleOK'
  <1>1. /\ breaker.state \in {"closed", "open", "half_open"} /\ breaker.failures \in Nat
        /\ breaker.age \in NotOpened..RecoveryTimeout /\ breaker \in Breakers
    BY DEF TypeOK, Breakers
  <1>2. \/ breaker' = breaker
        \/ breaker' = NewBreaker
        \/ breaker' = RecordFailure(breaker)
    BY DEF Conclude, Recorded, RecordSuccess
  <1>3. \A other \in Requests : Past(other)' => Past(other)
    <2> SUFFICES ASSUME NEW other \in Requests, request'[other].pc \in {"token", "sent"}
                 PROVE  request[other].pc \in {"token", "sent"}
      BY DEF Past
    <2>1. CASE other = r
      <3>1. Onward(r, answer) \notin {"token", "sent"}
        BY DEF Onward
      <3>2. request'[r].pc = Onward(r, answer)
        BY DEF Conclude, TypeOK, RequestStates
      <3> QED BY <2>1, <3>1, <3>2
    <2>2. CASE other # r
      BY <2>2 DEF Conclude, TypeOK
    <2> QED BY <2>1, <2>2
  <1>4. BreakerOK'
    <2>1. CASE breaker' = breaker
      BY <2>1 DEF BreakerOK
    <2>2. CASE breaker' = NewBreaker
      BY <2>2 DEF BreakerOK, NewBreaker, NotOpened
    <2>3. CASE breaker' = RecordFailure(breaker)
      <3>1. CASE breaker.failures + 1 >= FailureThreshold
        <4>1. breaker' = [state |-> "open", failures |-> breaker.failures + 1, age |-> 0]
          BY <2>3, <3>1 DEF RecordFailure
        <4> QED BY <1>1, <3>1, <4>1 DEF BreakerOK, NotOpened
      <3>2. CASE ~(breaker.failures + 1 >= FailureThreshold)
        <4>1. /\ breaker'.state = breaker.state /\ breaker'.age = breaker.age
              /\ breaker'.failures = breaker.failures + 1
          BY <1>1, <2>3, <3>2 DEF RecordFailure, Breakers
        <4>2. breaker.state = "closed"
          BY <1>1, <3>2 DEF BreakerOK
        <4> QED BY <1>1, <3>2, <4>1, <4>2 DEF BreakerOK
      <3> QED BY <3>1, <3>2
    <2> QED BY <1>2, <2>1, <2>2, <2>3
  <1>5. StaleOK'
    <2> SUFFICES ASSUME breaker'.state = "open", NEW other \in Requests,
                        Past(other)'
                 PROVE  other \in stale'
      BY DEF StaleOK
    <2>1. Past(other)
      BY <1>3
    <2>2. stale' = IF breaker.state # "open"
                       THEN {s \in Requests : request[s].pc \in {"token", "sent"}}
                       ELSE stale
      BY DEF Conclude, Witness
    <2> QED BY <2>1, <2>2 DEF StaleOK, Past
  <1> QED BY <1>4, <1>5

LEMMA BreakerStep ==
    ASSUME TypeOK, BreakerOK, StaleOK, [Next]_vars
    PROVE  BreakerOK' /\ StaleOK'
  <1>0. /\ breaker.state \in {"closed", "open", "half_open"} /\ breaker.failures \in Nat
        /\ breaker.age \in NotOpened..RecoveryTimeout /\ breaker \in Breakers
    BY DEF TypeOK, Breakers
  <1>1. ASSUME NEW r \in Requests, NEW q, q.pc \in {"token", "sent"} => Past(r),
               request' = [request EXCEPT ![r] = q],
               UNCHANGED <<breaker, stale>>
        PROVE  BreakerOK' /\ StaleOK'
    <2>1. \A other \in Requests : Past(other)' => Past(other)
      BY <1>1 DEF TypeOK, Past
    <2> QED BY <1>1, <2>1 DEF BreakerOK, StaleOK
  <1>2. ASSUME NEW r \in Requests, NEW pc \in LivePcs \cup {"done"}, Goto(r, pc),
               pc \in {"token", "sent"} => Past(r),
               UNCHANGED <<breaker, stale>>
        PROVE  BreakerOK' /\ StaleOK'
    <2>1. [request[r] EXCEPT !.pc = pc].pc = pc
      BY DEF TypeOK, RequestStates
    <2> QED BY <1>1, <1>2, <2>1, GotoType DEF TypeOK
  <1>3. ASSUME NEW r \in Requests, Begin(r) PROVE BreakerOK' /\ StaleOK'
    <2>1. PICK method \in Methods, force \in BOOLEAN :
              request' = [request EXCEPT ![r] = [NotSent EXCEPT !.pc       = "limit",
                                                                !.method   = method,
                                                                !.explicit = force,
                                                                !.force    = force]]
      BY <1>3 DEF Begin
    <2> DEFINE new == [NotSent EXCEPT !.pc = "limit", !.method = method,
                                      !.explicit = force, !.force = force]
    <2>2. new.pc = "limit"
      BY DEF NotSent
    <2> HIDE DEF new
    <2>3. request' = [request EXCEPT ![r] = new]
      BY <2>1 DEF new
    <2> QED BY <1>1, <1>3, <2>2, <2>3 DEF Begin
  <1>4. ASSUME NEW r \in Requests, Acquire(r) \/ Retry(r) PROVE BreakerOK' /\ StaleOK'
    <2>1. PICK n \in {1, request[r].attempt + 1} :
              request' = [request EXCEPT ![r] = [request[r] EXCEPT !.pc = "enter", !.attempt = n]]
      BY <1>4 DEF Acquire, Retry
    <2>2. [request[r] EXCEPT !.pc = "enter", !.attempt = n].pc = "enter"
      BY DEF TypeOK, RequestStates
    <2> QED BY <1>1, <1>4, <2>1, <2>2 DEF Acquire, Retry
  <1>5. ASSUME NEW r \in Requests, EnterBreaker(r) PROVE BreakerOK' /\ StaleOK'
    <2>1. CASE Goto(r, "done") /\ UNCHANGED <<breaker, stale>>
      BY <1>2, <2>1
    <2>2. CASE ~Refuses(breaker) /\ breaker' = Admit(breaker)
      <3>1. breaker'.state # "open" /\ BreakerOK'
        <4>1. CASE breaker.state = "open"
          <5>1. breaker' = [breaker EXCEPT !.state = "half_open"]
            BY <2>2, <4>1 DEF Admit
          <5>2. /\ breaker'.state = "half_open" /\ breaker'.age = breaker.age
                /\ breaker'.failures = breaker.failures
            BY <1>0, <5>1 DEF Breakers
          <5>3. breaker.age = RecoveryTimeout /\ breaker.age # NotOpened
            BY <1>0, <2>2, <4>1 DEF Refuses, CanProbe, NotOpened
          <5> QED BY <4>1, <5>2, <5>3 DEF BreakerOK
        <4>2. CASE breaker.state # "open"
          BY <2>2, <4>2 DEF Admit, BreakerOK
        <4> QED BY <4>1, <4>2
      <3> QED BY <3>1 DEF StaleOK
    <2> QED BY <1>5, <2>1, <2>2 DEF EnterBreaker
  <1>6. ASSUME NEW r \in Requests, Send(r) \/ Cancel(r) PROVE BreakerOK' /\ StaleOK'
    BY <1>2, <1>6 DEF Send, Cancel, LivePcs, Past
  <1>7. ASSUME NEW r \in Requests, TokenFails(r) PROVE BreakerOK' /\ StaleOK'
    <2>1. CASE Goto(r, "done") /\ UNCHANGED <<breaker, stale>>
      BY <1>2, <2>1
    <2>2. CASE Conclude(r, "network")
      BY <2>2, BreakerConclude DEF Answers
    <2> QED BY <1>7, <2>1, <2>2 DEF TokenFails
  <1>8. ASSUME NEW r \in Requests, Answer(r) PROVE BreakerOK' /\ StaleOK'
    BY <1>8, BreakerConclude DEF Answer
  <1>9. CASE Tick
    <2>1. /\ breaker'.state = breaker.state /\ breaker'.failures = breaker.failures
          /\ breaker'.age = IF breaker.age = NotOpened THEN breaker.age ELSE Older(breaker.age)
          /\ UNCHANGED <<request, stale>>
      BY <1>0, <1>9 DEF Tick, Elapse, Breakers
    <2>2. BreakerOK'
      BY <1>0, <2>1 DEF BreakerOK, Older, NotOpened
    <2> QED BY <2>1, <2>2 DEF StaleOK, Past
  <1>10. CASE UNCHANGED vars
    BY <1>10 DEF vars, BreakerOK, StaleOK, Past
  <1> QED BY <1>3, <1>4, <1>5, <1>6, <1>7, <1>8, <1>9, <1>10 DEF Next, RequestStep

LEMMA BreakerInv == Spec => [](BreakerOK /\ StaleOK)
  <1>1. Init => BreakerOK /\ StaleOK
    BY DEF Init, NewBreaker, BreakerOK, StaleOK, NotOpened
  <1>2. TypeOK /\ BreakerOK /\ StaleOK /\ [Next]_vars => (BreakerOK /\ StaleOK)'
    BY BreakerStep
  <1> QED BY <1>1, <1>2, TypeCorrect, PTL DEF Spec

\* What leaves an open breaker in its cooldown: a success.
LEMMA OpenEnds ==
    ASSUME TypeOK, StaleOK, Next, breaker.state = "open", ~CanProbe(breaker),
           breaker'.state # "open"
    PROVE  \E r \in stale : /\ request[r].pc = "sent" /\ request'[r].pc # "sent"
                           /\ breaker' = NewBreaker
  <1>0. breaker \in Breakers /\ breaker.failures \in Nat
    BY DEF TypeOK, Breakers
  <1>1. RecordFailure(breaker).state = "open"
    <2>1. CASE breaker.failures + 1 >= FailureThreshold
      BY <2>1 DEF RecordFailure
    <2>2. CASE ~(breaker.failures + 1 >= FailureThreshold)
      <3>1. RecordFailure(breaker) = [breaker EXCEPT !.failures = breaker.failures + 1]
        BY <2>2 DEF RecordFailure
      <3> QED BY <1>0, <3>1 DEF Breakers
    <2> QED BY <2>1, <2>2
  <1>2. ASSUME NEW r \in Requests, NEW answer \in Answers, Conclude(r, answer)
        PROVE  /\ breaker' = NewBreaker /\ answer # "network"
               /\ request'[r].pc # "sent"
    <2>1. breaker' = Recorded(r, answer)
      BY <1>2 DEF Conclude
    <2>2. breaker' # RecordFailure(breaker) /\ breaker' # breaker
      BY <1>1
    <2>3. breaker' = NewBreaker /\ answer # "network"
      BY <2>1, <2>2 DEF Recorded, RecordSuccess, IsTransient
    <2>4. request'[r].pc = Onward(r, answer)
      BY <1>2 DEF Conclude, TypeOK, RequestStates
    <2> QED BY <2>3, <2>4 DEF Onward
  <1>3. ASSUME Tick PROVE FALSE
    <2>1. breaker'.state = breaker.state
      BY <1>0, <1>3 DEF Tick, Elapse, Breakers
    <2> QED BY <2>1
  <1>4. Refuses(breaker)
    BY DEF Refuses
  <1>5. breaker' # breaker
    OBVIOUS
  <1>6. PICK r \in Requests : \/ request[r].pc = "sent" /\ \E answer \in Answers : Conclude(r, answer)
                              \/ Conclude(r, "network")
    BY <1>3, <1>4, <1>5 DEF Next, RequestStep, Begin, Acquire, EnterBreaker, Send, TokenFails,
                            Answer, Retry, Cancel
  <1>7. ~Conclude(r, "network")
    BY <1>2 DEF Answers
  <1>8. PICK answer \in Answers : Conclude(r, answer)
    BY <1>6, <1>7
  <1>9. request[r].pc = "sent" /\ r \in stale
    BY <1>6, <1>7 DEF StaleOK, Past
  <1> QED BY <1>2, <1>8, <1>9

\* In a cooldown, only what was past the breaker as it opened reaches the server, and only
\* such a request's success closes the breaker: for any requests and thresholds.
THEOREM OpenHoldsBackHolds == Spec => OpenHoldsBack
  <1> DEFINE Cooling == breaker.age \in 0..RecoveryTimeout - 1
             Held == \A r \in Requests : sends'[r] > sends[r] => r \in stale
             Closes == \E r \in stale : /\ request[r].pc = "sent" /\ request'[r].pc # "sent"
                                      /\ breaker' = NewBreaker
             Kept == Cooling => Held /\ (breaker'.state # "open" => Closes)
  <1>1. TypeOK /\ BreakerOK /\ StaleOK /\ [Next]_vars => [Kept]_vars
    <2> SUFFICES ASSUME TypeOK, BreakerOK, StaleOK, Next, Cooling
                 PROVE  Held /\ (breaker'.state # "open" => Closes)
      OBVIOUS
    <2>1. breaker.state = "open" /\ ~CanProbe(breaker)
      BY DEF BreakerOK, TypeOK, Breakers, NotOpened, CanProbe
    <2>2. ASSUME NEW r \in Requests, sends'[r] > sends[r] PROVE r \in stale
      <3>1. sends[r] \in Nat /\ sends'[r] # sends[r]
        BY <2>2 DEF TypeOK
      <3>2. PICK other \in Requests : Send(other)
        BY <3>1 DEF Next, RequestStep, Begin, Acquire, EnterBreaker, TokenFails, Answer,
                    Conclude, Retry, Cancel, Tick
      <3>3. other = r
        BY <3>1, <3>2 DEF Send, TypeOK
      <3> QED BY <2>1, <3>2, <3>3 DEF Send, StaleOK, Past
    <2>3. breaker'.state # "open" => Closes
      BY <2>1, OpenEnds
    <2> QED BY <2>2, <2>3
  <1> QED BY <1>1, TypeCorrect, BreakerInv, PTL DEF Spec, OpenHoldsBack

------------------------------------------------------------------------------
(* Every request ends: the steps it has left are fewer after each it takes. *)

\* In the order of an attempt.
Rank == [enter |-> 4, token |-> 3, sent |-> 2, sleep |-> 1]

\* A round is the limiter and the four steps of each attempt.
Round(q) == 4 * Attempts(q) + 1

\* The most steps a request has left to take, with a second round if it may be refused.
StepsLeft(q) ==
    IF q.pc \notin LivePcs THEN 0
    ELSE (IF q.pc = "limit" THEN Round(q) ELSE 4 * (Attempts(q) - q.attempt) + Rank[q.pc])
         + (IF q.force THEN 0 ELSE Round(q))

\* Whatever the provider, the server and the breaker do, a request takes at most two
\* rounds of four steps for each of its attempts; a round is started over only for a
\* refused token, once, and nothing other requests do gives it more steps.
RequestSteps ==
    [][\A r \in Requests :
          LET left == StepsLeft(request[r]) IN
          /\ left \in 0..2 * Round(request[r])
          /\ RequestStep(r) => StepsLeft(request'[r]) < left
          /\ request[r].pc # "idle" => StepsLeft(request'[r]) <= left]_vars

LEMMA Ranks ==
    /\ Rank["enter"] = 4 /\ Rank["token"] = 3 /\ Rank["sent"] = 2 /\ Rank["sleep"] = 1
    /\ LivePcs = {"limit", "enter", "token", "sent", "sleep"}
  BY DEF Rank, LivePcs

LEMMA StepsLeftBound ==
    ASSUME NEW q \in RequestStates, NEW n, Ordered(q, n)
    PROVE  /\ StepsLeft(q) \in 0..2 * Round(q)
           /\ q.pc \in LivePcs => StepsLeft(q) >= 1
           /\ Attempts(q) \in Nat \ {0} /\ q.attempt \in Nat
           /\ q.pc \in {"enter", "token", "sent", "sleep"} => q.attempt \in 1..Attempts(q)
           /\ q.force \in BOOLEAN
  <1>1. /\ q.pc \in LivePcs \cup {"idle", "done"} /\ q.attempt \in Nat /\ q.force \in BOOLEAN
    BY DEF RequestStates
  <1>2. Attempts(q) \in Nat \ {0}
    BY DEF Attempts
  <1>3. q.pc \in {"enter", "token", "sent", "sleep"} => q.attempt \in 1..Attempts(q)
    BY DEF Ordered
  <1> HIDE DEF Attempts
  <1> QED BY <1>1, <1>2, <1>3, Ranks DEF StepsLeft, Round

\* How a request moves on, from q to new: it ends, goes on in its round, or begins the
\* next one.
Moves(q, new) ==
    \/ new.pc = "done"
    \/ /\ new.method = q.method /\ (new.force <=> q.force)
       /\ \/ q.pc = "limit" /\ new.pc = "enter" /\ new.attempt = 1
          \/ q.pc = "enter" /\ new.pc = "token" /\ new.attempt = q.attempt
          \/ q.pc = "token" /\ new.pc = "sent" /\ new.attempt = q.attempt
          \/ q.pc \in {"token", "sent"} /\ new.pc = "sleep" /\ new.attempt = q.attempt
          \/ q.pc = "sleep" /\ new.pc = "enter" /\ new.attempt = q.attempt + 1
    \/ /\ new.method = q.method /\ ~q.force /\ new.force
       /\ q.pc \in {"token", "sent"} /\ new.pc = "limit"

LEMMA MovesIsLess ==
    ASSUME NEW q \in RequestStates, NEW n, Ordered(q, n), q.pc \in LivePcs,
           NEW new \in RequestStates, Moves(q, new)
    PROVE  StepsLeft(new) < StepsLeft(q)
  <1>1. /\ Attempts(q) \in Nat \ {0} /\ q.attempt \in Nat /\ new.attempt \in Nat
        /\ q.pc \in {"enter", "token", "sent", "sleep"} => q.attempt \in 1..Attempts(q)
        /\ StepsLeft(q) \in Nat /\ StepsLeft(q) >= 1
    BY StepsLeftBound DEF RequestStates, Round, Attempts
  <1>2. CASE new.pc = "done"
    <2>1. StepsLeft(new) = 0
      BY <1>2 DEF StepsLeft, LivePcs
    <2> QED BY <1>1, <2>1
  <1>3. CASE new.pc # "done"
    <2>1. Attempts(new) = Attempts(q)
      BY <1>3 DEF Moves, Attempts
    <2> QED BY <1>1, <1>3, <2>1, Ranks DEF Moves, StepsLeft, Round
  <1> QED BY <1>2, <1>3

LEMMA StepMoves ==
    ASSUME TypeOK, NEW r \in Requests, RequestStep(r)
    PROVE  /\ Moves(request[r], request'[r]) /\ request[r].pc \in LivePcs
           /\ \A other \in Requests \ {r} : request'[other] = request[other]
  <1> DEFINE q == request[r]
  <1>1. q \in RequestStates
    BY DEF TypeOK
  <1>2. ASSUME NEW new, request' = [request EXCEPT ![r] = new], Moves(q, new), q.pc \in LivePcs
        PROVE  /\ Moves(request[r], request'[r]) /\ request[r].pc \in LivePcs
               /\ \A other \in Requests \ {r} : request'[other] = request[other]
    BY <1>2 DEF TypeOK
  <1>3. ASSUME Goto(r, "done"), q.pc \in LivePcs
        PROVE  /\ Moves(request[r], request'[r]) /\ request[r].pc \in LivePcs
               /\ \A other \in Requests \ {r} : request'[other] = request[other]
    <2>1. [q EXCEPT !.pc = "done"].pc = "done"
      BY <1>1 DEF RequestStates
    <2>2. request' = [request EXCEPT ![r] = [q EXCEPT !.pc = "done"]]
      BY <1>3, GotoType DEF TypeOK
    <2>3. Moves(q, [q EXCEPT !.pc = "done"])
      BY <2>1 DEF Moves
    <2> QED BY <1>2, <1>3, <2>2, <2>3
  <1>4. ASSUME NEW answer \in Answers, Conclude(r, answer), q.pc \in {"token", "sent"}
        PROVE  /\ Moves(request[r], request'[r]) /\ request[r].pc \in LivePcs
               /\ \A other \in Requests \ {r} : request'[other] = request[other]
    <2> DEFINE pc  == Onward(r, answer)
               new == [q EXCEPT !.pc = pc, !.answer = answer,
                                !.force = request[r].force \/ pc = "limit"]
    <2>1. request' = [request EXCEPT ![r] = new]
      BY <1>4 DEF Conclude
    <2>2. /\ new.pc = pc /\ new.attempt = q.attempt /\ new.method = q.method
          /\ new.force <=> (q.force \/ pc = "limit")
      BY <1>1 DEF RequestStates
    <2>3. pc = "sleep" \/ (pc = "limit" /\ ~q.force) \/ pc = "done"
      BY DEF Onward
    <2>4. q.pc \in LivePcs
      BY <1>4 DEF LivePcs
    <2> HIDE DEF pc, new, q
    <2>5. Moves(q, new)
      BY <1>4, <2>2, <2>3 DEF Moves
    <2> QED BY <1>2, <2>1, <2>4, <2>5
  <1>5. CASE Acquire(r)
    <2> DEFINE new == [q EXCEPT !.pc = "enter", !.attempt = 1]
    <2>1. request' = [request EXCEPT ![r] = new] /\ q.pc = "limit"
      BY <1>5 DEF Acquire
    <2>2. /\ new.pc = "enter" /\ new.attempt = 1 /\ new.force = q.force
          /\ new.method = q.method
      BY <1>1 DEF RequestStates
    <2> HIDE DEF new, q
    <2>3. Moves(q, new) /\ q.pc \in LivePcs
      BY <2>1, <2>2 DEF Moves, LivePcs
    <2> QED BY <1>2, <2>1, <2>3
  <1>6. ASSUME NEW pc, Goto(r, pc), \/ q.pc = "enter" /\ pc = "token"
                                    \/ q.pc = "token" /\ pc = "sent"
        PROVE  /\ Moves(request[r], request'[r]) /\ request[r].pc \in LivePcs
               /\ \A other \in Requests \ {r} : request'[other] = request[other]
    <2> DEFINE new == [q EXCEPT !.pc = pc]
    <2>1. request' = [request EXCEPT ![r] = new]
      BY <1>6, GotoType DEF TypeOK, LivePcs
    <2>2. new.pc = pc /\ new.attempt = q.attempt /\ new.force = q.force /\ new.method = q.method
      BY <1>1 DEF RequestStates
    <2> HIDE DEF new, q
    <2>3. Moves(q, new) /\ q.pc \in LivePcs
      BY <1>6, <2>2 DEF Moves, LivePcs
    <2> QED BY <1>2, <2>1, <2>3
  <1>7. CASE EnterBreaker(r)
    <2>1. q.pc = "enter" /\ q.pc \in LivePcs /\ (Goto(r, "done") \/ Goto(r, "token"))
      BY <1>7 DEF EnterBreaker, LivePcs
    <2> QED BY <1>3, <1>6, <2>1
  <1>8. CASE Send(r)
    BY <1>6, <1>8 DEF Send
  <1>9. CASE TokenFails(r)
    <2>1. q.pc = "token" /\ q.pc \in LivePcs /\ (Goto(r, "done") \/ Conclude(r, "network"))
      BY <1>9 DEF TokenFails, LivePcs
    <2>2. "network" \in Answers
      BY DEF Answers
    <2> HIDE DEF q
    <2> QED BY <1>3, <1>4, <2>1, <2>2
  <1>10. CASE Answer(r)
    <2>1. PICK answer \in Answers : Conclude(r, answer)
      BY <1>10 DEF Answer
    <2>2. q.pc = "sent"
      BY <1>10 DEF Answer
    <2> HIDE DEF q
    <2> QED BY <1>4, <2>1, <2>2
  <1>11. CASE Retry(r)
    <2> DEFINE new == [q EXCEPT !.pc = "enter", !.attempt = q.attempt + 1]
    <2>1. request' = [request EXCEPT ![r] = new] /\ q.pc = "sleep"
      BY <1>11 DEF Retry
    <2>2. /\ new.pc = "enter" /\ new.attempt = q.attempt + 1 /\ new.force = q.force
          /\ new.method = q.method
      BY <1>1 DEF RequestStates
    <2> HIDE DEF new, q
    <2>3. Moves(q, new) /\ q.pc \in LivePcs
      BY <2>1, <2>2 DEF Moves, LivePcs
    <2> QED BY <1>2, <2>1, <2>3
  <1> QED BY <1>5, <1>7, <1>8, <1>9, <1>10, <1>11 DEF RequestStep

LEMMA RequestStepsStep ==
    ASSUME TypeOK, CountOK, TypeOK', [Next]_vars, NEW r \in Requests
    PROVE  /\ StepsLeft(request[r]) \in 0..2 * Round(request[r])
           /\ RequestStep(r) => StepsLeft(request'[r]) < StepsLeft(request[r])
           /\ request[r].pc # "idle" => StepsLeft(request'[r]) <= StepsLeft(request[r])
  <1>1. /\ request[r] \in RequestStates /\ request'[r] \in RequestStates
        /\ Ordered(request[r], sends[r])
    BY DEF TypeOK, CountOK
  <1>2. /\ StepsLeft(request[r]) \in 0..2 * Round(request[r])
        /\ StepsLeft(request[r]) \in Int /\ StepsLeft(request[r]) >= 0
    BY <1>1, StepsLeftBound DEF Round
  <1>3. ASSUME NEW other \in Requests, RequestStep(other)
        PROVE  IF other = r THEN StepsLeft(request'[r]) < StepsLeft(request[r])
                            ELSE request'[r] = request[r]
    <2>1. /\ Moves(request[other], request'[other]) /\ request[other].pc \in LivePcs
          /\ \A third \in Requests \ {other} : request'[third] = request[third]
      BY <1>3, StepMoves
    <2>2. CASE other = r
      BY <1>1, <2>1, <2>2, MovesIsLess
    <2> QED BY <2>1, <2>2
  <1>4. ASSUME request[r].pc # "idle", ~RequestStep(r)
        PROVE  request'[r] = request[r] \/ request'[r].pc = "done"
    <2>1. ASSUME NEW other \in Requests, Begin(other) PROVE request'[r] = request[r]
      BY <1>4, <2>1 DEF Begin, TypeOK
    <2>2. ASSUME NEW other \in Requests, Cancel(other)
          PROVE  request'[r] = request[r] \/ request'[r].pc = "done"
      BY <1>1, <2>2 DEF Cancel, Goto, TypeOK, RequestStates
    <2>3. ASSUME NEW other \in Requests, RequestStep(other) PROVE request'[r] = request[r]
      BY <1>3, <1>4, <2>3
    <2>4. CASE Tick \/ UNCHANGED vars
      BY <2>4 DEF Tick, vars
    <2> QED BY <2>1, <2>2, <2>3, <2>4 DEF Next
  <1>5. request'[r].pc = "done" => StepsLeft(request'[r]) = 0
    BY DEF StepsLeft, LivePcs
  <1>6. StepsLeft(request'[r]) \in Int
    BY <1>1, Ranks DEF StepsLeft, Round, Attempts, RequestStates
  <1> QED BY <1>2, <1>3, <1>4, <1>5, <1>6

\* A request ends within two rounds of its attempts, for any max_attempts, whatever
\* the server answers, the limiter and the breaker decide and other requests do: the
\* safety half of RequestEnds.
THEOREM RequestStepsHold == Spec => RequestSteps
  <1>1. ASSUME TypeOK, CountOK, TypeOK', [Next]_vars
        PROVE  \A r \in Requests :
                  LET left == StepsLeft(request[r]) IN
                  /\ left \in 0..2 * Round(request[r])
                  /\ RequestStep(r) => StepsLeft(request'[r]) < left
                  /\ request[r].pc # "idle" => StepsLeft(request'[r]) <= left
    BY <1>1, RequestStepsStep
  <1> QED BY <1>1, CountInv, PTL DEF Spec, RequestSteps
==============================================================================
