---------------------------- MODULE OrdersProofs ----------------------------
(***************************************************************************)
(* Proofs about Orders, for any calls, payloads, window and bucket.        *)
(***************************************************************************)
EXTENDS Orders, TLAPS

USE OrdersAssumption

------------------------------------------------------------------------------
(* The bucket: what was admitted and what is left never exceed the capacity. *)

AdmissionOK == burst + Level(bucket) <= Capacity

LEMMA LevelType ==
    ASSUME bucket \in Buckets
    PROVE  Level(bucket) \in 0..Capacity
  BY DEF Buckets, Level

\* What one turn of acquire does.
LEMMA AcquiresEffect ==
    ASSUME TypeOK, AdmissionOK, NEW c \in Calls, NEW p \in Payloads, NEW held \in Ages,
           NEW round \in 1..2, Acquires(c, p, held, round)
    PROVE  /\ call' \in [Calls -> CallStates]
           /\ call'[c].pc \in {"post", "sleep"} /\ call'[c].payload = p /\ call'[c].held = held
           /\ \A d \in Calls \ {c} : call'[d] = call[d]
           /\ bucket' \in Buckets
           /\ burst' \in Nat
           /\ AdmissionOK'
  <1> DEFINE level == Level(bucket)
             q(pc, wait) == [pc |-> pc, payload |-> p, held |-> held, round |-> round,
                             wait |-> wait]
  <1>1. level \in 0..Capacity
    BY LevelType DEF TypeOK
  <1>2. ASSUME NEW pc \in {"post", "sleep"}, NEW wait \in 0..Cost,
               call' = [call EXCEPT ![c] = q(pc, wait)]
        PROVE  /\ call' \in [Calls -> CallStates]
               /\ call'[c].pc \in {"post", "sleep"} /\ call'[c].payload = p
               /\ call'[c].held = held
               /\ \A d \in Calls \ {c} : call'[d] = call[d]
    <2>1. q(pc, wait) \in CallStates
      BY DEF CallStates
    <2> QED BY <1>2, <2>1 DEF TypeOK
  <1>3. CASE /\ level >= Cost
             /\ bucket' = [tokens |-> level - Cost, age |-> 0]
             /\ burst' = burst + Cost
             /\ call' = [call EXCEPT ![c] = q("post", 0)]
    <2>1. bucket' \in Buckets /\ Level(bucket') = level - Cost
      BY <1>1, <1>3 DEF Buckets, Level
    <2>2. burst' \in Nat /\ AdmissionOK'
      BY <1>1, <1>3, <2>1 DEF AdmissionOK, TypeOK
    <2>3. 0 \in 0..Cost
      OBVIOUS
    <2> QED BY <1>2, <1>3, <2>1, <2>2, <2>3
  <1>4. CASE /\ level < Cost
             /\ bucket' = [tokens |-> level, age |-> 0]
             /\ call' = [call EXCEPT ![c] = q("sleep", Cost - level)]
             /\ UNCHANGED burst
    <2>1. bucket' \in Buckets /\ Level(bucket') = level
      BY <1>1, <1>4 DEF Buckets, Level
    <2>2. burst' \in Nat /\ AdmissionOK'
      BY <1>1, <1>4, <2>1 DEF AdmissionOK, TypeOK
    <2>3. Cost - level \in 0..Cost
      BY <1>1, <1>4
    <2> QED BY <1>2, <1>4, <2>1, <2>2, <2>3
  <1> QED BY <1>3, <1>4 DEF Acquires

------------------------------------------------------------------------------
(* The window. *)

\* A call whose POST may still arrive.
Pending(c) == call[c].pc \in {"sleep", "post"}

\* A reservation is as old as the guard says or older; of the calls of one order that can
\* still arrive, or did, all but one were placed Ttl ago or earlier.
WindowOK ==
    /\ \A p \in Payloads : seen[p] <= reserved[p]
    /\ \A c \in Calls : Pending(c) =>
           /\ seen[call[c].payload] <= call[c].held
           /\ call[c].held >= Ttl \/ reserved[call[c].payload] >= Ttl
    /\ \A c, d \in Calls :
           c # d /\ Pending(c) /\ Pending(d) /\ call[c].payload = call[d].payload =>
               call[c].held >= Ttl \/ call[d].held >= Ttl

IInv == TypeOK /\ AdmissionOK /\ WindowOK

LEMMA OlderFacts ==
    /\ \A a \in Ages : Older(a) \in Ages /\ Older(a) >= a
    /\ \A a, b \in Ages : a <= b => Older(a) <= Older(b)
  BY DEF Ages, Older

\* A step that changes no reservation, and one call to a state of the same order.
LEMMA WindowKept ==
    ASSUME TypeOK, WindowOK, NEW c \in Calls,
           UNCHANGED <<seen, reserved>>,
           \A d \in Calls \ {c} : call'[d] = call[d],
           ~Pending(c)' \/ (/\ Pending(c)
                            /\ call'[c].payload = call[c].payload
                            /\ call'[c].held = call[c].held)
    PROVE  WindowOK'
  BY DEF WindowOK, Pending

LEMMA InitIInv == Init => IInv
  <1> SUFFICES ASSUME Init PROVE IInv
    OBVIOUS
  <1>1. TypeOK
    <2>1. Idle \in CallStates
      BY DEF Idle, CallStates, Ages
    <2>2. bucket \in Buckets
      BY DEF Init, Buckets
    <2> QED BY <2>1, <2>2 DEF Init, TypeOK, At, Idle, Ages
  <1>2. AdmissionOK
    BY DEF Init, AdmissionOK, Level
  <1>3. WindowOK
    BY DEF Init, WindowOK, Pending, Idle
  <1> QED BY <1>1, <1>2, <1>3 DEF IInv

LEMMA PlaceStep ==
    ASSUME IInv, NEW c \in Calls, Place(c)
    PROVE  IInv'
  <1> USE DEF IInv
  <1>1. PICK p \in Payloads : /\ seen[p] >= Ttl
                              /\ seen' = [seen EXCEPT ![p] = 0]
                              /\ Acquires(c, p, 0, 1)
    BY DEF Place
  <1>2. 0 \in Ages /\ 1 \in 1..2
    BY DEF Ages
  <1>3. /\ call' \in [Calls -> CallStates]
        /\ call'[c].pc \in {"post", "sleep"} /\ call'[c].payload = p /\ call'[c].held = 0
        /\ \A d \in Calls \ {c} : call'[d] = call[d]
        /\ bucket' \in Buckets
        /\ burst' \in Nat
        /\ AdmissionOK'
    BY <1>1, <1>2, AcquiresEffect
  <1>4. UNCHANGED reserved /\ seen' \in [Payloads -> Ages]
    BY <1>1, <1>2 DEF Place, TypeOK
  <1>5. TypeOK'
    BY <1>3, <1>4 DEF TypeOK, At
  <1>6. /\ seen'[p] = 0
        /\ \A o \in Payloads \ {p} : seen'[o] = seen[o]
        /\ reserved[p] >= Ttl
        /\ \A o \in Payloads : seen[o] \in 0..Ttl /\ reserved[o] \in 0..Ttl
    BY <1>1 DEF TypeOK, WindowOK, Ages
  <1>7. \A d \in Calls \ {c} : Pending(d) /\ call[d].payload = p => call[d].held >= Ttl
    BY <1>1 DEF WindowOK, TypeOK, Ages, CallStates
  <1>8. \A d \in Calls : /\ call[d].held \in 0..Ttl
                         /\ Pending(d) => call[d].payload \in Payloads
    BY DEF TypeOK, CallStates, Ages, Pending, At
  <1>9. WindowOK'
    <2>1. \A o \in Payloads : seen'[o] <= reserved'[o]
      BY <1>4, <1>6 DEF WindowOK
    <2>2. ASSUME NEW d \in Calls, Pending(d)'
          PROVE  /\ seen'[call'[d].payload] <= call'[d].held
                 /\ call'[d].held >= Ttl \/ reserved'[call'[d].payload] >= Ttl
      <3>1. CASE d = c
        BY <1>3, <1>4, <1>6, <3>1
      <3>2. CASE d # c
        <4>1. call'[d] = call[d] /\ Pending(d)
          BY <1>3, <2>2, <3>2 DEF Pending
        <4>2. CASE call[d].payload = p
          BY <1>4, <1>6, <1>8, <4>1, <4>2 DEF WindowOK
        <4>3. CASE call[d].payload # p
          BY <1>4, <1>6, <1>8, <4>1, <4>3 DEF WindowOK
        <4> QED BY <4>2, <4>3
      <3> QED BY <3>1, <3>2
    <2>3. ASSUME NEW d \in Calls, NEW e \in Calls, d # e, Pending(d)', Pending(e)',
                 call'[d].payload = call'[e].payload
          PROVE  call'[d].held >= Ttl \/ call'[e].held >= Ttl
      BY <1>3, <1>7, <2>3 DEF WindowOK, Pending
    <2> QED BY <2>1, <2>2, <2>3 DEF WindowOK
  <1> QED BY <1>3, <1>5, <1>9

LEMMA TickStep ==
    ASSUME IInv, Tick
    PROVE  IInv'
  <1> USE DEF IInv
  <1> DEFINE Aged(c) == [call[c] EXCEPT !.held = Older(call[c].held),
                                        !.wait = IF call[c].wait > 0 THEN call[c].wait - 1 ELSE 0]
  <1>1. ASSUME NEW c \in Calls
        PROVE  /\ Aged(c) \in CallStates
               /\ Aged(c).pc = call[c].pc /\ Aged(c).payload = call[c].payload
               /\ Aged(c).held = Older(call[c].held)
    <2>1. call[c] \in CallStates
      BY DEF TypeOK
    <2>2. Older(call[c].held) \in Ages
      BY <2>1, OlderFacts DEF CallStates
    <2>3. (IF call[c].wait > 0 THEN call[c].wait - 1 ELSE 0) \in 0..Cost
      BY <2>1 DEF CallStates
    <2> QED BY <2>1, <2>2, <2>3 DEF CallStates
  <1>2. \A c \in Calls : call'[c] = IF At(c, "idle") THEN call[c] ELSE Aged(c)
    BY DEF Tick
  <1>3. \A c \in Calls : /\ call'[c] \in CallStates
                         /\ call'[c].pc = call[c].pc /\ call'[c].payload = call[c].payload
                         /\ ~At(c, "idle") => call'[c].held = Older(call[c].held)
    BY <1>1, <1>2 DEF TypeOK
  <1>4. /\ seen' \in [Payloads -> Ages] /\ reserved' \in [Payloads -> Ages]
    BY OlderFacts DEF Tick, TypeOK
  <1>5. /\ bucket.tokens \in 0..Capacity /\ bucket.age \in 0..Capacity
        /\ bucket' \in Buckets
        /\ bucket'.tokens = bucket.tokens
        /\ bucket'.age = IF bucket.age < Capacity THEN bucket.age + 1 ELSE Capacity
        /\ burst \in Nat /\ burst' \in Nat
        /\ burst' = IF burst > 0 THEN burst - 1 ELSE 0
    <2>1. bucket' = [tokens |-> bucket.tokens,
                     age |-> IF bucket.age < Capacity THEN bucket.age + 1 ELSE Capacity]
      BY DEF Tick
    <2>2. bucket.tokens \in 0..Capacity /\ bucket.age \in 0..Capacity
      BY DEF TypeOK, Buckets
    <2>3. (IF bucket.age < Capacity THEN bucket.age + 1 ELSE Capacity) \in 0..Capacity
      BY <2>2
    <2>4. burst \in Nat /\ burst' = IF burst > 0 THEN burst - 1 ELSE 0
      BY DEF Tick, TypeOK
    <2> QED BY <2>1, <2>2, <2>3, <2>4 DEF Buckets
  <1>6. TypeOK'
    <2>1. call' \in [Calls -> CallStates]
      BY <1>3 DEF Tick
    <2>2. \A c \in Calls : ~At(c, "idle")' => call'[c].payload \in Payloads
      BY <1>3 DEF TypeOK, At
    <2> QED BY <1>4, <1>5, <2>1, <2>2 DEF TypeOK
  <1>7. AdmissionOK'
    <2>1. /\ Level(bucket') \in 0..Capacity /\ Level(bucket') <= Level(bucket) + 1
          /\ Level(bucket) \in 0..Capacity
      BY <1>5 DEF Level
    <2> QED BY <1>5, <2>1 DEF AdmissionOK
  <1>8. WindowOK'
    <2>1. /\ \A o \in Payloads : seen'[o] = Older(seen[o]) /\ reserved'[o] = Older(reserved[o])
          /\ \A o \in Payloads : seen[o] \in Ages /\ reserved[o] \in Ages
      BY DEF Tick, TypeOK
    <2>2. ASSUME NEW c \in Calls, Pending(c)'
          PROVE  /\ Pending(c) /\ call[c].held \in Ages /\ call[c].payload \in Payloads
                 /\ call'[c].held = Older(call[c].held)
      <3>1. Pending(c) /\ ~At(c, "idle")
        BY <1>3, <2>2 DEF Pending, At
      <3>2. call[c].held \in Ages /\ call[c].payload \in Payloads
        BY <3>1 DEF TypeOK, CallStates
      <3> QED BY <1>3, <3>1, <3>2
    <2>3. \A a \in Ages : a >= Ttl => Older(a) >= Ttl
      BY OlderFacts DEF Ages
    <2>4. \A o \in Payloads : seen'[o] <= reserved'[o]
      BY <2>1, OlderFacts DEF WindowOK
    <2>5. ASSUME NEW c \in Calls, Pending(c)'
          PROVE  /\ seen'[call'[c].payload] <= call'[c].held
                 /\ call'[c].held >= Ttl \/ reserved'[call'[c].payload] >= Ttl
      <3>1. /\ Pending(c) /\ call[c].held \in Ages /\ call[c].payload \in Payloads
            /\ call'[c].held = Older(call[c].held)
        BY <2>2, <2>5
      <3> QED BY <1>3, <2>1, <2>3, <3>1, OlderFacts DEF WindowOK
    <2>6. ASSUME NEW c \in Calls, NEW d \in Calls, c # d, Pending(c)', Pending(d)',
                 call'[c].payload = call'[d].payload
          PROVE  call'[c].held >= Ttl \/ call'[d].held >= Ttl
      BY <1>3, <2>2, <2>3, <2>6 DEF WindowOK
    <2> QED BY <2>4, <2>5, <2>6 DEF WindowOK
  <1> QED BY <1>6, <1>7, <1>8

LEMMA StepIInv == IInv /\ [Next]_vars => IInv'
  <1> SUFFICES ASSUME IInv, [Next]_vars PROVE IInv'
    OBVIOUS
  <1> USE DEF IInv
  <1>0. ASSUME NEW c \in Calls, ~At(c, "idle")
        PROVE  call[c].payload \in Payloads /\ call[c].held \in Ages /\ call[c].round \in 1..2
    BY <1>0 DEF TypeOK, CallStates
  <1>1. CASE Tick
    BY <1>1, TickStep
  <1>2. ASSUME NEW c \in Calls, Place(c) PROVE IInv'
    BY <1>2, PlaceStep
  <1>3. ASSUME NEW c \in Calls, Wake(c) \/ Refused(c) PROVE IInv'
    <2>1. PICK round \in 1..2 : Acquires(c, call[c].payload, call[c].held, round)
      BY <1>0, <1>3 DEF Wake, Refused, At
    <2>2. Pending(c) /\ call[c].payload \in Payloads /\ call[c].held \in Ages
      BY <1>0, <1>3 DEF Wake, Refused, At, Pending
    <2>3. UNCHANGED <<seen, reserved>>
      BY <1>3 DEF Wake, Refused
    <2>4. /\ call' \in [Calls -> CallStates]
          /\ call'[c].pc \in {"post", "sleep"}
          /\ call'[c].payload = call[c].payload /\ call'[c].held = call[c].held
          /\ \A d \in Calls \ {c} : call'[d] = call[d]
          /\ bucket' \in Buckets
          /\ burst' \in Nat
          /\ AdmissionOK'
      BY <2>1, <2>2, AcquiresEffect
    <2>5. TypeOK'
      BY <2>2, <2>3, <2>4 DEF TypeOK, At
    <2>6. WindowOK'
      BY <2>2, <2>3, <2>4, WindowKept
    <2> QED BY <2>4, <2>5, <2>6
  <1>4. ASSUME NEW c \in Calls, Arrive(c) PROVE IInv'
    <2> DEFINE p == call[c].payload
    <2>1. p \in Payloads /\ call[c].held \in Ages /\ Pending(c)
      BY <1>0, <1>4 DEF Arrive, At, Pending
    <2>2. /\ call'[c].pc = "answer" /\ call'[c].payload = p
          /\ \A d \in Calls \ {c} : call'[d] = call[d]
          /\ call' \in [Calls -> CallStates]
      BY <1>4 DEF Arrive, TypeOK, CallStates
    <2>3. /\ reserved'[p] = call[c].held
          /\ \A o \in Payloads \ {p} : reserved'[o] = reserved[o]
          /\ UNCHANGED <<seen, bucket, burst>>
      BY <1>4, <2>1 DEF Arrive, TypeOK
    <2>4. TypeOK'
      <3>1. reserved' \in [Payloads -> Ages]
        BY <1>4, <2>1 DEF Arrive, TypeOK, Ages
      <3> QED BY <2>1, <2>2, <2>3, <3>1 DEF TypeOK, At
    <2>5. WindowOK'
      <3>1. \A o \in Payloads : seen'[o] <= reserved'[o]
        BY <2>1, <2>3 DEF WindowOK
      <3>2. ASSUME NEW d \in Calls, Pending(d)'
            PROVE  d # c /\ Pending(d) /\ call'[d] = call[d] /\ call[d].payload \in Payloads
        BY <2>2, <3>2 DEF Pending, TypeOK, At
      <3>3. ASSUME NEW d \in Calls, Pending(d)'
            PROVE  /\ seen'[call'[d].payload] <= call'[d].held
                   /\ call'[d].held >= Ttl \/ reserved'[call'[d].payload] >= Ttl
        <4>1. CASE call[d].payload = p
          BY <2>1, <2>3, <3>2, <3>3, <4>1 DEF WindowOK
        <4>2. CASE call[d].payload # p
          BY <2>3, <3>2, <3>3, <4>2 DEF WindowOK
        <4> QED BY <4>1, <4>2
      <3> QED BY <3>1, <3>2, <3>3 DEF WindowOK
    <2>6. AdmissionOK'
      BY <2>3 DEF AdmissionOK, Level
    <2> QED BY <2>4, <2>5, <2>6
  <1>5. ASSUME NEW c \in Calls, Ends(c) PROVE IInv'
    <2>1. /\ call'[c].pc = "idle"
          /\ \A d \in Calls \ {c} : call'[d] = call[d]
          /\ call' \in [Calls -> CallStates]
          /\ UNCHANGED <<seen, bucket, burst, reserved>>
      BY <1>5 DEF Ends, TypeOK, Idle, CallStates, Ages
    <2>2. TypeOK'
      BY <2>1 DEF TypeOK, At
    <2>3. WindowOK'
      BY <2>1, WindowKept DEF Pending
    <2>4. AdmissionOK'
      BY <2>1 DEF AdmissionOK, Level
    <2> QED BY <2>2, <2>3, <2>4
  <1>6. CASE UNCHANGED vars
    BY <1>6 DEF vars, TypeOK, AdmissionOK, WindowOK, Pending, At, Level
  <1> QED BY <1>1, <1>2, <1>3, <1>4, <1>5, <1>6 DEF Next, Step

LEMMA IInvHolds == Spec => []IInv
  BY InitIInv, StepIInv, PTL DEF Spec

------------------------------------------------------------------------------
\* Every call, reservation and bucket keeps its type: the bucket is never overdrawn and
\* never overflows.
THEOREM TypeCorrect == Spec => []TypeOK
  <1>1. IInv => TypeOK
    BY DEF IInv
  <1> QED BY <1>1, IInvHolds, PTL

\* Whatever calls wait, give up and race for tokens, the limiter admits no more over any
\* interval than its capacity and what is refilled meanwhile.
THEOREM AdmissionBoundHolds == Spec => []AdmissionBound
  <1>1. IInv => AdmissionBound
    BY LevelType DEF IInv, AdmissionOK, AdmissionBound, TypeOK
  <1> QED BY <1>1, IInvHolds, PTL

\* Of one order placed several times within Ttl at most one arrives, for any number of
\* calls and orders.
THEOREM OnePerWindowHolds == Spec => OnePerWindow
  <1> DEFINE A == \A c \in Calls :
                      LET p == call[c].payload
                      IN  At(c, "post") /\ call'[c].pc = "answer" =>
                              call[c].held >= Ttl \/ reserved[p] >= Ttl
  <1>1. IInv => A
    BY DEF IInv, WindowOK, Pending, At
  <1>2. IInv /\ [Next]_vars => [A]_vars
    BY <1>1
  <1> QED BY <1>2, IInvHolds, PTL DEF Spec, OnePerWindow
------------------------------------------------------------------------------
(* No sleep is in vain. *)

\* The bucket will hold a token when the call's sleep is over, if none is taken meanwhile.
Enough(c) == Level(bucket) + call[c].wait >= Cost

\* A call of acquire that sleeps sleeps long enough, and goes on doing so whatever time passes
\* and whoever else looks at the bucket, until another call is admitted; so one that wakes
\* to an empty bucket was overtaken, and then its new sleep is long enough again.
SleepsSuffice ==
    [][\A c \in Calls :
          /\ ~At(c, "sleep") /\ call'[c].pc = "sleep" => Enough(c)'
          /\ At(c, "sleep") /\ Enough(c) /\ ~Admits /\ call'[c].pc = "sleep" => Enough(c)'
          /\ Wake(c) => Admits \/ (~Enough(c) /\ Enough(c)')]_vars

LEMMA AcquiresLevel ==
    ASSUME TypeOK, NEW c \in Calls, NEW p, NEW held, NEW round, Acquires(c, p, held, round)
    PROVE  /\ \A d \in Calls \ {c} : call'[d] = call[d]
           /\ \/ Level(bucket) >= Cost /\ Admits /\ call'[c].pc = "post"
              \/ /\ Level(bucket) < Cost /\ Level(bucket') = Level(bucket)
                 /\ call'[c].pc = "sleep" /\ call'[c].wait = Cost - Level(bucket)
  <1> DEFINE level == Level(bucket)
             q(pc, wait) == [pc |-> pc, payload |-> p, held |-> held, round |-> round,
                             wait |-> wait]
  <1>1. level \in 0..Capacity
    BY LevelType DEF TypeOK
  <1>2. ASSUME NEW pc, NEW wait, call' = [call EXCEPT ![c] = q(pc, wait)]
        PROVE  /\ call'[c].pc = pc /\ call'[c].wait = wait
               /\ \A d \in Calls \ {c} : call'[d] = call[d]
    BY <1>2 DEF TypeOK
  <1>3. CASE /\ level >= Cost
             /\ burst' = burst + Cost
             /\ call' = [call EXCEPT ![c] = q("post", 0)]
    <2>1. Admits
      BY <1>3 DEF Admits, TypeOK
    <2> QED BY <1>2, <1>3, <2>1
  <1>4. CASE /\ level < Cost
             /\ bucket' = [tokens |-> level, age |-> 0]
             /\ call' = [call EXCEPT ![c] = q("sleep", Cost - level)]
    <2>1. bucket'.tokens = level /\ bucket'.age = 0
      BY <1>4
    <2>2. Level(bucket') = level
      <3> HIDE DEF level
      <3> QED BY <1>1, <2>1 DEF Level
    <2> QED BY <1>2, <1>4, <2>2
  <1> QED BY <1>3, <1>4 DEF Acquires

LEMMA TickLevel ==
    ASSUME TypeOK, Tick, NEW c \in Calls, At(c, "sleep"), Enough(c)
    PROVE  Enough(c)'
  <1> DEFINE before == call[c].wait
             after == call'[c].wait
             new == [call[c] EXCEPT !.held = Older(call[c].held),
                                    !.wait = IF before > 0 THEN before - 1 ELSE 0]
  <1>1. before \in 0..Cost
    BY DEF TypeOK, CallStates
  <1>2. after = IF before > 0 THEN before - 1 ELSE 0
    <2>1. call'[c] = new
      BY DEF Tick, At
    <2>2. new.wait = IF before > 0 THEN before - 1 ELSE 0
      BY DEF TypeOK, CallStates
    <2> QED BY <2>1, <2>2
  <1>3. /\ bucket.tokens \in 0..Capacity /\ bucket.age \in 0..Capacity
        /\ bucket'.tokens = bucket.tokens
        /\ bucket'.age = IF bucket.age < Capacity THEN bucket.age + 1 ELSE Capacity
    BY DEF Tick, TypeOK, Buckets
  <1>4. Level(bucket') = IF Level(bucket) < Capacity THEN Level(bucket) + 1 ELSE Capacity
    BY <1>3 DEF Level
  <1>5. Level(bucket) \in 0..Capacity
    BY LevelType DEF TypeOK
  <1> HIDE DEF before, after
  <1>6. Level(bucket) + before >= Cost
    BY DEF Enough, before
  <1>7. Level(bucket') + after >= Cost
    BY <1>1, <1>2, <1>4, <1>5, <1>6
  <1> QED BY <1>7 DEF Enough, after

LEMMA SleepsSufficeStep ==
    ASSUME TypeOK, [Next]_vars, NEW c \in Calls
    PROVE  /\ ~At(c, "sleep") /\ call'[c].pc = "sleep" => Enough(c)'
           /\ At(c, "sleep") /\ Enough(c) /\ ~Admits /\ call'[c].pc = "sleep" => Enough(c)'
           /\ Wake(c) => Admits \/ (~Enough(c) /\ Enough(c)')
  <1> DEFINE Kept == Level(bucket') = Level(bucket) /\ call'[c] = call[c]
  <1>1. Level(bucket) \in 0..Capacity /\ call[c].wait \in 0..Cost
    BY LevelType DEF TypeOK, CallStates
  <1>2. Kept /\ Enough(c) => Enough(c)'
    BY DEF Enough
  <1>3. ASSUME NEW p, NEW held, NEW round, Acquires(c, p, held, round)
        PROVE  \/ Admits /\ call'[c].pc # "sleep" /\ Level(bucket) >= Cost
               \/ Enough(c)' /\ Level(bucket) < Cost
    <2>1. CASE Level(bucket) >= Cost /\ Admits /\ call'[c].pc = "post"
      BY <2>1
    <2>2. CASE /\ Level(bucket) < Cost /\ Level(bucket') = Level(bucket)
               /\ call'[c].wait = Cost - Level(bucket)
      <3>1. Level(bucket') + call'[c].wait >= Cost
        BY <1>1, <2>2
      <3> QED BY <2>2, <3>1 DEF Enough
    <2> QED BY <1>3, <2>1, <2>2, AcquiresLevel
  <1>4. ASSUME NEW d \in Calls \ {c}, NEW p, NEW held, NEW round, Acquires(d, p, held, round)
        PROVE  (Admits /\ call'[c] = call[c]) \/ Kept
    BY <1>4, AcquiresLevel
  <1>5. ASSUME Wake(c)
        PROVE  (Admits /\ call'[c].pc # "sleep") \/ (~Enough(c) /\ Enough(c)')
    <2>1. call[c].wait = 0 /\ Acquires(c, call[c].payload, call[c].held, call[c].round)
      BY <1>5 DEF Wake
    <2>2. Level(bucket) < Cost => ~Enough(c)
      BY <1>1, <2>1 DEF Enough
    <2> QED BY <1>3, <2>1, <2>2
  <1>6. CASE Tick
    <2>1. call'[c].pc = call[c].pc
      BY <1>6 DEF Tick, At, TypeOK, CallStates
    <2>2. ~Wake(c) \/ Admits \/ (~Enough(c) /\ Enough(c)')
      BY <1>5
    <2> QED BY <1>6, <2>1, <2>2, TickLevel DEF At
  <1>7. CASE Place(c) \/ Refused(c)
    <2>1. ~At(c, "sleep") /\ ~Wake(c)
      BY <1>7 DEF Place, Refused, Wake, At
    <2>2. \E p, held, round : Acquires(c, p, held, round)
      BY <1>7 DEF Place, Refused
    <2> QED BY <1>3, <2>1, <2>2
  <1>8. CASE Wake(c)
    BY <1>5, <1>8 DEF Wake
  <1>9. CASE Arrive(c) \/ Ends(c)
    <2>1. call'[c].pc # "sleep"
      BY <1>9 DEF Arrive, Ends, Idle, TypeOK, CallStates
    <2> QED BY <1>5, <2>1
  <1>10. ASSUME NEW d \in Calls \ {c}, Step(d)
         PROVE  (Admits /\ call'[c] = call[c]) \/ Kept
    <2>1. CASE Place(d) \/ Wake(d) \/ Refused(d)
      <3>1. \E p, held, round : Acquires(d, p, held, round)
        BY <2>1 DEF Place, Wake, Refused
      <3> QED BY <1>4, <3>1
    <2>2. CASE Arrive(d) \/ Ends(d)
      BY <2>2 DEF Arrive, Ends, TypeOK
    <2> QED BY <1>10, <2>1, <2>2 DEF Step
  <1>11. CASE \E d \in Calls \ {c} : Step(d)
    BY <1>2, <1>5, <1>10, <1>11 DEF At
  <1>12. CASE UNCHANGED vars
    BY <1>2, <1>5, <1>12 DEF At, vars
  <1>13. Tick \/ Step(c) \/ (\E d \in Calls \ {c} : Step(d)) \/ UNCHANGED vars
    BY DEF Next
  <1> QED BY <1>6, <1>7, <1>8, <1>9, <1>11, <1>12, <1>13 DEF Step

\* A call that sleeps in acquire sleeps long enough unless another is admitted meanwhile, for
\* any calls, capacity and cost: the safety half of WaitersProgress.
THEOREM SleepsSufficeHolds == Spec => SleepsSuffice
  <1>1. ASSUME TypeOK, [Next]_vars
        PROVE  \A c \in Calls :
                  /\ ~At(c, "sleep") /\ call'[c].pc = "sleep" => Enough(c)'
                  /\ At(c, "sleep") /\ Enough(c) /\ ~Admits /\ call'[c].pc = "sleep" => Enough(c)'
                  /\ Wake(c) => Admits \/ (~Enough(c) /\ Enough(c)')
    BY <1>1, SleepsSufficeStep
  <1> QED BY <1>1, TypeCorrect, PTL DEF Spec, SleepsSuffice
==============================================================================
