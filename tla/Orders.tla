------------------------------- MODULE Orders -------------------------------
(***************************************************************************)
(* `KiteClient.place_order` with the `DuplicateOrderGuard` it reserves in  *)
(* and a `RestClient` that has a `RateLimiter`: calls that overlap share   *)
(* the guard's reservations and the limiter's bucket.                      *)
(*                                                                         *)
(* A call's pc names the await it is suspended at:                         *)
(*   sleep    acquire's wait                                               *)
(*   post     the token provider, then the POST on its way                 *)
(*   answer   the answer to a POST the exchange has accepted               *)
(* Reserving and a successful acquire do not suspend.                      *)
(*                                                                         *)
(* The monotonic clock ticks once in the time one unit is refilled; a      *)
(* token is Cost units.  The code only compares and subtracts times, so    *)
(* the state keeps ages, which saturate.                                   *)
(***************************************************************************)
EXTENDS Integers

CONSTANTS
    Calls,      \* calls under way at once
    Payloads,   \* orders with different fingerprints
    Ttl,        \* ttl_seconds of the guard, in ticks
    Capacity,   \* of the bucket, in units
    Cost        \* units of a token

ASSUME OrdersAssumption ==
    /\ Ttl \in Nat \ {0}
    /\ Capacity \in Nat
    /\ Cost \in 1..Capacity     \* acquire raises otherwise

VARIABLES
    call,       \* [Calls -> CallStates]
    seen,       \* [Payloads -> 0..Ttl]: ages of self._seen; Ttl for none, or expired
    bucket,     \* self._tokens, and the age of self._updated_at
    burst,      \* history: units admitted beyond those refilled
    reserved    \* history: [Payloads -> 0..Ttl] age of the reservation that last arrived

vars == <<call, seen, bucket, burst, reserved>>

Ages == 0..Ttl
Older(age) == IF age < Ttl THEN age + 1 ELSE age

CallStates ==
    [ pc      : {"idle", "sleep", "post", "answer"},
      payload : Payloads \cup {"none"},
      held    : Ages,           \* history: age of its reservation
      round   : 1..2,           \* of request: 2 after a 401 or 403
      wait    : 0..Cost ]       \* left of its sleep

Idle == [pc |-> "idle", payload |-> "none", held |-> 0, round |-> 1, wait |-> 0]

Buckets == [tokens : 0..Capacity, age : 0..Capacity]

Init ==
    /\ call = [c \in Calls |-> Idle]
    /\ seen = [p \in Payloads |-> Ttl]
    /\ bucket = [tokens |-> Capacity, age |-> 0]
    /\ burst = 0
    /\ reserved = [p \in Payloads |-> Ttl]

------------------------------------------------------------------------------
At(c, pc) == call[c].pc = pc

\* Mutated form: lets the bucket overflow.
LevelOverflowing(b) == b.tokens + b.age

\* Mutated form: refills nothing.
LevelKept(b) == b.tokens

\* `_refill`: the tokens it computes.
Level(b) == IF b.tokens + b.age < Capacity THEN b.tokens + b.age ELSE Capacity

\* Mutated form: takes what is not there.
AcquiresOverdrawing(c, payload, held, round) ==
    LET q == [pc |-> "post", payload |-> payload, held |-> held, round |-> round, wait |-> 0]
    IN  /\ bucket' = [tokens |-> Level(bucket) - Cost, age |-> 0]
        /\ burst' = burst + Cost
        /\ call' = [call EXCEPT ![c] = q]

\* One turn of acquire, for a call in this state: it goes on to its POST, or sleeps.
Acquires(c, payload, held, round) ==
    LET level == Level(bucket)
        q(pc, wait) == [pc |-> pc, payload |-> payload, held |-> held, round |-> round,
                        wait |-> wait]
    IN  \/ /\ level >= Cost
           /\ bucket' = [tokens |-> level - Cost, age |-> 0]
           /\ burst' = burst + Cost
           /\ call' = [call EXCEPT ![c] = q("post", 0)]
        \/ /\ level < Cost
           /\ bucket' = [tokens |-> level, age |-> 0]
           /\ call' = [call EXCEPT ![c] = q("sleep", Cost - level)]
           /\ UNCHANGED burst

\* `place_order` up to its first wait.  With a reservation younger than Ttl it raises
\* DuplicateOrderError and changes nothing.
Place(c) ==
    /\ At(c, "idle")
    /\ \E p \in Payloads :
           /\ seen[p] >= Ttl
           /\ seen' = [seen EXCEPT ![p] = 0]
           /\ Acquires(c, p, 0, 1)
    /\ UNCHANGED reserved

\* The sleep of acquire is over.
Wake(c) ==
    /\ At(c, "sleep")
    /\ call[c].wait = 0
    /\ Acquires(c, call[c].payload, call[c].held, call[c].round)
    /\ UNCHANGED <<seen, reserved>>

\* A 401 or 403: request's second round, with its own acquire.
Refused(c) ==
    /\ At(c, "post")
    /\ call[c].round = 1
    /\ Acquires(c, call[c].payload, call[c].held, 2)
    /\ UNCHANGED <<seen, reserved>>

\* The POST arrives at the exchange, and is accepted.
Arrive(c) ==
    /\ At(c, "post")
    /\ call' = [call EXCEPT ![c].pc = "answer"]
    /\ reserved' = [reserved EXCEPT ![call[c].payload] = call[c].held]
    /\ UNCHANGED <<seen, bucket, burst>>

\* Mutated form: an error releases the reservation.
EndsReleasing(c) ==
    /\ ~At(c, "idle")
    /\ call' = [call EXCEPT ![c] = Idle]
    /\ \E release \in BOOLEAN :
           seen' = IF release THEN [seen EXCEPT ![call[c].payload] = Ttl] ELSE seen
    /\ UNCHANGED <<bucket, burst, reserved>>

\* place_order returns or raises, or is cancelled.  Until its POST has arrived or is lost
\* its slot is taken, though the caller may have given up long before.
Ends(c) ==
    /\ ~At(c, "idle")
    /\ call' = [call EXCEPT ![c] = Idle]
    /\ UNCHANGED <<seen, bucket, burst, reserved>>

\* The clock.
Tick ==
    /\ call' = [c \in Calls |-> IF At(c, "idle") THEN call[c] ELSE
                   [call[c] EXCEPT !.held = Older(call[c].held),
                                   !.wait = IF call[c].wait > 0 THEN call[c].wait - 1 ELSE 0]]
    /\ seen' = [p \in Payloads |-> Older(seen[p])]
    /\ bucket' = [tokens |-> bucket.tokens,
                  age |-> IF bucket.age < Capacity THEN bucket.age + 1 ELSE Capacity]
    /\ burst' = IF burst > 0 THEN burst - 1 ELSE 0
    /\ reserved' = [p \in Payloads |-> Older(reserved[p])]

------------------------------------------------------------------------------
Step(c) == Place(c) \/ Wake(c) \/ Refused(c) \/ Arrive(c) \/ Ends(c)

Next == Tick \/ \E c \in Calls : Step(c)

Spec == Init /\ [][Next]_vars

\* Time passes, and a task whose sleep is over runs.
FairSpec == Spec /\ WF_vars(Tick) /\ \A c \in Calls : WF_vars(Wake(c))

------------------------------------------------------------------------------
TypeOK ==
    /\ call \in [Calls -> CallStates]
    /\ \A c \in Calls : ~At(c, "idle") => call[c].payload \in Payloads
    /\ seen \in [Payloads -> Ages]
    /\ bucket \in Buckets
    /\ burst \in Nat
    /\ reserved \in [Payloads -> Ages]

\* The limiter admits no more than its capacity plus what is refilled meanwhile, over
\* every interval of time: burst is the most that was admitted beyond the refill over an
\* interval that ends now.
AdmissionBound == burst <= Capacity

\* Of one order, placed several times within Ttl, at most one arrives at the exchange,
\* however long each is on its way and whether or not it looked to its caller as failed.
OnePerWindow ==
    [][\A c \in Calls :
           LET p == call[c].payload
           IN  At(c, "post") /\ call'[c].pc = "answer" =>
                   call[c].held >= Ttl \/ reserved[p] >= Ttl]_vars

Asleep == \E c \in Calls : At(c, "sleep")
Admits == burst' > burst

\* Calls do not wait for ever on an empty bucket that others are waiting on too: while
\* some wait, some are admitted.
WaitersProgress == []<>~Asleep \/ []<><<Admits>>_vars
==============================================================================
