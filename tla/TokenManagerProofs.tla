------------------------- MODULE TokenManagerProofs -------------------------
(***************************************************************************)
(* Proofs about TokenManager, for any callers, attempts, times and number  *)
(* of versions that satisfy its assumption: types, then how the versions   *)
(* that are under way relate to those that ended.                          *)
(***************************************************************************)
EXTENDS TokenManager, TLAPS

\* A call holds the version it was given.
Holds(q) == q.pc \in {"issued", "save", "clear"}

\* What is known of one call when n is the newest version and those in e have ended.
\* A call that backs off has an attempt left.  The version it holds has not ended, and
\* is newer than the call itself unless it clears.  A forced call reads no version.
\* What it is to replace did end.
Sound(q, n, e) ==
    /\ q.pc = "backoff" => q.attempt < MaxAttempts
    /\ q.floor <= n
    /\ Holds(q) => q.version <= n /\ q.version \notin e
    /\ q.pc \in {"issued", "save"} => q.version > q.floor
    /\ q.force => q.pc \notin {"load", "loaded"}
    /\ q.past \subseteq e

CallsOK == \A c \in Callers : Sound(call[c], issued, ended)

\* No version is given to two calls.
DistinctOK ==
    \A c, d \in Callers :
        Holds(call[c]) /\ Holds(call[d]) /\ call[c].version = call[d].version => c = d

\* What is known of one thread.  Neither the version it stores nor those it may find
\* beside it have ended; what it replaces did end.
Stores(job) == {job.version} \cup job.near

SoundJob(job, n, e) ==
    /\ Stores(job) \subseteq (0..n) \ e
    /\ job.past \subseteq e

\* Nothing that ended is under way, and only what ended is replaced.
JobsOK ==
    /\ \A job \in jobs : SoundJob(job, issued, ended)
    /\ ended \subseteq 0..issued
    /\ obsolete \subseteq ended

\* A thread's version has left the exchange, and no call waits for a save that failed.
HeldOK ==
    \A job \in jobs, c \in Callers :
        /\ At(c, "issued") => call[c].version # job.version
        /\ Holds(call[c]) => call[c].version \notin job.near

IInv == TypeOK /\ CallsOK /\ DistinctOK /\ JobsOK /\ HeldOK /\ StoredIsCurrent

USE TokenAssumption

------------------------------------------------------------------------------
(* Types. *)

LEMMA CallTypes ==
    /\ Idle \in Calls
    /\ \A q \in Calls :
           /\ \A pc \in LivePcs \cup {"idle"} : [q EXCEPT !.pc = pc] \in Calls
           /\ \A n \in 0..MaxAttempts : [q EXCEPT !.attempt = n] \in Calls
           /\ \A v \in Versions : [q EXCEPT !.version = v] \in Calls
  <1>1. Idle \in Calls
    BY DEF Idle, Calls, Versions
  <1>2. ASSUME NEW q \in Calls
        PROVE  /\ \A pc \in LivePcs \cup {"idle"} : [q EXCEPT !.pc = pc] \in Calls
               /\ \A n \in 0..MaxAttempts : [q EXCEPT !.attempt = n] \in Calls
               /\ \A v \in Versions : [q EXCEPT !.version = v] \in Calls
    BY <1>2 DEF Calls
  <1> QED BY <1>1, <1>2

LEMMA TwoFields ==
    ASSUME NEW q \in Calls, NEW pc \in LivePcs
    PROVE  /\ \A n \in 0..MaxAttempts : [q EXCEPT !.pc = pc, !.attempt = n] \in Calls
           /\ \A v \in Versions : [q EXCEPT !.pc = pc, !.version = v] \in Calls
  <1> DEFINE moved == [q EXCEPT !.pc = pc]
  <1>1. moved \in Calls
    BY CallTypes
  <1>2. /\ \A n \in 0..MaxAttempts : [moved EXCEPT !.attempt = n] \in Calls
        /\ \A v \in Versions : [moved EXCEPT !.version = v] \in Calls
    BY <1>1, CallTypes
  <1> QED BY <1>2

\* The ways a step changes a call.
LEMMA MoveType ==
    ASSUME NEW c \in Callers, call \in [Callers -> Calls]
    PROVE  /\ Ends(c) => call' \in [Callers -> Calls]
           /\ \A pc \in LivePcs : Move(c, pc) => call' \in [Callers -> Calls]
  <1>1. Ends(c) => call' \in [Callers -> Calls]
    BY CallTypes DEF Ends
  <1>2. ASSUME NEW pc \in LivePcs, Move(c, pc) PROVE call' \in [Callers -> Calls]
    BY <1>2, CallTypes DEF Move
  <1> QED BY <1>1, <1>2

LEMMA NewCallType ==
    ASSUME issued \in Versions, ended \subseteq Versions,
           NEW pc \in LivePcs, NEW force \in BOOLEAN, NEW version \in Versions
    PROVE  NewCall(pc, force, version) \in Calls
  BY DEF NewCall, Calls

\* How a step changes a thread's record.
LEMMA JobTypes ==
    /\ \A kind \in {"save", "clear"}, v \in Versions, past \in SUBSET Versions :
           Job(kind, v, past) \in Jobs
    /\ \A job \in Jobs, b \in BOOLEAN : [job EXCEPT !.linked = b] \in Jobs
    /\ \A job \in Jobs, s \in SUBSET Versions : [job EXCEPT !.near = s] \in Jobs
  <1>1. ASSUME NEW kind \in {"save", "clear"}, NEW v \in Versions, NEW past \in SUBSET Versions
        PROVE  Job(kind, v, past) \in Jobs
    BY DEF Job, Jobs
  <1>2. ASSUME NEW job \in Jobs PROVE \A b \in BOOLEAN : [job EXCEPT !.linked = b] \in Jobs
    BY DEF Jobs
  <1>3. ASSUME NEW job \in Jobs
        PROVE  \A s \in SUBSET Versions : [job EXCEPT !.near = s] \in Jobs
    BY DEF Jobs
  <1> QED BY <1>1, <1>2, <1>3

\* What a step does to the threads that it leaves under way: their sessions, what they
\* replace and, unless a save fails, what is beside them stay.
SameJob(k, j) ==
    /\ k.version = j.version
    /\ k.past = j.past

LEMMA CommitJobs ==
    ASSUME jobs \subseteq Jobs, NEW job, Commit(job) \/ WriteLate(job)
    PROVE  /\ \A k \in jobs' : k \in Jobs /\ \E j \in jobs : SameJob(k, j) /\ k.near = j.near
           /\ \E j \in jobs : stored' \in Stores(j)
  <1>1. ASSUME NEW j \in Jobs, NEW b \in BOOLEAN
        PROVE  LET k == [j EXCEPT !.linked = b]
               IN  k \in Jobs /\ SameJob(k, j) /\ k.near = j.near
    BY <1>1, JobTypes DEF Jobs, SameJob
  <1>2. CASE Commit(job)
    <2>1. ASSUME NEW k \in jobs'
          PROVE  k \in Jobs /\ \E j \in jobs : SameJob(k, j) /\ k.near = j.near
      <3>1. CASE CommitSave(job)
        <4>1. PICK j \in jobs : k = [j EXCEPT !.linked = (j.kind = "save")]
          BY <2>1, <3>1 DEF CommitSave
        <4>2. j \in Jobs /\ (j.kind = "save") \in BOOLEAN
          OBVIOUS
        <4> QED BY <1>1, <4>1, <4>2
      <3>2. CASE CommitClear(job)
        <4>1. PICK j \in jobs : k = [j EXCEPT !.linked = FALSE]
          BY <2>1, <3>2 DEF CommitClear
        <4> QED BY <1>1, <4>1
      <3> QED BY <1>2, <3>1, <3>2 DEF Commit
    <2>2. \E j \in jobs : stored' \in Stores(j)
      BY <1>2 DEF Commit, CommitSave, CommitClear, Stores
    <2> QED BY <2>1, <2>2
  <1>3. CASE WriteLate(job)
    <2> DEFINE late == [job EXCEPT !.linked = FALSE]
    <2>1. /\ jobs' = (jobs \ {job}) \cup {late}
          /\ job \in jobs /\ stored' = job.version
      BY <1>3 DEF WriteLate
    <2>2. late \in Jobs /\ SameJob(late, job) /\ late.near = job.near
      BY <1>1, <2>1
    <2> HIDE DEF late
    <2>3. \A j \in jobs : SameJob(j, j)
      BY DEF SameJob
    <2> QED BY <2>1, <2>2, <2>3 DEF Stores
  <1> QED BY <1>2, <1>3

LEMMA UnwritableJobs ==
    ASSUME jobs \subseteq Jobs, NEW job, Unwritable(job)
    PROVE  \A k \in jobs' : /\ k \in Jobs
                             /\ \E j \in jobs : /\ SameJob(k, j)
                                                 /\ k.near \subseteq j.near \cup {job.version}
  <1> SUFFICES ASSUME NEW k \in jobs'
               PROVE  /\ k \in Jobs
                      /\ \E j \in jobs : /\ SameJob(k, j)
                                          /\ k.near \subseteq j.near \cup {job.version}
    OBVIOUS
  <1>1. PICK j \in jobs : k = [j EXCEPT !.near = IF job.kind = "save"
                                                   THEN j.near \cup {job.version} ELSE j.near]
    BY DEF Unwritable
  <1>2. job.version \in Versions /\ j \in Jobs /\ j.near \subseteq Versions
    BY DEF Unwritable, Jobs
  <1> DEFINE near == IF job.kind = "save" THEN j.near \cup {job.version} ELSE j.near
  <1>3. near \in SUBSET Versions /\ near \subseteq j.near \cup {job.version}
    BY <1>2
  <1> HIDE DEF near
  <1>4. k = [j EXCEPT !.near = near]
    BY <1>1 DEF near
  <1>5. k \in Jobs
    BY <1>2, <1>3, <1>4, JobTypes
  <1>6. SameJob(k, j) /\ k.near = near
    BY <1>2, <1>4 DEF Jobs, SameJob
  <1> QED BY <1>3, <1>5, <1>6

LEMMA TypeStep ==
    ASSUME TypeOK, CallsOK, [Next]_vars
    PROVE  TypeOK'
  <1> USE DEF TypeOK
  <1> 0 \in Versions
    BY DEF Versions
  <1>1. ASSUME NEW c \in Callers, BeginGet(c) PROVE TypeOK'
    <2>1. "login" \in LivePcs /\ "load" \in LivePcs
      BY DEF LivePcs
    <2>2. \A force \in BOOLEAN :
              NewCall(IF force THEN "login" ELSE "load", force, 0) \in Calls
      BY <2>1, NewCallType
    <2> QED BY <1>1, <2>2 DEF BeginGet
  <1>2. ASSUME NEW c \in Callers, BeginClear(c) PROVE TypeOK'
    <2>1. issued + 1 \in Versions
      BY <1>2 DEF BeginClear, Versions
    <2>2. NewCall("clear", FALSE, issued + 1) \in Calls
      BY <2>1, NewCallType DEF LivePcs
    <2>3. Job("clear", issued + 1, ended) \in Jobs
      BY <2>1, JobTypes
    <2> QED BY <1>2, <2>1, <2>2, <2>3 DEF BeginClear
  <1>3. ASSUME NEW c \in Callers, Load(c) PROVE TypeOK'
    <2>1. [call[c] EXCEPT !.pc = "loaded", !.version = stored] \in Calls
      BY TwoFields DEF LivePcs
    <2> QED BY <1>3, <2>1, MoveType DEF Load
  <1>4. ASSUME NEW c \in Callers, Resume(c) PROVE TypeOK'
    BY <1>4, MoveType DEF Resume, LivePcs
  <1>5. ASSUME NEW c \in Callers, Issue(c) PROVE TypeOK'
    <2>1. issued + 1 \in Versions
      BY <1>5 DEF Issue, Versions
    <2>2. [call[c] EXCEPT !.pc = "issued", !.version = issued + 1] \in Calls
      BY <2>1, TwoFields DEF LivePcs
    <2> QED BY <1>5, <2>1, <2>2 DEF Issue
  <1>6. ASSUME NEW c \in Callers, ExchangeFails(c) PROVE TypeOK'
    <2>2. [call[c] EXCEPT !.pc = "backoff", !.version = 0] \in Calls
      BY TwoFields DEF LivePcs
    <2>3. call' \in [Callers -> Calls]
      BY <1>6, <2>2, MoveType DEF ExchangeFails, Transient
    <2> QED BY <1>6, <2>3 DEF ExchangeFails
  <1>7. ASSUME NEW c \in Callers, Receive(c) PROVE TypeOK'
    <2>1. call[c].version \in Versions /\ call[c].past \subseteq Versions
      BY DEF Calls
    <2>2. Job("save", call[c].version, call[c].past) \in Jobs
      BY <2>1, JobTypes
    <2>3. call' \in [Callers -> Calls]
      BY <1>7, MoveType DEF Receive, LivePcs
    <2> QED BY <1>7, <2>1, <2>2, <2>3 DEF Receive, Saving
  <1>8. ASSUME NEW c \in Callers, Retry(c) PROVE TypeOK'
    <2>1. call[c].attempt + 1 \in 0..MaxAttempts
      BY <1>8 DEF Retry, CallsOK, Sound, Calls, At
    <2>2. [call[c] EXCEPT !.pc = "post", !.attempt = call[c].attempt + 1] \in Calls
      BY <2>1, TwoFields DEF LivePcs
    <2> QED BY <1>8, <2>2 DEF Retry
  <1>9. ASSUME NEW c \in Callers, Return(c) PROVE TypeOK'
    <2>1. call[c].version \in Versions
      BY DEF Calls
    <2> QED BY <1>9, <2>1, MoveType DEF Return
  <1>10. ASSUME NEW c \in Callers, Cancel(c) PROVE TypeOK'
    BY <1>10, MoveType DEF Cancel
  <1>11. ASSUME NEW job \in jobs, ThreadStep(job) \/ WriteLate(job) PROVE TypeOK'
    <2>1. \A j \in jobs : Stores(j) \subseteq Versions /\ j.past \subseteq Versions
      BY DEF Jobs, Stores
    <2>2. CASE Commit(job) \/ WriteLate(job)
      <3>1. jobs' \subseteq Jobs /\ stored' \in Versions
        BY <2>1, <2>2, CommitJobs
      <3>2. /\ UNCHANGED <<call, fresh, issued, ended>>
            /\ obsolete' \subseteq Versions
        BY <2>1, <2>2 DEF Commit, WriteLate
      <3> QED BY <3>1, <3>2
    <2>3. CASE Unwritable(job)
      <3>1. jobs' \subseteq Jobs
        BY <2>3, UnwritableJobs
      <3> QED BY <2>3, <3>1, CallTypes DEF Unwritable
    <2> QED BY <1>11, <2>2, <2>3 DEF ThreadStep
  <1>12. ASSUME LoginEnds PROVE TypeOK'
    <2>1. \A q \in Calls : [q EXCEPT !.pc = "post", !.attempt = 1] \in Calls
      <3>1. "post" \in LivePcs /\ 1 \in 0..MaxAttempts
        BY DEF LivePcs
      <3> TAKE q \in Calls
      <3> QED BY <3>1, TwoFields
    <2>2. PICK next \in {"post", "idle"} :
              call' = [c \in Callers |->
                          CASE ~At(c, "login") -> call[c]
                            [] At(c, "login") /\ next = "idle" -> Idle
                            [] At(c, "login") /\ next = "post" ->
                                   [call[c] EXCEPT !.pc = "post", !.attempt = 1]]
      BY <1>12 DEF LoginEnds
    <2>3. call' \in [Callers -> Calls]
      <3> SUFFICES ASSUME NEW c \in Callers PROVE call'[c] \in Calls
        BY <2>2
      <3> QED BY <2>1, <2>2, CallTypes
    <2> QED BY <1>12, <2>3 DEF LoginEnds
  <1>13. ASSUME Restart PROVE TypeOK'
    BY <1>13, CallTypes DEF Restart
  <1>14. ASSUME NEW version \in fresh, Expire(version) PROVE TypeOK'
    BY <1>14 DEF Expire
  <1>15. CASE UNCHANGED vars
    BY <1>15 DEF vars
  <1> QED BY <1>1, <1>2, <1>3, <1>4, <1>5, <1>6, <1>7, <1>8, <1>9, <1>10, <1>11, <1>12, <1>13,
             <1>14, <1>15 DEF Next, CallStep

------------------------------------------------------------------------------
(* Calls and their versions. *)

\* A call that is idle, or begins, is sound.
LEMMA NewIsSound ==
    ASSUME TypeOK, NEW n \in Versions, issued <= n,
           NEW pc \in LivePcs, NEW force \in BOOLEAN, NEW version \in Versions,
           pc \in {"load", "login", "clear"},
           force => pc # "load",
           pc = "clear" => version <= n /\ version \notin ended
    PROVE  Sound(NewCall(pc, force, version), n, ended)
  <1> issued \in Int /\ n \in Int
    BY DEF TypeOK, Versions
  <1> QED BY DEF Sound, Holds, NewCall

LEMMA IdleIsSound ==
    ASSUME NEW n \in Versions, NEW e
    PROVE  Sound(Idle, n, e) /\ ~Holds(Idle)
  BY DEF Sound, Holds, Idle, Versions

\* A step in which nothing is issued or ends, and no call is given a version.
LEMMA NothingNew ==
    ASSUME IInv, UNCHANGED <<issued, ended>>,
           \A c \in Callers : \/ call'[c] = call[c]
                              \/ /\ Sound(call'[c], issued, ended)
                                 /\ Holds(call'[c]) => /\ Holds(call[c])
                                                       /\ call'[c].version = call[c].version
    PROVE  CallsOK' /\ DistinctOK'
  <1>1. CallsOK'
    BY DEF IInv, CallsOK
  <1>2. DistinctOK'
    BY DEF IInv, DistinctOK
  <1> QED BY <1>1, <1>2

\* The same, of one call.
LEMMA OneCall ==
    ASSUME IInv, UNCHANGED <<issued, ended>>, NEW c \in Callers, NEW q,
           call' = [call EXCEPT ![c] = q],
           Sound(q, issued, ended),
           Holds(q) => Holds(call[c]) /\ q.version = call[c].version
    PROVE  CallsOK' /\ DistinctOK'
  BY NothingNew DEF IInv, TypeOK

\* A step that gives a call the next version.
LEMMA NextVersion ==
    ASSUME IInv, issued' = issued + 1, UNCHANGED ended, NEW c \in Callers, NEW q,
           call' = [call EXCEPT ![c] = q],
           Sound(q, issued + 1, ended),
           q.version = issued + 1
    PROVE  CallsOK' /\ DistinctOK'
  <1> USE DEF IInv, TypeOK
  <1>1. issued \in Int
    BY DEF Versions
  <1>2. \A d \in Callers : call[d].version \in Int /\ call[d].floor \in Int
    BY DEF Calls, Versions
  <1>3. \A d \in Callers \ {c} : call'[d] = call[d]
    OBVIOUS
  <1>4. \A d \in Callers : Sound(call[d], issued + 1, ended)
    BY <1>1, <1>2 DEF CallsOK, Sound
  <1>5. CallsOK'
    BY <1>3, <1>4 DEF CallsOK
  <1>6. \A d \in Callers : Holds(call[d]) => call[d].version # issued + 1
    BY <1>1, <1>2 DEF CallsOK, Sound
  <1>7. DistinctOK'
    BY <1>3, <1>6 DEF DistinctOK
  <1> QED BY <1>5, <1>7


\* Every action.
LEMMA CallsStep ==
    ASSUME IInv, [Next]_vars
    PROVE  CallsOK' /\ DistinctOK'
  <1> USE DEF IInv
  <1>0. issued \in Versions /\ \A c \in Callers : Sound(call[c], issued, ended)
    BY DEF TypeOK, CallsOK
  <1>1. ASSUME NEW c \in Callers, Ends(c), UNCHANGED <<issued, ended>>
        PROVE  CallsOK' /\ DistinctOK'
    BY <1>0, <1>1, IdleIsSound, OneCall DEF Ends
  <1>2. ASSUME NEW c \in Callers, NEW pc \in LivePcs, Move(c, pc), UNCHANGED <<issued, ended>>,
               pc \in {"login", "save", "post"},
               pc = "save" => At(c, "issued")
        PROVE  CallsOK' /\ DistinctOK'
    <2> DEFINE q == [call[c] EXCEPT !.pc = pc]
    <2>1. call[c] \in Calls
      BY DEF TypeOK
    <2>2. /\ q.pc = pc /\ q.force = call[c].force /\ q.floor = call[c].floor
          /\ q.version = call[c].version /\ q.past = call[c].past
      BY <2>1 DEF Calls
    <2>3. call' = [call EXCEPT ![c] = q]
      BY <1>2 DEF Move
    <2> HIDE DEF q
    <2>4. /\ Sound(q, issued, ended)
          /\ Holds(q) => Holds(call[c]) /\ q.version = call[c].version
      BY <1>0, <1>2, <2>2 DEF Sound, Holds, At
    <2> QED BY <1>2, <2>3, <2>4, OneCall
  <1>3. ASSUME NEW c \in Callers, BeginGet(c) PROVE CallsOK' /\ DistinctOK'
    <2>1. PICK force \in BOOLEAN :
              call' = [call EXCEPT ![c] = NewCall(IF force THEN "login" ELSE "load", force, 0)]
      BY <1>3 DEF BeginGet
    <2> DEFINE pc == IF force THEN "login" ELSE "load"
               q  == NewCall(pc, force, 0)
    <2>2. /\ pc \in LivePcs /\ pc \in {"load", "login"} /\ 0 \in Versions
          /\ force => pc # "load"
      BY DEF LivePcs, Versions
    <2>3. q.pc = pc
      BY DEF NewCall
    <2> HIDE DEF pc
    <2>4. Sound(q, issued, ended)
      BY <1>0, <2>2, NewIsSound DEF Versions
    <2>5. call' = [call EXCEPT ![c] = q]
      BY <2>1 DEF pc
    <2> HIDE DEF q
    <2> QED BY <1>3, <2>2, <2>3, <2>4, <2>5, OneCall DEF BeginGet, Holds
  <1>4. ASSUME NEW c \in Callers, BeginClear(c) PROVE CallsOK' /\ DistinctOK'
    <2> DEFINE q == NewCall("clear", FALSE, issued + 1)
    <2>1. issued + 1 \in Versions /\ issued <= issued + 1 /\ issued + 1 \notin ended
      BY <1>0, <1>4 DEF BeginClear, Versions, JobsOK
    <2>2. Sound(q, issued + 1, ended)
      <3>1. "clear" \in LivePcs /\ FALSE \in BOOLEAN /\ issued + 1 <= issued + 1
        BY <2>1 DEF LivePcs, Versions
      <3> QED BY <2>1, <3>1, NewIsSound
    <2>3. q.version = issued + 1 /\ call' = [call EXCEPT ![c] = q]
      BY <1>4 DEF BeginClear, NewCall
    <2> HIDE DEF q
    <2> QED BY <1>4, <2>2, <2>3, NextVersion DEF BeginClear
  <1>5. ASSUME NEW c \in Callers, Load(c) PROVE CallsOK' /\ DistinctOK'
    <2>1. CASE Ends(c)
      BY <1>1, <1>5, <2>1 DEF Load
    <2>2. CASE call' = [call EXCEPT ![c] = [call[c] EXCEPT !.pc = "loaded", !.version = stored]]
      <3> DEFINE q == [call[c] EXCEPT !.pc = "loaded", !.version = stored]
      <3>1. call[c] \in Calls
        BY DEF TypeOK
      <3>2. /\ q.pc = "loaded" /\ q.force = call[c].force /\ q.floor = call[c].floor
            /\ q.past = call[c].past
        BY <3>1 DEF Calls
      <3>3. call' = [call EXCEPT ![c] = q]
        BY <2>2
      <3> HIDE DEF q
      <3>4. Sound(q, issued, ended) /\ ~Holds(q)
        BY <1>0, <1>5, <3>2 DEF Sound, Holds, At, Load
      <3> QED BY <1>5, <3>3, <3>4, OneCall DEF Load
    <2> QED BY <1>5, <2>1, <2>2 DEF Load
  <1>6. ASSUME NEW c \in Callers, Resume(c) PROVE CallsOK' /\ DistinctOK'
    BY <1>1, <1>2, <1>6 DEF Resume, LivePcs
  <1>7. ASSUME NEW c \in Callers, Issue(c) PROVE CallsOK' /\ DistinctOK'
    <2> DEFINE q == [call[c] EXCEPT !.pc = "issued", !.version = issued + 1]
    <2>1. call[c] \in Calls
      BY DEF TypeOK
    <2>2. /\ q.pc = "issued" /\ q.force = call[c].force /\ q.floor = call[c].floor
          /\ q.version = issued + 1 /\ q.past = call[c].past
      BY <2>1 DEF Calls
    <2>3. call' = [call EXCEPT ![c] = q]
      BY <1>7 DEF Issue
    <2> HIDE DEF q
    <2>4. issued \in Int /\ call[c].floor \in Int
      BY <2>1, <1>0 DEF Calls, Versions
    <2>5. issued + 1 \notin ended
      BY <2>4 DEF JobsOK
    <2>6. Sound(q, issued + 1, ended)
      BY <1>0, <2>2, <2>4, <2>5 DEF Sound, Holds
    <2> QED BY <1>7, <2>2, <2>3, <2>6, NextVersion DEF Issue
  <1>8. ASSUME NEW c \in Callers, ExchangeFails(c) PROVE CallsOK' /\ DistinctOK'
    <2>1. CASE Ends(c)
      BY <1>1, <1>8, <2>1 DEF ExchangeFails
    <2>2. CASE Transient(c)
      <3> DEFINE q == [call[c] EXCEPT !.pc = "backoff", !.version = 0]
      <3>1. call[c] \in Calls
        BY DEF TypeOK
      <3>2. /\ q.pc = "backoff" /\ q.force = call[c].force /\ q.floor = call[c].floor
            /\ q.past = call[c].past /\ q.attempt = call[c].attempt
        BY <3>1 DEF Calls
      <3>3. call' = [call EXCEPT ![c] = q] /\ call[c].attempt < MaxAttempts
        BY <2>2 DEF Transient
      <3> HIDE DEF q
      <3>4. Sound(q, issued, ended) /\ ~Holds(q)
        BY <1>0, <3>2, <3>3 DEF Sound, Holds
      <3> QED BY <1>8, <3>3, <3>4, OneCall DEF ExchangeFails
    <2> QED BY <1>8, <2>1, <2>2 DEF ExchangeFails
  <1>9. ASSUME NEW c \in Callers, Receive(c) PROVE CallsOK' /\ DistinctOK'
    BY <1>2, <1>9 DEF Receive, LivePcs
  <1>10. ASSUME NEW c \in Callers, Retry(c) PROVE CallsOK' /\ DistinctOK'
    <2> DEFINE q == [call[c] EXCEPT !.pc = "post", !.attempt = call[c].attempt + 1]
    <2>1. call[c] \in Calls
      BY DEF TypeOK
    <2>2. /\ q.pc = "post" /\ q.force = call[c].force /\ q.floor = call[c].floor
          /\ q.past = call[c].past
      BY <2>1 DEF Calls
    <2>3. call' = [call EXCEPT ![c] = q]
      BY <1>10 DEF Retry
    <2> HIDE DEF q
    <2>4. Sound(q, issued, ended) /\ ~Holds(q)
      BY <1>0, <2>2 DEF Sound, Holds
    <2> QED BY <1>10, <2>3, <2>4, OneCall DEF Retry
  <1>11. ASSUME NEW c \in Callers, Return(c) PROVE CallsOK' /\ DistinctOK'
    <2>1. call' = [call EXCEPT ![c] = Idle]
      BY <1>11 DEF Return, Ends
    <2>2. Holds(call[c]) /\ call[c].version \in Versions
      BY <1>11 DEF Return, Holds, At, TypeOK, Calls
    <2>3. \A d \in Callers \ {c} : call'[d] = call[d] /\ Sound(call[d], issued, ended')
      BY <1>0, <1>11, <2>1, <2>2 DEF DistinctOK, Return, Sound, TypeOK
    <2>4. Sound(call'[c], issued, ended') /\ ~Holds(call'[c])
      BY <1>0, <2>1, IdleIsSound DEF TypeOK
    <2>5. issued' = issued
      BY <1>11 DEF Return
    <2>6. CallsOK'
      BY <2>3, <2>4, <2>5 DEF CallsOK
    <2>7. DistinctOK'
      BY <2>3, <2>4 DEF DistinctOK
    <2> QED BY <2>6, <2>7
  <1>12. ASSUME NEW c \in Callers, Cancel(c) PROVE CallsOK' /\ DistinctOK'
    BY <1>1, <1>12 DEF Cancel
  <1>13. ASSUME NEW job \in jobs, ThreadStep(job) \/ WriteLate(job)
         PROVE  CallsOK' /\ DistinctOK'
    <2>1. UNCHANGED <<issued, ended>>
      BY <1>13 DEF ThreadStep, Commit, Unwritable, WriteLate
    <2>2. \A c \in Callers : call'[c] = call[c] \/ call'[c] = Idle
      BY <1>13 DEF ThreadStep, Commit, Unwritable, WriteLate
    <2> QED BY <1>0, <2>1, <2>2, IdleIsSound, NothingNew
  <1>14. ASSUME LoginEnds PROVE CallsOK' /\ DistinctOK'
    <2>1. PICK next \in {"post", "idle"} :
              call' = [c \in Callers |->
                          CASE ~At(c, "login") -> call[c]
                            [] At(c, "login") /\ next = "idle" -> Idle
                            [] At(c, "login") /\ next = "post" ->
                                   [call[c] EXCEPT !.pc = "post", !.attempt = 1]]
      BY <1>14 DEF LoginEnds
    <2>2. ASSUME NEW c \in Callers
          PROVE  Sound(call'[c], issued, ended) /\ (~Holds(call'[c]) \/ call'[c] = call[c])
      <3> DEFINE q == [call[c] EXCEPT !.pc = "post", !.attempt = 1]
      <3>1. call[c] \in Calls
        BY DEF TypeOK
      <3>2. /\ q.pc = "post" /\ q.force = call[c].force /\ q.floor = call[c].floor
            /\ q.past = call[c].past
        BY <3>1 DEF Calls
      <3>3. call'[c] = call[c] \/ call'[c] = Idle \/ call'[c] = q
        BY <2>1
      <3> HIDE DEF q
      <3>4. Sound(q, issued, ended) /\ ~Holds(q)
        BY <1>0, <3>2 DEF Sound, Holds
      <3> QED BY <1>0, <3>3, <3>4, IdleIsSound
    <2>3. UNCHANGED <<issued, ended>>
      BY <1>14 DEF LoginEnds
    <2> QED BY <2>2, <2>3, NothingNew
  <1>15. ASSUME Restart PROVE CallsOK' /\ DistinctOK'
    <2>1. UNCHANGED <<issued, ended>> /\ \A c \in Callers : call'[c] = Idle
      BY <1>15 DEF Restart
    <2> QED BY <1>0, <2>1, IdleIsSound, NothingNew
  <1>16. ASSUME UNCHANGED <<call, issued, ended>> PROVE CallsOK' /\ DistinctOK'
    BY <1>16, NothingNew
  <1> QED BY <1>3, <1>4, <1>5, <1>6, <1>7, <1>8, <1>9, <1>10, <1>11, <1>12, <1>13, <1>14, <1>15,
             <1>16 DEF Next, CallStep, Expire, vars

(* Threads and what they store. *)

\* A thread that goes on as before stays sound, and so does one that has a sound
\* thread's version beside it.
LEMMA SoundStays ==
    ASSUME NEW n, NEW e, NEW j, SoundJob(j, n, e), NEW k, SameJob(k, j),
           NEW v \in (0..n) \ e, k.near \subseteq j.near \cup {v}
    PROVE  SoundJob(k, n, e)
  BY DEF SoundJob, SameJob, Stores

LEMMA NewJobIsSound ==
    ASSUME NEW kind, NEW n, NEW e, NEW v \in (0..n) \ e, NEW past \in SUBSET e
    PROVE  SoundJob(Job(kind, v, past), n, e)
  BY DEF SoundJob, Stores, Job

LEMMA JobsStep ==
    ASSUME IInv, [Next]_vars
    PROVE  JobsOK' /\ StoredIsCurrent'
  <1> USE DEF IInv, JobsOK, StoredIsCurrent
  <1>0. /\ issued \in Int
        /\ jobs \subseteq Jobs
        /\ \A c \in Callers : Sound(call[c], issued, ended)
    BY DEF TypeOK, Versions, CallsOK
  <1>1. CASE UNCHANGED <<jobs, stored, issued, ended, obsolete>>
    BY <1>1
  <1>2. ASSUME issued' = issued + 1, UNCHANGED ended
        PROVE  /\ \A job \in jobs : SoundJob(job, issued', ended')
               /\ ended' \subseteq 0..issued'
               /\ issued + 1 \in (0..issued') \ ended'
    <2>1. 0..issued \subseteq 0..issued'
      BY <1>0, <1>2
    <2>2. issued + 1 \in (0..issued') \ ended'
      BY <1>0, <1>2 DEF TypeOK, Versions
    <2> QED BY <1>2, <2>1, <2>2 DEF SoundJob
  <1>3. ASSUME NEW c \in Callers, BeginClear(c) PROVE JobsOK' /\ StoredIsCurrent'
    <2>1. /\ jobs' = jobs \cup {Job("clear", issued + 1, ended)}
          /\ issued' = issued + 1 /\ UNCHANGED <<stored, ended, obsolete>>
      BY <1>3 DEF BeginClear
    <2>2. SoundJob(Job("clear", issued + 1, ended), issued', ended')
      BY <1>2, <2>1, NewJobIsSound
    <2> QED BY <1>2, <2>1, <2>2
  <1>4. ASSUME NEW c \in Callers, Issue(c) PROVE JobsOK' /\ StoredIsCurrent'
    BY <1>2, <1>4 DEF Issue
  <1>5. ASSUME NEW c \in Callers, Receive(c) PROVE JobsOK' /\ StoredIsCurrent'
    <2>1. /\ jobs' = jobs \cup {Job("save", call[c].version, call[c].past)}
          /\ UNCHANGED <<stored, issued, ended, obsolete>>
      BY <1>5 DEF Receive, Saving
    <2>2. call[c].version \in (0..issued) \ ended /\ call[c].past \subseteq ended
      BY <1>0, <1>5 DEF Receive, At, Sound, Holds, TypeOK, Calls, Versions
    <2>3. SoundJob(Job("save", call[c].version, call[c].past), issued, ended)
      BY <2>2, NewJobIsSound
    <2> QED BY <2>1, <2>3
  <1>6. ASSUME NEW c \in Callers, Return(c) PROVE JobsOK' /\ StoredIsCurrent'
    <2>1. /\ ended' = ended \cup {call[c].version}
          /\ \A job \in jobs : job.version # call[c].version
          /\ UNCHANGED <<jobs, stored, issued, obsolete>>
      BY <1>6 DEF Return
    <2>2. Holds(call[c]) /\ call[c].version \in 0..issued
      BY <1>0, <1>6 DEF Return, At, Sound, Holds, TypeOK, Calls, Versions
    <2>3. \A job \in jobs : call[c].version \notin Stores(job)
      BY <2>1, <2>2 DEF HeldOK, Stores
    <2>4. \A job \in jobs : SoundJob(job, issued, ended')
      BY <2>1, <2>3 DEF SoundJob
    <2> QED BY <2>1, <2>2, <2>4
  <1>7. ASSUME NEW job \in jobs, Commit(job) \/ WriteLate(job)
        PROVE  JobsOK' /\ StoredIsCurrent'
    <2>1. PICK j \in jobs : stored' \in Stores(j)
      BY <1>0, <1>7, CommitJobs
    <2>2. /\ obsolete' \subseteq obsolete \cup job.past
          /\ UNCHANGED <<issued, ended>>
      BY <1>7 DEF Commit, WriteLate
    <2>3. ASSUME NEW k \in jobs' PROVE SoundJob(k, issued, ended)
      <3>1. PICK i \in jobs : SameJob(k, i) /\ k.near = i.near
        BY <1>0, <1>7, CommitJobs
      <3> QED BY <3>1 DEF SoundJob, SameJob, Stores
    <2>4. obsolete' \subseteq ended
      BY <2>2 DEF SoundJob
    <2>5. stored' \notin ended
      BY <2>1 DEF SoundJob
    <2> QED BY <2>2, <2>3, <2>4, <2>5
  <1>8. ASSUME NEW job \in jobs, Unwritable(job) PROVE JobsOK' /\ StoredIsCurrent'
    <2>1. UNCHANGED <<stored, issued, ended, obsolete>>
      BY <1>8 DEF Unwritable
    <2>2. ASSUME NEW k \in jobs' PROVE SoundJob(k, issued, ended)
      <3>1. PICK i \in jobs : SameJob(k, i) /\ k.near \subseteq i.near \cup {job.version}
        BY <1>0, <1>8, UnwritableJobs
      <3>2. job.version \in (0..issued) \ ended
        BY DEF SoundJob, Stores
      <3> QED BY <3>1, <3>2, SoundStays
    <2> QED BY <2>1, <2>2
  <1>9. ASSUME Restart PROVE JobsOK' /\ StoredIsCurrent'
    BY <1>9 DEF Restart
  <1> QED BY <1>1, <1>3, <1>4, <1>5, <1>6, <1>7, <1>8, <1>9
          DEF Next, CallStep, ThreadStep, BeginGet, Load, Resume, ExchangeFails, Retry, Cancel,
              LoginEnds, Expire, vars

\* A step in which no call is given a version, nor leaves the exchange, and the threads
\* are as they were but for what is beside them.
LEMMA HeldStays ==
    ASSUME HeldOK,
           \A c \in Callers :
               \/ ~Holds(call'[c])
               \/ /\ Holds(call[c]) /\ call'[c].version = call[c].version
                  /\ call'[c].pc = "issued" => call[c].pc = "issued",
           \A k \in jobs' : \E j \in jobs : k.version = j.version /\ k.near = j.near
    PROVE  HeldOK'
  BY DEF HeldOK, At, Holds

LEMMA HeldStep ==
    ASSUME IInv, [Next]_vars
    PROVE  HeldOK'
  <1> USE DEF IInv
  <1>0. /\ issued \in Int /\ jobs \subseteq Jobs
        /\ \A c \in Callers : call[c] \in Calls
        /\ \A job \in jobs : Stores(job) \subseteq 0..issued
    BY DEF TypeOK, Versions, JobsOK, SoundJob
  <1>1. ASSUME NEW c \in Callers, NEW q, call' = [call EXCEPT ![c] = q], UNCHANGED jobs,
               ~Holds(q)
        PROVE  HeldOK'
    <2>1. \A d \in Callers : call'[d] = IF d = c THEN q ELSE call[d]
      BY <1>1 DEF TypeOK
    <2> QED BY <1>1, <2>1 DEF HeldOK, At, Holds
  <1>2. ASSUME NEW c \in Callers, Ends(c), UNCHANGED jobs PROVE HeldOK'
    <2>1. ~Holds(Idle)
      BY DEF Idle, Holds
    <2> QED BY <1>1, <1>2, <2>1 DEF Ends
  <1>3. ASSUME NEW c \in Callers, NEW pc \in {"login", "post", "loaded", "backoff"},
               NEW q, q.pc = pc, call' = [call EXCEPT ![c] = q], UNCHANGED jobs
        PROVE  HeldOK'
    BY <1>1, <1>3 DEF Holds
  <1>4. ASSUME NEW c \in Callers, BeginGet(c) PROVE HeldOK'
    <2>1. PICK force \in BOOLEAN :
              call' = [call EXCEPT ![c] = NewCall(IF force THEN "login" ELSE "load", force, 0)]
      BY <1>4 DEF BeginGet
    <2> DEFINE q == NewCall(IF force THEN "login" ELSE "load", force, 0)
    <2>2. ~Holds(q)
      BY DEF NewCall, Holds
    <2> HIDE DEF q
    <2>3. call' = [call EXCEPT ![c] = q] /\ UNCHANGED jobs
      BY <1>4, <2>1 DEF BeginGet, q
    <2> QED BY <1>1, <2>2, <2>3
  <1>5. ASSUME NEW c \in Callers, Load(c) PROVE HeldOK'
    <2> DEFINE q == [call[c] EXCEPT !.pc = "loaded", !.version = stored]
    <2>1. q.pc = "loaded"
      BY <1>0 DEF Calls
    <2> HIDE DEF q
    <2>2. UNCHANGED jobs /\ (Ends(c) \/ call' = [call EXCEPT ![c] = q])
      BY <1>5 DEF Load, q
    <2> QED BY <1>2, <1>3, <2>1, <2>2
  <1>6. ASSUME NEW c \in Callers, Resume(c) PROVE HeldOK'
    <2> DEFINE q == [call[c] EXCEPT !.pc = "login"]
    <2>1. q.pc = "login"
      BY <1>0 DEF Calls
    <2> HIDE DEF q
    <2>2. UNCHANGED jobs /\ (Ends(c) \/ call' = [call EXCEPT ![c] = q])
      BY <1>6 DEF Resume, Move, q
    <2> QED BY <1>2, <1>3, <2>1, <2>2
  <1>7. ASSUME NEW c \in Callers, Retry(c) PROVE HeldOK'
    <2> DEFINE q == [call[c] EXCEPT !.pc = "post", !.attempt = call[c].attempt + 1]
    <2>1. q.pc = "post"
      BY <1>0 DEF Calls
    <2> HIDE DEF q
    <2>2. UNCHANGED jobs /\ call' = [call EXCEPT ![c] = q]
      BY <1>7 DEF Retry, q
    <2> QED BY <1>3, <2>1, <2>2
  <1>8. ASSUME NEW c \in Callers, ExchangeFails(c) PROVE HeldOK'
    <2> DEFINE q == [call[c] EXCEPT !.pc = "backoff", !.version = 0]
    <2>1. q.pc = "backoff"
      BY <1>0 DEF Calls
    <2> HIDE DEF q
    <2>2. UNCHANGED jobs /\ (Ends(c) \/ call' = [call EXCEPT ![c] = q])
      BY <1>8 DEF ExchangeFails, Transient, q
    <2> QED BY <1>2, <1>3, <2>1, <2>2
  <1>9. ASSUME NEW c \in Callers, Issue(c) PROVE HeldOK'
    <2> DEFINE q == [call[c] EXCEPT !.pc = "issued", !.version = issued + 1]
    <2>1. q.version = issued + 1
      BY <1>0 DEF Calls
    <2> HIDE DEF q
    <2>2. UNCHANGED jobs /\ \A d \in Callers : call'[d] = IF d = c THEN q ELSE call[d]
      BY <1>9 DEF Issue, TypeOK, q
    <2>3. \A job \in jobs : issued + 1 \notin Stores(job)
      BY <1>0
    <2> QED BY <2>1, <2>2, <2>3 DEF HeldOK, At, Stores
  <1>10. ASSUME NEW c \in Callers, BeginClear(c) PROVE HeldOK'
    <2> DEFINE q   == NewCall("clear", FALSE, issued + 1)
               new == Job("clear", issued + 1, ended)
    <2>1. q.version = issued + 1 /\ q.pc = "clear"
      BY DEF NewCall
    <2>2. new.version = issued + 1 /\ new.near = {}
      BY DEF Job
    <2> HIDE DEF q, new
    <2>3. /\ jobs' = jobs \cup {new}
          /\ \A d \in Callers : call'[d] = IF d = c THEN q ELSE call[d]
      BY <1>10 DEF BeginClear, TypeOK, q, new
    <2>4. \A job \in jobs : issued + 1 \notin Stores(job)
      BY <1>0
    <2>5. \A d \in Callers : Holds(call[d]) => call[d].version # issued + 1
      BY <1>0 DEF CallsOK, Sound, Calls, Versions
    <2> QED BY <2>1, <2>2, <2>3, <2>4, <2>5 DEF HeldOK, At, Stores, Holds
  <1>11. ASSUME NEW c \in Callers, Receive(c) PROVE HeldOK'
    <2> DEFINE q   == [call[c] EXCEPT !.pc = "save"]
               new == Job("save", call[c].version, call[c].past)
    <2>1. q.version = call[c].version /\ q.pc = "save"
      BY <1>0 DEF Calls
    <2>2. new.version = call[c].version /\ new.near = {}
      BY DEF Job
    <2> HIDE DEF q, new
    <2>3. /\ jobs' = jobs \cup {new}
          /\ \A d \in Callers : call'[d] = IF d = c THEN q ELSE call[d]
      BY <1>11 DEF Receive, Saving, Move, TypeOK, q, new
    <2>4. Holds(call[c])
      BY <1>11 DEF Receive, At, Holds
    <2>5. \A d \in Callers \ {c} : At(d, "issued") => call[d].version # call[c].version
      BY <2>4 DEF DistinctOK, At, Holds
    <2> QED BY <2>1, <2>2, <2>3, <2>4, <2>5 DEF HeldOK, At, Holds
  <1>12. ASSUME NEW c \in Callers, Return(c) \/ Cancel(c) PROVE HeldOK'
    BY <1>2, <1>12 DEF Return, Cancel
  <1>13. ASSUME NEW job \in jobs, Commit(job) \/ WriteLate(job) PROVE HeldOK'
    <2>1. \A k \in jobs' : \E j \in jobs : k.version = j.version /\ k.near = j.near
      BY <1>0, <1>13, CommitJobs DEF SameJob
    <2>2. call' = call
      BY <1>13 DEF Commit, WriteLate
    <2> QED BY <2>1, <2>2, HeldStays
  <1>14. ASSUME NEW job \in jobs, Unwritable(job) PROVE HeldOK'
    <2>1. ASSUME NEW c \in Callers
          PROVE  \/ ~Holds(call'[c])
                 \/ call'[c] = call[c] /\ call[c].version # job.version
      <3>1. ~Holds(Idle)
        BY DEF Idle, Holds
      <3>2. At(c, "issued") => call[c].version # job.version
        BY DEF HeldOK
      <3>3. call'[c] = IF call[c].pc \in {"save", "clear"} /\ call[c].version = job.version
                           THEN Idle ELSE call[c]
        BY <1>14 DEF Unwritable
      <3> QED BY <3>1, <3>2, <3>3 DEF At, Holds
    <2>2. \A k \in jobs' : \E j \in jobs : /\ k.version = j.version
                                           /\ k.near \subseteq j.near \cup {job.version}
      BY <1>0, <1>14, UnwritableJobs DEF SameJob
    <2> SUFFICES ASSUME NEW k \in jobs', NEW c \in Callers, Holds(call'[c])
                 PROVE  /\ call'[c].pc = "issued" => call'[c].version # k.version
                        /\ call'[c].version \notin k.near
      BY DEF HeldOK, At, Holds
    <2>3. PICK j \in jobs : k.version = j.version /\ k.near \subseteq j.near \cup {job.version}
      BY <2>2
    <2> QED BY <2>1, <2>3 DEF HeldOK, At, Holds
  <1>15. ASSUME LoginEnds PROVE HeldOK'
    <2>1. PICK next \in {"post", "idle"} :
              call' = [c \in Callers |->
                          CASE ~At(c, "login") -> call[c]
                            [] At(c, "login") /\ next = "idle" -> Idle
                            [] At(c, "login") /\ next = "post" ->
                                   [call[c] EXCEPT !.pc = "post", !.attempt = 1]]
      BY <1>15 DEF LoginEnds
    <2>2. ASSUME NEW c \in Callers PROVE ~Holds(call'[c]) \/ call'[c] = call[c]
      <3> DEFINE q == [call[c] EXCEPT !.pc = "post", !.attempt = 1]
      <3>1. q.pc = "post" /\ ~Holds(Idle)
        BY <1>0 DEF Calls, Idle, Holds
      <3>2. call'[c] = call[c] \/ call'[c] = Idle \/ call'[c] = q
        BY <2>1
      <3> HIDE DEF q
      <3> QED BY <3>1, <3>2 DEF Holds
    <2>3. jobs' = jobs
      BY <1>15 DEF LoginEnds
    <2> QED BY <2>2, <2>3 DEF HeldOK, At, Holds
  <1>16. ASSUME Restart PROVE HeldOK'
    BY <1>16 DEF Restart, HeldOK
  <1>17. CASE UNCHANGED <<call, jobs>>
    BY <1>17 DEF HeldOK, At
  <1> QED BY <1>4, <1>5, <1>6, <1>7, <1>8, <1>9, <1>10, <1>11, <1>12, <1>13, <1>14, <1>15, <1>16,
             <1>17 DEF Next, CallStep, ThreadStep, Expire, vars

------------------------------------------------------------------------------
(* Theorems. *)

LEMMA IInvHolds == Spec => []IInv
  <1>1. Init => IInv
    <2> SUFFICES ASSUME Init PROVE IInv
      OBVIOUS
    <2>1. TypeOK
      BY CallTypes DEF Init, TypeOK, Versions
    <2>2. CallsOK /\ DistinctOK
      BY IdleIsSound, <2>1 DEF Init, CallsOK, DistinctOK, TypeOK
    <2>3. JobsOK /\ HeldOK /\ StoredIsCurrent
      BY DEF Init, JobsOK, HeldOK, StoredIsCurrent
    <2> QED BY <2>1, <2>2, <2>3 DEF IInv
  <1>2. IInv /\ [Next]_vars => IInv'
    BY TypeStep, CallsStep, JobsStep, HeldStep DEF IInv
  <1> QED BY <1>1, <1>2, PTL DEF Spec

\* Every variable keeps its type: attempts of the exchange stay within max_attempts.
THEOREM TypeCorrect == Spec => []TypeOK
  <1>1. IInv => TypeOK
    BY DEF IInv
  <1> QED BY <1>1, IInvHolds, PTL

\* For any number of callers that get, refresh and clear, overlap, fail and are
\* cancelled, and whichever of the sessions beside it a save stores, the session file
\* goes back to nothing that was replaced.
THEOREM StoredIsCurrentHolds == Spec => []StoredIsCurrent
  <1>1. IInv => StoredIsCurrent
    BY DEF IInv
  <1> QED BY <1>1, IInvHolds, PTL

\* A forced refresh returns a token issued after it was called.
THEOREM ForcedIsFreshHolds == Spec => ForcedIsFresh
  <1> DEFINE A == \A c \in Callers :
                      call[c].force /\ call[c].pc \in {"loaded", "save"} /\ call'[c].pc = "idle"
                          => call[c].version > call[c].floor
  <1>1. IInv => A
    BY DEF IInv, CallsOK, Sound
  <1>2. IInv /\ [Next]_vars => [A]_vars
    BY <1>1
  <1> QED BY <1>2, IInvHolds, PTL DEF Spec, ForcedIsFresh

------------------------------------------------------------------------------
(* Every call ends: the steps it has left are fewer after each it takes. *)

\* In the order of what comes before the exchange, and of an attempt of it.
Rank == [load |-> 3, loaded |-> 2, login |-> 1, post |-> 3, issued |-> 2, backoff |-> 1]

\* The most steps that a call has left to take.
StepsLeft(q) ==
    CASE q.pc \in {"load", "loaded", "login"} -> 3 * MaxAttempts + Rank[q.pc]
      [] q.pc \in {"post", "issued", "backoff"} -> 3 * (MaxAttempts - q.attempt) + Rank[q.pc]
      [] q.pc \in {"save", "clear"} -> 1
      [] q.pc = "idle" -> 0

\* Whatever the store, the login and the server answer, a call takes at most three steps
\* for each of max_attempts and three before them; nothing that other calls, threads or
\* the shared login do gives it more.
CallSteps ==
    [][\A c \in Callers :
          LET left == StepsLeft(call[c]) IN
          /\ left \in 0..3 * MaxAttempts + 3
          /\ CallStep(c) \/ (At(c, "login") /\ LoginEnds) => StepsLeft(call'[c]) < left
          /\ ~At(c, "idle") => StepsLeft(call'[c]) <= left]_vars

LEMMA Ranks ==
    /\ Rank["load"] = 3 /\ Rank["loaded"] = 2 /\ Rank["login"] = 1
    /\ Rank["post"] = 3 /\ Rank["issued"] = 2 /\ Rank["backoff"] = 1
  BY DEF Rank

LEMMA StepsLeftBound ==
    ASSUME NEW q \in Calls
    PROVE  /\ StepsLeft(q) \in 0..3 * MaxAttempts + 3
           /\ q.pc # "idle" => StepsLeft(q) >= 1
           /\ q.pc = "idle" => StepsLeft(q) = 0
  <1>1. q.pc \in LivePcs \cup {"idle"} /\ q.attempt \in 0..MaxAttempts
    BY DEF Calls
  <1> QED BY <1>1, Ranks DEF StepsLeft, LivePcs

\* How a call moves on, from q to new: it returns, gets nearer to the exchange, goes on
\* in its attempt, or begins the next one.
Moves(q, new) ==
    \/ new.pc = "idle"
    \/ q.pc = "load" /\ new.pc = "loaded"
    \/ q.pc = "loaded" /\ new.pc = "login"
    \/ q.pc = "login" /\ new.pc = "post" /\ new.attempt = 1
    \/ q.pc = "post" /\ new.pc \in {"issued", "backoff"} /\ new.attempt = q.attempt
    \/ q.pc = "issued" /\ new.pc = "backoff" /\ new.attempt = q.attempt
    \/ q.pc = "issued" /\ new.pc = "save"
    \/ q.pc = "backoff" /\ new.pc = "post" /\ new.attempt = q.attempt + 1

LEMMA MovesIsLess ==
    ASSUME NEW q \in Calls, NEW new \in Calls, q.pc # "idle", Moves(q, new)
    PROVE  StepsLeft(new) < StepsLeft(q)
  <1>1. /\ q.attempt \in 0..MaxAttempts /\ new.attempt \in 0..MaxAttempts
        /\ StepsLeft(q) \in Nat /\ StepsLeft(q) >= 1
        /\ new.pc = "idle" => StepsLeft(new) = 0
    BY StepsLeftBound DEF Calls
  <1>2. CASE new.pc = "idle"
    BY <1>1, <1>2
  <1>3. CASE new.pc # "idle"
    BY <1>1, <1>3, Ranks DEF Moves, StepsLeft
  <1> QED BY <1>2, <1>3

\* A step of a call.
LEMMA StepMoves ==
    ASSUME TypeOK, NEW c \in Callers, CallStep(c)
    PROVE  /\ call[c].pc # "idle" /\ Moves(call[c], call'[c])
           /\ \A d \in Callers \ {c} : call'[d] = call[d]
  <1> DEFINE q == call[c]
  <1>1. q \in Calls
    BY DEF TypeOK
  <1>2. ASSUME NEW new, call' = [call EXCEPT ![c] = new], q.pc # "idle", Moves(q, new)
        PROVE  /\ call[c].pc # "idle" /\ Moves(call[c], call'[c])
               /\ \A d \in Callers \ {c} : call'[d] = call[d]
    BY <1>2 DEF TypeOK
  <1>3. ASSUME Ends(c), q.pc # "idle"
        PROVE  /\ call[c].pc # "idle" /\ Moves(call[c], call'[c])
               /\ \A d \in Callers \ {c} : call'[d] = call[d]
    BY <1>2, <1>3 DEF Ends, Idle, Moves
  <1>4. ASSUME NEW pc, Move(c, pc), \/ q.pc = "loaded" /\ pc = "login"
                                    \/ q.pc = "issued" /\ pc = "save"
        PROVE  /\ call[c].pc # "idle" /\ Moves(call[c], call'[c])
               /\ \A d \in Callers \ {c} : call'[d] = call[d]
    <2> DEFINE new == [q EXCEPT !.pc = pc]
    <2>1. call' = [call EXCEPT ![c] = new]
      BY <1>4 DEF Move, TypeOK
    <2>2. new.pc = pc
      BY <1>1 DEF Calls
    <2> HIDE DEF new, q
    <2>3. Moves(q, new) /\ q.pc # "idle"
      BY <1>4, <2>2 DEF Moves
    <2> QED BY <1>2, <2>1, <2>3
  <1>5. CASE Load(c)
    <2> DEFINE new == [q EXCEPT !.pc = "loaded", !.version = stored]
    <2>1. q.pc = "load" /\ (call' = [call EXCEPT ![c] = new] \/ Ends(c))
      BY <1>5 DEF Load, At
    <2>2. new.pc = "loaded"
      BY <1>1 DEF Calls
    <2> HIDE DEF new, q
    <2>3. Moves(q, new) /\ q.pc # "idle"
      BY <2>1, <2>2 DEF Moves
    <2> QED BY <1>2, <1>3, <2>1, <2>3
  <1>6. CASE Resume(c)
    <2>1. q.pc = "loaded" /\ (Ends(c) \/ Move(c, "login"))
      BY <1>6 DEF Resume, At
    <2> HIDE DEF q
    <2> QED BY <1>3, <1>4, <2>1
  <1>7. CASE Issue(c)
    <2> DEFINE new == [q EXCEPT !.pc = "issued", !.version = issued + 1]
    <2>1. q.pc = "post" /\ call' = [call EXCEPT ![c] = new]
      BY <1>7 DEF Issue, At
    <2>2. new.pc = "issued" /\ new.attempt = q.attempt
      BY <1>1 DEF Calls
    <2> HIDE DEF new, q
    <2>3. Moves(q, new) /\ q.pc # "idle"
      BY <2>1, <2>2 DEF Moves
    <2> QED BY <1>2, <2>1, <2>3
  <1>8. CASE ExchangeFails(c)
    <2> DEFINE new == [q EXCEPT !.pc = "backoff", !.version = 0]
    <2>1. /\ q.pc = "post" \/ q.pc = "issued"
          /\ call' = [call EXCEPT ![c] = new] \/ Ends(c)
      BY <1>8 DEF ExchangeFails, Transient, At
    <2>2. new.pc = "backoff" /\ new.attempt = q.attempt
      BY <1>1 DEF Calls
    <2> HIDE DEF new, q
    <2>3. Moves(q, new) /\ q.pc # "idle"
      BY <2>1, <2>2 DEF Moves
    <2> QED BY <1>2, <1>3, <2>1, <2>3
  <1>9. CASE Receive(c)
    <2>1. q.pc = "issued" /\ Move(c, "save")
      BY <1>9 DEF Receive, At
    <2> HIDE DEF q
    <2> QED BY <1>4, <2>1
  <1>10. CASE Retry(c)
    <2> DEFINE new == [q EXCEPT !.pc = "post", !.attempt = q.attempt + 1]
    <2>1. q.pc = "backoff" /\ call' = [call EXCEPT ![c] = new]
      BY <1>10 DEF Retry, At
    <2>2. new.pc = "post" /\ new.attempt = q.attempt + 1
      BY <1>1 DEF Calls
    <2> HIDE DEF new, q
    <2>3. Moves(q, new) /\ q.pc # "idle"
      BY <2>1, <2>2 DEF Moves
    <2> QED BY <1>2, <2>1, <2>3
  <1>11. CASE Return(c)
    BY <1>3, <1>11 DEF Return, At
  <1> QED BY <1>5, <1>6, <1>7, <1>8, <1>9, <1>10, <1>11 DEF CallStep

\* The end of the login moves all who are at it.
LEMMA LoginMoves ==
    ASSUME TypeOK, LoginEnds
    PROVE  \A c \in Callers :
               IF At(c, "login") THEN Moves(call[c], call'[c]) ELSE call'[c] = call[c]
  <1>1. PICK next \in {"post", "idle"} :
            call' = [c \in Callers |->
                        CASE ~At(c, "login") -> call[c]
                          [] At(c, "login") /\ next = "idle" -> Idle
                          [] At(c, "login") /\ next = "post" ->
                                 [call[c] EXCEPT !.pc = "post", !.attempt = 1]]
    BY DEF LoginEnds
  <1> TAKE c \in Callers
  <1> DEFINE new == [call[c] EXCEPT !.pc = "post", !.attempt = 1]
  <1>2. /\ ~At(c, "login") => call'[c] = call[c]
        /\ At(c, "login") => call'[c] = Idle \/ call'[c] = new
    BY <1>1
  <1>3. Idle.pc = "idle" /\ new.pc = "post" /\ new.attempt = 1
    BY DEF Idle, Calls, TypeOK
  <1> HIDE DEF new
  <1> QED BY <1>2, <1>3 DEF Moves, At

LEMMA CallStepsStep ==
    ASSUME TypeOK, TypeOK', [Next]_vars, NEW c \in Callers
    PROVE  /\ StepsLeft(call[c]) \in 0..3 * MaxAttempts + 3
           /\ CallStep(c) \/ (At(c, "login") /\ LoginEnds)
                  => StepsLeft(call'[c]) < StepsLeft(call[c])
           /\ ~At(c, "idle") => StepsLeft(call'[c]) <= StepsLeft(call[c])
  <1>1. /\ call[c] \in Calls /\ call'[c] \in Calls
        /\ StepsLeft(call[c]) \in 0..3 * MaxAttempts + 3
        /\ StepsLeft(call'[c]) \in Int
        /\ call'[c].pc = "idle" => StepsLeft(call'[c]) = 0
    BY StepsLeftBound DEF TypeOK
  <1>2. ASSUME CallStep(c) \/ (At(c, "login") /\ LoginEnds)
        PROVE  StepsLeft(call'[c]) < StepsLeft(call[c])
    <2>1. call[c].pc # "idle" /\ Moves(call[c], call'[c])
      BY <1>2, StepMoves, LoginMoves DEF At
    <2> QED BY <1>1, <2>1, MovesIsLess
  <1>3. ASSUME ~At(c, "idle"), ~CallStep(c), ~(At(c, "login") /\ LoginEnds)
        PROVE  call'[c] = call[c] \/ call'[c].pc = "idle"
    <2>1. ASSUME NEW d \in Callers, BeginGet(d) \/ BeginClear(d) PROVE call'[c] = call[c]
      <3>1. d # c
        BY <1>3, <2>1 DEF BeginGet, BeginClear
      <3> QED BY <2>1, <3>1 DEF BeginGet, BeginClear, TypeOK
    <2>2. ASSUME NEW d \in Callers, CallStep(d) PROVE call'[c] = call[c]
      BY <1>3, <2>2, StepMoves
    <2>3. ASSUME NEW d \in Callers, Cancel(d) PROVE call'[c] = call[c] \/ call'[c].pc = "idle"
      BY <2>3 DEF Cancel, Ends, Idle, TypeOK
    <2>4. ASSUME NEW job \in jobs, Commit(job) \/ WriteLate(job) PROVE call'[c] = call[c]
      BY <2>4 DEF Commit, WriteLate
    <2>5. ASSUME NEW job \in jobs, Unwritable(job)
          PROVE  call'[c] = call[c] \/ call'[c].pc = "idle"
      BY <2>5 DEF Unwritable, Idle
    <2>6. CASE LoginEnds
      BY <1>3, <2>6, LoginMoves
    <2>7. CASE Restart
      BY <2>7 DEF Restart, Idle
    <2>8. ASSUME NEW version \in fresh, Expire(version) PROVE call'[c] = call[c]
      BY <2>8 DEF Expire
    <2>9. CASE UNCHANGED vars
      BY <2>9 DEF vars
    <2> QED BY <2>1, <2>2, <2>3, <2>4, <2>5, <2>6, <2>7, <2>8, <2>9 DEF Next, ThreadStep
  <1> QED BY <1>1, <1>2, <1>3

\* A call returns within three steps of each attempt and three more, for any
\* max_attempts and number of callers, whatever the store, the shared login and the
\* server do: the safety half of CallsReturn.
THEOREM CallStepsHold == Spec => CallSteps
  <1>1. ASSUME TypeOK, TypeOK', [Next]_vars
        PROVE  \A c \in Callers :
                  LET left == StepsLeft(call[c]) IN
                  /\ left \in 0..3 * MaxAttempts + 3
                  /\ CallStep(c) \/ (At(c, "login") /\ LoginEnds) => StepsLeft(call'[c]) < left
                  /\ ~At(c, "idle") => StepsLeft(call'[c]) <= left
    BY <1>1, CallStepsStep
  <1> QED BY <1>1, TypeCorrect, PTL DEF Spec, CallSteps
==============================================================================
