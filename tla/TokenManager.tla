---------------------------- MODULE TokenManager ----------------------------
(***************************************************************************)
(* `TokenManager` and `TokenExchangeClient`                                *)
(* (kite_auto/auth/token_manager.py) over the login and the store.  Logins *)
(* that run at once are one, whose request token all their callers get     *)
(* (PlaywrightAuth).  Saves and clears are done by worker threads, in any  *)
(* order, each to its end whatever becomes of the call that waits.  Saves  *)
(* that overlap share a .tmp file (SessionStore): one may store the        *)
(* session of another, also of one that has failed meanwhile, or write its *)
(* own into a file that another has already made the session file.  A file *)
(* that one of them spoils is unreadable, which Load allows at any time.   *)
(*                                                                         *)
(* What is or was stored is a version: a number for each access token the  *)
(* server issues and for each clear.  A version is fresh from the arrival  *)
(* of its token until its expires_at is less than expiry_skew away; a      *)
(* clear, a missing session and a token that nobody received never are.    *)
(* Version 0 is what an earlier process left.                              *)
(*                                                                         *)
(* A call's pc names the await it is suspended at:                         *)
(*   load    the thread that reads     issued   the server's answer        *)
(*   loaded  resumption after it       backoff  between two POSTs          *)
(*   login   the shared login          save     the thread that writes     *)
(*   post    the POST                  clear    the thread that deletes    *)
(***************************************************************************)
EXTENDS Integers, FiniteSets

CONSTANTS
    Callers,        \* tasks that call the manager, one call at a time
    MaxAttempts,    \* max_attempts of the exchange
    Ttl,            \* session_ttl
    Skew,           \* expiry_skew
    MaxVersions     \* bound of the model: versions after the first

ASSUME TokenAssumption ==
    /\ MaxAttempts \in Nat \ {0}
    /\ Ttl \in Nat \ {0}
    /\ Skew \in Nat
    /\ MaxVersions \in Nat

VARIABLES
    call,       \* [Callers -> Calls]
    jobs,       \* the threads that save or clear
    stored,     \* the version in the session file
    fresh,      \* versions whose sessions have not expired
    issued,     \* the newest version
    ended,      \* history: versions whose save or clear returned
    obsolete    \* history: versions that a later save or clear has replaced

vars == <<call, jobs, stored, fresh, issued, ended, obsolete>>

Versions == 0..MaxVersions

LivePcs == {"load", "loaded", "login", "post", "issued", "backoff", "save", "clear"}

Calls ==
    [ pc      : LivePcs \cup {"idle"},
      force   : BOOLEAN,
      attempt : 0..MaxAttempts,
      version : Versions,           \* read by the call, issued to it or cleared by it
      floor   : Versions,           \* history: `issued` when it began
      past    : SUBSET Versions ]   \* history: `ended` when it began

Jobs ==
    [ kind    : {"save", "clear"},
      version : Versions,
      past    : SUBSET Versions,    \* history: `past` of its call
      near    : SUBSET Versions,    \* sessions of the saves that failed beside it
      linked  : BOOLEAN ]           \* its .tmp file may be the session file by now

Job(kind, version, past) ==
    [kind |-> kind, version |-> version, past |-> past, near |-> {}, linked |-> FALSE]

Idle == [ pc |-> "idle", force |-> FALSE, attempt |-> 0, version |-> 0, floor |-> 0,
          past |-> {} ]

Init ==
    /\ call = [c \in Callers |-> Idle]
    /\ jobs = {}
    /\ stored = 0
    /\ fresh \in {{}, {0}}
    /\ issued = 0
    /\ ended = {}
    /\ obsolete = {}

------------------------------------------------------------------------------
NewCall(pc, force, version) ==
    [ pc |-> pc, force |-> force, attempt |-> 0, version |-> version, floor |-> issued,
      past |-> ended ]

At(c, pc) == call[c].pc = pc

Move(c, pc) == call' = [call EXCEPT ![c].pc = pc]

Ends(c) == call' = [call EXCEPT ![c] = Idle]

\* Mutated form: looks for a stored session first, forced or not.
BeginGetLoading(c) ==
    /\ At(c, "idle")
    /\ \E force \in BOOLEAN :
           call' = [call EXCEPT ![c] = NewCall("load", force, 0)]
    /\ UNCHANGED <<jobs, stored, fresh, issued, ended, obsolete>>

\* `get_access_token`; `refresh_access_token` is a forced one.
BeginGet(c) ==
    /\ At(c, "idle")
    /\ \E force \in BOOLEAN :
           call' = [call EXCEPT ![c] = NewCall(IF force THEN "login" ELSE "load", force, 0)]
    /\ UNCHANGED <<jobs, stored, fresh, issued, ended, obsolete>>

\* `clear_session`
BeginClear(c) ==
    /\ At(c, "idle")
    /\ issued < MaxVersions
    /\ issued' = issued + 1
    /\ call' = [call EXCEPT ![c] = NewCall("clear", FALSE, issued + 1)]
    /\ jobs' = jobs \cup {Job("clear", issued + 1, ended)}
    /\ UNCHANGED <<stored, fresh, ended, obsolete>>

\* The thread has read the file; an unreadable one is an error.
Load(c) ==
    /\ At(c, "load")
    /\ \/ call' = [call EXCEPT ![c] = [call[c] EXCEPT !.pc = "loaded", !.version = stored]]
       \/ Ends(c)
    /\ UNCHANGED <<jobs, stored, fresh, issued, ended, obsolete>>

\* The session that was read is returned, or a login is started or joined.
Resume(c) ==
    /\ At(c, "loaded")
    /\ IF call[c].version \in fresh THEN Ends(c) ELSE Move(c, "login")
    /\ UNCHANGED <<jobs, stored, fresh, issued, ended, obsolete>>

\* The login all of its callers share ends: each exchanges the request token it is
\* given, or fails.
LoginEnds ==
    /\ \E c \in Callers : At(c, "login")
    /\ \E next \in {"post", "idle"} :
           call' = [c \in Callers |->
                       CASE ~At(c, "login") -> call[c]
                         [] At(c, "login") /\ next = "idle" -> Idle
                         [] At(c, "login") /\ next = "post" ->
                                [call[c] EXCEPT !.pc = "post", !.attempt = 1]]
    /\ UNCHANGED <<jobs, stored, fresh, issued, ended, obsolete>>

\* The server issues an access token for a POST.
Issue(c) ==
    /\ At(c, "post")
    /\ issued < MaxVersions
    /\ issued' = issued + 1
    /\ call' = [call EXCEPT ![c] = [call[c] EXCEPT !.pc = "issued", !.version = issued + 1]]
    /\ UNCHANGED <<jobs, stored, fresh, ended, obsolete>>

\* Mutated form: one attempt too many.
TransientOnceMore(c) ==
    /\ call[c].attempt <= MaxAttempts
    /\ call' = [call EXCEPT ![c] = [call[c] EXCEPT !.pc = "backoff", !.version = 0]]

\* A TransientTokenExchangeError is retried while attempts are left.
Transient(c) ==
    /\ call[c].attempt < MaxAttempts
    /\ call' = [call EXCEPT ![c] = [call[c] EXCEPT !.pc = "backoff", !.version = 0]]

\* The server refuses, or the request or its answer is lost.
ExchangeFails(c) ==
    /\ At(c, "post") \/ At(c, "issued")
    /\ Transient(c) \/ Ends(c)
    /\ UNCHANGED <<jobs, stored, fresh, issued, ended, obsolete>>

Saving(c) ==
    /\ fresh' = IF Ttl > Skew THEN fresh \cup {call[c].version} ELSE fresh
    /\ jobs' = jobs \cup {Job("save", call[c].version, call[c].past)}

\* Mutated form: does not wait for the save.
ReceiveDetached(c) ==
    /\ At(c, "issued")
    /\ Saving(c)
    /\ Ends(c)
    /\ ended' = ended \cup {call[c].version}
    /\ UNCHANGED <<stored, issued, obsolete>>

\* A token arrives: the session's time starts, and a thread saves it.
Receive(c) ==
    /\ At(c, "issued")
    /\ Saving(c)
    /\ Move(c, "save")
    /\ UNCHANGED <<stored, issued, ended, obsolete>>

\* Mutated form: does not count the attempt.
RetryUncounted(c) ==
    /\ At(c, "backoff")
    /\ Move(c, "post")
    /\ UNCHANGED <<jobs, stored, fresh, issued, ended, obsolete>>

\* The backoff is over: the same request token is posted again.
Retry(c) ==
    /\ At(c, "backoff")
    /\ call' = [call EXCEPT ![c] = [call[c] EXCEPT !.pc = "post",
                                                   !.attempt = call[c].attempt + 1]]
    /\ UNCHANGED <<jobs, stored, fresh, issued, ended, obsolete>>

\* A thread renames the .tmp file, which holds its own session or that of a save that
\* was under way beside it.  Others may have that file open.
CommitSave(job) ==
    /\ job.kind = "save"
    /\ stored' \in {other.version : other \in {j \in jobs : j.kind = "save"}} \cup job.near
    /\ jobs' = {[j EXCEPT !.linked = (j.kind = "save")] : j \in jobs \ {job}}

\* A thread deletes the session file.
CommitClear(job) ==
    /\ job.kind = "clear"
    /\ stored' = job.version
    /\ jobs' = {[j EXCEPT !.linked = FALSE] : j \in jobs \ {job}}

Commit(job) ==
    /\ job \in jobs
    /\ CommitSave(job) \/ CommitClear(job)
    /\ obsolete' = obsolete \cup job.past
    /\ UNCHANGED <<call, fresh, issued, ended>>

\* A thread writes its session into the file another has made the session file.
WriteLate(job) ==
    /\ job \in jobs
    /\ job.linked
    /\ stored' = job.version
    /\ jobs' = (jobs \ {job}) \cup {[job EXCEPT !.linked = FALSE]}
    /\ UNCHANGED <<call, fresh, issued, ended, obsolete>>

\* An OSError.  What a save had written may stay in the .tmp file.
Unwritable(job) ==
    /\ job \in jobs
    /\ jobs' = {[j EXCEPT !.near = IF job.kind = "save" THEN j.near \cup {job.version}
                                                      ELSE j.near] : j \in jobs \ {job}}
    /\ call' = [c \in Callers |->
                   IF call[c].pc \in {"save", "clear"} /\ call[c].version = job.version
                       THEN Idle ELSE call[c]]
    /\ UNCHANGED <<stored, fresh, issued, ended, obsolete>>

\* The thread is done: the call returns.
Return(c) ==
    /\ At(c, "save") \/ At(c, "clear")
    /\ \A job \in jobs : job.version # call[c].version
    /\ Ends(c)
    /\ ended' = ended \cup {call[c].version}
    /\ UNCHANGED <<jobs, stored, fresh, issued, obsolete>>

\* The caller's task is cancelled; its thread is not.  At the login, LoginEnds stands
\* for it: the cancellation ends the login, for all of its callers.
Cancel(c) ==
    /\ call[c].pc \in LivePcs \ {"login"}
    /\ Ends(c)
    /\ UNCHANGED <<jobs, stored, fresh, issued, ended, obsolete>>

\* The process dies and is started again.
Restart ==
    /\ call' = [c \in Callers |-> Idle]
    /\ jobs' = {}
    /\ UNCHANGED <<stored, fresh, issued, ended, obsolete>>

\* A session comes within expiry_skew of its end.
Expire(version) ==
    /\ version \in fresh
    /\ fresh' = fresh \ {version}
    /\ UNCHANGED <<call, jobs, stored, issued, ended, obsolete>>

------------------------------------------------------------------------------
CallStep(c) ==
    Load(c) \/ Resume(c) \/ Issue(c) \/ ExchangeFails(c) \/ Receive(c) \/ Retry(c) \/ Return(c)

ThreadStep(job) == Commit(job) \/ Unwritable(job)

Next ==
    \/ \E c \in Callers : BeginGet(c) \/ BeginClear(c) \/ CallStep(c) \/ Cancel(c)
    \/ \E job \in jobs : ThreadStep(job) \/ WriteLate(job)
    \/ \E version \in fresh : Expire(version)
    \/ LoginEnds
    \/ Restart

Spec == Init /\ [][Next]_vars

(***************************************************************************)
(* The login returns (PlaywrightAuth!LoginReturns, under its assumption on *)
(* the browser driver), the client has a timeout, backoffs are finite and  *)
(* threads run to their end.                                               *)
(***************************************************************************)
FairSpec ==
    /\ Spec
    /\ WF_vars(LoginEnds)
    /\ \A c \in Callers : WF_vars(CallStep(c))
    /\ \A v \in Versions : WF_vars(\E job \in jobs : job.version = v /\ ThreadStep(job))

------------------------------------------------------------------------------
TypeOK ==
    /\ call \in [Callers -> Calls]
    /\ jobs \subseteq Jobs
    /\ stored \in Versions
    /\ fresh \subseteq Versions
    /\ issued \in Versions
    /\ ended \subseteq Versions
    /\ obsolete \subseteq Versions

\* A forced refresh never returns a token that was issued before it was called, whatever
\* login it joined and whatever other calls store: the REST client relies on it to
\* replace a token the server has refused.
ForcedIsFresh ==
    [][\A c \in Callers :
          call[c].force /\ call[c].pc \in {"loaded", "save"} /\ call'[c].pc = "idle"
              => call[c].version > call[c].floor]_vars

\* The session file holds nothing that was replaced by a call that began after the call
\* that stored it had returned: neither an older token nor a cleared session comes
\* back, whatever overlaps, fails or is cancelled.
StoredIsCurrent == stored \notin obsolete

\* Every call returns.
CallsReturn == \A c \in Callers : ~At(c, "idle") ~> At(c, "idle")
==============================================================================
