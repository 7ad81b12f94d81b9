----------------------------- MODULE SharedStore -----------------------------
(***************************************************************************)
(* What `JsonSessionStore` promises to saves of which several may be under *)
(* way.  The stored session changes in one step: to none when it is        *)
(* cleared, or when a save commits to its own session ("Writes are         *)
(* atomic"), unless others were under way beside it.  Then it may be the   *)
(* session of one of them, also of one that has failed meanwhile, or       *)
(* nothing readable, and one of them may yet write into what was           *)
(* committed.  A crash drops the saves and leaves what is stored.          *)
(***************************************************************************)
CONSTANTS Savers, Sessions, NoSession

VARIABLES
    stored,     \* the session a reader of the file sees
    save        \* [Savers -> Saves]

Unreadable == "unreadable"

Saves ==
    [ session : Sessions \cup {NoSession},  \* yet to be committed, if any
      beside  : SUBSET Sessions,            \* of the saves that failed beside it
      linked  : BOOLEAN ]                   \* it may still write what is stored

None == [session |-> NoSession, beside |-> {}, linked |-> FALSE]

UnderWay == {t \in Savers : save[t].session # NoSession}

Alone(t) == UnderWay = {t} /\ save[t].beside = {}

Init == stored = NoSession /\ save = [t \in Savers |-> None]

BeginSave(t, s) ==
    /\ t \notin UnderWay
    /\ save' = [save EXCEPT ![t] = [None EXCEPT !.session = s]]
    /\ UNCHANGED stored

Commit(t) ==
    /\ t \in UnderWay
    /\ \/ stored' \in {save[u].session : u \in UnderWay} \cup save[t].beside
       \/ ~Alone(t) /\ stored' = Unreadable
    /\ \E writers \in SUBSET (UnderWay \ {t}) :
           save' = [u \in Savers |-> IF u = t THEN None
                                     ELSE [save[u] EXCEPT !.linked = (u \in writers)]]

\* Not the session a lone save works on: another has committed its file.
WriteLate(t) ==
    /\ t \in UnderWay /\ save[t].linked
    /\ stored' \in {save[t].session, Unreadable}
    /\ save' = [save EXCEPT ![t].linked = FALSE]

FailSave(t) ==
    /\ t \in UnderWay
    /\ \/ UNCHANGED stored
       \/ save[t].linked /\ stored' = Unreadable
    /\ save' = [u \in Savers |->
                   CASE u = t -> None
                     [] u \in UnderWay \ {t} ->
                            [save[u] EXCEPT !.beside = save[u].beside \cup {save[t].session}]
                     [] OTHER -> save[u]]

Clear ==
    /\ stored' = NoSession
    /\ save' = [t \in Savers |-> [save[t] EXCEPT !.linked = FALSE]]

Crash == save' = [t \in Savers |-> None] /\ UNCHANGED stored

Next ==
    \/ \E t \in Savers : \/ Commit(t) \/ WriteLate(t) \/ FailSave(t)
                         \/ \E s \in Sessions : BeginSave(t, s)
    \/ Clear
    \/ Crash

Spec == Init /\ [][Next]_<<stored, save>>
==============================================================================
