------------------------- MODULE SessionStoreProofs -------------------------
(***************************************************************************)
(* Proofs about SessionStore, for any savers, sessions, loaders and        *)
(* inodes: types, what a save may find in the .tmp file, what is whole     *)
(* while saves do not overlap, and the refinement of SharedStore, whether  *)
(* they overlap or not.                                                    *)
(***************************************************************************)
EXTENDS SessionStore, TLAPS

USE StoreAssumption

\* The parts of TypeOK, so that each step below disturbs few of them.
FileTypes == /\ path \in Inodes \cup {NoFile} /\ tmp \in Inodes \cup {NoFile}
             /\ content \in [Inodes -> Contents]
             /\ overlapped \in BOOLEAN

SaverTypes == /\ saver \in [Savers -> SaverStates]
              /\ \A t \in Savers : /\ saver[t].file # NoFile <=> saver[t].pc = "write"
                                   /\ saver[t].session # NoSession <=> saver[t].pc # "idle"

LoaderTypes == /\ loader \in [Loaders -> LoaderStates]
               /\ \A t \in Loaders : loader[t].file # NoFile <=> loader[t].pc = "read"

SeenType == seen \in [Loaders -> SUBSET (Contents \cup {NoSession})]

LEMMA TypeParts == TypeOK <=> FileTypes /\ SaverTypes /\ LoaderTypes /\ SeenType
  BY DEF TypeOK, FileTypes, SaverTypes, LoaderTypes, SeenType

LEMMA LoaderSet ==
    ASSUME LoaderTypes, NEW t \in Loaders, NEW x \in LoaderStates,
           x.file # NoFile <=> x.pc = "read", loader' = [loader EXCEPT ![t] = x]
    PROVE  LoaderTypes'
  BY DEF LoaderTypes

LEMMA IdleType == Idle \in SaverStates /\ Idle.pc = "idle" /\ Idle.file = NoFile
                                      /\ Idle.session = NoSession /\ Idle.beside = {}
  BY DEF Idle, SaverStates

LEMMA WaitingType == Waiting \in LoaderStates /\ Waiting.pc = "idle" /\ Waiting.file = NoFile
  BY DEF Waiting, LoaderStates

\* What is stored is a file's contents or nothing, and so is what a load witnesses.
LEMMA StoredType == FileTypes => Stored \in Contents \cup {NoSession}
  BY DEF FileTypes, Stored, StoredIn

LEMMA WitnessType == SeenType /\ FileTypes' /\ Witness => SeenType'
  <1> SUFFICES ASSUME SeenType, FileTypes', Witness PROVE SeenType'
    OBVIOUS
  <1>1. Stored' \in Contents \cup {NoSession}
    BY DEF FileTypes, Stored, StoredIn
  <1>2. \A t \in Loaders : seen'[t] \in SUBSET (Contents \cup {NoSession})
    <2> TAKE t \in Loaders
    <2>1. seen'[t] = {} \/ seen'[t] = seen[t] \cup {Stored'} \/ seen'[t] = seen[t]
      BY DEF Witness, FileTypes
    <2> QED BY <1>1, <2>1 DEF SeenType
  <1>3. seen' = [t \in Loaders |-> seen'[t]]
    BY DEF Witness
  <1> QED BY <1>2, <1>3 DEF SeenType

(***************************************************************************)
(* What each step of a save does to the savers, field by field.            *)
(***************************************************************************)
\* The saver of the step.
Becomes(t, pc, session, file, beside) ==
    /\ saver'[t] \in SaverStates
    /\ saver'[t].pc = pc
    /\ saver'[t].session = session
    /\ saver'[t].file = file
    /\ saver'[t].beside = beside

\* The others, which a failed save leaves its session.
Besides(t, u) ==
    IF saver'[t].pc = "idle" /\ Uncommitted(saver[t]) /\ Uncommitted(saver[u])
        THEN saver[u].beside \cup {saver[t].session}
        ELSE saver[u].beside

Stays(t, u) ==
    /\ saver'[u] \in SaverStates
    /\ saver'[u].pc = saver[u].pc
    /\ saver'[u].session = saver[u].session
    /\ saver'[u].file = saver[u].file
    /\ saver'[u].beside = Besides(t, u)

StayOthers(t) == \A u \in Savers \ {t} : Stays(t, u)

\* The steps of a save.
LEMMA Replaced ==
    ASSUME SaverTypes, NEW t \in Savers, NEW x \in SaverStates,
           saver' = [saver EXCEPT ![t] = x],
           x.pc = "idle" => ~Uncommitted(saver[t])
    PROVE  Becomes(t, x.pc, x.session, x.file, x.beside) /\ StayOthers(t)
  <1>1. saver'[t] = x /\ \A u \in Savers \ {t} : saver'[u] = saver[u]
    BY DEF SaverTypes
  <1>2. \A u \in Savers \ {t} : saver'[u] \in SaverStates
    BY <1>1 DEF SaverTypes
  <1>3. Becomes(t, x.pc, x.session, x.file, x.beside)
    BY <1>1 DEF Becomes
  <1>4. StayOthers(t)
    BY <1>1, <1>2 DEF StayOthers, Stays, Besides
  <1> QED BY <1>3, <1>4

LEMMA BeginShape ==
    ASSUME SaverTypes, NEW t \in Savers, NEW s \in Sessions, BeginSave(t, s)
    PROVE  Becomes(t, "open", s, NoFile, {}) /\ StayOthers(t)
  <1> DEFINE x == [Idle EXCEPT !.pc = "open", !.session = s]
  <1>1. /\ x \in SaverStates
        /\ x.pc = "open" /\ x.session = s /\ x.file = NoFile /\ x.beside = {}
    BY DEF Idle, SaverStates
  <1>2. saver' = [saver EXCEPT ![t] = x]
    BY DEF BeginSave
  <1> HIDE DEF x
  <1> QED BY <1>1, <1>2, Replaced

LEMMA OpenShape ==
    ASSUME FileTypes, SaverTypes, NEW t \in Savers, OpenTmp(t)
    PROVE  \E i \in Inodes :
               /\ i \in IF tmp = NoFile THEN Fresh ELSE {tmp}
               /\ tmp' = i
               /\ content' = [content EXCEPT ![i] = Empty]
               /\ Becomes(t, "write", saver[t].session, i, saver[t].beside)
               /\ StayOthers(t)
  <1>1. PICK i \in IF tmp = NoFile THEN Fresh ELSE {tmp} :
                   /\ tmp' = i
                   /\ content' = [content EXCEPT ![i] = Empty]
                   /\ saver' = [saver EXCEPT ![t] = [@ EXCEPT !.pc = "write", !.file = i]]
    BY DEF OpenTmp
  <1>2. i \in Inodes
    BY <1>1 DEF Fresh, FileTypes
  <1> DEFINE x == [saver[t] EXCEPT !.pc = "write", !.file = i]
  <1>3. /\ x \in SaverStates
        /\ x.pc = "write" /\ x.session = saver[t].session /\ x.file = i
        /\ x.beside = saver[t].beside
    BY <1>2 DEF SaverTypes, SaverStates
  <1>4. saver' = [saver EXCEPT ![t] = x]
    BY <1>1
  <1> HIDE DEF x
  <1>5. Becomes(t, "write", saver[t].session, i, saver[t].beside) /\ StayOthers(t)
    BY <1>3, <1>4, Replaced
  <1> QED BY <1>1, <1>2, <1>5

LEMMA WriteShape ==
    ASSUME SaverTypes, NEW t \in Savers, WriteTmp(t)
    PROVE  Becomes(t, "chmod", saver[t].session, NoFile, saver[t].beside) /\ StayOthers(t)
  <1> DEFINE x == [saver[t] EXCEPT !.pc = "chmod", !.file = NoFile]
  <1>1. /\ x \in SaverStates
        /\ x.pc = "chmod" /\ x.session = saver[t].session /\ x.file = NoFile
        /\ x.beside = saver[t].beside
    BY DEF SaverTypes, SaverStates
  <1>2. saver' = [saver EXCEPT ![t] = x]
    BY DEF WriteTmp
  <1> HIDE DEF x
  <1> QED BY <1>1, <1>2, Replaced

LEMMA ChmodShape ==
    ASSUME SaverTypes, NEW t \in Savers, ChmodTmp(t)
    PROVE  Becomes(t, "replace", saver[t].session, NoFile, saver[t].beside) /\ StayOthers(t)
  <1> DEFINE x == [saver[t] EXCEPT !.pc = "replace"]
  <1>1. /\ x \in SaverStates
        /\ x.pc = "replace" /\ x.session = saver[t].session /\ x.file = NoFile
        /\ x.beside = saver[t].beside
    BY DEF ChmodTmp, SaverTypes, SaverStates
  <1>2. saver' = [saver EXCEPT ![t] = x]
    BY DEF ChmodTmp
  <1> HIDE DEF x
  <1> QED BY <1>1, <1>2, Replaced

LEMMA ReplaceShape ==
    ASSUME SaverTypes, NEW t \in Savers, ReplaceTmp(t)
    PROVE  Becomes(t, "chmod_path", saver[t].session, NoFile, {}) /\ StayOthers(t)
  <1> DEFINE x == [saver[t] EXCEPT !.pc = "chmod_path", !.beside = {}]
  <1>1. /\ x \in SaverStates
        /\ x.pc = "chmod_path" /\ x.session = saver[t].session /\ x.file = NoFile
        /\ x.beside = {}
    BY DEF ReplaceTmp, SaverTypes, SaverStates
  <1>2. saver' = [saver EXCEPT ![t] = x]
    BY DEF ReplaceTmp
  <1> HIDE DEF x
  <1> QED BY <1>1, <1>2, Replaced

LEMMA ChmodPathShape ==
    ASSUME SaverTypes, NEW t \in Savers, ChmodPath(t)
    PROVE  Becomes(t, "idle", NoSession, NoFile, {}) /\ StayOthers(t)
  <1>1. saver' = [saver EXCEPT ![t] = Idle] /\ ~Uncommitted(saver[t])
    BY DEF ChmodPath, Uncommitted
  <1>2. Becomes(t, Idle.pc, Idle.session, Idle.file, Idle.beside) /\ StayOthers(t)
    BY <1>1, IdleType, Replaced
  <1> QED BY <1>2, IdleType

LEMMA RaiseShape ==
    ASSUME SaverTypes, NEW t \in Savers, Raise(t), saver[t].pc # "idle"
    PROVE  Becomes(t, "idle", NoSession, NoFile, {}) /\ StayOthers(t)
  <1>1. saver'[t] = Idle
    BY DEF Raise
  <1>2. Becomes(t, "idle", NoSession, NoFile, {})
    BY <1>1, IdleType DEF Becomes
  <1>3. ASSUME NEW u \in Savers \ {t} PROVE Stays(t, u)
    <2>0. saver[u] \in SaverStates /\ saver[t].session \in Sessions
      BY DEF SaverTypes, SaverStates
    <2>1. CASE Uncommitted(saver[t]) /\ Uncommitted(saver[u])
      <3> DEFINE b == saver[u].beside \cup {saver[t].session}
                 x == [saver[u] EXCEPT !.beside = b]
      <3>1. b \in SUBSET Sessions
        BY <2>0 DEF SaverStates
      <3>2. saver'[u] = x
        BY <2>1 DEF Raise
      <3>3. Besides(t, u) = b
        BY <1>2, <2>1 DEF Besides, Becomes
      <3> HIDE DEF b
      <3>4. /\ x \in SaverStates
            /\ x.pc = saver[u].pc /\ x.session = saver[u].session
            /\ x.file = saver[u].file /\ x.beside = b
        BY <2>0, <3>1 DEF SaverStates
      <3> HIDE DEF x
      <3> QED BY <3>2, <3>3, <3>4 DEF Stays
    <2>2. CASE ~(Uncommitted(saver[t]) /\ Uncommitted(saver[u]))
      <3>1. saver'[u] = saver[u]
        BY <2>2 DEF Raise
      <3> QED BY <2>0, <2>2, <3>1 DEF Stays, Besides
    <2> QED BY <2>1, <2>2
  <1> QED BY <1>2, <1>3 DEF StayOthers

LEMMA FailShape ==
    ASSUME SaverTypes, NEW t \in Savers, FailSave(t) \/ FailWrite(t)
    PROVE  Becomes(t, "idle", NoSession, NoFile, {}) /\ StayOthers(t)
  BY RaiseShape DEF FailSave, FailWrite

\* So the savers stay well typed.
LEMMA SaversTyped ==
    ASSUME SaverTypes, NEW t \in Savers, StayOthers(t), saver' = [u \in Savers |-> saver'[u]],
           NEW pc, NEW session, NEW file, NEW beside, Becomes(t, pc, session, file, beside),
           file # NoFile <=> pc = "write", session # NoSession <=> pc # "idle"
    PROVE  SaverTypes'
  <1>1. \A u \in Savers :
            /\ saver'[u] \in SaverStates
            /\ saver'[u].file # NoFile <=> saver'[u].pc = "write"
            /\ saver'[u].session # NoSession <=> saver'[u].pc # "idle"
    BY DEF StayOthers, Stays, Becomes, SaverTypes
  <1> QED BY <1>1 DEF SaverTypes

LEMMA SaverFunction ==
    ASSUME SaverTypes, NEW t \in Savers, SaveStep(t)
    PROVE  saver' = [u \in Savers |-> saver'[u]]
  <1>1. \/ saver' = [u \in Savers |-> saver'[u]]
        \/ \E x : saver' = [saver EXCEPT ![t] = x]
    BY DEF SaveStep, BeginSave, OpenTmp, WriteTmp, ChmodTmp, ReplaceTmp, ChmodPath, FailSave,
           FailWrite, Raise
  <1> QED BY <1>1 DEF SaverTypes

LEMMA TypeStep == TypeOK /\ [Next]_vars => TypeOK'
  <1> SUFFICES ASSUME FileTypes, SaverTypes, LoaderTypes, SeenType, [Next]_vars
               PROVE  FileTypes' /\ SaverTypes' /\ LoaderTypes' /\ SeenType'
    BY TypeParts DEF TypeOK, FileTypes, SaverTypes, LoaderTypes, SeenType
  <1> USE IdleType, WaitingType
  \* A step of a save or a clear witnesses; it remains to type the files and the saver.
  <1>1. ASSUME FileTypes', SaverTypes', UNCHANGED loader, Witness
        PROVE  FileTypes' /\ SaverTypes' /\ LoaderTypes' /\ SeenType'
    BY <1>1, WitnessType DEF LoaderTypes
  <1>2. ASSUME NEW t \in Savers, SaveStep(t) PROVE FileTypes' /\ SaverTypes' /\ UNCHANGED loader /\ Witness
    <2> USE <1>2, SaverFunction
    <2>0. saver[t] \in SaverStates
      BY DEF SaverTypes
    <2>1. ASSUME NEW s \in Sessions, BeginSave(t, s) PROVE FileTypes' /\ SaverTypes'
      <3>1. SaverTypes'
        BY <2>1, BeginShape, SaversTyped
      <3>2. FileTypes'
        BY <2>1 DEF BeginSave, FileTypes
      <3> QED BY <3>1, <3>2
    <2>2. ASSUME OpenTmp(t) PROVE FileTypes' /\ SaverTypes'
      <3>1. PICK i \in Inodes :
                /\ tmp' = i /\ content' = [content EXCEPT ![i] = Empty]
                /\ Becomes(t, "write", saver[t].session, i, saver[t].beside) /\ StayOthers(t)
        BY <2>2, OpenShape
      <3>2. i # NoFile /\ saver[t].session # NoSession
        BY <2>2 DEF OpenTmp, SaverTypes
      <3>3. SaverTypes'
        BY <3>1, <3>2, SaversTyped
      <3>4. FileTypes'
        BY <2>2, <3>1 DEF OpenTmp, FileTypes, Contents
      <3> QED BY <3>3, <3>4
    <2>3. ASSUME WriteTmp(t) PROVE FileTypes' /\ SaverTypes'
      <3>1. saver[t].session \in Sessions
        BY <2>3 DEF WriteTmp, SaverTypes, SaverStates
      <3>2. PICK c \in Contents : content' = [content EXCEPT ![saver[t].file] = c]
        BY <2>3, <3>1 DEF WriteTmp, Contents
      <3>3. SaverTypes'
        BY <2>3, <3>1, WriteShape, SaversTyped
      <3>4. FileTypes'
        BY <2>3, <3>2 DEF WriteTmp, FileTypes
      <3> QED BY <3>3, <3>4
    <2>4. ASSUME ChmodTmp(t) PROVE FileTypes' /\ SaverTypes'
      <3>1. saver[t].session # NoSession
        BY <2>4 DEF ChmodTmp, SaverTypes
      <3>2. SaverTypes'
        BY <2>4, <3>1, ChmodShape, SaversTyped
      <3> QED BY <2>4, <3>2 DEF ChmodTmp, FileTypes
    <2>5. ASSUME ReplaceTmp(t) PROVE FileTypes' /\ SaverTypes'
      <3>1. saver[t].session # NoSession
        BY <2>5 DEF ReplaceTmp, SaverTypes
      <3>2. SaverTypes'
        BY <2>5, <3>1, ReplaceShape, SaversTyped
      <3> QED BY <2>5, <3>2 DEF ReplaceTmp, FileTypes
    <2>6. ASSUME ChmodPath(t) \/ FailSave(t) \/ FailWrite(t) PROVE FileTypes' /\ SaverTypes'
      <3>1. SaverTypes'
        BY <2>6, ChmodPathShape, FailShape, SaversTyped
      <3>2. FileTypes'
        BY <2>6 DEF ChmodPath, FailSave, FailWrite, FileTypes, Contents
      <3> QED BY <3>1, <3>2
    <2>7. UNCHANGED loader /\ Witness
      BY DEF SaveStep, BeginSave, OpenTmp, WriteTmp, ChmodTmp, ReplaceTmp, ChmodPath,
             FailSave, FailWrite
    <2> QED BY <2>1, <2>2, <2>3, <2>4, <2>5, <2>6, <2>7 DEF SaveStep
  <1>3. ASSUME NEW t \in Loaders, LoadStep(t)
        PROVE  FileTypes' /\ SaverTypes' /\ LoaderTypes' /\ SeenType'
    <2>1. FileTypes' /\ SaverTypes'
      BY <1>3 DEF LoadStep, BeginLoad, OpenSession, Opening, ReadSession, FailLoad, EndLoad,
                  FileTypes, SaverTypes
    <2>2. ASSUME NEW r \in Sessions \cup {NoSession} \cup Errors
          PROVE  /\ Answer(r) \in LoaderStates
                 /\ Answer(r).file = NoFile /\ Answer(r).pc = "done"
      BY DEF Answer, LoaderStates
    <2>3. SeenType'
      BY <1>3, StoredType DEF LoadStep, BeginLoad, OpenSession, Opening, ReadSession, FailLoad, EndLoad,
                              SeenType
    <2>4. ASSUME BeginLoad(t) PROVE LoaderTypes'
      <3>1. [Waiting EXCEPT !.pc = "open"] \in LoaderStates
            /\ [Waiting EXCEPT !.pc = "open"].file = NoFile
            /\ [Waiting EXCEPT !.pc = "open"].pc = "open"
        BY DEF Waiting, LoaderStates
      <3>2. CASE path = NoFile
        BY <2>2, <2>4, <3>2, LoaderSet DEF BeginLoad
      <3>3. CASE path # NoFile
        BY <2>4, <3>1, <3>3, LoaderSet DEF BeginLoad
      <3> QED BY <3>2, <3>3
    <2>5. ASSUME OpenSession(t) PROVE LoaderTypes'
      <3>1. CASE path = NoFile
        BY <2>2, <2>5, <3>1, LoaderSet DEF OpenSession, Opening, Errors
      <3>2. CASE path # NoFile
        <4> DEFINE x == [Waiting EXCEPT !.pc = "read", !.file = path]
        <4>1. x \in LoaderStates /\ x.file # NoFile /\ x.pc = "read"
          BY <3>2 DEF Waiting, LoaderStates, FileTypes
        <4>2. loader' = [loader EXCEPT ![t] = x]
          BY <2>5, <3>2 DEF OpenSession, Opening
        <4> HIDE DEF x
        <4> QED BY <4>1, <4>2, LoaderSet
      <3> QED BY <3>1, <3>2
    <2>6. ASSUME ReadSession(t) PROVE LoaderTypes'
      <3> DEFINE r == Parsed(content[loader[t].file])
      <3>1. r \in Sessions \cup {NoSession} \cup Errors
        BY DEF Parsed, Errors
      <3>2. loader' = [loader EXCEPT ![t] = Answer(r)]
        BY <2>6 DEF ReadSession
      <3> HIDE DEF r
      <3> QED BY <2>2, <3>1, <3>2, LoaderSet
    <2>7. ASSUME FailLoad(t) PROVE LoaderTypes'
      BY <2>2, <2>7, LoaderSet DEF FailLoad, Errors
    <2>8. ASSUME EndLoad(t) PROVE LoaderTypes'
      BY <2>8, LoaderSet DEF EndLoad
    <2> QED BY <1>3, <2>1, <2>3, <2>4, <2>5, <2>6, <2>7, <2>8 DEF LoadStep
  <1>4. CASE Clear
    <2>1. FileTypes' /\ SaverTypes' /\ UNCHANGED loader /\ Witness
      BY <1>4 DEF Clear, FileTypes, SaverTypes
    <2> QED BY <1>1, <2>1
  <1>5. CASE Crash
    BY <1>5 DEF Crash, FileTypes, SaverTypes, LoaderTypes, SeenType
  <1>6. CASE UNCHANGED vars
    BY <1>6 DEF vars, FileTypes, SaverTypes, LoaderTypes, SeenType
  <1> QED BY <1>1, <1>2, <1>3, <1>4, <1>5, <1>6 DEF Next

\* Every variable of the store keeps its type, and a file is open exactly while a
\* thread writes or reads it, whatever threads save, load, clear and die.
THEOREM TypeCorrect == Spec => []TypeOK
  <1>1. Init => TypeOK
    BY IdleType, WaitingType DEF Init, TypeOK, Contents
  <1> QED BY <1>1, TypeStep, PTL DEF Spec


(***************************************************************************)
(* The .tmp file.  A save that works on it finds there the document of a   *)
(* save that is under way or has failed beside it, or a part; one that is  *)
(* alone finds its own, if it finds anything.  It does if saves never      *)
(* overlap.                                                                *)
(***************************************************************************)
Working(q) == q.pc \in {"write", "chmod", "replace"}

Alone(t) == /\ saver[t].beside = {}
            /\ \A u \in Savers \ {t} : ~Uncommitted(saver[u])

ApartOK(t) == /\ Uncommitted(saver[t]) /\ ~overlapped => Alone(t)
              /\ ~Uncommitted(saver[t]) => saver[t].beside = {}

LoneOK(t) == Working(saver[t]) =>
    /\ ~overlapped => tmp # NoFile
    /\ Alone(t) /\ tmp # NoFile =>
           IF saver[t].pc = "write" THEN saver[t].file = tmp /\ content[tmp] = Empty
                                    ELSE content[tmp] = saver[t].session

Known(t) == {saver[u].session : u \in {v \in Savers : Uncommitted(saver[v])}} \cup saver[t].beside

TmpOK(t) == Working(saver[t]) /\ tmp # NoFile => content[tmp] \in Known(t) \cup {Empty, Torn}

SaverOK(t) == ApartOK(t) /\ LoneOK(t) /\ TmpOK(t)

FilesOK == path # NoFile => path # tmp /\ (~overlapped => content[path] \in Sessions)

\* While saves do not overlap, what is read is whole and is not written.
LoaderOK(t) == ~overlapped =>
    /\ loader[t].pc \in {"open", "read"} => Stored \in seen[t]
    /\ loader[t].pc = "read" => /\ loader[t].file # tmp
                                /\ content[loader[t].file] \in Sessions \cap seen[t]
    /\ loader[t].pc = "done" /\ loader[t].result # "failed" =>
           IF loader[t].result = "missing" THEN NoSession \in seen[t]
                                           ELSE loader[t].result \in seen[t]

StoreInv == /\ \A t \in Savers : SaverOK(t)
            /\ FilesOK
            /\ \A t \in Loaders : LoaderOK(t)

LEMMA WorkingUncommitted == \A q : Working(q) => Uncommitted(q)
  BY DEF Working, Uncommitted

\* What a save may find stays known, unless one commits, whose file is then gone.
LEMMA KnownGrows ==
    ASSUME NEW t \in Savers, NEW pc, NEW session, NEW file, NEW beside,
           Becomes(t, pc, session, file, beside), StayOthers(t),
           pc # "chmod_path",
           pc # "idle" /\ Uncommitted(saver[t]) =>
               session = saver[t].session /\ beside = saver[t].beside,
           NEW u \in Savers, Uncommitted(saver[u]), Uncommitted(saver'[u])
    PROVE  Known(u) \subseteq Known(u)'
  <1> SUFFICES ASSUME NEW k \in Known(u) PROVE k \in Known(u)'
    OBVIOUS
  <1>1. CASE k \in saver[u].beside
    <2>1. k \in saver'[u].beside
      BY <1>1 DEF StayOthers, Stays, Besides, Becomes, Uncommitted
    <2> QED BY <2>1 DEF Known
  <1>2. CASE k \notin saver[u].beside
    <2>1. PICK v \in Savers : Uncommitted(saver[v]) /\ k = saver[v].session
      BY <1>2 DEF Known
    <2>2. CASE v # t \/ pc # "idle"
      <3>1. Uncommitted(saver'[v]) /\ k = saver'[v].session
        BY <2>1, <2>2 DEF StayOthers, Stays, Becomes, Uncommitted
      <3> QED BY <3>1 DEF Known
    <2>3. CASE v = t /\ pc = "idle"
      <3>1. u # t
        BY <2>3 DEF Becomes, Uncommitted
      <3>2. k \in saver'[u].beside
        BY <2>1, <2>3, <3>1 DEF StayOthers, Stays, Besides, Becomes
      <3> QED BY <3>2 DEF Known
    <2> QED BY <2>2, <2>3
  <1> QED BY <1>1, <1>2

\* A saver that is alone after a step of another was alone before it, and that other had
\* nothing to commit, unless it has committed now.
LEMMA AloneAfter ==
    ASSUME NEW t \in Savers, NEW pc, NEW session, NEW file, NEW beside,
           Becomes(t, pc, session, file, beside), StayOthers(t), pc # "chmod_path",
           NEW u \in Savers \ {t}, Uncommitted(saver[u]), Alone(u)'
    PROVE  Alone(u) /\ pc = "idle"
  <1>1. pc = "idle" /\ ~Uncommitted(saver[t])
    BY DEF Alone, Becomes, StayOthers, Stays, Besides, Uncommitted
  <1>2. \A v \in Savers \ {u} : ~Uncommitted(saver[v])
    BY <1>1 DEF Alone, StayOthers, Stays, Uncommitted
  <1>3. saver[u].beside = {}
    BY <1>1 DEF Alone, StayOthers, Stays, Besides
  <1> QED BY <1>1, <1>2, <1>3 DEF Alone

\* The same of the saver of the step.
LEMMA AloneSame ==
    ASSUME NEW t \in Savers, StayOthers(t), saver'[t].beside = saver[t].beside
    PROVE  Alone(t)' <=> Alone(t)
  BY DEF Alone, StayOthers, Stays, Uncommitted

\* Apart from the beginning of a save, those that do not overlap stay so.
LEMMA ApartStep ==
    ASSUME NEW t \in Savers, NEW pc, NEW session, NEW file, NEW beside,
           Becomes(t, pc, session, file, beside), StayOthers(t),
           UNCHANGED overlapped,
           pc \in {"idle", "chmod_path"} => beside = {},
           pc \notin {"idle", "chmod_path"} =>
               Uncommitted(saver[t]) /\ beside = saver[t].beside,
           NEW u \in Savers, ApartOK(u), ApartOK(t)
    PROVE  ApartOK(u)'
  <1>1. CASE u = t
    <2>1. CASE pc \in {"idle", "chmod_path"}
      BY <1>1, <2>1 DEF ApartOK, Becomes, Uncommitted
    <2>2. CASE pc \notin {"idle", "chmod_path"}
      <3>1. Alone(t)' <=> Alone(t)
        BY <2>2, AloneSame DEF Becomes
      <3>2. Uncommitted(saver'[t])
        BY <2>2 DEF Becomes, Uncommitted
      <3> QED BY <1>1, <2>2, <3>1, <3>2 DEF ApartOK
    <2> QED BY <2>1, <2>2
  <1>2. CASE u # t
    <2>1. Stays(t, u)
      BY <1>2 DEF StayOthers
    <2>2. CASE ~Uncommitted(saver[u])
      BY <2>1, <2>2 DEF ApartOK, Stays, Besides, Uncommitted
    <2>3. CASE Uncommitted(saver[u]) /\ ~overlapped
      <3>1. Alone(u) /\ ~Uncommitted(saver[t])
        BY <1>2, <2>3 DEF ApartOK, Alone
      <3>2. ~Uncommitted(saver'[t])
        BY <3>1 DEF Becomes, Uncommitted
      <3>3. Alone(u)'
        BY <2>1, <3>1, <3>2 DEF Alone, StayOthers, Stays, Besides, Uncommitted
      <3> QED BY <2>1, <2>3, <3>3 DEF ApartOK, Stays, Uncommitted
    <2>4. CASE Uncommitted(saver[u]) /\ overlapped
      BY <2>1, <2>4 DEF ApartOK, Stays, Uncommitted
    <2> QED BY <2>2, <2>3, <2>4
  <1> QED BY <1>1, <1>2

\* A step of another leaves a saver's view of the .tmp file sound.
LEMMA OtherSaver ==
    ASSUME NEW t \in Savers, NEW pc, NEW session, NEW file, NEW beside,
           Becomes(t, pc, session, file, beside), StayOthers(t), pc # "chmod_path",
           pc # "idle" /\ Uncommitted(saver[t]) =>
               session = saver[t].session /\ beside = saver[t].beside,
           overlapped => overlapped',
           tmp # NoFile => tmp' # NoFile,
           tmp' # NoFile =>
               \/ tmp' = tmp /\ content'[tmp] = content[tmp]
               \/ /\ content'[tmp'] \in {Empty, Torn}
                  /\ Uncommitted(saver[t])
               \/ /\ content'[tmp'] = saver'[t].session
                  /\ Uncommitted(saver'[t]),
           NEW u \in Savers \ {t}, SaverOK(u)
    PROVE  LoneOK(u)' /\ TmpOK(u)'
  <1> SUFFICES ASSUME Working(saver'[u]) PROVE LoneOK(u)' /\ TmpOK(u)'
    BY DEF LoneOK, TmpOK
  <1>1. Stays(t, u)
    BY DEF StayOthers
  <1>2. Working(saver[u]) /\ Uncommitted(saver[u]) /\ Uncommitted(saver'[u])
    BY <1>1, WorkingUncommitted DEF Stays, Working
  <1>3. Known(u) \subseteq Known(u)'
    BY <1>2, KnownGrows
  <1>4. Alone(u)' => Alone(u) /\ ~Uncommitted(saver'[t]) /\ ~Uncommitted(saver[t])
    <2> SUFFICES ASSUME Alone(u)'
                 PROVE  Alone(u) /\ ~Uncommitted(saver'[t]) /\ ~Uncommitted(saver[t])
      OBVIOUS
    <2>1. Alone(u) /\ pc = "idle"
      BY <1>2, AloneAfter
    <2> QED BY <2>1 DEF Alone, Becomes, Uncommitted
  <1>5. LoneOK(u)'
    <2>1. ~overlapped' => tmp' # NoFile
      BY <1>2 DEF SaverOK, LoneOK
    <2>2. ASSUME Alone(u)', tmp' # NoFile
          PROVE  IF saver'[u].pc = "write" THEN saver'[u].file = tmp' /\ content'[tmp'] = Empty
                                           ELSE content'[tmp'] = saver'[u].session
      <3>1. tmp' = tmp /\ content'[tmp] = content[tmp]
        BY <1>4, <2>2
      <3> QED BY <1>1, <1>2, <1>4, <2>2, <3>1 DEF SaverOK, LoneOK, Stays
    <2> QED BY <2>1, <2>2 DEF LoneOK
  <1>6. TmpOK(u)'
    <2> SUFFICES ASSUME tmp' # NoFile PROVE content'[tmp'] \in Known(u)' \cup {Empty, Torn}
      BY DEF TmpOK
    <2>1. CASE tmp' = tmp /\ content'[tmp] = content[tmp]
      BY <1>2, <1>3, <2>1 DEF SaverOK, TmpOK
    <2>2. CASE content'[tmp'] = saver'[t].session /\ Uncommitted(saver'[t])
      BY <2>2 DEF Known
    <2> QED BY <2>1, <2>2
  <1> QED BY <1>5, <1>6

LEMMA SaveStepInv ==
    ASSUME TypeOK, TypeOK', StoreInv, NEW t \in Savers, SaveStep(t)
    PROVE  (\A u \in Savers : SaverOK(u)') /\ FilesOK'
  <1> USE DEF StoreInv
  <1>0. FileTypes /\ SaverTypes /\ saver[t] \in SaverStates /\ SaverOK(t)
    BY TypeParts DEF TypeOK
  <1> SUFFICES ASSUME NEW u \in Savers PROVE SaverOK(u)' /\ FilesOK'
    <2>1. CASE Savers = {}
      BY <2>1
    <2> QED BY <2>1
  <1>1. ASSUME NEW s \in Sessions, BeginSave(t, s) PROVE SaverOK(u)' /\ FilesOK'
    <2>1. Becomes(t, "open", s, NoFile, {}) /\ StayOthers(t)
      BY <1>0, <1>1, BeginShape
    <2>2. /\ UNCHANGED <<path, tmp, content>> /\ ~Uncommitted(saver[t])
          /\ overlapped => overlapped'
          /\ \A v \in Savers \ {t} : Uncommitted(saver[v]) => overlapped'
      BY <1>1 DEF BeginSave, Uncommitted
    <2>3. ApartOK(u)'
      <3>1. CASE u = t
        <4>1. Uncommitted(saver'[t]) /\ saver'[t].beside = {}
          BY <2>1 DEF Becomes, Uncommitted
        <4>2. ~overlapped' => Alone(t)'
          BY <2>1, <2>2, <4>1 DEF Alone, StayOthers, Stays, Uncommitted
        <4> QED BY <3>1, <4>1, <4>2 DEF ApartOK
      <3>2. CASE u # t
        <4>1. Stays(t, u) /\ (Uncommitted(saver[u]) => overlapped')
          BY <2>1, <2>2, <3>2 DEF StayOthers
        <4> QED BY <2>2, <4>1 DEF SaverOK, ApartOK, Stays, Besides, Uncommitted
      <3> QED BY <3>1, <3>2
    <2>4. LoneOK(u)' /\ TmpOK(u)'
      <3>1. CASE u = t
        BY <2>1, <3>1 DEF LoneOK, TmpOK, Working, Becomes
      <3>2. CASE u # t
        BY <2>1, <2>2, <3>2, OtherSaver
      <3> QED BY <3>1, <3>2
    <2>5. FilesOK'
      BY <2>2 DEF FilesOK
    <2> QED BY <2>3, <2>4, <2>5 DEF SaverOK
  <1>2. CASE OpenTmp(t)
    <2>1. PICK i \in Inodes :
              /\ i \in IF tmp = NoFile THEN Fresh ELSE {tmp}
              /\ tmp' = i /\ content' = [content EXCEPT ![i] = Empty]
              /\ Becomes(t, "write", saver[t].session, i, saver[t].beside) /\ StayOthers(t)
      BY <1>0, <1>2, OpenShape
    <2>2. UNCHANGED <<path, overlapped>> /\ Uncommitted(saver[t])
      BY <1>2 DEF OpenTmp, Uncommitted
    <2>3. content'[i] = Empty /\ i # NoFile /\ \A j \in Inodes \ {i} : content'[j] = content[j]
      BY <1>0, <2>1 DEF FileTypes
    <2>4. ApartOK(u)'
      BY <1>0, <2>1, <2>2, ApartStep DEF SaverOK
    <2>5. LoneOK(u)' /\ TmpOK(u)'
      <3>1. CASE u = t
        BY <2>1, <2>3, <3>1 DEF LoneOK, TmpOK, Becomes
      <3>2. CASE u # t
        BY <2>1, <2>2, <2>3, <3>2, OtherSaver
      <3> QED BY <3>1, <3>2
    <2>6. FilesOK'
      <3>1. path # NoFile => path \in Inodes /\ path # i
        BY <1>0, <2>1 DEF Fresh, FilesOK, FileTypes
      <3> QED BY <2>1, <2>2, <2>3, <3>1 DEF FilesOK
    <2> QED BY <2>4, <2>5, <2>6 DEF SaverOK
  <1>3. CASE WriteTmp(t)
    <2> DEFINE f == saver[t].file
    <2>1. /\ Becomes(t, "chmod", saver[t].session, NoFile, saver[t].beside) /\ StayOthers(t)
          /\ UNCHANGED <<path, tmp, overlapped>> /\ saver[t].pc = "write"
      BY <1>0, <1>3, WriteShape DEF WriteTmp
    <2>2. /\ f \in Inodes
          /\ content'[f] \in {saver[t].session, Torn}
          /\ content[f] = Empty => content'[f] = saver[t].session
          /\ \A j \in Inodes \ {f} : content'[j] = content[j]
      BY <1>0, <1>3 DEF WriteTmp, FileTypes, SaverTypes, SaverStates
    <2>3. Uncommitted(saver[t]) /\ Uncommitted(saver'[t]) /\ saver'[t].session = saver[t].session
      BY <2>1 DEF Uncommitted, Becomes
    <2>4. tmp # NoFile => tmp \in Inodes
      BY <1>0 DEF FileTypes
    <2>5. ~overlapped => f = tmp
      BY <1>0, <2>1, <2>3 DEF SaverOK, ApartOK, LoneOK, Working
    <2> HIDE DEF f
    <2>6. ApartOK(u)'
      BY <1>0, <2>1, <2>3, ApartStep DEF SaverOK
    <2>7. LoneOK(u)' /\ TmpOK(u)'
      <3>1. CASE u = t
        <4>1. Alone(t)' <=> Alone(t)
          BY <2>1, AloneSame DEF Becomes
        <4>2. Working(saver[t]) /\ saver'[t].pc = "chmod"
          BY <2>1 DEF Working, Becomes
        <4>3. LoneOK(t)'
          BY <1>0, <2>1, <2>2, <2>3, <4>1, <4>2 DEF SaverOK, LoneOK, f
        <4>4. Known(t) \subseteq Known(t)'
          BY <2>1, <2>3, KnownGrows
        <4>5. saver'[t].session \in Known(t)'
          BY <2>3 DEF Known
        <4>6. TmpOK(t)'
          BY <1>0, <2>1, <2>2, <2>3, <2>4, <4>2, <4>4, <4>5 DEF SaverOK, TmpOK
        <4> QED BY <3>1, <4>3, <4>6
      <3>2. CASE u # t
        <4>1. tmp' # NoFile =>
                 \/ tmp' = tmp /\ content'[tmp] = content[tmp]
                 \/ content'[tmp'] \in {Empty, Torn}
                 \/ content'[tmp'] = saver'[t].session
          BY <2>1, <2>2, <2>3, <2>4
        <4> QED BY <2>1, <2>3, <3>2, <4>1, OtherSaver
      <3> QED BY <3>1, <3>2
    <2>8. FilesOK'
      <3>1. path # NoFile => path \in Inodes
        BY <1>0 DEF FileTypes
      <3> QED BY <2>1, <2>2, <2>5, <3>1 DEF FilesOK
    <2> QED BY <2>6, <2>7, <2>8 DEF SaverOK
  <1>4. CASE ChmodTmp(t)
    <2>1. /\ Becomes(t, "replace", saver[t].session, NoFile, saver[t].beside) /\ StayOthers(t)
          /\ UNCHANGED <<path, tmp, content, overlapped>> /\ saver[t].pc = "chmod"
      BY <1>0, <1>4, ChmodShape DEF ChmodTmp
    <2>2. /\ Uncommitted(saver[t]) /\ Uncommitted(saver'[t]) /\ Working(saver[t])
          /\ saver'[t].pc = "replace" /\ saver'[t].session = saver[t].session
      BY <2>1 DEF Uncommitted, Working, Becomes
    <2>3. ApartOK(u)'
      BY <1>0, <2>1, <2>2, ApartStep DEF SaverOK
    <2>4. LoneOK(u)' /\ TmpOK(u)'
      <3>1. CASE u = t
        <4>1. Alone(t)' <=> Alone(t)
          BY <2>1, AloneSame DEF Becomes
        <4>2. Known(t) \subseteq Known(t)'
          BY <2>1, <2>2, KnownGrows
        <4> QED BY <1>0, <2>1, <2>2, <3>1, <4>1, <4>2 DEF SaverOK, LoneOK, TmpOK
      <3>2. CASE u # t
        BY <2>1, <2>2, <3>2, OtherSaver
      <3> QED BY <3>1, <3>2
    <2>5. FilesOK'
      BY <2>1 DEF FilesOK
    <2> QED BY <2>3, <2>4, <2>5 DEF SaverOK
  <1>5. CASE ReplaceTmp(t)
    <2>1. /\ Becomes(t, "chmod_path", saver[t].session, NoFile, {}) /\ StayOthers(t)
          /\ UNCHANGED <<content, overlapped>> /\ saver[t].pc = "replace"
          /\ tmp # NoFile /\ path' = tmp /\ tmp' = NoFile
      BY <1>0, <1>5, ReplaceShape DEF ReplaceTmp
    <2>2. Uncommitted(saver[t]) /\ Working(saver[t])
      BY <2>1 DEF Uncommitted, Working
    <2>3. ApartOK(u)'
      BY <1>0, <2>1, <2>2, ApartStep DEF SaverOK
    <2>4. LoneOK(u)' /\ TmpOK(u)'
      <3>1. CASE u = t
        BY <2>1, <3>1 DEF LoneOK, TmpOK, Working, Becomes
      <3>2. CASE u # t
        <4>1. Stays(t, u)
          BY <2>1, <3>2 DEF StayOthers
        <4>2. Working(saver'[u]) => overlapped
          BY <2>2, <3>2, <4>1, WorkingUncommitted DEF SaverOK, ApartOK, Alone, Stays, Working
        <4> QED BY <2>1, <4>2 DEF LoneOK, TmpOK
      <3> QED BY <3>1, <3>2
    <2>5. saver[t].session \in Sessions
      BY <1>0, <2>1 DEF SaverTypes, SaverStates
    <2>6. ~overlapped => content[tmp] = saver[t].session
      BY <1>0, <2>1, <2>2 DEF SaverOK, ApartOK, LoneOK
    <2>7. FilesOK'
      BY <2>1, <2>5, <2>6 DEF FilesOK
    <2> QED BY <2>3, <2>4, <2>7 DEF SaverOK
  <1>6. CASE ChmodPath(t) \/ FailSave(t)
    <2>1. /\ Becomes(t, "idle", NoSession, NoFile, {}) /\ StayOthers(t)
          /\ UNCHANGED <<path, tmp, content, overlapped>>
      BY <1>0, <1>6, ChmodPathShape, FailShape DEF ChmodPath, FailSave
    <2>2. ApartOK(u)'
      BY <1>0, <2>1, ApartStep DEF SaverOK
    <2>3. LoneOK(u)' /\ TmpOK(u)'
      <3>1. CASE u = t
        BY <2>1, <3>1 DEF LoneOK, TmpOK, Working, Becomes
      <3>2. CASE u # t
        BY <2>1, <3>2, OtherSaver
      <3> QED BY <3>1, <3>2
    <2>4. FilesOK'
      BY <2>1 DEF FilesOK
    <2> QED BY <2>2, <2>3, <2>4 DEF SaverOK
  <1>7. CASE FailWrite(t)
    <2> DEFINE f == saver[t].file
    <2>1. /\ Becomes(t, "idle", NoSession, NoFile, {}) /\ StayOthers(t)
          /\ UNCHANGED <<path, tmp, overlapped>> /\ saver[t].pc = "write"
      BY <1>0, <1>7, FailShape DEF FailWrite
    <2>2. /\ f \in Inodes /\ content'[f] = Torn
          /\ \A j \in Inodes \ {f} : content'[j] = content[j]
      BY <1>0, <1>7 DEF FailWrite, FileTypes, SaverTypes, SaverStates
    <2>3. Uncommitted(saver[t])
      BY <2>1 DEF Uncommitted
    <2>4. ~overlapped => f = tmp
      BY <1>0, <2>1, <2>3 DEF SaverOK, ApartOK, LoneOK, Working
    <2> HIDE DEF f
    <2>5. ApartOK(u)'
      BY <1>0, <2>1, ApartStep DEF SaverOK
    <2>6. LoneOK(u)' /\ TmpOK(u)'
      <3>1. CASE u = t
        BY <2>1, <3>1 DEF LoneOK, TmpOK, Working, Becomes
      <3>2. CASE u # t
        <4>1. tmp # NoFile => \/ content'[tmp] = content[tmp]
                              \/ content'[tmp] \in {Empty, Torn}
          BY <1>0, <2>2 DEF FileTypes
        <4> QED BY <2>1, <2>3, <3>2, <4>1, OtherSaver
      <3> QED BY <3>1, <3>2
    <2>7. FilesOK'
      <3>1. path # NoFile => path \in Inodes
        BY <1>0 DEF FileTypes
      <3> QED BY <2>1, <2>2, <2>4, <3>1 DEF FilesOK
    <2> QED BY <2>5, <2>6, <2>7 DEF SaverOK
  <1> QED BY <1>1, <1>2, <1>3, <1>4, <1>5, <1>6, <1>7 DEF SaveStep

\* A step that leaves what a loader reads alone leaves its answer sound.
LEMMA WitnessInv ==
    ASSUME TypeOK, NEW r \in Loaders, LoaderOK(r), UNCHANGED loader, Witness,
           overlapped => overlapped', overlapped' \in BOOLEAN,
           ~overlapped' /\ loader[r].pc = "read" =>
               loader[r].file # tmp' /\ content'[loader[r].file] = content[loader[r].file]
    PROVE  LoaderOK(r)'
  <1> SUFFICES ASSUME ~overlapped' PROVE LoaderOK(r)'
    BY DEF LoaderOK
  <1>1. loader'[r] = loader[r]
    OBVIOUS
  <1>2. CASE loader[r].pc \in {"open", "read"}
    <2>1. seen'[r] = seen[r] \cup {Stored'}
      BY <1>1, <1>2 DEF Witness
    <2> QED BY <1>1, <1>2, <2>1 DEF LoaderOK
  <1>3. CASE loader[r].pc \notin {"open", "read"}
    <2>1. seen'[r] = seen[r]
      BY <1>1, <1>3 DEF Witness
    <2> QED BY <1>1, <1>3, <2>1 DEF LoaderOK
  <1> QED BY <1>2, <1>3

LEMMA SaveStepLoaders ==
    ASSUME TypeOK, TypeOK', StoreInv, NEW t \in Savers, SaveStep(t), NEW r \in Loaders
    PROVE  LoaderOK(r)'
  <1>1. UNCHANGED loader /\ Witness
    BY DEF SaveStep, BeginSave, OpenTmp, WriteTmp, ChmodTmp, ReplaceTmp, ChmodPath, FailSave,
           FailWrite
  <1>2. overlapped => overlapped'
    BY DEF SaveStep, BeginSave, OpenTmp, WriteTmp, ChmodTmp, ReplaceTmp, ChmodPath, FailSave,
           FailWrite
  <1> SUFFICES ASSUME ~overlapped', loader[r].pc = "read"
               PROVE  loader[r].file # tmp' /\ content'[loader[r].file] = content[loader[r].file]
    BY <1>1, <1>2, WitnessInv DEF StoreInv, TypeOK
  <1>3. loader[r].file # tmp /\ loader[r].file # NoFile /\ loader[r].file \in Inodes
    BY <1>2 DEF StoreInv, LoaderOK, TypeOK, LoaderStates
  <1>4. CASE OpenTmp(t)
    <2>1. PICK i \in IF tmp = NoFile THEN Fresh ELSE {tmp} :
               tmp' = i /\ content' = [content EXCEPT ![i] = Empty]
      BY <1>4 DEF OpenTmp
    <2>2. i # loader[r].file
      BY <1>3, <2>1 DEF Fresh
    <2> QED BY <1>3, <2>1, <2>2 DEF TypeOK
  <1>5. CASE WriteTmp(t) \/ FailWrite(t)
    <2>1. Uncommitted(saver[t]) /\ saver[t].pc = "write" /\ UNCHANGED tmp
      BY <1>5 DEF WriteTmp, FailWrite, Uncommitted
    <2>2. saver[t].file = tmp
      BY <1>2, <2>1 DEF StoreInv, SaverOK, ApartOK, LoneOK, Working
    <2> QED BY <1>3, <1>5, <2>1, <2>2 DEF WriteTmp, FailWrite, TypeOK
  <1>6. CASE ReplaceTmp(t)
    BY <1>3, <1>6 DEF ReplaceTmp
  <1>7. ASSUME ChmodTmp(t) \/ ChmodPath(t) \/ FailSave(t) \/ \E s \in Sessions : BeginSave(t, s)
        PROVE  UNCHANGED <<tmp, content>>
    BY <1>7 DEF ChmodTmp, ChmodPath, FailSave, BeginSave
  <1> QED BY <1>3, <1>4, <1>5, <1>6, <1>7 DEF SaveStep

LEMMA LoadStepInv ==
    ASSUME TypeOK, StoreInv, NEW t \in Loaders, LoadStep(t)
    PROVE  StoreInv'
  <1>1. UNCHANGED <<path, tmp, content, saver, overlapped>>
    BY DEF LoadStep, BeginLoad, OpenSession, Opening, ReadSession, FailLoad, EndLoad
  <1>2. FilesOK' /\ \A u \in Savers : SaverOK(u)'
    BY <1>1 DEF StoreInv, FilesOK, SaverOK, ApartOK, LoneOK, TmpOK, Alone, Known
  <1>3. Stored' = Stored
    BY <1>1 DEF Stored, StoredIn
  <1>4. ASSUME NEW r \in Loaders, r # t PROVE LoaderOK(r)'
    <2>1. loader'[r] = loader[r] /\ seen'[r] = seen[r]
      BY <1>4 DEF LoadStep, BeginLoad, OpenSession, Opening, ReadSession, FailLoad, EndLoad, TypeOK
    <2> QED BY <1>1, <1>3, <2>1 DEF StoreInv, LoaderOK
  <1>5. LoaderOK(t)'
    <2> USE DEF StoreInv
    <2> SUFFICES ASSUME ~overlapped PROVE LoaderOK(t)'
      BY <1>1 DEF LoaderOK
    <2>0. LoaderOK(t) /\ loader \in [Loaders -> LoaderStates] /\ loader[t] \in LoaderStates
          /\ t \in DOMAIN seen
      BY DEF TypeOK
    <2>1. CASE BeginLoad(t)
      <3>1. seen'[t] = {Stored}
        BY <2>0, <2>1 DEF BeginLoad
      <3>2. CASE path = NoFile
        <4>1. loader'[t].pc = "done" /\ loader'[t].result = NoSession
          BY <2>0, <2>1, <3>2 DEF BeginLoad, Answer
        <4>2. Stored = NoSession
          BY <3>2 DEF Stored, StoredIn
        <4> QED BY <3>1, <4>1, <4>2 DEF LoaderOK
      <3>3. CASE path # NoFile
        <4>1. loader'[t].pc = "open"
          BY <2>0, <2>1, <3>3 DEF BeginLoad, Waiting
        <4> QED BY <1>3, <3>1, <4>1 DEF LoaderOK
      <3> QED BY <3>2, <3>3
    <2>2. CASE OpenSession(t)
      <3>1. Stored \in seen[t] /\ seen' = seen
        BY <2>0, <2>2 DEF OpenSession, Opening, LoaderOK
      <3>2. CASE path = NoFile
        <4>1. loader'[t].pc = "done" /\ loader'[t].result = "missing"
          BY <2>0, <2>2, <3>2 DEF OpenSession, Opening, Answer
        <4>2. Stored = NoSession
          BY <3>2 DEF Stored, StoredIn
        <4> QED BY <3>1, <4>1, <4>2 DEF LoaderOK
      <3>3. CASE path # NoFile
        <4>1. loader'[t].pc = "read" /\ loader'[t].file = path
          BY <2>0, <2>2, <3>3 DEF OpenSession, Opening, Waiting
        <4>2. path # tmp /\ content[path] \in Sessions /\ Stored = content[path]
          BY <3>3 DEF FilesOK, Stored, StoredIn
        <4> QED BY <1>1, <1>3, <3>1, <4>1, <4>2 DEF LoaderOK
      <3> QED BY <3>2, <3>3
    <2>3. CASE ReadSession(t)
      <3>1. content[loader[t].file] \in Sessions \cap seen[t] /\ seen' = seen
        BY <2>0, <2>3 DEF ReadSession, LoaderOK
      <3>2. loader'[t].pc = "done" /\ loader'[t].result = content[loader[t].file]
        BY <2>0, <2>3, <3>1 DEF ReadSession, Answer, Parsed
      <3> QED BY <3>1, <3>2 DEF LoaderOK
    <2>4. CASE FailLoad(t)
      <3>1. loader'[t].pc = "done" /\ loader'[t].result = "failed"
        BY <2>0, <2>4 DEF FailLoad, Answer
      <3> QED BY <3>1 DEF LoaderOK
    <2>5. CASE EndLoad(t)
      <3>1. loader'[t].pc = "idle"
        BY <2>0, <2>5 DEF EndLoad, Waiting
      <3> QED BY <3>1 DEF LoaderOK
    <2> QED BY <2>1, <2>2, <2>3, <2>4, <2>5 DEF LoadStep
  <1> QED BY <1>2, <1>4, <1>5 DEF StoreInv

LEMMA InvStep == TypeOK /\ TypeOK' /\ StoreInv /\ [Next]_vars => StoreInv'
  <1> SUFFICES ASSUME TypeOK, TypeOK', StoreInv, [Next]_vars PROVE StoreInv'
    OBVIOUS
  <1>1. ASSUME NEW t \in Savers, SaveStep(t) PROVE StoreInv'
    BY <1>1, SaveStepInv, SaveStepLoaders DEF StoreInv
  <1>2. CASE Clear
    <2>1. (\A u \in Savers : SaverOK(u)') /\ FilesOK'
      BY <1>2 DEF Clear, StoreInv, SaverOK, ApartOK, LoneOK, TmpOK, Alone, Known, FilesOK
    <2>2. ASSUME NEW r \in Loaders PROVE LoaderOK(r)'
      <3>1. UNCHANGED <<tmp, content, loader, overlapped>> /\ Witness
        BY <1>2 DEF Clear
      <3>2. ~overlapped' /\ loader[r].pc = "read" =>
                loader[r].file # tmp' /\ content'[loader[r].file] = content[loader[r].file]
        BY <3>1 DEF StoreInv, LoaderOK
      <3> QED BY <3>1, <3>2, WitnessInv DEF StoreInv, TypeOK
    <2> QED BY <2>1, <2>2 DEF StoreInv
  <1>3. CASE Crash
    <2>1. \A t \in Savers : /\ ~Uncommitted(saver'[t]) /\ ~Working(saver'[t])
                            /\ saver'[t].beside = {}
      BY <1>3, IdleType DEF Crash, Uncommitted, Working
    <2>2. \A t \in Loaders : loader'[t].pc = "idle"
      BY <1>3 DEF Crash, Waiting
    <2>3. (\A u \in Savers : SaverOK(u)')
      BY <2>1 DEF SaverOK, ApartOK, LoneOK, TmpOK
    <2> QED BY <1>3, <2>2, <2>3 DEF Crash, StoreInv, FilesOK, LoaderOK
  <1>4. CASE UNCHANGED vars
    BY <1>4 DEF vars, StoreInv, SaverOK, ApartOK, LoneOK, TmpOK, Alone, Known, FilesOK, LoaderOK,
                Stored, StoredIn
  <1> QED BY <1>1, <1>2, <1>3, <1>4, LoadStepInv DEF Next

LEMMA Invariant == Spec => [](TypeOK /\ StoreInv)
  <1>1. Init => StoreInv
    BY IdleType DEF Init, StoreInv, SaverOK, ApartOK, LoneOK, TmpOK, Uncommitted, Working, FilesOK,
                    LoaderOK, Waiting
  <1>2. TypeOK /\ TypeOK' /\ StoreInv /\ [Next]_vars => StoreInv'
    BY InvStep
  <1> QED BY <1>1, <1>2, TypeCorrect, PTL DEF Spec

\* Until saves overlap the session file holds a whole document or does not exist,
\* wherever a save fails or dies.
THEOREM StoredWholeHolds == Spec => [](~overlapped => StoredWhole)
  <1>1. TypeOK /\ StoreInv => (~overlapped => StoredWhole)
    BY DEF StoreInv, FilesOK, StoredWhole, Stored, StoredIn
  <1> QED BY <1>1, Invariant, PTL

\* Until saves overlap a load that answers, whatever system calls fail around it, answers
\* what was stored during it; it never finds an invalid document, and misses the file
\* only if a clear removed it meanwhile.
THEOREM LoadSoundHolds == Spec => []LoadSound
  <1>1. TypeOK /\ StoreInv => LoadSound
    BY DEF StoreInv, LoaderOK, LoadSound
  <1> QED BY <1>1, Invariant, PTL

(***************************************************************************)
(* The store implements SharedStore.  A save is under way there until its  *)
(* rename, and may write late while the file it has open is the session's. *)
(***************************************************************************)
Visible == IF Stored \in {Empty, Torn} THEN "unreadable" ELSE Stored

\* A name for FALSE, which the provers take for a term.
Unlinked == FALSE

Entry(session, beside, linked) == [session |-> session, beside |-> beside, linked |-> linked]

EntryOf(t) == Entry(IF Uncommitted(saver[t]) THEN saver[t].session ELSE NoSession,
                    saver[t].beside,
                    saver[t].file # NoFile /\ saver[t].file = path)

Save == [t \in Savers |-> EntryOf(t)]

AbstractStep ==
    \/ \E t \in Savers : \/ Abstract!Commit(t)
                         \/ Abstract!WriteLate(t)
                         \/ Abstract!FailSave(t)
                         \/ \E s \in Sessions : Abstract!BeginSave(t, s)
    \/ Abstract!Clear
    \/ Abstract!Crash

LEMMA Entries ==
    /\ Abstract!None = Entry(NoSession, {}, Unlinked)
    /\ \A s, b, l : /\ Entry(s, b, l).session = s
                    /\ Entry(s, b, l).beside = b
                    /\ Entry(s, b, l).linked = l
  <1>1. Abstract!None = Entry(NoSession, {}, Unlinked)
    BY DEF Unlinked, Entry, Abstract!None
  <1>2. \A s, b, l : /\ Entry(s, b, l).session = s
                     /\ Entry(s, b, l).beside = b
                     /\ Entry(s, b, l).linked = l
    BY Zenon DEF Entry
  <1> QED BY <1>1, <1>2

LEMMA EntrySession ==
    ASSUME NEW s, NEW b, NEW l, NEW c
    PROVE  [Entry(s, b, l) EXCEPT !.session = c] = Entry(c, b, l)
  BY SMT DEF Entry

LEMMA EntryBegun ==
    ASSUME NEW s
    PROVE  [Abstract!None EXCEPT !.session = s] = Entry(s, {}, Unlinked)
  <1>1. [Entry(NoSession, {}, Unlinked) EXCEPT !.session = s] = Entry(s, {}, Unlinked)
    BY EntrySession
  <1>2. Abstract!None = Entry(NoSession, {}, Unlinked)
    BY Entries
  <1> QED BY <1>1, <1>2

LEMMA EntryLinked ==
    ASSUME NEW s, NEW b, NEW l, NEW m
    PROVE  [Entry(s, b, l) EXCEPT !.linked = m] = Entry(s, b, m)
  BY SMT DEF Entry

LEMMA EntryBeside ==
    ASSUME NEW s, NEW b, NEW l, NEW c
    PROVE  [Entry(s, b, l) EXCEPT !.beside = c] = Entry(s, c, l)
  BY SMT DEF Entry

\* Who is under way.
LEMMA UnderWayIs ==
    ASSUME SaverTypes
    PROVE  Abstract!UnderWay = {u \in Savers : Uncommitted(saver[u])}
  <1>1. \A u \in Savers : (IF Uncommitted(saver[u]) THEN saver[u].session ELSE NoSession) # NoSession
                              <=> Uncommitted(saver[u])
    BY DEF SaverTypes, Uncommitted
  <1> QED BY <1>1 DEF Abstract!UnderWay

\* The abstract actions, of Visible and Save.
LEMMA ToBegin ==
    ASSUME NEW t \in Savers, NEW s, t \notin Abstract!UnderWay, Visible' = Visible,
           Save' = [Save EXCEPT ![t] = [Abstract!None EXCEPT !.session = s]]
    PROVE  Abstract!BeginSave(t, s)
  BY DEF Abstract!BeginSave, Save, EntryOf, Entry, Visible

LEMMA ToCommit ==
    ASSUME NEW t \in Savers, t \in Abstract!UnderWay,
           \/ Visible' \in {Save[u].session : u \in Abstract!UnderWay} \cup Save[t].beside
           \/ ~Abstract!Alone(t) /\ Visible' = "unreadable",
           NEW writers \in SUBSET (Abstract!UnderWay \ {t}),
           Save' = [u \in Savers |-> IF u = t THEN Abstract!None
                                     ELSE [Save[u] EXCEPT !.linked = (u \in writers)]]
    PROVE  Abstract!Commit(t)
  BY DEF Abstract!Commit, Abstract!Unreadable, Save, EntryOf, Entry, Visible

LEMMA ToWriteLate ==
    ASSUME NEW t \in Savers, t \in Abstract!UnderWay, Save[t].linked,
           Visible' \in {Save[t].session, "unreadable"},
           Save' = [Save EXCEPT ![t].linked = Unlinked]
    PROVE  Abstract!WriteLate(t)
  BY DEF Unlinked, Abstract!WriteLate, Abstract!Unreadable, Save, EntryOf, Entry, Visible

LEMMA ToFail ==
    ASSUME NEW t \in Savers, t \in Abstract!UnderWay,
           \/ Visible' = Visible
           \/ Save[t].linked /\ Visible' = "unreadable",
           Save' = [u \in Savers |->
                       CASE u = t -> Abstract!None
                         [] u \in Abstract!UnderWay \ {t} ->
                                [Save[u] EXCEPT !.beside = Save[u].beside \cup {Save[t].session}]
                         [] OTHER -> Save[u]]
    PROVE  Abstract!FailSave(t)
  BY DEF Abstract!FailSave, Abstract!Unreadable, Save, EntryOf, Entry, Visible

LEMMA ToClear ==
    ASSUME Visible' = NoSession, Save' = [t \in Savers |-> [Save[t] EXCEPT !.linked = Unlinked]]
    PROVE  Abstract!Clear
  BY DEF Unlinked, Abstract!Clear, Save, EntryOf, Entry, Visible

LEMMA ToCrash ==
    ASSUME Visible' = Visible, Save' = [t \in Savers |-> Abstract!None]
    PROVE  Abstract!Crash
  BY DEF Abstract!Crash, Save, EntryOf, Entry, Visible

\* One saver's part in the abstract state after a step of another.
LEMMA EntryStays ==
    ASSUME NEW t \in Savers, NEW u \in Savers \ {t}, Stays(t, u)
    PROVE  Save'[u] = Entry(IF Uncommitted(saver[u]) THEN saver[u].session ELSE NoSession,
                            Besides(t, u),
                            saver[u].file # NoFile /\ saver[u].file = path')
  <1>1. Save'[u] = EntryOf(u)'
    BY DEF Save
  <1> QED BY <1>1 DEF EntryOf, Stays, Uncommitted

LEMMA EntryBecomes ==
    ASSUME NEW t \in Savers, NEW pc, NEW session, NEW file, NEW beside,
           Becomes(t, pc, session, file, beside)
    PROVE  Save'[t] = Entry(IF pc \notin {"idle", "chmod_path"} THEN session ELSE NoSession,
                            beside,
                            file # NoFile /\ file = path')
  <1>1. Save'[t] = EntryOf(t)'
    BY DEF Save
  <1> QED BY <1>1 DEF EntryOf, Becomes, Uncommitted

LEMMA EntryCloses ==
    ASSUME NEW t \in Savers, NEW pc, NEW session, NEW beside,
           Becomes(t, pc, session, NoFile, beside)
    PROVE  /\ pc # "idle" /\ pc # "chmod_path" => Save'[t] = Entry(session, beside, Unlinked)
           /\ pc = "idle" \/ pc = "chmod_path" => Save'[t] = Entry(NoSession, beside, Unlinked)
  <1>1. (NoFile # NoFile /\ NoFile = path') = Unlinked
    BY DEF Unlinked
  <1>2. Save'[t] = Entry(IF pc \notin {"idle", "chmod_path"} THEN session ELSE NoSession,
                         beside, Unlinked)
    BY <1>1, EntryBecomes
  <1> QED BY <1>2

\* A step that changes neither who is under way nor what is linked.
LEMMA SaveSame ==
    ASSUME NEW t \in Savers, NEW pc, NEW session, NEW file, NEW beside,
           Becomes(t, pc, session, file, beside), StayOthers(t), UNCHANGED path,
           beside = saver[t].beside,
           (IF pc \notin {"idle", "chmod_path"} THEN session ELSE NoSession)
               = IF Uncommitted(saver[t]) THEN saver[t].session ELSE NoSession,
           (file # NoFile /\ file = path) <=> (saver[t].file # NoFile /\ saver[t].file = path),
           pc = "idle" => ~Uncommitted(saver[t])
    PROVE  Save' = Save
  <1>1. Save'[t] = Save[t]
    BY EntryBecomes DEF Save, EntryOf
  <1>2. ASSUME NEW u \in Savers \ {t} PROVE Save'[u] = Save[u]
    <2>1. Stays(t, u) /\ Besides(t, u) = saver[u].beside
      BY DEF StayOthers, Besides, Becomes
    <2> QED BY <2>1, EntryStays DEF Save, EntryOf
  <1>3. Save' = [u \in Savers |-> Save'[u]] /\ Save = [u \in Savers |-> Save[u]]
    BY DEF Save
  <1> QED BY <1>1, <1>2, <1>3

LEMMA SaveRefines ==
    ASSUME TypeOK, TypeOK', StoreInv, NEW t \in Savers, SaveStep(t)
    PROVE  AbstractStep \/ UNCHANGED <<Visible, Save>>
  <1>0. /\ FileTypes /\ SaverTypes /\ saver[t] \in SaverStates /\ SaverOK(t) /\ FilesOK
        /\ \A u \in Savers : saver[u].file # NoFile => Uncommitted(saver[u])
        /\ \A u \in Savers : Uncommitted(saver[u]) => saver[u].session \in Sessions
        /\ Abstract!UnderWay = {u \in Savers : Uncommitted(saver[u])}
    BY TypeParts, UnderWayIs DEF StoreInv, TypeOK, Uncommitted, SaverTypes, SaverStates
  <1>1. ASSUME NEW u \in Savers
        PROVE  Save[u] = Entry(IF Uncommitted(saver[u]) THEN saver[u].session ELSE NoSession,
                               saver[u].beside,
                               saver[u].file # NoFile /\ saver[u].file = path)
    BY DEF Save, EntryOf
  <1>2. ASSUME path' = path, path # NoFile => content'[path] = content[path]
        PROVE  Visible' = Visible
    BY <1>2 DEF Visible, Stored, StoredIn
  <1>3. ASSUME NEW s \in Sessions, BeginSave(t, s) PROVE AbstractStep
    <2>1. /\ Becomes(t, "open", s, NoFile, {}) /\ StayOthers(t)
          /\ UNCHANGED <<path, content>> /\ ~Uncommitted(saver[t])
      BY <1>0, <1>3, BeginShape DEF BeginSave, Uncommitted
    <2>2. Save'[t] = [Abstract!None EXCEPT !.session = s]
      <3>1. Save'[t] = Entry(s, {}, Unlinked)
        BY <2>1, EntryCloses
      <3> QED BY <3>1, EntryBegun
    <2>3. ASSUME NEW u \in Savers \ {t} PROVE Save'[u] = Save[u]
      <3>1. Stays(t, u) /\ Besides(t, u) = saver[u].beside
        BY <2>1 DEF StayOthers, Besides, Becomes
      <3> QED BY <1>1, <2>1, <3>1, EntryStays
    <2>4. Save' = [Save EXCEPT ![t] = [Abstract!None EXCEPT !.session = s]]
      <3> DEFINE x == [Abstract!None EXCEPT !.session = s]
      <3>1. Save' = [u \in Savers |-> Save'[u]] /\ DOMAIN Save = Savers
        BY DEF Save
      <3>2. Save'[t] = x
        BY <2>2
      <3> HIDE DEF x
      <3>3. Save' = [Save EXCEPT ![t] = x]
        BY <2>3, <3>1, <3>2
      <3> QED BY <3>3 DEF x
    <2>5. Visible' = Visible /\ t \notin Abstract!UnderWay
      BY <1>0, <1>2, <2>1
    <2>6. Abstract!BeginSave(t, s)
      BY <2>4, <2>5, ToBegin
    <2> QED BY <2>6 DEF AbstractStep
  <1>4. CASE OpenTmp(t)
    <2>1. PICK i \in Inodes :
              /\ i \in IF tmp = NoFile THEN Fresh ELSE {tmp}
              /\ content' = [content EXCEPT ![i] = Empty]
              /\ Becomes(t, "write", saver[t].session, i, saver[t].beside) /\ StayOthers(t)
      BY <1>0, <1>4, OpenShape
    <2>2. UNCHANGED path /\ Uncommitted(saver[t]) /\ saver[t].file = NoFile
      BY <1>0, <1>4 DEF OpenTmp, Uncommitted, SaverTypes
    <2>3. i # path
      BY <1>0, <2>1 DEF Fresh, FilesOK, FileTypes
    <2>4. Save' = Save
      <3>1. /\ Becomes(t, "write", saver[t].session, i, saver[t].beside) /\ StayOthers(t)
            /\ UNCHANGED path
            /\ (IF "write" \notin {"idle", "chmod_path"} THEN saver[t].session ELSE NoSession)
                   = IF Uncommitted(saver[t]) THEN saver[t].session ELSE NoSession
            /\ (i # NoFile /\ i = path) <=> (saver[t].file # NoFile /\ saver[t].file = path)
            /\ "write" = "idle" => ~Uncommitted(saver[t])
        BY <2>1, <2>2, <2>3
      <3> QED BY ONLY SaveSame, <3>1, t \in Savers
    <2>5. Visible' = Visible
      BY <1>0, <1>2, <2>1, <2>2, <2>3 DEF FileTypes
    <2> QED BY <2>4, <2>5
  <1>5. CASE ChmodTmp(t) \/ ChmodPath(t)
    <2>1. UNCHANGED <<path, content>> /\ saver[t].file = NoFile
      BY <1>0, <1>5 DEF ChmodTmp, ChmodPath, SaverTypes
    <2>2. Visible' = Visible
      BY <1>2, <2>1
    <2>3. CASE ChmodTmp(t)
      <3>1. Becomes(t, "replace", saver[t].session, NoFile, saver[t].beside) /\ StayOthers(t)
        BY <1>0, <2>3, ChmodShape
      <3>2. Uncommitted(saver[t])
        BY <2>3 DEF ChmodTmp, Uncommitted
      <3>3. Save' = Save
        BY <2>1, <3>1, <3>2, SaveSame
      <3> QED BY <2>2, <3>3
    <2>4. CASE ChmodPath(t)
      <3>1. Becomes(t, "idle", NoSession, NoFile, {}) /\ StayOthers(t)
        BY <1>0, <2>4, ChmodPathShape
      <3>2. ~Uncommitted(saver[t]) /\ saver[t].beside = {}
        BY <1>0, <2>4 DEF ChmodPath, Uncommitted, SaverOK, ApartOK
      <3>3. Save' = Save
        BY <2>1, <3>1, <3>2, SaveSame
      <3> QED BY <2>2, <3>3
    <2> QED BY <1>5, <2>3, <2>4
  <1>6. CASE WriteTmp(t)
    <2> DEFINE f == saver[t].file
    <2>1. /\ Becomes(t, "chmod", saver[t].session, NoFile, saver[t].beside) /\ StayOthers(t)
          /\ UNCHANGED path /\ Uncommitted(saver[t])
      BY <1>0, <1>6, WriteShape DEF WriteTmp, Uncommitted
    <2>2. /\ f \in Inodes
          /\ content'[f] \in {saver[t].session, Torn}
          /\ \A j \in Inodes \ {f} : content'[j] = content[j]
      BY <1>0, <1>6 DEF WriteTmp, FileTypes, SaverTypes, SaverStates
    <2>3. CASE f # path
      <3>1. Save' = Save
        BY <2>1, <2>3, SaveSame
      <3>2. path # NoFile => content'[path] = content[path]
        BY <1>0, <2>2, <2>3 DEF FileTypes
      <3> QED BY <1>2, <2>1, <3>1, <3>2
    <2>4. CASE f = path
      <3> DEFINE l == saver[t].file # NoFile /\ saver[t].file = path
      <3>1. Save[t] = Entry(saver[t].session, saver[t].beside, l)
        BY <1>1, <2>1
      <3> HIDE DEF l
      <3>2. Save'[t] = Entry(saver[t].session, saver[t].beside, Unlinked)
        BY <2>1, EntryCloses
      <3>3. /\ Save'[t] = [Save[t] EXCEPT !.linked = Unlinked]
            /\ Save[t].linked /\ Save[t].session = saver[t].session
        <4>1. [Entry(saver[t].session, saver[t].beside, l) EXCEPT !.linked = Unlinked]
                  = Entry(saver[t].session, saver[t].beside, Unlinked)
          BY EntryLinked
        <4>2. Save[t].linked /\ Save[t].session = saver[t].session
          BY <1>0, <2>1, <2>2, <2>4 DEF Save, EntryOf, Entry, FileTypes
        <4> QED BY <3>1, <3>2, <4>1, <4>2
      <3>4. ASSUME NEW u \in Savers \ {t} PROVE Save'[u] = Save[u]
        <4>1. Stays(t, u) /\ Besides(t, u) = saver[u].beside
          BY <2>1 DEF StayOthers, Besides, Becomes
        <4> QED BY <1>1, <2>1, <4>1, EntryStays
      <3>5. Save' = [Save EXCEPT ![t].linked = Unlinked]
        <4> DEFINE x == [Save[t] EXCEPT !.linked = Unlinked]
        <4>1. Save' = [u \in Savers |-> Save'[u]] /\ DOMAIN Save = Savers
          BY DEF Save
        <4>2. Save'[t] = x
          BY <3>3
        <4> HIDE DEF x
        <4>3. Save' = [Save EXCEPT ![t] = x]
          BY <3>4, <4>1, <4>2
        <4> QED BY <4>3 DEF x
      <3>6. Visible' \in {Save[t].session, "unreadable"}
        BY <1>0, <2>1, <2>2, <2>4, <3>3 DEF Visible, Stored, StoredIn
      <3>7. Abstract!WriteLate(t)
        BY <1>0, <2>1, <3>3, <3>5, <3>6, ToWriteLate
      <3> QED BY <3>7 DEF AbstractStep
    <2> QED BY <2>3, <2>4
  <1>7. CASE ReplaceTmp(t)
    <2>1. /\ Becomes(t, "chmod_path", saver[t].session, NoFile, {}) /\ StayOthers(t)
          /\ content' = content /\ saver[t].pc = "replace"
          /\ tmp # NoFile /\ path' = tmp
      BY <1>0, <1>7, ReplaceShape DEF ReplaceTmp
    <2>2. Uncommitted(saver[t]) /\ Working(saver[t])
      BY <2>1 DEF Uncommitted, Working
    <2>3. Stored' = content[tmp]
      BY <2>1 DEF Stored, StoredIn
    <2> DEFINE writers == {u \in Savers \ {t} : saver[u].file = tmp}
    <2>4. writers \in SUBSET (Abstract!UnderWay \ {t})
      BY <1>0, <2>1
    <2>5. Save'[t] = Abstract!None
      BY <2>1, EntryCloses, Entries
    <2>6. ASSUME NEW u \in Savers \ {t}
          PROVE  Save'[u] = [Save[u] EXCEPT !.linked = (u \in writers)]
      <3> DEFINE s == IF Uncommitted(saver[u]) THEN saver[u].session ELSE NoSession
      <3>1. Stays(t, u) /\ Besides(t, u) = saver[u].beside
        BY <2>1 DEF StayOthers, Besides, Becomes
      <3>2. (u \in writers) = (saver[u].file # NoFile /\ saver[u].file = path')
        BY <2>1
      <3> HIDE DEF writers
      <3>3. Save'[u] = Entry(s, saver[u].beside, u \in writers)
        BY <3>1, <3>2, EntryStays
      <3>4. Save[u] = Entry(s, saver[u].beside, saver[u].file # NoFile /\ saver[u].file = path)
        BY <1>1
      <3> HIDE DEF s
      <3> QED BY <3>3, <3>4, EntryLinked
    <2> HIDE DEF writers
    <2>7. Save' = [u \in Savers |-> IF u = t THEN Abstract!None
                                    ELSE [Save[u] EXCEPT !.linked = (u \in writers)]]
      <3>1. Save' = [u \in Savers |-> Save'[u]]
        BY DEF Save
      <3> QED BY <2>5, <2>6, <3>1
    <2>8. \A u \in Savers : /\ Uncommitted(saver[u]) => Save[u].session = saver[u].session
                            /\ Save[u].beside = saver[u].beside
      BY <1>1, Entries
    <2>9. \/ Visible' \in {Save[u].session : u \in Abstract!UnderWay} \cup Save[t].beside
          \/ ~Abstract!Alone(t) /\ Visible' = "unreadable"
      <3>1. CASE content[tmp] \in {Empty, Torn}
        <4>1. ~Alone(t)
          <5>1. content[tmp] # saver[t].session
            BY <1>0, <2>2, <3>1
          <5> QED BY <1>0, <2>1, <2>2, <5>1 DEF SaverOK, LoneOK
        <4>2. Save[t].beside = {} => \E u \in Savers \ {t} : u \in Abstract!UnderWay
          BY <1>0, <2>8, <4>1 DEF Alone
        <4>3. ~Abstract!Alone(t)
          BY <4>2 DEF Abstract!Alone, Save, EntryOf, Entry
        <4>4. Visible' = "unreadable"
          BY <2>3, <3>1 DEF Visible
        <4> QED BY <4>3, <4>4
      <3>2. CASE content[tmp] \notin {Empty, Torn}
        <4>1. Visible' = content[tmp]
          BY <2>3, <3>2 DEF Visible
        <4>2. content[tmp] \in Known(t)
          BY <2>1, <2>2, <3>2, <1>0 DEF SaverOK, TmpOK
        <4>3. content[tmp] \in {Save[u].session : u \in Abstract!UnderWay} \cup Save[t].beside
          BY <1>0, <2>8, <4>2 DEF Known
        <4> QED BY <4>1, <4>3
      <3> QED BY <3>1, <3>2
    <2>10. Abstract!Commit(t)
      BY <1>0, <2>2, <2>4, <2>7, <2>9, ToCommit
    <2> QED BY <2>10 DEF AbstractStep
  <1>8. CASE FailSave(t) \/ FailWrite(t)
    <2>1. /\ Becomes(t, "idle", NoSession, NoFile, {}) /\ StayOthers(t)
          /\ UNCHANGED path
      BY <1>0, <1>8, FailShape DEF FailSave, FailWrite
    <2>2. CASE ~Uncommitted(saver[t])
      <3>1. saver[t].file = NoFile /\ saver[t].beside = {} /\ content' = content
        BY <1>0, <1>8, <2>2 DEF SaverOK, ApartOK, FailSave, FailWrite, Uncommitted
      <3>2. Save' = Save
        BY <2>1, <2>2, <3>1, SaveSame
      <3> QED BY <1>2, <2>1, <3>1, <3>2
    <2>3. CASE Uncommitted(saver[t])
      <3>1. Save'[t] = Abstract!None
        BY <2>1, EntryCloses, Entries
      <3>2. Save[t].session = saver[t].session
            /\ Save[t].linked = (saver[t].file # NoFile /\ saver[t].file = path)
        BY <1>1, <2>3, Entries
      <3>3. ASSUME NEW u \in Savers \ {t}
            PROVE  Save'[u] = IF u \in Abstract!UnderWay
                                  THEN [Save[u] EXCEPT !.beside = Save[u].beside
                                                                      \cup {Save[t].session}]
                                  ELSE Save[u]
        <4> DEFINE s == IF Uncommitted(saver[u]) THEN saver[u].session ELSE NoSession
                   l == saver[u].file # NoFile /\ saver[u].file = path
        <4>1. Stays(t, u)
          BY <2>1 DEF StayOthers
        <4>2. Save'[u] = Entry(s, Besides(t, u), l)
          BY <2>1, <4>1, EntryStays
        <4>3. Save[u] = Entry(s, saver[u].beside, l)
          BY <1>1
        <4>4. Besides(t, u) = IF u \in Abstract!UnderWay
                                  THEN saver[u].beside \cup {saver[t].session}
                                  ELSE saver[u].beside
          BY <1>0, <2>1, <2>3 DEF Besides, Becomes
        <4> HIDE DEF s, l
        <4>5. Save[u].beside = saver[u].beside /\ Save[t].session = saver[t].session
          BY <3>2, <4>3, Entries
        <4> DEFINE c == saver[u].beside \cup {saver[t].session}
        <4>6. [Entry(s, saver[u].beside, l) EXCEPT !.beside = c] = Entry(s, c, l)
          <5> HIDE DEF c
          <5> QED BY EntryBeside
        <4>7. [Save[u] EXCEPT !.beside = c] = Entry(s, c, l)
          BY <4>3, <4>6
        <4> QED BY <4>2, <4>3, <4>4, <4>5, <4>7
      <3>4. Save' = [u \in Savers |->
                        CASE u = t -> Abstract!None
                          [] u \in Abstract!UnderWay \ {t} ->
                                 [Save[u] EXCEPT !.beside = Save[u].beside \cup {Save[t].session}]
                          [] OTHER -> Save[u]]
        <4>1. Save' = [u \in Savers |-> Save'[u]]
          BY DEF Save
        <4> QED BY <3>1, <3>3, <4>1
      <3>5. \/ Visible' = Visible
            \/ Save[t].linked /\ Visible' = "unreadable"
        <4>1. CASE FailWrite(t) /\ saver[t].file = path
          <5>1. saver[t].file \in Inodes /\ content'[saver[t].file] = Torn
            BY <1>0, <4>1 DEF FailWrite, FileTypes, SaverTypes, SaverStates
          <5> QED BY <2>1, <3>2, <4>1, <5>1 DEF Visible, Stored, StoredIn
        <4>2. CASE ~(FailWrite(t) /\ saver[t].file = path)
          <5>1. path # NoFile => content'[path] = content[path]
            BY <1>0, <1>8, <4>2 DEF FailSave, FailWrite, FileTypes
          <5> QED BY <1>2, <2>1, <5>1
        <4> QED BY <4>1, <4>2
      <3>6. Abstract!FailSave(t)
        BY <1>0, <2>3, <3>4, <3>5, ToFail
      <3> QED BY <3>6 DEF AbstractStep
    <2> QED BY <2>2, <2>3
  <1> QED BY <1>3, <1>4, <1>5, <1>6, <1>7, <1>8 DEF SaveStep

LEMMA StepRefines ==
    TypeOK /\ TypeOK' /\ StoreInv /\ [Next]_vars => [Abstract!Next]_<<Visible, Save>>
  <1> SUFFICES ASSUME TypeOK, TypeOK', StoreInv, [Next]_vars
               PROVE  AbstractStep \/ UNCHANGED <<Visible, Save>>
    BY DEF AbstractStep, Abstract!Next
  <1>1. ASSUME NEW t \in Loaders, LoadStep(t) PROVE UNCHANGED <<Visible, Save>>
    BY <1>1 DEF LoadStep, BeginLoad, OpenSession, Opening, ReadSession, FailLoad, EndLoad, Visible, Stored,
                StoredIn, Save, EntryOf
  <1>2. CASE Clear
    <2>1. Visible' = NoSession
      BY <1>2 DEF Clear, Visible, Stored, StoredIn
    <2>2. ASSUME NEW t \in Savers PROVE Save'[t] = [Save[t] EXCEPT !.linked = Unlinked]
      <3> DEFINE s == IF Uncommitted(saver[t]) THEN saver[t].session ELSE NoSession
                 l == saver[t].file # NoFile /\ saver[t].file = path
      <3>1. Save[t] = Entry(s, saver[t].beside, l)
        BY DEF Save, EntryOf
      <3>2. saver' = saver /\ path' = NoFile
        BY <1>2 DEF Clear
      <3>3. Save'[t] = EntryOf(t)'
        BY DEF Save
      <3>4. Save'[t] = Entry(s, saver[t].beside, Unlinked)
        <4>1. (saver[t].file # NoFile /\ saver[t].file = NoFile) = Unlinked
          BY DEF Unlinked
        <4> QED BY <3>2, <3>3, <4>1 DEF EntryOf, Uncommitted
      <3> HIDE DEF s, l
      <3> QED BY <3>1, <3>4, EntryLinked
    <2>3. Save' = [t \in Savers |-> [Save[t] EXCEPT !.linked = Unlinked]]
      <3>1. Save' = [t \in Savers |-> Save'[t]]
        BY DEF Save
      <3> QED BY <2>2, <3>1
    <2> QED BY <2>1, <2>3, ToClear DEF AbstractStep
  <1>3. CASE Crash
    <2>1. Visible' = Visible
      BY <1>3 DEF Crash, Visible, Stored, StoredIn
    <2>2. ASSUME NEW t \in Savers PROVE Save'[t] = Abstract!None
      <3>1. saver'[t] = Idle
        BY <1>3 DEF Crash
      <3>2. Save'[t] = EntryOf(t)'
        BY DEF Save
      <3>3. Save'[t] = Entry(NoSession, {}, Unlinked)
        <4>1. (NoFile # NoFile /\ NoFile = path') = Unlinked
          BY DEF Unlinked
        <4> QED BY <3>1, <3>2, <4>1, IdleType DEF EntryOf, Uncommitted
      <3> QED BY <3>3, Entries
    <2>3. Save' = [t \in Savers |-> Abstract!None]
      <3>1. Save' = [t \in Savers |-> Save'[t]]
        BY DEF Save
      <3> QED BY <2>2, <3>1
    <2> QED BY <2>1, <2>3, ToCrash DEF AbstractStep
  <1>4. CASE UNCHANGED vars
    BY <1>4 DEF vars, Visible, Stored, StoredIn, Save, EntryOf
  <1> QED BY <1>1, <1>2, <1>3, <1>4, SaveRefines DEF Next

\* The store implements the shared one, however many saves overlap: what readers see
\* changes in one step, to a session whose save is under way or failed beside one that
\* is, or to what nobody can read if saves overlap; a lone save commits what it saves.
THEOREM StoreIsSharedHolds == Spec => StoreIsShared
  <1>1. Init => Abstract!Init
    <2> SUFFICES ASSUME Init PROVE Visible = NoSession /\ Save = [t \in Savers |-> Abstract!None]
      BY DEF Abstract!Init, Visible, Save, EntryOf, Entry
    <2>1. Visible = NoSession
      BY DEF Init, Visible, Stored, StoredIn
    <2>2. \A t \in Savers : EntryOf(t) = Abstract!None
      <3>1. (NoFile # NoFile /\ NoFile = path) = Unlinked
        BY DEF Unlinked
      <3> QED BY <3>1, IdleType, Entries DEF Init, EntryOf, Uncommitted
    <2> QED BY <2>1, <2>2 DEF Save
  <1>2. TypeOK /\ TypeOK' /\ StoreInv /\ [Next]_vars => [Abstract!Next]_<<Visible, Save>>
    BY StepRefines
  <1> QED BY <1>1, <1>2, Invariant, PTL
          DEF Spec, StoreIsShared, Abstract!Spec, Visible, Save, EntryOf, Entry

\* Writes are atomic until saves overlap: what readers see changes only when a session
\* is cleared or when a save renames the file that holds its document.
LoneWrites ==
    [][~overlapped' /\ Stored' # Stored =>
           \/ Stored' = NoSession
           \/ \E t \in Savers : saver[t].pc = "replace" /\ Stored' = saver[t].session]_vars

THEOREM LoneWritesAreAtomic == Spec => LoneWrites
  <1>1. ASSUME TypeOK, StoreInv, TypeOK', [Next]_vars, ~overlapped', Stored' # Stored
        PROVE  \/ Stored' = NoSession
               \/ \E t \in Savers : saver[t].pc = "replace" /\ Stored' = saver[t].session
    <2>1. CASE Clear
      BY <2>1 DEF Clear, Stored, StoredIn
    <2>2. ASSUME NEW t \in Savers, SaveStep(t)
          PROVE  saver[t].pc = "replace" /\ Stored' = saver[t].session
      <3>0. /\ FileTypes /\ SaverTypes /\ saver[t] \in SaverStates /\ SaverOK(t) /\ FilesOK
            /\ ~overlapped
        <4>1. overlapped => overlapped'
          BY <2>2 DEF SaveStep, BeginSave, OpenTmp, WriteTmp, ChmodTmp, ReplaceTmp, ChmodPath,
                      FailSave, FailWrite
        <4> QED BY <1>1, <4>1, TypeParts DEF TypeOK, StoreInv
      <3>1. ASSUME path' = path, path # NoFile => content'[path] = content[path] PROVE FALSE
        BY <1>1, <3>1 DEF Stored, StoredIn
      <3>2. ASSUME OpenTmp(t) PROVE FALSE
        <4>1. PICK i \in Inodes : /\ i \in IF tmp = NoFile THEN Fresh ELSE {tmp}
                                  /\ content' = [content EXCEPT ![i] = Empty]
          BY <3>0, <3>2, OpenShape
        <4>2. i # path /\ path' = path
          BY <3>0, <3>2, <4>1 DEF Fresh, FilesOK, FileTypes, OpenTmp
        <4> QED BY <3>0, <3>1, <4>1, <4>2 DEF FileTypes
      <3>3. ASSUME WriteTmp(t) \/ FailWrite(t) PROVE FALSE
        <4>1. Uncommitted(saver[t]) /\ saver[t].pc = "write" /\ path' = path
          BY <3>3 DEF WriteTmp, FailWrite, Uncommitted
        <4>2. saver[t].file = tmp
          BY <3>0, <4>1 DEF SaverOK, ApartOK, LoneOK, Working
        <4> QED BY <3>0, <3>1, <3>3, <4>1, <4>2 DEF WriteTmp, FailWrite, FileTypes, FilesOK
      <3>4. ASSUME \/ ChmodTmp(t) \/ ChmodPath(t) \/ FailSave(t)
                   \/ \E s \in Sessions : BeginSave(t, s)
            PROVE  FALSE
        BY <3>1, <3>4 DEF ChmodTmp, ChmodPath, FailSave, BeginSave
      <3>5. ReplaceTmp(t)
        BY <2>2, <3>2, <3>3, <3>4 DEF SaveStep
      <3>6. saver[t].pc = "replace" /\ tmp # NoFile /\ Stored' = content[tmp]
        BY <3>5 DEF ReplaceTmp, Stored, StoredIn
      <3>7. content[tmp] = saver[t].session
        BY <3>0, <3>6 DEF SaverOK, ApartOK, LoneOK, Uncommitted, Working
      <3> QED BY <3>6, <3>7
    <2>3. ASSUME NEW t \in Loaders, LoadStep(t) PROVE FALSE
      BY <1>1, <2>3 DEF LoadStep, BeginLoad, OpenSession, Opening, ReadSession, FailLoad, EndLoad, Stored,
                        StoredIn
    <2>4. ASSUME Crash \/ UNCHANGED vars PROVE FALSE
      BY <1>1, <2>4 DEF Crash, vars, Stored, StoredIn
    <2> QED BY <1>1, <2>1, <2>2, <2>3, <2>4 DEF Next
  <1> QED BY <1>1, Invariant, PTL DEF Spec, LoneWrites
==============================================================================
