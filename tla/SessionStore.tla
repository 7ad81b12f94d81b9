---------------------------- MODULE SessionStore ----------------------------
(***************************************************************************)
(* `JsonSessionStore` (kite_auto/auth/session_store.py).  Every operation  *)
(* runs on a worker thread (asyncio.to_thread), so operations interleave   *)
(* system call by system call, and a thread outlives the task that started *)
(* it.  The process may die between any two calls; the files stay.         *)
(*                                                                         *)
(* The file system is inodes with contents and the two names the code      *)
(* uses: the session file and its fixed `<name>.tmp` sibling.              *)
(***************************************************************************)
EXTENDS Naturals, FiniteSets

CONSTANTS
    Savers,     \* threads that run _save_sync
    Loaders,    \* threads that run _load_sync
    Sessions,   \* session documents
    Inodes,
    NoSession,  \* the answer when there is none
    NoFile      \* a name that is not linked

(* What a file can hold besides a whole document. *)
Empty == "empty"    \* just created or truncated
Torn  == "torn"     \* one document over the tail of another

Contents == Sessions \cup {Empty, Torn}

ASSUME StoreAssumption ==
    /\ NoSession \notin Sessions /\ NoFile \notin Inodes
    /\ Sessions \cap {Empty, Torn, "missing", "failed", "invalid", "unreadable"} = {}
    /\ NoSession \notin {Empty, Torn, "missing", "failed", "invalid", "unreadable"}

VARIABLES
    path,       \* the inode of the session file
    tmp,        \* the inode of its .tmp sibling
    content,    \* [Inodes -> Contents]
    saver,      \* [Savers -> SaverStates]
    loader,     \* [Loaders -> LoaderStates]
    seen,       \* history: [Loaders -> what was stored at some moment of the load]
    overlapped  \* history: two saves have been under way at once

vars == <<path, tmp, content, saver, loader, seen, overlapped>>

SaverStates == [ pc      : {"idle", "open", "write", "chmod", "replace", "chmod_path"},
                 session : Sessions \cup {NoSession},
                 file    : Inodes \cup {NoFile},      \* the open handle
                 beside  : SUBSET Sessions ]          \* history: of saves that failed beside it

Idle == [pc |-> "idle", session |-> NoSession, file |-> NoFile, beside |-> {}]

\* A save that has not renamed a file yet.
Uncommitted(q) == q.pc \notin {"idle", "chmod_path"}

(* What a load raises: an OSError, for want of the file or of another kind, or what *)
(* `json.loads` and `from_dict` say of a file that is no session document.          *)
Errors == {"missing", "failed", "invalid"}

LoaderStates == [ pc     : {"idle", "open", "read", "done"},
                  file   : Inodes \cup {NoFile},
                  result : Sessions \cup {NoSession} \cup Errors ]

Waiting  == [pc |-> "idle", file |-> NoFile, result |-> NoSession]
Answer(r) == [pc |-> "done", file |-> NoFile, result |-> r]

StoredIn(p) == IF p = NoFile THEN NoSession ELSE content[p]
Stored == StoredIn(path)

Init ==
    /\ path = NoFile /\ tmp = NoFile
    /\ content = [i \in Inodes |-> Empty]
    /\ saver = [t \in Savers |-> Idle]
    /\ loader = [t \in Loaders |-> Waiting]
    /\ seen = [t \in Loaders |-> {}]
    /\ overlapped = FALSE

\* Loads under way witness what is stored after each step, until saves overlap.
Witness == seen' = [t \in Loaders |->
                       CASE overlapped' -> {}
                         [] ~overlapped' /\ loader'[t].pc \in {"open", "read"} ->
                                seen[t] \cup {Stored'}
                         [] OTHER -> seen[t]]

\* Inodes neither linked nor open.
Fresh == {i \in Inodes : /\ i \notin {path, tmp}
                         /\ \A t \in Savers : saver[t].file # i
                         /\ \A t \in Loaders : loader[t].file # i}

(* save *)

BeginSave(t, s) ==
    /\ saver[t].pc = "idle"
    /\ saver' = [saver EXCEPT ![t] = [Idle EXCEPT !.pc = "open", !.session = s]]
    /\ overlapped' = (overlapped \/ \E u \in Savers \ {t} : Uncommitted(saver[u]))
    /\ UNCHANGED <<path, tmp, content, loader>> /\ Witness

\* Mutated form: writes the session file in place.
OpenInPlace(t) ==
    /\ saver[t].pc = "open"
    /\ \E i \in IF path = NoFile THEN Fresh ELSE {path} :
           /\ path' = i
           /\ content' = [content EXCEPT ![i] = Empty]
           /\ saver' = [saver EXCEPT ![t] = [@ EXCEPT !.pc = "write", !.file = i]]
    /\ UNCHANGED <<tmp, loader, overlapped>> /\ Witness

\* write_text opens the sibling: it is created, or an existing one truncated.
OpenTmp(t) ==
    /\ saver[t].pc = "open"
    /\ \E i \in IF tmp = NoFile THEN Fresh ELSE {tmp} :
           /\ tmp' = i
           /\ content' = [content EXCEPT ![i] = Empty]
           /\ saver' = [saver EXCEPT ![t] = [@ EXCEPT !.pc = "write", !.file = i]]
    /\ UNCHANGED <<path, loader, overlapped>> /\ Witness

\* Mutated form: the handle is never closed.
WriteTmpUnclosed(t) ==
    /\ saver[t].pc = "write"
    /\ content' = [content EXCEPT ![saver[t].file] = saver[t].session]
    /\ saver' = [saver EXCEPT ![t].pc = "chmod"]
    /\ UNCHANGED <<path, tmp, loader, overlapped>> /\ Witness

\* The document is written from offset 0.  Over another thread's document, the
\* tail of a longer one remains.
WriteTmp(t) ==
    LET i == saver[t].file IN
    /\ saver[t].pc = "write"
    /\ \E c \in {saver[t].session} \cup (IF content[i] = Empty THEN {} ELSE {Torn}) :
           content' = [content EXCEPT ![i] = c]
    /\ saver' = [saver EXCEPT ![t] = [@ EXCEPT !.pc = "chmod", !.file = NoFile]]
    /\ UNCHANGED <<path, tmp, loader, overlapped>> /\ Witness

\* A save leaves `_save_sync` with SessionStoreError.
Raise(t) ==
    saver' = [u \in Savers |->
                 CASE u = t -> Idle
                   [] u # t /\ Uncommitted(saver[t]) /\ Uncommitted(saver[u]) ->
                          [saver[u] EXCEPT !.beside = saver[u].beside \cup {saver[t].session}]
                   [] OTHER -> saver[u]]

\* Any call may raise OSError, and those on a name that another thread renamed or
\* removed do.  The files are left as they are.
FailSave(t) ==
    /\ saver[t].pc \notin {"idle", "write"}
    /\ Raise(t)
    /\ UNCHANGED <<path, tmp, content, loader, overlapped>> /\ Witness

\* A write cut short, by a full disk, leaves part of the document.
FailWrite(t) ==
    /\ saver[t].pc = "write"
    /\ content' = [content EXCEPT ![saver[t].file] = Torn]
    /\ Raise(t)
    /\ UNCHANGED <<path, tmp, loader, overlapped>> /\ Witness

ChmodTmp(t) ==
    /\ saver[t].pc = "chmod" /\ tmp # NoFile
    /\ saver' = [saver EXCEPT ![t].pc = "replace"]
    /\ UNCHANGED <<path, tmp, content, loader, overlapped>> /\ Witness

ReplaceTmp(t) ==
    /\ saver[t].pc = "replace" /\ tmp # NoFile
    /\ path' = tmp /\ tmp' = NoFile
    /\ saver' = [saver EXCEPT ![t] = [@ EXCEPT !.pc = "chmod_path", !.beside = {}]]
    /\ UNCHANGED <<content, loader, overlapped>> /\ Witness

ChmodPath(t) ==
    /\ saver[t].pc = "chmod_path" /\ path # NoFile
    /\ saver' = [saver EXCEPT ![t] = Idle]
    /\ UNCHANGED <<path, tmp, content, loader, overlapped>> /\ Witness

(* load *)

\* `exists()`, on a load that begins here.
BeginLoad(t) ==
    /\ loader[t].pc = "idle"
    /\ loader' = [loader EXCEPT ![t] = IF path = NoFile THEN Answer(NoSession)
                                                       ELSE [Waiting EXCEPT !.pc = "open"]]
    /\ seen' = [seen EXCEPT ![t] = IF overlapped THEN {} ELSE {Stored}]
    /\ UNCHANGED <<path, tmp, content, saver, overlapped>>

Opening(t, p) ==
    /\ loader[t].pc = "open"
    /\ loader' = [loader EXCEPT ![t] = IF p = NoFile THEN Answer("missing")
                                                    ELSE [Waiting EXCEPT !.pc = "read",
                                                                         !.file = p]]
    /\ UNCHANGED <<path, tmp, content, saver, seen, overlapped>>

\* Mutated form: falls back to the sibling when the session file is gone.
OpenEither(t) == Opening(t, IF path = NoFile THEN tmp ELSE path)

\* `read_text` opens the file, if a clear has not removed it since `exists()`.
OpenSession(t) == Opening(t, path)

\* What `json.loads` and `from_dict` make of a file.
Parsed(c) == IF c \in Sessions THEN c ELSE "invalid"

ReadSession(t) ==
    /\ loader[t].pc = "read"
    /\ loader' = [loader EXCEPT ![t] = Answer(Parsed(content[loader[t].file]))]
    /\ UNCHANGED <<path, tmp, content, saver, seen, overlapped>>

\* `exists()`, the opening and the reading may each raise an OSError whatever is there.
FailLoad(t) ==
    /\ loader[t].pc \in {"idle", "open", "read"}
    /\ loader' = [loader EXCEPT ![t] = Answer("failed")]
    /\ UNCHANGED <<path, tmp, content, saver, seen, overlapped>>

EndLoad(t) ==
    /\ loader[t].pc = "done"
    /\ loader' = [loader EXCEPT ![t] = Waiting]
    /\ seen' = [seen EXCEPT ![t] = {}]
    /\ UNCHANGED <<path, tmp, content, saver, overlapped>>

(* clear, and a process that dies with its threads *)

Clear ==
    /\ path' = NoFile
    /\ UNCHANGED <<tmp, content, saver, loader, overlapped>> /\ Witness

Crash ==
    /\ saver' = [t \in Savers |-> Idle]
    /\ loader' = [t \in Loaders |-> Waiting]
    /\ seen' = [t \in Loaders |-> {}]
    /\ UNCHANGED <<path, tmp, content, overlapped>>

------------------------------------------------------------------------------
SaveStep(t) ==
    \/ \E s \in Sessions : BeginSave(t, s)
    \/ OpenTmp(t) \/ WriteTmp(t) \/ ChmodTmp(t) \/ ReplaceTmp(t) \/ ChmodPath(t)
    \/ FailSave(t) \/ FailWrite(t)

LoadStep(t) ==
    BeginLoad(t) \/ OpenSession(t) \/ ReadSession(t) \/ FailLoad(t) \/ EndLoad(t)

Next ==
    \/ \E t \in Savers : SaveStep(t)
    \/ \E t \in Loaders : LoadStep(t)
    \/ Clear
    \/ Crash

Spec == Init /\ [][Next]_vars

------------------------------------------------------------------------------
\* Every variable has its type, and a thread holds a file open exactly while it
\* writes or reads it.
TypeOK ==
    /\ path \in Inodes \cup {NoFile} /\ tmp \in Inodes \cup {NoFile}
    /\ content \in [Inodes -> Contents]
    /\ saver \in [Savers -> SaverStates]
    /\ loader \in [Loaders -> LoaderStates]
    /\ seen \in [Loaders -> SUBSET (Contents \cup {NoSession})]
    /\ overlapped \in BOOLEAN
    /\ \A t \in Savers : /\ saver[t].file # NoFile <=> saver[t].pc = "write"
                         /\ saver[t].session # NoSession <=> saver[t].pc # "idle"
    /\ \A t \in Loaders : loader[t].file # NoFile <=> loader[t].pc = "read"

\* The session file never holds part of a document, whatever the moment a save is
\* cut short at ("Writes are atomic").
StoredWhole == Stored \in Sessions \cup {NoSession}

\* While saves do not overlap, which nothing in the code ensures, a load that answers,
\* with a session or with none, answers what was stored at some moment of it.  It finds
\* the file missing only if a clear took it, between `exists()` and `read_text()`, and
\* never finds an invalid document, though an I/O error may fail it at any call.
LoadSound ==
    \A t \in Loaders : ~overlapped /\ loader[t].pc = "done" /\ loader[t].result # "failed" =>
        IF loader[t].result = "missing" THEN NoSession \in seen[t]
                                        ELSE loader[t].result \in seen[t]

\* The store implements the shared one, in which a lone save is atomic and of saves that
\* overlap one may store another's session, but nothing older.  A save has committed
\* once its document is renamed.
Abstract == INSTANCE SharedStore WITH
    stored <- IF Stored \in {Empty, Torn} THEN "unreadable" ELSE Stored,
    save   <- [t \in Savers |->
                  [ session |-> IF Uncommitted(saver[t]) THEN saver[t].session ELSE NoSession,
                    beside  |-> saver[t].beside,
                    linked  |-> saver[t].file # NoFile /\ saver[t].file = path ]]

StoreIsShared == Abstract!Spec
==============================================================================
