---------------------------- MODULE ScannerProofs ----------------------------
(***************************************************************************)
(* Proofs about Scanner and Features, for any symbols, universes,          *)
(* histories and sizes of chunks and windows: types, the table, the files  *)
(* and what a frame's rows say, then that a fetch ends.                    *)
(***************************************************************************)
EXTENDS Scanner, FeaturesProofs, WellFoundedInduction

------------------------------------------------------------------------------
(* Least and greatest numbers of a set. *)

\* Among the sets of what is less than a member, one has no other in it: the empty one.
LEMMA Minimum ==
    ASSUME NEW S \in SUBSET Nat, S # {}
    PROVE  \E x \in S : \A y \in S : x <= y
  <1> DEFINE less(x) == {y \in S : y < x}
             T == {less(x) : x \in S}
  <1>1. \A x \in S : IsFiniteSet(less(x))
    <2> TAKE x \in S
    <2>1. x \in Nat /\ \A y \in S : y \in Nat
      OBVIOUS
    <2>2. less(x) \subseteq S
      OBVIOUS
    <2>3. \A y \in less(x) : y <= x
      BY <2>1
    <2>4. less(x) \in SUBSET Nat
      BY <2>2
    <2> HIDE DEF less
    <2> QED BY <2>1, <2>3, <2>4, FS_BoundedSetOfNaturals
  <1>2. T \subseteq FiniteSubsetsOf(S) /\ T # {}
    BY <1>1 DEF FiniteSubsetsOf
  <1>3. IsWellFoundedOn(StrictSubsetOrdering(S), FiniteSubsetsOf(S))
    BY FS_StrictSubsetOrderingWellFounded
  <1>4. \E A \in T : \A B \in T : ~(<<B, A>> \in StrictSubsetOrdering(S))
    <2> HIDE DEF T
    <2> QED BY <1>2, <1>3, WFMin
  <1>5. PICK x \in S : \A y \in S : ~(<<less(y), less(x)>> \in StrictSubsetOrdering(S))
    BY <1>4
  <1>6. ASSUME NEW y \in S, y < x PROVE FALSE
    <2>1. x \in Nat /\ y \in Nat /\ \A z \in S : z \in Nat
      OBVIOUS
    <2>2. \A z \in S : z < y => z < x
      BY <1>6, <2>1
    <2>3. less(y) \subseteq less(x) /\ y \in less(x)
      BY <1>6, <2>2
    <2>4. y \notin less(y)
      BY <2>1
    <2>5. <<less(y), less(x)>> \in StrictSubsetOrdering(S)
      BY <2>3, <2>4 DEF StrictSubsetOrdering
    <2> QED BY <1>5, <2>5
  <1>7. \A y \in S : x <= y
    BY <1>6
  <1> QED BY <1>7

LEMMA Maximum ==
    ASSUME NEW S \in SUBSET Nat, S # {}, NEW n \in Nat, \A x \in S : x <= n
    PROVE  \E x \in S : \A y \in S : y <= x
  <1> DEFINE T == {n - x : x \in S}
  <1>1. T \subseteq Nat /\ T # {}
    <2>1. \A x \in S : n - x \in Nat
      OBVIOUS
    <2> QED BY <2>1
  <1>2. PICK z \in T : \A y \in T : z <= y
    <2> HIDE DEF T
    <2> QED BY <1>1, Minimum
  <1>3. PICK x \in S : z = n - x
    OBVIOUS
  <1>4. \A y \in S : n - y \in T
    OBVIOUS
  <1>5. \A y \in S : y <= x
    BY <1>2, <1>3, <1>4
  <1> QED BY <1>5

------------------------------------------------------------------------------
(* Types. *)

\* What a run that asks for chunks or writes knows of its range.
RunOK ==
    /\ Fetching => run.start <= run.end /\ run.end <= today
    /\ run.pc = "ask" => run.start <= run.chunk_start /\ run.chunk_start <= run.end

LEMMA NoFileType == NoFile \in FileStates /\ Torn \in FileStates
  BY DEF NoFile, Torn, FileStates

LEMMA NoRunType ==
    ASSUME NEW pc \in {"idle", "done", "failed"}, NEW symbols \in Seq(Symbols)
    PROVE  /\ NoRun(pc, symbols) \in RunStates
           /\ NoRun(pc, symbols).pc = pc
           /\ NoRun(pc, symbols).symbols = symbols
  BY DEF NoRun, RunStates

\* The symbol under way is one of the universe's.
LEMMA SymbolType ==
    ASSUME TypeOK, Fetching, run.i <= Len(run.symbols)
    PROVE  Symbol \in Symbols
  BY DEF TypeOK, Symbol, Fetching, RunStates

\* A run between chunks is one of five kinds of record.
LEMMA RunType ==
    ASSUME TypeOK
    PROVE  /\ run.i \in Nat /\ run.start \in Nat /\ run.end \in Nat /\ run.chunk_start \in Nat
           /\ run.symbols \in Seq(Symbols) /\ Len(run.symbols) \in Nat
           /\ run.candles \in SUBSET Bar
           /\ today \in Nat
  BY ScannerAssumption DEF TypeOK, RunStates

LEMMA ChunkEndType ==
    ASSUME NEW start \in Nat, NEW end \in Nat, start <= end
    PROVE  /\ ChunkEnd(start, end) \in Nat
           /\ start <= ChunkEnd(start, end) /\ ChunkEnd(start, end) <= end
  BY ScannerAssumption DEF ChunkEnd

LEMMA CandlesType ==
    ASSUME TypeOK, NEW s \in Symbols, NEW first, NEW last, NEW now
    PROVE  Candles(market[s], first, last, now) \subseteq market[s] /\ market[s] \subseteq Bar
  BY DEF Candles, TypeOK

\* What the records of a run under way are.
LEMMA RunMoves ==
    ASSUME NEW r \in RunStates, NEW n \in Nat, NEW k \in Nat, NEW candles \in SUBSET Bar,
           NEW pc \in {"next", "ask", "write"}
    PROVE  /\ [r EXCEPT !.i = k] \in RunStates
           /\ [r EXCEPT !.pc = pc, !.chunk_start = n, !.candles = candles] \in RunStates
           /\ [r EXCEPT !.chunk_start = n, !.candles = candles] \in RunStates
           /\ [r EXCEPT !.pc = pc, !.candles = candles] \in RunStates
           /\ [r EXCEPT !.pc = pc, !.i = k, !.candles = candles] \in RunStates
  <1>1. [r EXCEPT !.i = k] \in RunStates
    BY Zenon DEF RunStates
  <1>2. [r EXCEPT !.pc = pc, !.chunk_start = n, !.candles = candles] \in RunStates
    BY Zenon DEF RunStates
  <1>3. [r EXCEPT !.chunk_start = n, !.candles = candles] \in RunStates
    BY Zenon DEF RunStates
  <1>4. [r EXCEPT !.pc = pc, !.candles = candles] \in RunStates
    BY Zenon DEF RunStates
  <1>5. [r EXCEPT !.pc = pc, !.i = k, !.candles = candles] \in RunStates
    BY Zenon DEF RunStates
  <1> QED BY <1>1, <1>2, <1>3, <1>4, <1>5

TypeInv == TypeOK /\ RunOK

LEMMA TypeInit == Init => TypeInv
  <1> SUFFICES ASSUME Init PROVE TypeInv
    OBVIOUS
  <1>1. run \in RunStates /\ run.pc = "idle"
    <2>1. <<>> \in Seq(Symbols)
      OBVIOUS
    <2> QED BY <2>1, NoRunType DEF Init
  <1>2. files \in [Symbols -> FileStates]
    BY NoFileType DEF Init
  <1>3. market \in [Symbols -> SUBSET Bar]
    BY ScannerAssumption DEF Init
  <1>4. table.whole \in BOOLEAN /\ DOMAIN table.rows = Symbols
    BY DEF Init
  <1>5. today \in FirstDay..LastDay
    BY ScannerAssumption DEF Init
  <1> QED BY <1>1, <1>2, <1>3, <1>4, <1>5 DEF TypeInv, TypeOK, RunOK, Fetching

\* Each step keeps the types.
LEMMA TypeStart == TypeInv /\ StartFetch => TypeInv'
  <1> SUFFICES ASSUME TypeInv, StartFetch PROVE TypeInv'
    OBVIOUS
  <1>1. PICK universe \in Universes :
            run' = [pc |-> "next", symbols |-> universe, i |-> 1,
                    start |-> today - FetchWindow, end |-> today,
                    chunk_start |-> 0, candles |-> {}]
    BY DEF StartFetch
  <1>2. today \in Nat /\ today - FetchWindow \in Nat /\ today - FetchWindow <= today
    BY ScannerAssumption DEF TypeInv, TypeOK
  <1>3. universe \in Seq(Symbols) /\ Len(universe) \in Nat
    BY ScannerAssumption
  <1>4. run' \in RunStates
    BY <1>1, <1>2, <1>3 DEF RunStates
  <1>5. run'.pc = "next" /\ run'.i = 1 /\ run'.symbols = universe
        /\ run'.start = today - FetchWindow /\ run'.end = today
    BY <1>1
  <1>6. TypeOK'
    BY <1>3, <1>4, <1>5 DEF TypeInv, TypeOK, StartFetch
  <1>7. RunOK'
    BY <1>2, <1>5 DEF RunOK, StartFetch
  <1> QED BY <1>6, <1>7 DEF TypeInv

LEMMA TypeVisit == TypeInv /\ Visit => TypeInv'
  <1> SUFFICES ASSUME TypeInv, Visit PROVE TypeInv'
    OBVIOUS
  <1>1. /\ run \in RunStates /\ run.i \in Nat /\ run.start \in Nat /\ Len(run.symbols) \in Nat
        /\ run.symbols \in Seq(Symbols) /\ {} \in SUBSET Bar
        /\ run.pc = "next" /\ run.i \in 1..Len(run.symbols) + 1
        /\ run.start <= run.end
    BY RunType DEF TypeInv, TypeOK, RunOK, Visit, Fetching
  <1>2. CASE run' = NoRun("done", run.symbols)
    <2>1. run' \in RunStates /\ run'.pc = "done"
      BY <1>1, <1>2, NoRunType
    <2> QED BY <2>1 DEF TypeInv, TypeOK, RunOK, Visit, Fetching
  <1>3. CASE run.i <= Len(run.symbols) /\ run' = [run EXCEPT !.i = run.i + 1]
    <2>1. run.i + 1 \in Nat /\ run.i + 1 \in 1..Len(run.symbols) + 1
      BY <1>1, <1>3
    <2>2. run' \in RunStates
      BY <1>1, <1>3, <2>1, RunMoves
    <2>3. run'.i = run.i + 1
      BY Zenon, <1>1, <1>3 DEF RunStates
    <2>4. /\ run'.pc = run.pc /\ run'.symbols = run.symbols
          /\ run'.start = run.start /\ run'.end = run.end
      BY Zenon, <1>1, <1>3 DEF RunStates
    <2>5. TypeOK'
      BY <1>1, <2>1, <2>2, <2>3, <2>4 DEF TypeInv, TypeOK, Visit
    <2>6. RunOK'
      BY <1>1, <2>4 DEF TypeInv, RunOK, Visit, Fetching
    <2> QED BY <2>5, <2>6 DEF TypeInv
  <1>4. CASE /\ run.i <= Len(run.symbols)
             /\ run' = [run EXCEPT !.pc = "ask", !.chunk_start = run.start, !.candles = {}]
    <2>1. run' \in RunStates
      BY <1>1, <1>4, RunMoves
    <2>2. run'.pc = "ask" /\ run'.chunk_start = run.start
      BY Zenon, <1>1, <1>4 DEF RunStates
    <2>3. /\ run'.i = run.i /\ run'.symbols = run.symbols
          /\ run'.start = run.start /\ run'.end = run.end
      BY Zenon, <1>1, <1>4 DEF RunStates
    <2>4. TypeOK'
      BY <1>1, <1>4, <2>1, <2>2, <2>3 DEF TypeInv, TypeOK, Visit
    <2>5. RunOK'
      BY <1>1, <2>2, <2>3 DEF TypeInv, RunOK, Visit, Fetching
    <2> QED BY <2>4, <2>5 DEF TypeInv
  <1> QED BY <1>2, <1>3, <1>4 DEF Visit

LEMMA TypeAnswer == TypeInv /\ Answer => TypeInv'
  <1> SUFFICES ASSUME TypeInv, Answer PROVE TypeInv'
    OBVIOUS
  <1> DEFINE last == ChunkEnd(run.chunk_start, run.end)
             got(now) == run.candles \cup Candles(market[Symbol], run.chunk_start, last, now)
  <1>1. /\ run \in RunStates /\ run.pc = "ask" /\ run.i \in 1..Len(run.symbols) + 1
        /\ run.i <= Len(run.symbols) /\ run.end \in Nat /\ run.chunk_start \in Nat
        /\ run.start \in Nat /\ run.start <= run.chunk_start
        /\ run.chunk_start <= run.end /\ Symbol \in Symbols /\ today \in Nat
    BY RunType, SymbolType DEF TypeInv, TypeOK, RunOK, Answer, Fetching
  <1>2. last \in Nat /\ run.chunk_start <= last /\ last <= run.end
    BY <1>1, ChunkEndType
  <1> HIDE DEF last
  <1>3. PICK now \in Clock :
            \/ /\ last < run.end
               /\ run' = [run EXCEPT !.chunk_start = last + 1, !.candles = got(now)]
               /\ UNCHANGED files
            \/ /\ last >= run.end
               /\ run' = [run EXCEPT !.pc = "write", !.candles = got(now)]
               /\ files' = [files EXCEPT ![Symbol] = Torn]
    BY DEF Answer, last
  <1>4. got(now) \in SUBSET Bar
    <2>1. run.candles \in SUBSET Bar
      BY RunType DEF TypeInv
    <2>2. Candles(market[Symbol], run.chunk_start, last, now) \subseteq Bar
      BY <1>1, CandlesType DEF TypeInv
    <2> QED BY <2>1, <2>2
  <1> HIDE DEF got
  <1>5. files' \in [Symbols -> FileStates]
    BY <1>1, <1>3, NoFileType DEF TypeInv, TypeOK
  <1>6. CASE /\ last < run.end
             /\ run' = [run EXCEPT !.chunk_start = last + 1, !.candles = got(now)]
    <2>1. last + 1 \in Nat /\ run.start <= last + 1 /\ last + 1 <= run.end
      BY <1>1, <1>2, <1>6
    <2>2. run' \in RunStates
      BY <1>1, <1>4, <1>6, <2>1, RunMoves
    <2>3. run'.chunk_start = last + 1
      BY Zenon, <1>1, <1>6 DEF RunStates
    <2>4. /\ run'.pc = run.pc /\ run'.i = run.i /\ run'.symbols = run.symbols
          /\ run'.start = run.start /\ run'.end = run.end
      BY Zenon, <1>1, <1>6 DEF RunStates
    <2>5. TypeOK'
      BY <1>1, <1>5, <2>2, <2>4 DEF TypeInv, TypeOK, Answer
    <2>6. RunOK'
      BY <1>1, <2>1, <2>3, <2>4 DEF TypeInv, RunOK, Answer, Fetching
    <2> QED BY <2>5, <2>6 DEF TypeInv
  <1>7. CASE run' = [run EXCEPT !.pc = "write", !.candles = got(now)]
    <2>1. run' \in RunStates
      BY <1>1, <1>4, <1>7, RunMoves
    <2>2. run'.pc = "write"
      BY Zenon, <1>1, <1>7 DEF RunStates
    <2>3. /\ run'.i = run.i /\ run'.symbols = run.symbols
          /\ run'.start = run.start /\ run'.end = run.end
      BY Zenon, <1>1, <1>7 DEF RunStates
    <2>4. TypeOK'
      BY <1>1, <1>5, <2>1, <2>2, <2>3 DEF TypeInv, TypeOK, Answer
    <2>5. RunOK'
      BY <1>1, <2>2, <2>3 DEF TypeInv, RunOK, Answer, Fetching
    <2> QED BY <2>4, <2>5 DEF TypeInv
  <1> QED BY <1>3, <1>6, <1>7

LEMMA TypeWritten == TypeInv /\ Written => TypeInv'
  <1> SUFFICES ASSUME TypeInv, Written PROVE TypeInv'
    OBVIOUS
  <1>1. /\ run \in RunStates /\ run.pc = "write" /\ run.i \in 1..Len(run.symbols) + 1
        /\ run.i <= Len(run.symbols) /\ Len(run.symbols) \in Nat /\ run.i \in Nat
        /\ {} \in SUBSET Bar /\ Symbol \in Symbols /\ run.start <= run.end
    BY RunType, SymbolType DEF TypeInv, TypeOK, RunOK, Written, Fetching
  <1>2. run' = [run EXCEPT !.pc = "next", !.i = run.i + 1, !.candles = {}]
    BY DEF Written
  <1>3. run.i + 1 \in Nat /\ run.i + 1 \in 1..Len(run.symbols) + 1
    BY <1>1
  <1>4. run' \in RunStates
    BY <1>1, <1>2, <1>3, RunMoves
  <1>5. run'.pc = "next" /\ run'.i = run.i + 1
    BY Zenon, <1>1, <1>2 DEF RunStates
  <1>6. run'.symbols = run.symbols /\ run'.start = run.start /\ run'.end = run.end
    BY Zenon, <1>1, <1>2 DEF RunStates
  <1>7. files' \in [Symbols -> FileStates]
    <2>1. [state |-> "whole", start |-> run.start, end |-> run.end, bars |-> run.candles]
            \in FileStates
      BY RunType DEF TypeInv, FileStates
    <2> QED BY <1>1, <2>1 DEF TypeInv, TypeOK, Written
  <1>8. TypeOK'
    BY <1>3, <1>4, <1>5, <1>6, <1>7 DEF TypeInv, TypeOK, Written
  <1>9. RunOK'
    BY <1>1, <1>5, <1>6 DEF TypeInv, RunOK, Written, Fetching
  <1> QED BY <1>8, <1>9 DEF TypeInv

LEMMA TypeFailed ==
    ASSUME TypeInv, run' = NoRun("failed", <<>>), UNCHANGED <<market, today, table>>,
           files' \in [Symbols -> FileStates]
    PROVE  TypeInv'
  <1>1. <<>> \in Seq(Symbols)
    OBVIOUS
  <1>2. run' \in RunStates /\ run'.pc = "failed"
    BY <1>1, NoRunType
  <1> QED BY <1>2 DEF TypeInv, TypeOK, RunOK, Fetching

LEMMA TypeBuild == TypeInv /\ Build => TypeInv'
  <1> SUFFICES ASSUME TypeInv, Build PROVE TypeInv'
    OBVIOUS
  <1> DEFINE built == [s \in Symbols |->
                          IF s \in Stored THEN MetricRows(Clean(files[s].bars)) ELSE {}]
             empty == [s \in Symbols |-> {}]
  <1>1. DOMAIN built = Symbols /\ DOMAIN empty = Symbols
    OBVIOUS
  <1>2. \/ table' = [whole |-> TRUE, rows |-> built]
        \/ table' = [whole |-> FALSE, rows |-> empty]
    BY DEF Build
  <1> HIDE DEF built, empty
  <1>3. table'.rows = built \/ table'.rows = empty
    BY <1>2
  <1>4. DOMAIN table'.rows = Symbols
    BY <1>1, <1>3
  <1>5. table'.whole \in BOOLEAN
    <2>1. CASE table' = [whole |-> TRUE, rows |-> built]
      <3>1. table'.whole = TRUE
        BY Zenon, <2>1
      <3> QED BY Zenon, <3>1
    <2>2. CASE table' = [whole |-> FALSE, rows |-> empty]
      <3>1. table'.whole = FALSE
        BY Zenon, <2>2
      <3> QED BY Zenon, <3>1
    <2> QED BY Zenon, <1>2, <2>1, <2>2
  <1> QED BY <1>4, <1>5 DEF TypeInv, TypeOK, RunOK, Build, Fetching

LEMMA TypeNext == TypeInv /\ [Next]_vars => TypeInv'
  <1> SUFFICES ASSUME TypeInv, [Next]_vars PROVE TypeInv'
    OBVIOUS
  <1>1. CASE Stops
    BY <1>1, TypeFailed DEF Stops, TypeInv, TypeOK
  <1>2. CASE Interrupted
    <2>1. Symbol \in Symbols
      BY <1>2, SymbolType DEF Interrupted, TypeInv, TypeOK, Fetching
    <2>2. files' \in [Symbols -> FileStates]
      BY <1>2, <2>1, NoFileType DEF Interrupted, TypeInv, TypeOK
    <2> QED BY <1>2, <2>2, TypeFailed DEF Interrupted
  <1>3. CASE NextDay
    BY <1>3, ScannerAssumption, RunType DEF NextDay, TypeInv, TypeOK, RunOK, Fetching
  <1>4. CASE UNCHANGED vars
    BY <1>4 DEF vars, TypeInv, TypeOK, RunOK, Fetching
  <1> QED
    BY <1>1, <1>2, <1>3, <1>4, TypeStart, TypeVisit, TypeAnswer, TypeWritten, TypeBuild
    DEF Next, FetchStep

THEOREM TypeInvariant == Spec => []TypeInv
  BY TypeInit, TypeNext, PTL DEF Spec

\* The variables keep their types; in particular a run that asks or writes has a symbol.
THEOREM TypeCorrect == Spec => []TypeOK
  <1>1. TypeInv => TypeOK
    BY DEF TypeInv
  <1> QED BY <1>1, TypeInvariant, PTL

------------------------------------------------------------------------------
(* The table and the files.  A file is changed only while its symbol is fetched, and a *)
(* fetched symbol had none when the fetch began.                                       *)

TableInv ==
    /\ TableFromFiles
    /\ run.pc = "ask" => files[Symbol].state = "none"
    /\ run.pc = "write" => files[Symbol].state = "torn"

LEMMA TableInit == Init => TableInv
  <1> SUFFICES ASSUME Init PROVE TableInv
    OBVIOUS
  <1>1. run.pc = "idle"
    BY DEF Init, NoRun
  <1>2. \A s \in Symbols : table.rows[s] = {}
    BY DEF Init
  <1> QED BY <1>1, <1>2 DEF TableInv, TableFromFiles

\* Whatever becomes of the file of a symbol that the table has no rows of.
LEMMA TableKept ==
    ASSUME TypeOK, TableInv, UNCHANGED table, NEW s \in Symbols, ~Whole(s),
           NEW file \in FileStates, files' = [files EXCEPT ![s] = file]
    PROVE  TableFromFiles' /\ files'[s] = file
  <1>1. files'[s] = file /\ \A t \in Symbols \ {s} : files'[t] = files[t]
    BY DEF TypeOK
  <1>2. table.whole => table.rows[s] = {}
    BY DEF TableInv, TableFromFiles
  <1>3. ASSUME table'.whole, NEW t \in Symbols, table'.rows[t] # {}
        PROVE  Whole(t)' /\ table'.rows[t] = MetricRows(Clean(files'[t].bars))
    <2>1. t # s /\ files'[t] = files[t]
      BY <1>1, <1>2, <1>3
    <2>2. files[t].state = "whole" /\ table.rows[t] = MetricRows(Clean(files[t].bars))
      BY <1>3 DEF TableInv, TableFromFiles, Whole
    <2> QED BY <2>1, <2>2 DEF Whole
  <1> QED BY <1>1, <1>3 DEF TableFromFiles

LEMMA TableSame ==
    ASSUME TableInv, UNCHANGED <<files, table>>
    PROVE  TableFromFiles'
  BY DEF TableInv, TableFromFiles, Whole

LEMMA TableVisit == TypeInv /\ TableInv /\ Visit => TableInv'
  <1> SUFFICES ASSUME TypeInv, TableInv, Visit PROVE TableInv'
    OBVIOUS
  <1>1. run \in RunStates /\ run.pc = "next"
    BY DEF TypeInv, TypeOK, Visit
  <1>2. TableFromFiles'
    BY TableSame DEF Visit
  <1>3. CASE run' = NoRun("done", run.symbols)
    <2>1. run'.pc = "done"
      BY <1>3 DEF NoRun
    <2> QED BY <1>2, <2>1 DEF TableInv
  <1>4. CASE run' = [run EXCEPT !.i = run.i + 1]
    <2>1. run'.pc = run.pc
      BY Zenon, <1>1, <1>4 DEF RunStates
    <2> QED BY <1>1, <1>2, <2>1 DEF TableInv
  <1>5. CASE /\ files[Symbol].state = "none"
             /\ run' = [run EXCEPT !.pc = "ask", !.chunk_start = run.start, !.candles = {}]
    <2>1. run'.pc = "ask" /\ run'.symbols = run.symbols /\ run'.i = run.i
      BY Zenon, <1>1, <1>5 DEF RunStates
    <2>2. Symbol' = Symbol /\ files' = files
      BY <2>1 DEF Symbol, Visit
    <2> QED BY <1>2, <1>5, <2>1, <2>2 DEF TableInv
  <1> QED BY <1>3, <1>4, <1>5 DEF Visit

LEMMA TableAnswer == TypeInv /\ TableInv /\ Answer => TableInv'
  <1> SUFFICES ASSUME TypeInv, TableInv, Answer PROVE TableInv'
    OBVIOUS
  <1>1. run \in RunStates /\ run.pc = "ask" /\ Symbol \in Symbols /\ ~Whole(Symbol)
    BY SymbolType DEF TypeInv, TypeOK, Answer, Fetching, TableInv, Whole
  <1>2. PICK candles, last :
            \/ /\ run' = [run EXCEPT !.chunk_start = last + 1, !.candles = candles]
               /\ UNCHANGED files
            \/ /\ run' = [run EXCEPT !.pc = "write", !.candles = candles]
               /\ files' = [files EXCEPT ![Symbol] = Torn]
    BY DEF Answer
  <1>3. CASE /\ run' = [run EXCEPT !.chunk_start = last + 1, !.candles = candles]
             /\ UNCHANGED files
    <2>1. run'.pc = "ask" /\ run'.symbols = run.symbols /\ run'.i = run.i
      BY Zenon, <1>1, <1>3 DEF RunStates
    <2>2. Symbol' = Symbol
      BY <2>1 DEF Symbol
    <2>3. TableFromFiles'
      BY <1>3, TableSame DEF Answer
    <2> QED BY <1>1, <1>3, <2>1, <2>2, <2>3 DEF TableInv
  <1>4. CASE /\ run' = [run EXCEPT !.pc = "write", !.candles = candles]
             /\ files' = [files EXCEPT ![Symbol] = Torn]
    <2>1. run'.pc = "write" /\ run'.symbols = run.symbols /\ run'.i = run.i
      BY Zenon, <1>1, <1>4 DEF RunStates
    <2>2. Symbol' = Symbol
      BY <2>1 DEF Symbol
    <2>3. TableFromFiles' /\ files'[Symbol] = Torn
      BY <1>1, <1>4, TableKept, NoFileType DEF TypeInv, Answer
    <2>4. Torn.state = "torn"
      BY DEF Torn
    <2> QED BY <2>1, <2>2, <2>3, <2>4 DEF TableInv
  <1> QED BY <1>2, <1>3, <1>4

LEMMA TableWritten == TypeInv /\ TableInv /\ Written => TableInv'
  <1> SUFFICES ASSUME TypeInv, TableInv, Written PROVE TableInv'
    OBVIOUS
  <1> DEFINE file == [state |-> "whole", start |-> run.start, end |-> run.end,
                      bars |-> run.candles]
  <1>1. run \in RunStates /\ run.pc = "write" /\ Symbol \in Symbols /\ ~Whole(Symbol)
    BY SymbolType DEF TypeInv, TypeOK, Written, Fetching, TableInv, Whole
  <1>2. file \in FileStates
    BY RunType DEF TypeInv, FileStates
  <1>3. run' = [run EXCEPT !.pc = "next", !.i = run.i + 1, !.candles = {}]
        /\ files' = [files EXCEPT ![Symbol] = file] /\ UNCHANGED table
    BY DEF Written
  <1> HIDE DEF file
  <1>4. TableFromFiles'
    BY <1>1, <1>2, <1>3, TableKept DEF TypeInv
  <1>5. run'.pc = "next"
    BY Zenon, <1>1, <1>3 DEF RunStates
  <1> QED BY <1>4, <1>5 DEF TableInv

LEMMA TableInterrupted == TypeInv /\ TableInv /\ Interrupted => TableInv'
  <1> SUFFICES ASSUME TypeInv, TableInv, Interrupted PROVE TableInv'
    OBVIOUS
  <1>1. Symbol \in Symbols /\ ~Whole(Symbol)
    BY SymbolType DEF TypeInv, TypeOK, Interrupted, Fetching, TableInv, Whole
  <1>2. TableFromFiles'
    <2>1. CASE files' = files
      BY <2>1, TableSame DEF Interrupted
    <2>2. CASE files' = [files EXCEPT ![Symbol] = NoFile]
      BY <1>1, <2>2, TableKept, NoFileType DEF Interrupted, TypeInv
    <2> QED BY <2>1, <2>2 DEF Interrupted
  <1>3. run'.pc = "failed"
    BY DEF Interrupted, NoRun
  <1> QED BY <1>2, <1>3 DEF TableInv

LEMMA TableBuild == TypeInv /\ TableInv /\ Build => TableInv'
  <1> SUFFICES ASSUME TypeInv, TableInv, Build PROVE TableInv'
    OBVIOUS
  <1> DEFINE built == [s \in Symbols |->
                          IF s \in Stored THEN MetricRows(Clean(files[s].bars)) ELSE {}]
             empty == [s \in Symbols |-> {}]
  <1>1. \A s \in Symbols :
            built[s] # {} => Whole(s) /\ built[s] = MetricRows(Clean(files[s].bars))
    BY DEF Build, Whole
  <1>2. \A s \in Symbols : empty[s] = {}
    OBVIOUS
  <1>3. \/ table' = [whole |-> TRUE, rows |-> built]
        \/ table' = [whole |-> FALSE, rows |-> empty]
    BY DEF Build
  <1> HIDE DEF built, empty
  <1>4. table'.rows = built \/ table'.rows = empty
    BY <1>3
  <1>5. \A s \in Symbols : table'.rows[s] # {} =>
            Whole(s) /\ table'.rows[s] = MetricRows(Clean(files[s].bars))
    BY <1>1, <1>2, <1>4
  <1>6. TableFromFiles'
    BY <1>5 DEF TableFromFiles, Whole, Build
  <1> QED BY <1>6 DEF TableInv, Build, Fetching

LEMMA TableNext == TypeInv /\ TableInv /\ [Next]_vars => TableInv'
  <1> SUFFICES ASSUME TypeInv, TableInv, [Next]_vars PROVE TableInv'
    OBVIOUS
  <1>1. CASE StartFetch
    <2>1. run'.pc = "next"
      BY <1>1 DEF StartFetch
    <2> QED BY <1>1, <2>1, TableSame DEF TableInv, StartFetch
  <1>2. CASE Stops
    <2>1. run'.pc = "failed"
      BY <1>2 DEF Stops, NoRun
    <2> QED BY <1>2, <2>1, TableSame DEF TableInv, Stops
  <1>3. CASE NextDay
    BY <1>3, TableSame DEF TableInv, NextDay, Symbol
  <1>4. CASE UNCHANGED vars
    BY <1>4, TableSame DEF TableInv, vars, Symbol
  <1> QED
    BY <1>1, <1>2, <1>3, <1>4, TableVisit, TableAnswer, TableWritten, TableInterrupted,
       TableBuild
    DEF Next, FetchStep

\* What analyze reads agrees with the files as they are now, whatever was fetched, failed
\* or was killed since the build.
THEOREM TableFromFilesHolds == Spec => []TableFromFiles
  <1>1. Init /\ [][Next]_vars /\ []TypeInv => []TableInv
    BY TableInit, TableNext, PTL
  <1>2. TableInv => TableFromFiles
    BY DEF TableInv
  <1> QED BY <1>1, <1>2, TypeInvariant, PTL DEF Spec

------------------------------------------------------------------------------
(* The days of a file.  The chunks answered so far hold all bars of their days, and only  *)
(* the last chunk's last day may still go on.                                             *)

CoverInv ==
    /\ FilesCover
    /\ run.pc = "ask" =>
        InSession(run.candles) =
            {b \in InSession(market[Symbol]) : run.start <= b.day /\ b.day < run.chunk_start}
    /\ run.pc = "write" => Cover(run.candles, Symbol, run.start, run.end)

LEMMA CoverInit == Init => CoverInv
  <1> SUFFICES ASSUME Init PROVE CoverInv
    OBVIOUS
  <1>1. run.pc = "idle"
    BY DEF Init, NoRun
  <1>2. \A s \in Symbols : ~Whole(s)
    BY DEF Init, NoFile, Whole
  <1> QED BY <1>1, <1>2 DEF CoverInv, FilesCover

LEMMA CoverSame ==
    ASSUME FilesCover, UNCHANGED <<market, files>>
    PROVE  FilesCover'
  BY DEF FilesCover, Cover, Whole

\* Whatever becomes of one file, if it is not whole or covers its days.
LEMMA CoverKept ==
    ASSUME TypeOK, FilesCover, UNCHANGED market, NEW s \in Symbols,
           NEW file, files' = [files EXCEPT ![s] = file],
           file.state = "whole" => Cover(file.bars, s, file.start, file.end)
    PROVE  FilesCover'
  <1>1. files'[s] = file /\ \A t \in Symbols \ {s} : files'[t] = files[t]
    BY DEF TypeOK
  <1> SUFFICES ASSUME NEW t \in Symbols, Whole(t)'
               PROVE  Cover(files[t].bars, t, files[t].start, files[t].end)'
    BY DEF FilesCover
  <1>2. CASE t = s
    <2>1. Cover(file.bars, s, file.start, file.end)
      BY <1>1, <1>2 DEF Whole
    <2> QED BY <1>1, <1>2, <2>1 DEF Cover
  <1>3. CASE t # s
    <2>1. Cover(files[t].bars, t, files[t].start, files[t].end)
      BY <1>1, <1>3 DEF Whole, FilesCover
    <2> QED BY <1>1, <1>3, <2>1 DEF Cover
  <1> QED BY <1>2, <1>3

LEMMA CoverVisit == TypeInv /\ CoverInv /\ Visit => CoverInv'
  <1> SUFFICES ASSUME TypeInv, CoverInv, Visit PROVE CoverInv'
    OBVIOUS
  <1>1. run \in RunStates /\ run.pc = "next" /\ run.start \in Nat
    BY RunType DEF TypeInv, TypeOK, Visit
  <1>2. FilesCover'
    BY CoverSame DEF CoverInv, Visit
  <1>3. CASE run' = NoRun("done", run.symbols)
    <2>1. run'.pc = "done"
      BY <1>3 DEF NoRun
    <2> QED BY <1>2, <2>1 DEF CoverInv
  <1>4. CASE run' = [run EXCEPT !.i = run.i + 1]
    <2>1. run'.pc = run.pc
      BY Zenon, <1>1, <1>4 DEF RunStates
    <2> QED BY <1>1, <1>2, <2>1 DEF CoverInv
  <1>5. CASE /\ run.i <= Len(run.symbols)
             /\ run' = [run EXCEPT !.pc = "ask", !.chunk_start = run.start, !.candles = {}]
    <2>1. /\ run'.pc = "ask" /\ run'.start = run.start /\ run'.chunk_start = run.start
          /\ run'.candles = {} /\ run'.symbols = run.symbols /\ run'.i = run.i
      BY Zenon, <1>1, <1>5 DEF RunStates
    <2>2. Symbol' \in Symbols /\ market' = market
      BY <1>1, <1>5, <2>1, SymbolType DEF TypeInv, Symbol, Visit, Fetching
    <2>3. \A b \in InSession(market[Symbol']) : b.day \in Nat
      BY <2>2 DEF TypeInv, TypeOK, InSession, Bar
    <2>4. {b \in InSession(market[Symbol']) : run.start <= b.day /\ b.day < run.start} = {}
      BY <1>1, <2>3
    <2>5. InSession({}) = {}
      BY DEF InSession
    <2>6. InSession(run'.candles) =
            {b \in InSession(market'[Symbol']) : run'.start <= b.day /\ b.day < run'.chunk_start}
      BY <2>1, <2>2, <2>4, <2>5
    <2> QED BY <1>2, <2>1, <2>6 DEF CoverInv, InSession
  <1> QED BY <1>3, <1>4, <1>5 DEF Visit

\* What an answer adds.
LEMMA AnswerCovers ==
    ASSUME NEW bars \in SUBSET Bar, NEW old, NEW start \in Nat, NEW first \in Nat,
           NEW last \in Nat, NEW now \in Nat, start <= first, first <= last, last <= today, today \in Nat,
           InSession(old) = {b \in InSession(bars) : start <= b.day /\ b.day < first}
    PROVE  LET new == InSession(old \cup Candles(bars, first, last, now))
               traded == {b \in InSession(bars) : start <= b.day /\ b.day <= last}
           IN  /\ new \subseteq traded
               /\ \A b \in traded : b.day < today => b \in new
               /\ \A b \in traded, c \in new :
                        b.day = last /\ c.day = last /\ b.at <= c.at => b \in new
  <1> DEFINE got == Candles(bars, first, last, now)
             new == InSession(old \cup got)
             traded == {b \in InSession(bars) : start <= b.day /\ b.day <= last}
  <1>1. \A b \in bars : b.day \in Nat /\ b.at \in Nat
    BY DEF Bar
  <1>2. new = InSession(old) \cup InSession(got)
    BY DEF InSession
  <1>3. \A b : b \in InSession(old) <=> b \in InSession(bars) /\ start <= b.day /\ b.day < first
    OBVIOUS
  <1>4. \A b : b \in InSession(got) <=>
            /\ b \in InSession(bars)
            /\ first <= b.day /\ b.day <= last
            /\ b.day < today \/ (b.day = today /\ b.at <= now)
    BY <1>1, FeaturesAssumption DEF Candles, InSession
  <1>5. InSession(bars) \subseteq bars
    BY DEF InSession
  <1> HIDE DEF got
  <1>6. new \subseteq traded
    <2> SUFFICES ASSUME NEW b \in new PROVE b \in traded
      OBVIOUS
    <2>1. CASE b \in InSession(old)
      BY <1>1, <1>3, <1>5, <2>1
    <2>2. CASE b \in InSession(got)
      BY <1>1, <1>4, <1>5, <2>2
    <2> QED BY <1>2, <2>1, <2>2
  <1>7. \A b \in traded : b.day < today => b \in new
    <2> SUFFICES ASSUME NEW b \in traded, b.day < today PROVE b \in new
      OBVIOUS
    <2>1. b.day \in Nat /\ b \in InSession(bars)
      BY <1>1, <1>5
    <2>2. CASE b.day < first
      BY <1>2, <1>3, <2>1, <2>2
    <2>3. CASE first <= b.day
      BY <1>2, <1>4, <2>1, <2>3
    <2> QED BY <2>1, <2>2, <2>3
  <1>8. ASSUME NEW b \in traded, NEW c \in new, b.day = last, c.day = last, b.at <= c.at
        PROVE  b \in new
    <2>1. b \in InSession(bars) /\ b.at \in Nat /\ c \in InSession(bars) /\ c.at \in Nat
      BY <1>1, <1>5, <1>6
    <2>2. c \in InSession(got)
      <3>1. ~(c.day < first)
        BY <1>8
      <3>2. c \notin InSession(old)
        BY <1>3, <3>1
      <3> QED BY <1>2, <3>2
    <2>3. b \in InSession(got)
      BY <1>4, <1>8, <2>1, <2>2, FeaturesAssumption, SMT
    <2> QED BY <1>2, <2>3
  <1> HIDE DEF new, traded
  <1>9. \A b \in traded, c \in new :
                b.day = last /\ c.day = last /\ b.at <= c.at => b \in new
    BY <1>8
  <1> QED BY <1>6, <1>7, <1>9 DEF new, traded, got

LEMMA CoverAnswer == TypeInv /\ CoverInv /\ Answer => CoverInv'
  <1> SUFFICES ASSUME TypeInv, CoverInv, Answer PROVE CoverInv'
    OBVIOUS
  <1> DEFINE last == ChunkEnd(run.chunk_start, run.end)
             bars == market[Symbol]
             got(now) == run.candles \cup Candles(bars, run.chunk_start, last, now)
             traded == {b \in InSession(bars) : run.start <= b.day /\ b.day <= last}
  <1>1. /\ run \in RunStates /\ run.pc = "ask"
        /\ run.end \in Nat /\ run.chunk_start \in Nat
        /\ run.start \in Nat /\ run.start <= run.chunk_start /\ run.end <= today
        /\ run.chunk_start <= run.end /\ Symbol \in Symbols /\ today \in Nat
        /\ market' = market
    BY RunType, SymbolType DEF TypeInv, TypeOK, RunOK, Answer, Fetching
  <1>2. last \in Nat /\ run.chunk_start <= last /\ last <= run.end /\ last <= today
    <2>1. last \in Nat /\ run.chunk_start <= last /\ last <= run.end
      BY <1>1, ChunkEndType
    <2> HIDE DEF last
    <2> QED BY <1>1, <2>1
  <1>3. bars \in SUBSET Bar /\ \A b \in InSession(bars) : b.day \in Nat
    BY <1>1 DEF TypeInv, TypeOK, InSession, Bar
  <1> HIDE DEF last, bars
  <1>4. PICK now \in Clock :
            \/ /\ last < run.end
               /\ run' = [run EXCEPT !.chunk_start = last + 1, !.candles = got(now)]
               /\ UNCHANGED files
            \/ /\ last >= run.end
               /\ run' = [run EXCEPT !.pc = "write", !.candles = got(now)]
               /\ files' = [files EXCEPT ![Symbol] = Torn]
    BY DEF Answer, last, bars
  <1>5. /\ InSession(got(now)) \subseteq traded
        /\ \A b \in traded : b.day < today => b \in InSession(got(now))
        /\ \A b \in traded, c \in InSession(got(now)) :
                b.day = last /\ c.day = last /\ b.at <= c.at => b \in InSession(got(now))
    <2>1. InSession(run.candles) =
            {b \in InSession(bars) : run.start <= b.day /\ b.day < run.chunk_start}
      BY <1>1 DEF CoverInv, bars
    <2>2. now \in Nat
      BY ScannerAssumption
    <2> QED BY <1>1, <1>2, <1>3, <2>1, <2>2, AnswerCovers
  <1> DEFINE all == got(now)
  <1> HIDE DEF got
  <1>6. InSession(all) \subseteq all
    BY DEF InSession
  <1>7. CASE /\ last < run.end
             /\ run' = [run EXCEPT !.chunk_start = last + 1, !.candles = all]
             /\ UNCHANGED files
    <2>1. /\ run'.pc = "ask" /\ run'.start = run.start /\ run'.chunk_start = last + 1
          /\ run'.candles = all /\ run'.symbols = run.symbols /\ run'.i = run.i
      BY Zenon, <1>1, <1>7 DEF RunStates
    <2>2. Symbol' = Symbol
      BY <2>1 DEF Symbol
    <2>3. \A b \in traded : b.day < today
      BY <1>1, <1>2, <1>3, <1>7
    <2>4. InSession(all) = traded
      BY <1>5, <2>3
    <2>5. traded = {b \in InSession(bars) : run.start <= b.day /\ b.day < last + 1}
      BY <1>2, <1>3
    <2>6. InSession(run'.candles) =
            {b \in InSession(market'[Symbol']) : run'.start <= b.day /\ b.day < run'.chunk_start}
      BY <1>1, <2>1, <2>2, <2>4, <2>5 DEF bars
    <2>7. FilesCover'
      BY <1>1, <1>7, CoverSame DEF CoverInv
    <2> QED BY <2>1, <2>6, <2>7 DEF CoverInv, InSession
  <1>8. CASE /\ last >= run.end
             /\ run' = [run EXCEPT !.pc = "write", !.candles = all]
             /\ files' = [files EXCEPT ![Symbol] = Torn]
    <2>1. /\ run'.pc = "write" /\ run'.start = run.start /\ run'.end = run.end
          /\ run'.candles = all /\ run'.symbols = run.symbols /\ run'.i = run.i
      BY Zenon, <1>1, <1>8 DEF RunStates
    <2>2. Symbol' = Symbol
      BY <2>1 DEF Symbol
    <2>3. last = run.end
      BY <1>1, <1>2, <1>8
    <2>4. traded = {b \in InSession(bars) : run.start <= b.day /\ b.day <= run.end}
      BY <2>3
    <2>5. \A b \in traded : b.day < run.end => b.day < today
      BY <1>1, <1>3
    <2>6. \A b \in traded : b.day < run.end => b \in all
      BY <1>5, <1>6, <2>5
    <2>7. \A b \in traded, c \in InSession(all) :
                b.day = run.end /\ c.day = run.end /\ b.at <= c.at => b \in all
      BY <1>5, <1>6, <2>3
    <2> HIDE DEF all, traded
    <2>8. Cover(all, Symbol, run.start, run.end)
      BY <1>5, <2>4, <2>6, <2>7 DEF Cover, bars, all
    <2>9. Cover(run.candles, Symbol, run.start, run.end)'
      BY <1>1, <2>1, <2>2, <2>8 DEF Cover
    <2>10. FilesCover'
      <3>1. Torn.state # "whole"
        BY DEF Torn
      <3> QED BY <1>1, <1>8, <3>1, CoverKept DEF TypeInv, CoverInv
    <2> QED BY <2>1, <2>9, <2>10 DEF CoverInv
  <1> QED BY <1>4, <1>7, <1>8

LEMMA CoverWritten == TypeInv /\ CoverInv /\ Written => CoverInv'
  <1> SUFFICES ASSUME TypeInv, CoverInv, Written PROVE CoverInv'
    OBVIOUS
  <1> DEFINE file == [state |-> "whole", start |-> run.start, end |-> run.end,
                      bars |-> run.candles]
  <1>1. run \in RunStates /\ run.pc = "write" /\ Symbol \in Symbols
    BY SymbolType DEF TypeInv, TypeOK, Written, Fetching
  <1>2. Cover(file.bars, Symbol, file.start, file.end)
    BY <1>1 DEF CoverInv
  <1>3. run' = [run EXCEPT !.pc = "next", !.i = run.i + 1, !.candles = {}]
        /\ files' = [files EXCEPT ![Symbol] = file] /\ UNCHANGED market
    BY DEF Written
  <1> HIDE DEF file
  <1>4. FilesCover'
    BY <1>1, <1>2, <1>3, CoverKept DEF TypeInv, CoverInv
  <1>5. run'.pc = "next"
    BY Zenon, <1>1, <1>3 DEF RunStates
  <1> QED BY <1>4, <1>5 DEF CoverInv

LEMMA CoverInterrupted == TypeInv /\ CoverInv /\ Interrupted => CoverInv'
  <1> SUFFICES ASSUME TypeInv, CoverInv, Interrupted PROVE CoverInv'
    OBVIOUS
  <1>1. Symbol \in Symbols
    BY SymbolType DEF TypeInv, TypeOK, Interrupted, Fetching
  <1>2. FilesCover'
    <2>1. CASE files' = files
      BY <2>1, CoverSame DEF Interrupted, CoverInv
    <2>2. CASE files' = [files EXCEPT ![Symbol] = NoFile]
      <3>1. NoFile.state # "whole"
        BY DEF NoFile
      <3> QED BY <1>1, <2>2, <3>1, CoverKept DEF Interrupted, TypeInv, CoverInv
    <2> QED BY <2>1, <2>2 DEF Interrupted
  <1>3. run'.pc = "failed"
    BY DEF Interrupted, NoRun
  <1> QED BY <1>2, <1>3 DEF CoverInv

LEMMA CoverNext == TypeInv /\ CoverInv /\ [Next]_vars => CoverInv'
  <1> SUFFICES ASSUME TypeInv, CoverInv, [Next]_vars PROVE CoverInv'
    OBVIOUS
  <1>1. CASE StartFetch
    <2>1. run'.pc = "next"
      BY <1>1 DEF StartFetch
    <2> QED BY <1>1, <2>1, CoverSame DEF CoverInv, StartFetch
  <1>2. CASE Stops
    <2>1. run'.pc = "failed"
      BY <1>2 DEF Stops, NoRun
    <2> QED BY <1>2, <2>1, CoverSame DEF CoverInv, Stops
  <1>3. CASE UNCHANGED <<market, run, files>>
    <2>1. Symbol' = Symbol
      BY <1>3 DEF Symbol
    <2> QED BY <1>3, <2>1, CoverSame DEF CoverInv, Cover, InSession
  <1>4. CASE Build
    BY <1>3, <1>4 DEF Build
  <1>5. CASE NextDay
    BY <1>3, <1>5 DEF NextDay
  <1>6. CASE UNCHANGED vars
    BY <1>3, <1>6 DEF vars
  <1> QED
    BY <1>1, <1>2, <1>4, <1>5, <1>6, CoverVisit, CoverAnswer, CoverWritten, CoverInterrupted
    DEF Next, FetchStep

\* A file holds every bar of the days it was fetched for, except of the day of the run,
\* whatever the size of a chunk and however often the command failed or was killed.
THEOREM FilesCoverHolds == Spec => []FilesCover
  <1>1. Init /\ [][Next]_vars /\ []TypeInv => []CoverInv
    BY CoverInit, CoverNext, PTL
  <1>2. CoverInv => FilesCover
    BY DEF CoverInv
  <1> QED BY <1>1, <1>2, TypeInvariant, PTL DEF Spec

------------------------------------------------------------------------------
(* Frames: what cleaning leaves, first bars, and places among the sessions. *)

LEMMA FileFrame ==
    ASSUME TypeInv, NEW s \in Symbols
    PROVE  files[s].bars \in SUBSET Bar
  BY DEF TypeInv, TypeOK, FileStates

\* Sets of bars with the same earliest bars have the same first one.
LEMMA SameFirst ==
    ASSUME NEW A, NEW B,
           \A b : (b \in A /\ \A c \in A : b.at <= c.at) <=> (b \in B /\ \A c \in B : b.at <= c.at)
    PROVE  First(A) = First(B)
  BY Zenon DEF First

\* A session's first bar is its opening bars', if it has any.
LEMMA FirstOpening ==
    ASSUME NEW A \in SUBSET Bar, NEW d, InSession(A) = A, Opening(A, d) # {}
    PROVE  First(On(A, d)) = First(Opening(A, d))
  <1>1. \A b \in A : b.at \in Nat /\ SessionStart <= b.at
    BY DEF InSession, Bar
  <1>2. /\ On(A, d) \subseteq A
        /\ \A b : b \in Opening(A, d) <=> b \in On(A, d) /\ b.at < OpenWindowEnd
    BY <1>1 DEF On, Opening
  <1>3. OpenWindowEnd \in Nat
    BY FeaturesAssumption
  <1>4. ASSUME NEW b \in On(A, d), \A c \in On(A, d) : b.at <= c.at
        PROVE  b \in Opening(A, d) /\ \A c \in Opening(A, d) : b.at <= c.at
    <2>1. PICK c \in Opening(A, d) : TRUE
      OBVIOUS
    <2>2. b.at <= c.at /\ c.at < OpenWindowEnd /\ b.at \in Nat /\ c.at \in Nat
      BY <1>1, <1>2, <1>4, <2>1
    <2>3. b.at < OpenWindowEnd
      BY <1>3, <2>2
    <2> QED BY <1>2, <1>4, <2>3
  <1>5. ASSUME NEW b \in Opening(A, d), \A c \in Opening(A, d) : b.at <= c.at
        PROVE  b \in On(A, d) /\ \A c \in On(A, d) : b.at <= c.at
    <2> SUFFICES ASSUME NEW c \in On(A, d) PROVE b.at <= c.at
      BY <1>2
    <2>1. b.at \in Nat /\ c.at \in Nat /\ b.at < OpenWindowEnd
      BY <1>1, <1>2
    <2>2. CASE c.at < OpenWindowEnd
      BY <1>2, <1>5, <2>2
    <2>3. CASE ~(c.at < OpenWindowEnd)
      BY <1>3, <2>1, <2>3
    <2> QED BY <2>2, <2>3
  <1> QED BY <1>4, <1>5, SameFirst

\* Cleaning removes whole sessions, and what is outside of a session.
LEMMA CleanDrops ==
    ASSUME NEW F
    PROVE  /\ Clean(F) \subseteq Unsplit(F) /\ Unsplit(F) \subseteq Judged(F)
           /\ Judged(F) \subseteq InSession(F) /\ InSession(F) \subseteq F
           /\ \A d \in SessionDates(Clean(F)) :
                /\ On(Clean(F), d) = On(Judged(F), d)
                /\ d \in SessionDates(Judged(F))
                /\ d \notin CorporateActionSessions(Judged(F))
  <1> DEFINE J == Judged(F) C == CorporateActionSessions(J) W == Warmup(Unsplit(F))
  <1>1. Unsplit(F) = Drop(J, C) /\ Clean(F) = Drop(Unsplit(F), W)
    BY DEF Unsplit, Clean
  <1>2. J \subseteq InSession(F) /\ InSession(F) \subseteq F
    BY DEF Judged, Drop, InSession
  <1> HIDE DEF J, C, W
  <1>3. ASSUME NEW d \in SessionDates(Clean(F))
        PROVE  On(Clean(F), d) = On(J, d) /\ d \in SessionDates(J) /\ d \notin C
    BY <1>1, <1>3 DEF Drop, SessionDates, On
  <1> QED BY <1>1, <1>2, <1>3 DEF Drop, J, C

LEMMA InSessionTwice ==
    ASSUME NEW F, NEW A, A \subseteq InSession(F)
    PROVE  InSession(A) = A
  BY DEF InSession

\* A session has a place if the days are numbers; the first has none before it.
LEMMA PositionType ==
    ASSUME NEW days \in SUBSET Nat, NEW d \in Nat
    PROVE  /\ Position(days, d) \in Nat
           /\ Position(days, d) > 0 <=> {e \in days : e < d} # {}
  <1> DEFINE before == {e \in days : e < d}
  <1>1. before \in SUBSET Nat
    OBVIOUS
  <1>2. \A e \in before : e <= d
    <2>1. \A e \in days : e \in Nat
      OBVIOUS
    <2> QED BY <2>1
  <1>3. Position(days, d) = Cardinality(before)
    BY DEF Position
  <1> HIDE DEF before
  <1>4. IsFiniteSet(before)
    BY <1>1, <1>2, FS_BoundedSetOfNaturals
  <1>5. Cardinality(before) \in Nat /\ (Cardinality(before) = 0 <=> before = {})
    BY <1>4, FS_CardinalityType, FS_EmptySet
  <1> QED BY <1>3, <1>5 DEF before

LEMMA PreviousType ==
    ASSUME NEW days \in SUBSET Nat, NEW d \in Nat, Position(days, d) > 0
    PROVE  Previous(days, d) \in days /\ Previous(days, d) < d
  <1> DEFINE before == {e \in days : e < d}
  <1>1. before \in SUBSET Nat /\ before # {}
    BY PositionType
  <1>2. \A e \in before : e <= d
    <2>1. \A e \in days : e \in Nat
      OBVIOUS
    <2> QED BY <2>1
  <1>3. \E e \in before : \A x \in before : x <= e
    <2> HIDE DEF before
    <2> QED BY <1>1, <1>2, Maximum
  <1>4. Latest(before) \in before
    BY Zenon, <1>3 DEF Latest
  <1> QED BY <1>4 DEF Previous

------------------------------------------------------------------------------
(* The gap rule. *)

LEMMA FrameGap ==
    ASSUME NEW F \in SUBSET Bar, NEW d \in FeatureDays(Clean(F)),
           Previous(Sessions(Clean(F)), d) = Previous(SessionDates(Judged(F)), d)
    PROVE  LET gap == Feature(Clean(F), d).gap_pct IN ~Gap(gap[1], gap[2])
  <1> DEFINE C == Clean(F) J == Judged(F) S == Sessions(C) D == SessionDates(J)
             p == Previous(S, d)
  <1>1. /\ C \subseteq J /\ C \in SUBSET Bar /\ J \in SUBSET Bar
        /\ InSession(C) = C /\ InSession(J) = J
    BY CleanDrops, InSessionTwice
  <1>2. /\ S \subseteq SessionDates(C) /\ SessionDates(C) \subseteq D /\ D \in SUBSET Nat
        /\ \A e \in S : Opening(C, e) # {}
    BY <1>1, CleanDrops DEF Sessions, SessionDates, Bar
  <1>3. d \in S /\ d \in Nat /\ Position(S, d) >= MinPriorSessions
    BY <1>2 DEF FeatureDays
  <1>4. \A e \in SessionDates(C) : On(C, e) = On(J, e) /\ e \notin CorporateActionSessions(J)
    BY CleanDrops
  <1> HIDE DEF C, J
  <1>5. Position(S, d) > 0
    <2> HIDE DEF S
    <2>1. Position(S, d) \in Nat
      BY <1>2, <1>3, PositionType
    <2> QED BY <1>3, <2>1, FeaturesAssumption
  <1>6. p \in S
    <2> HIDE DEF S
    <2> QED BY <1>2, <1>3, <1>5, PreviousType
  <1>7. Position(D, d) \in Nat /\ Position(D, d) > 0
    <2>1. {e \in S : e < d} # {}
      <3> HIDE DEF S
      <3> QED BY <1>2, <1>3, <1>5, PositionType
    <2>2. {e \in D : e < d} # {}
      BY <1>2, <2>1
    <2> HIDE DEF D
    <2> QED BY <1>2, <1>3, <2>2, PositionType
  <1>8. d \notin SplitSessions(J)
    <2>1. d \in D /\ d \notin CorporateActionSessions(J)
      BY <1>2, <1>3, <1>4
    <2>2. d <= d /\ Position(D, d) - Position(D, d) <= SplitQuarantineSessions
      BY <1>3, <1>7, FeaturesAssumption
    <2> QED BY <2>1, <2>2 DEF CorporateActionSessions
  <1>9. ~Gap(First(On(J, d)).open, Last(On(J, Previous(D, d))).close)
    BY <1>2, <1>3, <1>7, <1>8 DEF SplitSessions
  <1>10. First(On(J, d)) = First(Opening(C, d))
    <2>1. On(J, d) = On(C, d)
      BY <1>2, <1>3, <1>4
    <2> QED BY <1>1, <1>2, <1>3, <2>1, FirstOpening
  <1>11. On(J, Previous(D, d)) = On(InSession(C), p)
    <2>1. Previous(D, d) = p
      BY DEF C, J
    <2> HIDE DEF p, D
    <2> QED BY <1>1, <1>2, <1>4, <1>6, <2>1
  <1>12. Feature(C, d).gap_pct =
            <<First(Opening(C, d)).open, Last(On(InSession(C), p)).close>>
    BY DEF Feature
  <1> QED BY <1>9, <1>10, <1>11, <1>12 DEF C

\* A gap that is reported and was not judged lies across sessions that were left out.
THEOREM GapsJudgedHolds == Spec => []GapsJudged
  <1>1. TypeInv => GapsJudged
    BY FileFrame, FrameGap DEF GapsJudged
  <1> QED BY <1>1, TypeInvariant, PTL

------------------------------------------------------------------------------
(* The outcome. *)

LEMMA FrameOutcome ==
    ASSUME NEW C \in SUBSET Bar, NEW d \in Nat
    PROVE  Outcome(C, d) =
           Outcome({b \in C : b.day < d \/ (b.day = d /\ b.at <= EvalEnd)}, d)
  <1> DEFINE H == {b \in C : b.day < d \/ (b.day = d /\ b.at <= EvalEnd)}
  <1>1. \A b \in C : b.day \in Nat /\ b.at \in Nat
    BY DEF Bar
  <1>2. \A b : b.day = d => (b \in H <=> b \in C /\ b.at <= EvalEnd)
    BY <1>1
  <1> HIDE DEF H
  <1>3. \A b : b \in On(InSession(H), d) <=> b \in On(InSession(C), d) /\ b.at <= EvalEnd
    BY <1>2 DEF On, InSession
  <1>4. Evaluated(H, d) = Evaluated(C, d)
    BY <1>3 DEF Evaluated
  <1>5. Opening(H, d) = Opening(C, d)
    <2>1. \A b \in C : b.at < OpenWindowEnd => b.at <= EvalEnd
      BY <1>1, FeaturesAssumption
    <2> QED BY <1>2, <2>1 DEF Opening, On
  <1>6. ASSUME NEW b \in Evaluated(C, d)
        PROVE  RunningVwap(H, b) = RunningVwap(C, b)
    <2>1. b.day = d /\ b.at <= EvalEnd /\ b.at \in Nat
      BY <1>1 DEF Evaluated, On, InSession
    <2>2. \A c \in On(InSession(C), d) : c.at <= b.at => c.at <= EvalEnd
      <3>1. \A c \in On(InSession(C), d) : c.at \in Nat
        BY <1>1 DEF On, InSession
      <3> QED BY <2>1, <3>1, FeaturesAssumption
    <2>3. {c \in On(InSession(H), b.day) : c.at <= b.at} =
          {c \in On(InSession(C), b.day) : c.at <= b.at}
      BY <1>3, <2>1, <2>2
    <2> QED BY <2>3 DEF RunningVwap
  <1>7. /\ {b \in Evaluated(H, d) : Above(H, b)} = {b \in Evaluated(C, d) : Above(C, b)}
        /\ {b \in Evaluated(H, d) : Below(H, b)} = {b \in Evaluated(C, d) : Below(C, b)}
    BY <1>4, <1>6 DEF Above, Below
  <1>8. Outcome(H, d) = Outcome(C, d)
    BY <1>4, <1>5, <1>7 DEF Outcome
  <1> QED BY <1>8 DEF H

\* What trades after EVAL_END does not change the outcome of a session.
THEOREM OutcomeSettledHolds == Spec => []OutcomeSettled
  <1>1. ASSUME TypeInv, NEW s \in Symbols
        PROVE  LET frame == Clean(files[s].bars)
               IN  \A d \in FeatureDays(frame) :
                        Outcome(frame, d) =
                        Outcome({b \in frame : b.day < d \/ (b.day = d /\ b.at <= EvalEnd)}, d)
    <2> DEFINE F == files[s].bars C == Clean(F)
    <2>1. C \in SUBSET Bar
      BY <1>1, FileFrame, CleanDrops
    <2> HIDE DEF C
    <2>2. \A d \in FeatureDays(C) : d \in Nat
      BY <2>1 DEF FeatureDays, Sessions, SessionDates, InSession, Bar
    <2>3. \A d \in FeatureDays(C) :
            Outcome(C, d) = Outcome({b \in C : b.day < d \/ (b.day = d /\ b.at <= EvalEnd)}, d)
      BY <2>1, <2>2, FrameOutcome
    <2> QED BY <2>3 DEF C
  <1>2. TypeInv => OutcomeSettled
    BY <1>1 DEF OutcomeSettled
  <1> QED BY <1>2, TypeInvariant, PTL

------------------------------------------------------------------------------
(* No lookahead.  Two frames agree for day d if the same is known at 09:20 of d and the   *)
(* same bars are there on d; what is computed for d from the one is from the other.       *)

Agree(A, B, d) ==
    /\ A \in SUBSET Bar /\ B \in SUBSET Bar
    /\ Known(A, d) = Known(B, d)
    /\ Times(On(A, d)) = Times(On(B, d))

LEMMA AgreeDistorted ==
    ASSUME NEW F \in SUBSET Bar, NEW d \in Nat
    PROVE  Agree(F, Distorted(F, d), d)
  <1> DEFINE late == On(F, d) \ Known(F, d)
             moved(b) == [day |-> d, at |-> b.at, open |-> 1, high |-> b.high + 1000,
                          low |-> 1, close |-> b.high + 1000, volume |-> b.volume + 1000]
             G == Distorted(F, d)
  <1>1. G = Known(F, d) \cup {moved(b) : b \in late}
    BY DEF Distorted
  <1>2. \A b \in late : moved(b) \in Bar
    BY DEF Bar, On
  <1>3. \A b \in late : b.day = d /\ b.at \in Nat /\ ~(b.at < OpenWindowEnd)
    BY DEF On, Known, Bar
  <1>4. \A b \in late : moved(b).day = d /\ moved(b).at = b.at
    OBVIOUS
  <1> HIDE DEF moved, G, late
  <1>5. Known(F, d) \subseteq F
    BY DEF Known
  <1>6. G \in SUBSET Bar
    BY <1>1, <1>2, <1>5
  <1>7. Known(G, d) = Known(F, d)
    <2>1. \A b \in late : moved(b) \notin Known(G, d)
      BY <1>3, <1>4 DEF Known
    <2>2. Known(G, d) \subseteq Known(F, d)
      BY <1>1, <2>1 DEF Known
    <2>3. Known(F, d) \subseteq Known(G, d)
      BY <1>1 DEF Known
    <2> QED BY <2>2, <2>3
  <1>8. Times(On(G, d)) \subseteq Times(On(F, d))
    <2> SUFFICES ASSUME NEW b \in On(G, d) PROVE \E c \in On(F, d) : c.at = b.at
      BY DEF Times
    <2>1. CASE b \in Known(F, d)
      BY <1>5, <2>1 DEF On
    <2>2. CASE \E c \in late : b = moved(c)
      BY <1>4, <2>2 DEF late
    <2> QED BY <1>1, <2>1, <2>2 DEF On
  <1>9. Times(On(F, d)) \subseteq Times(On(G, d))
    <2> SUFFICES ASSUME NEW b \in On(F, d) PROVE \E c \in On(G, d) : c.at = b.at
      BY DEF Times
    <2>1. CASE b \in Known(F, d)
      BY <1>1, <2>1 DEF On
    <2>2. CASE b \in late
      <3>1. moved(b) \in On(G, d) /\ moved(b).at = b.at
        BY <1>1, <1>4, <2>2 DEF On
      <3> QED BY <3>1
    <2> QED BY <2>1, <2>2 DEF late
  <1> QED BY <1>6, <1>7, <1>8, <1>9 DEF Agree, G

\* What agreeing frames have in common.
LEMMA AgreeDays ==
    ASSUME NEW d \in Nat, NEW A, NEW B, Agree(A, B, d)
    PROVE  /\ \A e \in Nat : e < d => On(A, e) = On(B, e)
           /\ \A e \in Nat : e <= d => (e \in SessionDates(A) <=> e \in SessionDates(B))
           /\ \A e \in Nat : e <= d => Opening(A, e) = Opening(B, e)
           /\ SessionDates(A) \in SUBSET Nat /\ SessionDates(B) \in SUBSET Nat
  <1>1. A \in SUBSET Bar /\ B \in SUBSET Bar
    BY DEF Agree
  <1>2. \A b \in A \cup B : b.day \in Nat /\ b.at \in Nat
    BY <1>1 DEF Bar
  <1>3. \A b : (b.day < d \/ (b.day = d /\ b.at < OpenWindowEnd)) => (b \in A <=> b \in B)
    BY DEF Agree, Known
  <1>4. ASSUME NEW e \in Nat, e < d PROVE On(A, e) = On(B, e)
    BY <1>3, <1>4 DEF On
  <1>5. d \in SessionDates(A) <=> d \in SessionDates(B)
    <2>1. \A C : d \in SessionDates(C) <=> Times(On(C, d)) # {}
      BY DEF SessionDates, Times, On
    <2> QED BY <2>1 DEF Agree
  <1>6. ASSUME NEW e \in Nat, e <= d PROVE e \in SessionDates(A) <=> e \in SessionDates(B)
    <2>1. CASE e < d
      <3>1. \A C : e \in SessionDates(C) <=> On(C, e) # {}
        BY DEF SessionDates, On
      <3> QED BY <1>4, <2>1, <3>1
    <2>2. CASE e = d
      BY <1>5, <2>2
    <2> QED BY <1>6, <2>1, <2>2
  <1>7. ASSUME NEW e \in Nat, e <= d PROVE Opening(A, e) = Opening(B, e)
    <2>1. CASE e < d
      BY <1>4, <2>1 DEF Opening
    <2>2. CASE e = d
      BY <1>3, <2>2 DEF Opening, On
    <2> QED BY <1>7, <2>1, <2>2
  <1>8. SessionDates(A) \in SUBSET Nat /\ SessionDates(B) \in SUBSET Nat
    BY <1>2 DEF SessionDates
  <1> QED BY <1>4, <1>6, <1>7, <1>8

LEMMA AgreeInSession ==
    ASSUME NEW d \in Nat, NEW A, NEW B, Agree(A, B, d)
    PROVE  Agree(InSession(A), InSession(B), d)
  <1>1. \A b : (b.day < d \/ (b.day = d /\ b.at < OpenWindowEnd)) => (b \in A <=> b \in B)
    BY DEF Agree, Known
  <1>2. Known(InSession(A), d) = Known(InSession(B), d)
    BY <1>1 DEF Known, InSession
  <1>3. \A C, t : t \in Times(On(InSession(C), d)) <=>
            t \in Times(On(C, d)) /\ SessionStart <= t /\ t < SessionEnd
    BY DEF Times, On, InSession
  <1>4. Times(On(InSession(A), d)) = Times(On(InSession(B), d))
    <2>1. Times(On(A, d)) = Times(On(B, d))
      BY DEF Agree
    <2> QED BY <1>3, <2>1
  <1>5. InSession(A) \in SUBSET Bar /\ InSession(B) \in SUBSET Bar
    BY DEF Agree, InSession
  <1> QED BY <1>2, <1>4, <1>5 DEF Agree

LEMMA AgreeDrop ==
    ASSUME NEW d \in Nat, NEW A, NEW B, Agree(A, B, d), NEW X, NEW Y,
           \A e \in Nat : e <= d => (e \in X <=> e \in Y)
    PROVE  Agree(Drop(A, X), Drop(B, Y), d)
  <1>1. \A b : (b.day < d \/ (b.day = d /\ b.at < OpenWindowEnd)) => (b \in A <=> b \in B)
    BY DEF Agree, Known
  <1>2. A \in SUBSET Bar /\ B \in SUBSET Bar /\ \A b \in A \cup B : b.day \in Nat
    BY DEF Agree, Bar
  <1>3. ASSUME NEW b, b.day < d \/ (b.day = d /\ b.at < OpenWindowEnd)
        PROVE  b \in Drop(A, X) <=> b \in Drop(B, Y)
    BY <1>1, <1>2, <1>3 DEF Drop
  <1>4. Known(Drop(A, X), d) = Known(Drop(B, Y), d)
    BY <1>3 DEF Known
  <1>5. \A C, Z : On(Drop(C, Z), d) = IF d \in Z THEN {} ELSE On(C, d)
    BY DEF On, Drop
  <1>6. Times(On(Drop(A, X), d)) = Times(On(Drop(B, Y), d))
    <2>1. d \in X <=> d \in Y
      OBVIOUS
    <2>2. Times(On(A, d)) = Times(On(B, d))
      BY DEF Agree
    <2> QED BY <1>5, <2>1, <2>2
  <1>7. Drop(A, X) \in SUBSET Bar /\ Drop(B, Y) \in SUBSET Bar
    BY <1>2 DEF Drop
  <1> QED BY <1>4, <1>6, <1>7 DEF Agree

\* Days that agree up to d give the sessions up to d their places.
LEMMA AgreePlaces ==
    ASSUME NEW d \in Nat, NEW D \in SUBSET Nat, NEW E \in SUBSET Nat,
           {e \in D : e <= d} = {e \in E : e <= d}
    PROVE  \A e \in Nat : e <= d =>
                /\ {x \in D : x < e} = {x \in E : x < e}
                /\ Position(D, e) = Position(E, e)
                /\ Previous(D, e) = Previous(E, e)
  <1> SUFFICES ASSUME NEW e \in Nat, e <= d
               PROVE  {x \in D : x < e} = {x \in E : x < e}
    BY DEF Position, Previous
  <1>1. \A x \in Nat : x < e => x <= d
    OBVIOUS
  <1>2. \A x \in D \cup E : x \in Nat /\ (x <= d => (x \in D <=> x \in E))
    OBVIOUS
  <1> QED BY <1>1, <1>2

LEMMA AgreeShortDays ==
    ASSUME NEW d \in Nat, NEW A, NEW B, Agree(A, B, d)
    PROVE  \A e \in Nat : e <= d => (e \in ShortDays(A) <=> e \in ShortDays(B))
  <1> SUFFICES ASSUME NEW e \in Nat, e <= d PROVE e \in ShortDays(A) <=> e \in ShortDays(B)
    OBVIOUS
  <1>1. e \in SessionDates(A) <=> e \in SessionDates(B)
    BY AgreeDays
  <1>2. Times(On(A, e)) = Times(On(B, e))
    <2>1. CASE e < d
      BY <2>1, AgreeDays
    <2>2. CASE e = d
      BY <2>2 DEF Agree
    <2> QED BY <2>1, <2>2
  <1> QED BY <1>1, <1>2 DEF ShortDays

\* The first session on which they may differ is d, of which the opening bars are known.
LEMMA AgreeSplits ==
    ASSUME NEW d \in Nat, NEW A, NEW B, Agree(A, B, d), InSession(A) = A, InSession(B) = B,
           d \in SessionDates(A) => Opening(A, d) # {}
    PROVE  \A e \in Nat : e <= d => (e \in SplitSessions(A) <=> e \in SplitSessions(B))
  <1> SUFFICES ASSUME NEW e \in Nat, e <= d
               PROVE  e \in SplitSessions(A) <=> e \in SplitSessions(B)
    OBVIOUS
  <1> DEFINE D == SessionDates(A) E == SessionDates(B)
  <1>1. /\ D \in SUBSET Nat /\ E \in SUBSET Nat
        /\ \A x \in Nat : x <= d => (x \in D <=> x \in E)
        /\ \A x \in Nat : x < d => On(A, x) = On(B, x)
        /\ \A x \in Nat : x <= d => Opening(A, x) = Opening(B, x)
        /\ A \in SUBSET Bar /\ B \in SUBSET Bar
    BY AgreeDays DEF Agree
  <1>2. \A C : e \in SplitSessions(C) <=>
            /\ e \in SessionDates(C)
            /\ Position(SessionDates(C), e) > 0
            /\ Gap(First(On(C, e)).open, Last(On(C, Previous(SessionDates(C), e))).close)
    BY DEF SplitSessions
  <1>3. (e \in D <=> e \in E) /\ Position(D, e) = Position(E, e) /\ Previous(D, e) = Previous(E, e)
    <2> HIDE DEF D, E
    <2>1. {x \in D : x <= d} = {x \in E : x <= d}
      BY <1>1
    <2>2. /\ D \in SUBSET Nat /\ E \in SUBSET Nat
          /\ \A x \in Nat : x <= d => Position(D, x) = Position(E, x)
                                    /\ Previous(D, x) = Previous(E, x)
      BY <1>1, <2>1, AgreePlaces
    <2> QED BY <1>1, <2>2
  <1>4. e \in D => First(On(A, e)) = First(On(B, e))
    <2>1. CASE e < d
      BY <1>1, <2>1
    <2>2. CASE e = d /\ e \in D
      <3>1. Opening(A, d) # {} /\ Opening(B, d) = Opening(A, d)
        BY <1>1, <2>2
      <3> QED BY <1>1, <2>2, <3>1, FirstOpening
    <2> QED BY <2>1, <2>2
  <1>5. Position(D, e) > 0 => On(A, Previous(D, e)) = On(B, Previous(D, e))
    <2> SUFFICES ASSUME Position(D, e) > 0 PROVE On(A, Previous(D, e)) = On(B, Previous(D, e))
      OBVIOUS
    <2> HIDE DEF D, E
    <2>1. Previous(D, e) \in D /\ Previous(D, e) < e
      BY <1>1, PreviousType
    <2>2. Previous(D, e) \in Nat
      BY <1>1, <2>1
    <2>3. Previous(D, e) < d
      BY <2>1, <2>2
    <2> QED BY <1>1, <2>2, <2>3
  <1> QED BY <1>2, <1>3, <1>4, <1>5

LEMMA AgreeClean ==
    ASSUME NEW d \in Nat, NEW F, NEW G, Agree(F, G, d), Opening(F, d) # {}
    PROVE  Agree(Clean(F), Clean(G), d)
  <1>1. Agree(InSession(F), InSession(G), d)
    BY AgreeInSession
  <1>2. Agree(Judged(F), Judged(G), d)
    BY <1>1, AgreeShortDays, AgreeDrop DEF Judged
  <1> DEFINE A == Judged(F) B == Judged(G) D == SessionDates(A) E == SessionDates(B)
  <1>3. InSession(A) = A /\ InSession(B) = B
    BY CleanDrops, InSessionTwice
  <1>4. d \in SessionDates(A) => Opening(A, d) # {}
    <2>1. PICK b \in Opening(F, d) : TRUE
      OBVIOUS
    <2>2. F \in SUBSET Bar /\ b \in F /\ b.day = d
          /\ SessionStart <= b.at /\ b.at < OpenWindowEnd /\ b.at \in Nat
      BY <2>1 DEF Agree, Opening, On, Bar
    <2>3. b \in InSession(F)
      BY <2>2, FeaturesAssumption DEF InSession
    <2>4. d \in SessionDates(A) => d \notin ShortDays(InSession(F))
      BY DEF Judged, Drop, SessionDates
    <2>5. d \in SessionDates(A) => b \in A
      BY <2>2, <2>3, <2>4 DEF Judged, Drop
    <2> QED BY <2>2, <2>5 DEF Opening, On
  <1> HIDE DEF A, B
  <1>5. /\ Agree(A, B, d) /\ D \in SUBSET Nat /\ E \in SUBSET Nat
        /\ \A e \in Nat : e <= d => (e \in D <=> e \in E)
    BY <1>2, AgreeDays DEF A, B
  <1>6. \A e \in Nat : e <= d => (e \in SplitSessions(A) <=> e \in SplitSessions(B))
    BY <1>3, <1>4, <1>5, AgreeSplits
  <1>7. \A e \in Nat : e <= d => Position(D, e) = Position(E, e)
    <2> HIDE DEF D, E
    <2>1. {x \in D : x <= d} = {x \in E : x <= d}
      BY <1>5
    <2> QED BY <1>5, <2>1, AgreePlaces
  <1>8. \A e \in Nat : e <= d =>
            (e \in CorporateActionSessions(A) <=> e \in CorporateActionSessions(B))
    <2> SUFFICES ASSUME NEW e \in Nat, e <= d
                 PROVE  e \in CorporateActionSessions(A) <=> e \in CorporateActionSessions(B)
      OBVIOUS
    <2>1. \A x : x \in SplitSessions(A) \/ x \in SplitSessions(B) => x \in Nat
      BY <1>5 DEF SplitSessions
    <2>2. \A x \in Nat : x <= e => x <= d
      OBVIOUS
    <2>3. \A x : (x \in SplitSessions(A) /\ x <= e) <=> (x \in SplitSessions(B) /\ x <= e)
      BY <1>6, <2>1, <2>2
    <2>4. \A x : x \in SplitSessions(A) /\ x <= e => Position(D, x) = Position(E, x)
      BY <1>7, <2>1, <2>2
    <2>5. Position(D, e) = Position(E, e) /\ (e \in D <=> e \in E)
      BY <1>5, <1>7
    <2>6. (e \in CorporateActionSessions(A)) <=>
            /\ e \in D
            /\ \E x : /\ x \in SplitSessions(A) /\ x <= e
                      /\ Position(D, e) - Position(D, x) <= SplitQuarantineSessions
      BY DEF CorporateActionSessions
    <2>7. (e \in CorporateActionSessions(B)) <=>
            /\ e \in E
            /\ \E x : /\ x \in SplitSessions(B) /\ x <= e
                      /\ Position(E, e) - Position(E, x) <= SplitQuarantineSessions
      BY DEF CorporateActionSessions
    <2> HIDE DEF D, E
    <2> QED BY <2>3, <2>4, <2>5, <2>6, <2>7
  <1>9. Agree(Unsplit(F), Unsplit(G), d)
    BY <1>5, <1>8, AgreeDrop DEF Unsplit, A, B
  <1>10. \A e \in Nat : e <= d => (e \in Warmup(Unsplit(F)) <=> e \in Warmup(Unsplit(G)))
    <2> DEFINE P == SessionDates(Unsplit(F)) Q == SessionDates(Unsplit(G))
    <2>1. /\ P \in SUBSET Nat /\ Q \in SUBSET Nat
          /\ \A e \in Nat : e <= d => (e \in P <=> e \in Q)
      BY <1>9, AgreeDays
    <2>2. \A e \in Nat : e <= d => Position(P, e) = Position(Q, e)
      <3> HIDE DEF P, Q
      <3>1. {x \in P : x <= d} = {x \in Q : x <= d}
        BY <2>1
      <3> QED BY <2>1, <3>1, AgreePlaces
    <2> QED BY <2>1, <2>2 DEF Warmup
  <1> QED BY <1>9, <1>10, AgreeDrop DEF Clean

LEMMA AgreeFeature ==
    ASSUME NEW d \in Nat, NEW A, NEW B, Agree(A, B, d), InSession(A) = A, InSession(B) = B
    PROVE  /\ d \in FeatureDays(A) <=> d \in FeatureDays(B)
           /\ d \in FeatureDays(A) => Feature(A, d) = Feature(B, d)
  <1> DEFINE S == Sessions(A) T == Sessions(B)
  <1>1. /\ SessionDates(A) \in SUBSET Nat /\ SessionDates(B) \in SUBSET Nat
        /\ \A e \in Nat : e <= d => (e \in SessionDates(A) <=> e \in SessionDates(B))
        /\ \A e \in Nat : e < d => On(A, e) = On(B, e)
        /\ \A e \in Nat : e <= d => Opening(A, e) = Opening(B, e)
    BY AgreeDays
  <1>2. /\ S \in SUBSET Nat /\ T \in SUBSET Nat
        /\ \A e \in Nat : e <= d => (e \in S <=> e \in T)
    BY <1>1 DEF Sessions
  <1> HIDE DEF S, T
  <1>3. \A e \in Nat : e <= d =>
            /\ {x \in S : x < e} = {x \in T : x < e}
            /\ Position(S, e) = Position(T, e)
            /\ Previous(S, e) = Previous(T, e)
    <2>1. {x \in S : x <= d} = {x \in T : x <= d}
      BY <1>2
    <2> QED BY <1>2, <2>1, AgreePlaces
  <1>4. d <= d
    OBVIOUS
  <1>5. d \in FeatureDays(A) <=> d \in FeatureDays(B)
    BY <1>2, <1>3, <1>4 DEF FeatureDays, S, T
  <1>6. ASSUME d \in FeatureDays(A) PROVE Feature(A, d) = Feature(B, d)
    <2>1. Position(S, d) > 0
      <3>1. Position(S, d) >= MinPriorSessions /\ Position(S, d) \in Nat
        BY <1>2, <1>6, PositionType DEF FeatureDays, S
      <3> QED BY <3>1, FeaturesAssumption
    <2>2. Previous(S, d) \in Nat /\ Previous(S, d) < d /\ Previous(T, d) = Previous(S, d)
      BY <1>2, <1>3, <1>4, <2>1, PreviousType
    <2>3. On(A, Previous(S, d)) = On(B, Previous(T, d))
      BY <1>1, <2>2
    <2>4. \A n : Trailing(S, d, n) = Trailing(T, d, n)
      <3>1. \A e \in S : e < d => Position(S, e) = Position(T, e) /\ e \in T
        BY <1>2, <1>3
      <3>2. \A e \in T : e < d => e \in S
        BY <1>2
      <3>3. Position(S, d) = Position(T, d)
        BY <1>3, <1>4
      <3> QED BY <3>1, <3>2, <3>3 DEF Trailing
    <2>5. \A n : \A e \in Trailing(S, d, n) : e \in Nat /\ e < d /\ e <= d
      BY <1>2 DEF Trailing
    <2>6. [e \in Trailing(S, d, RvolLookback) |-> Volume(Opening(A, e))]
            = [e \in Trailing(T, d, RvolLookback) |-> Volume(Opening(B, e))]
      BY <1>1, <2>4, <2>5
    <2>7. [e \in Trailing(S, d, AdrLookback) |-> DayRange(On(A, e))]
            = [e \in Trailing(T, d, AdrLookback) |-> DayRange(On(B, e))]
      BY <1>1, <2>4, <2>5
    <2>8. Opening(A, d) = Opening(B, d)
      BY <1>1, <1>4
    <2>9. \A C, D : D = Sessions(C) /\ InSession(C) = C =>
            Feature(C, d) =
                [session_date |-> d,
                 or5_vol |-> Volume(Opening(C, d)),
                 rvol_base |-> [e \in Trailing(D, d, RvolLookback) |-> Volume(Opening(C, e))],
                 adr_pct |-> [e \in Trailing(D, d, AdrLookback) |-> DayRange(On(C, e))],
                 gap_pct |-> <<First(Opening(C, d)).open, Last(On(C, Previous(D, d))).close>>,
                 ret_0920 |-> <<Last(Opening(C, d)).close, Last(On(C, Previous(D, d))).close>>]
      BY DEF Feature
    <2> QED BY <2>3, <2>6, <2>7, <2>8, <2>9 DEF S, T
  <1> QED BY <1>5, <1>6

LEMMA FrameLookahead ==
    ASSUME NEW F, NEW G, NEW d \in Nat, Agree(F, G, d)
    PROVE  {r \in FeatureRows(Clean(F)) : r.session_date = d} =
           {r \in FeatureRows(Clean(G)) : r.session_date = d}
  <1>1. \A C : {r \in FeatureRows(C) : r.session_date = d} =
            IF d \in FeatureDays(C) THEN {Feature(C, d)} ELSE {}
    BY DEF FeatureRows, Feature
  <1>2. InSession(Clean(F)) = Clean(F) /\ InSession(Clean(G)) = Clean(G)
    BY CleanDrops, InSessionTwice
  <1>3. CASE Opening(F, d) # {}
    <2>1. Agree(Clean(F), Clean(G), d)
      BY <1>3, AgreeClean
    <2> QED BY <1>1, <1>2, <2>1, AgreeFeature
  <1>4. CASE Opening(F, d) = {}
    <2>1. Opening(G, d) = {}
      BY <1>4, AgreeDays
    <2>2. \A C : d \in FeatureDays(Clean(C)) => Opening(C, d) # {}
      <3> SUFFICES ASSUME NEW C, d \in FeatureDays(Clean(C)) PROVE Opening(C, d) # {}
        OBVIOUS
      <3>1. Opening(Clean(C), d) # {}
        BY DEF FeatureDays, Sessions
      <3>2. Clean(C) \subseteq C
        BY CleanDrops
      <3> QED BY <3>1, <3>2 DEF Opening, On
    <2> QED BY <1>1, <1>4, <2>1, <2>2
  <1> QED BY <1>3, <1>4

\* What is computed for a session, and whether it is kept, follows from what is known at
\* 09:20 of it and how many bars it has, for any history.
THEOREM NoLookaheadHolds == Spec => []NoLookahead
  <1>1. ASSUME TypeInv, NEW s \in Symbols, NEW d \in SessionDates(files[s].bars)
        PROVE  {r \in FeatureRows(Clean(files[s].bars)) : r.session_date = d} =
               {r \in FeatureRows(Clean(Distorted(files[s].bars, d))) : r.session_date = d}
    <2> DEFINE F == files[s].bars
    <2>1. F \in SUBSET Bar
      BY <1>1, FileFrame
    <2> HIDE DEF F
    <2>2. d \in Nat
      BY <2>1 DEF SessionDates, Bar, F
    <2>3. Agree(F, Distorted(F, d), d)
      BY <2>1, <2>2, AgreeDistorted
    <2> QED BY <2>2, <2>3, FrameLookahead DEF F
  <1>2. TypeInv => NoLookahead
    BY <1>1 DEF NoLookahead
  <1> QED BY <1>2, TypeInvariant, PTL

------------------------------------------------------------------------------
(* Deciles. *)

\* The cut is even for every column a session may have, so in every state.
THEOREM DecilesEvenHolds == Spec => []DecilesEven
  <1>1. TypeInv => DecilesEven
    <2>1. \A values \in Columns : Even(values)
      BY ScannerAssumption, DecilesAreEven
    <2> QED BY <2>1 DEF DecilesEven
  <1> QED BY <1>1, TypeInvariant, PTL
------------------------------------------------------------------------------
(* The end of a fetch: files for its universe, and the steps it has left. *)

\* What a run knows of the symbols it has passed, and of its range.
PassedOK ==
    /\ Fetching => /\ run.end = run.start + FetchWindow
                   /\ \A j \in 1..run.i - 1 : files[run.symbols[j]].state # "none"
    /\ run.pc = "done" => \A j \in DOMAIN run.symbols : files[run.symbols[j]].state # "none"

\* A fetch that returns leaves a file for every symbol of its universe.
FetchCompletes ==
    run.pc = "done" => \A j \in DOMAIN run.symbols : files[run.symbols[j]].state # "none"

\* A symbol's visit, its write, and a request for each day of the range at most.
SymbolSteps == FetchWindow + 3

\* The most steps that a run has left to take.
StepsLeft(r) ==
    CASE r.pc = "next" -> (Len(r.symbols) + 1 - r.i) * SymbolSteps + 1
      [] r.pc = "ask" -> (Len(r.symbols) - r.i) * SymbolSteps + (r.end - r.chunk_start) + 3
      [] r.pc = "write" -> (Len(r.symbols) - r.i) * SymbolSteps + 2
      [] r.pc \in {"idle", "done", "failed"} -> 0

\* However the range is cut into chunks and whatever the server answers, a fetch takes at
\* most FETCH_WINDOW + 3 steps for each symbol and one to return.
FetchSteps ==
    [][LET left == StepsLeft(run) IN
       /\ left \in 0..Len(run.symbols) * SymbolSteps + 1
       /\ FetchStep => StepsLeft(run') < left
       /\ Fetching => StepsLeft(run') <= left]_vars

\* A step of a run that goes on: the range and the universe stay, files are only added,
\* and a symbol that is passed has one.
Proceeds ==
    /\ run'.symbols = run.symbols /\ run'.start = run.start /\ run'.end = run.end
    /\ \A s \in Symbols : files[s].state # "none" => files'[s].state # "none"
    /\ run.i <= Len(run.symbols)
    /\ \/ run.pc = "next" /\ run'.pc = "next" /\ run'.i = run.i + 1
       \/ run.pc = "write" /\ run'.pc = "next" /\ run'.i = run.i + 1
       \/ run.pc = "next" /\ run'.pc = "ask" /\ run'.i = run.i /\ run'.chunk_start = run.start
       \/ run.pc = "ask" /\ run'.pc = "ask" /\ run'.i = run.i
            /\ run.chunk_start < run'.chunk_start
       \/ run.pc = "ask" /\ run'.pc = "write" /\ run'.i = run.i
    /\ run'.i = run.i + 1 => files'[Symbol].state # "none"

LEMMA VisitMoves ==
    ASSUME TypeInv, Visit
    PROVE  \/ /\ run.i > Len(run.symbols) /\ files' = files
              /\ run'.pc = "done" /\ run'.symbols = run.symbols
           \/ Proceeds
  <1>1. run \in RunStates /\ run.pc = "next" /\ run.i \in Nat /\ files' = files
    BY RunType DEF TypeInv, TypeOK, Visit
  <1>2. CASE run.i > Len(run.symbols) /\ run' = NoRun("done", run.symbols)
    BY <1>1, <1>2 DEF NoRun
  <1>3. CASE /\ run.i <= Len(run.symbols)
             /\ files[Symbol].state # "none"
             /\ run' = [run EXCEPT !.i = run.i + 1]
    <2>1. /\ run'.pc = run.pc /\ run'.symbols = run.symbols
          /\ run'.start = run.start /\ run'.end = run.end
      BY Zenon, <1>1, <1>3 DEF RunStates
    <2>2. run'.i = run.i + 1
      BY Zenon, <1>1, <1>3 DEF RunStates
    <2> QED BY <1>1, <1>3, <2>1, <2>2 DEF Proceeds
  <1>4. CASE /\ run.i <= Len(run.symbols)
             /\ run' = [run EXCEPT !.pc = "ask", !.chunk_start = run.start, !.candles = {}]
    <2>1. /\ run'.i = run.i /\ run'.symbols = run.symbols
          /\ run'.start = run.start /\ run'.end = run.end
      BY Zenon, <1>1, <1>4 DEF RunStates
    <2>2. run'.pc = "ask" /\ run'.chunk_start = run.start
      BY Zenon, <1>1, <1>4 DEF RunStates
    <2> QED BY <1>1, <1>4, <2>1, <2>2 DEF Proceeds
  <1> QED BY <1>2, <1>3, <1>4 DEF Visit

LEMMA AnswerMoves ==
    ASSUME TypeInv, Answer
    PROVE  Proceeds
  <1>1. /\ run \in RunStates /\ run.pc = "ask" /\ run.i \in Nat /\ run.end \in Nat
        /\ run.chunk_start \in Nat /\ run.chunk_start <= run.end
        /\ run.i <= Len(run.symbols) /\ Symbol \in Symbols
    BY RunType, SymbolType DEF TypeInv, TypeOK, RunOK, Answer, Fetching
  <1> DEFINE last == ChunkEnd(run.chunk_start, run.end)
  <1>2. last \in Nat /\ run.chunk_start <= last
    BY <1>1, ChunkEndType
  <1> HIDE DEF last
  <1>3. PICK candles :
            \/ /\ run' = [run EXCEPT !.chunk_start = last + 1, !.candles = candles]
               /\ UNCHANGED files
            \/ /\ run' = [run EXCEPT !.pc = "write", !.candles = candles]
               /\ files' = [files EXCEPT ![Symbol] = Torn]
    BY DEF Answer, last
  <1>4. CASE /\ run' = [run EXCEPT !.chunk_start = last + 1, !.candles = candles]
             /\ UNCHANGED files
    <2>1. /\ run'.pc = run.pc /\ run'.i = run.i /\ run'.symbols = run.symbols
          /\ run'.start = run.start /\ run'.end = run.end
      BY Zenon, <1>1, <1>4 DEF RunStates
    <2>2. run'.chunk_start = last + 1
      BY Zenon, <1>1, <1>4 DEF RunStates
    <2>3. run.chunk_start < run'.chunk_start
      BY <1>1, <1>2, <2>2
    <2> QED BY <1>1, <1>4, <2>1, <2>3 DEF Proceeds
  <1>5. CASE /\ run' = [run EXCEPT !.pc = "write", !.candles = candles]
             /\ files' = [files EXCEPT ![Symbol] = Torn]
    <2>1. /\ run'.i = run.i /\ run'.symbols = run.symbols
          /\ run'.start = run.start /\ run'.end = run.end
      BY Zenon, <1>1, <1>5 DEF RunStates
    <2>2. run'.pc = "write"
      BY Zenon, <1>1, <1>5 DEF RunStates
    <2>3. \A s \in Symbols : files[s].state # "none" => files'[s].state # "none"
      BY <1>5 DEF TypeInv, TypeOK, Torn
    <2> QED BY <1>1, <2>1, <2>2, <2>3 DEF Proceeds
  <1> QED BY <1>3, <1>4, <1>5

LEMMA WrittenMoves ==
    ASSUME TypeInv, Written
    PROVE  Proceeds
  <1>1. /\ run \in RunStates /\ run.pc = "write" /\ run.i \in Nat
        /\ run.i <= Len(run.symbols) /\ Symbol \in Symbols
        /\ files \in [Symbols -> FileStates]
    BY RunType, SymbolType DEF TypeInv, TypeOK, Written, Fetching
  <1>2. run' = [run EXCEPT !.pc = "next", !.i = run.i + 1, !.candles = {}]
    BY DEF Written
  <1>3. /\ run'.symbols = run.symbols
        /\ run'.start = run.start /\ run'.end = run.end
    BY Zenon, <1>1, <1>2 DEF RunStates
  <1>4. run'.pc = "next" /\ run'.i = run.i + 1
    BY Zenon, <1>1, <1>2 DEF RunStates
  <1>5. /\ files'[Symbol].state = "whole"
        /\ \A s \in Symbols \ {Symbol} : files'[s] = files[s]
    BY <1>1 DEF Written
  <1> QED BY <1>1, <1>3, <1>4, <1>5 DEF Proceeds

LEMMA PassedProceeds ==
    ASSUME TypeInv, TypeInv', PassedOK, Proceeds
    PROVE  PassedOK'
  <1>1. /\ run.i \in Nat /\ run.symbols \in Seq(Symbols) /\ Len(run.symbols) \in Nat
        /\ run'.i \in {run.i, run.i + 1} /\ run.i <= Len(run.symbols)
        /\ Fetching
    BY RunType DEF TypeInv, Proceeds, Fetching
  <1>2. ASSUME NEW j \in 1..run'.i - 1
        PROVE  files'[run'.symbols[j]].state # "none"
    <2>1. j \in 1..run.i - 1 \/ (j = run.i /\ run'.i = run.i + 1)
      BY <1>1, <1>2
    <2>2. CASE j \in 1..run.i - 1
      <3>1. run.symbols[j] \in Symbols
        BY <1>1, <2>2
      <3>2. files[run.symbols[j]].state # "none"
        BY <1>1, <2>2 DEF PassedOK
      <3> QED BY <3>1, <3>2 DEF Proceeds
    <2>3. CASE j = run.i /\ run'.i = run.i + 1
      BY <2>3 DEF Proceeds, Symbol
    <2> QED BY <2>1, <2>2, <2>3
  <1>3. run'.end = run'.start + FetchWindow
    BY <1>1 DEF PassedOK, Proceeds
  <1>4. run'.pc # "done"
    BY DEF Proceeds
  <1> QED BY <1>2, <1>3, <1>4 DEF PassedOK

LEMMA PassedNext == TypeInv /\ TypeInv' /\ PassedOK /\ [Next]_vars => PassedOK'
  <1> SUFFICES ASSUME TypeInv, TypeInv', PassedOK, [Next]_vars PROVE PassedOK'
    OBVIOUS
  <1>1. CASE StartFetch
    <2>1. PICK universe \in Universes :
              run' = [pc |-> "next", symbols |-> universe, i |-> 1,
                      start |-> today - FetchWindow, end |-> today,
                      chunk_start |-> 0, candles |-> {}]
      BY <1>1 DEF StartFetch
    <2>2. /\ run'.pc = "next" /\ run'.i = 1
          /\ run'.start = today - FetchWindow /\ run'.end = today
      BY <2>1
    <2>3. today \in Nat /\ FetchWindow \in Nat
      BY RunType, ScannerAssumption DEF TypeInv
    <2> QED BY <2>2, <2>3 DEF PassedOK
  <1>2. CASE Visit
    <2>1. CASE /\ run.i > Len(run.symbols) /\ files' = files
               /\ run'.pc = "done" /\ run'.symbols = run.symbols
      <3>1. \A j \in DOMAIN run.symbols : j \in 1..run.i - 1
        BY <2>1, RunType DEF TypeInv
      <3>2. Fetching
        BY <1>2 DEF Visit, Fetching
      <3> QED BY <2>1, <3>1, <3>2 DEF PassedOK, Fetching
    <2>2. CASE Proceeds
      BY <2>2, PassedProceeds
    <2> QED BY <1>2, <2>1, <2>2, VisitMoves
  <1>3. CASE Answer
    BY <1>3, AnswerMoves, PassedProceeds
  <1>4. CASE Written
    BY <1>4, WrittenMoves, PassedProceeds
  <1>5. CASE Stops \/ Interrupted
    <2>1. run'.pc = "failed"
      BY <1>5 DEF Stops, Interrupted, NoRun
    <2> QED BY <2>1 DEF PassedOK, Fetching
  <1>6. CASE Build \/ NextDay \/ UNCHANGED vars
    <2>1. run' = run /\ files' = files
      BY <1>6 DEF Build, NextDay, vars
    <2> QED BY <2>1 DEF PassedOK, Fetching
  <1> QED BY <1>1, <1>2, <1>3, <1>4, <1>5, <1>6 DEF Next, FetchStep

LEMMA PassedHolds == Spec => [](TypeInv /\ PassedOK)
  <1>1. Init => PassedOK
    <2>1. NoRun("idle", <<>>).pc = "idle"
      BY DEF NoRun
    <2> QED BY <2>1 DEF Init, PassedOK, Fetching
  <1> QED BY <1>1, TypeInit, TypeNext, PassedNext, PTL DEF Spec

\* A fetch that returns leaves a file for every symbol of its universe, whatever it skips
\* and whatever was left by the runs before it: the safety half of FetchEnds.
THEOREM FetchCompletesHolds == Spec => []FetchCompletes
  <1>1. PassedOK => FetchCompletes
    BY DEF PassedOK, FetchCompletes
  <1> QED BY <1>1, PassedHolds, PTL

LEMMA Multiple ==
    ASSUME NEW n \in Int, NEW p \in Nat, n <= p, 0 <= n, NEW k \in Nat
    PROVE  n * k \in Nat /\ p * k \in Nat /\ n * k <= p * k
  OBVIOUS

\* What the symbols from the next one on may take.
LEMMA OneLess ==
    ASSUME NEW n \in Nat, NEW i \in Nat, i <= n
    PROVE  /\ SymbolSteps \in Nat /\ FetchWindow \in Nat
           /\ (n - i) * SymbolSteps \in Nat
           /\ (n + 1 - i) * SymbolSteps = (n - i) * SymbolSteps + FetchWindow + 3
           /\ (n + 1 - (i + 1)) * SymbolSteps = (n - i) * SymbolSteps
           /\ i >= 1 => (n - i) * SymbolSteps + FetchWindow + 3 <= n * SymbolSteps
           /\ n * SymbolSteps \in Nat
  <1>1. FetchWindow \in Nat
    BY ScannerAssumption
  <1> DEFINE k == SymbolSteps
             m == n - i
  <1>2. k \in Nat /\ k = FetchWindow + 3
    BY <1>1 DEF SymbolSteps
  <1>3. m \in Nat /\ n + 1 - i = m + 1 /\ n + 1 - (i + 1) = m
    OBVIOUS
  <1> HIDE DEF k, m
  <1>4. m * k \in Nat /\ n * k \in Nat
    BY <1>2, <1>3, Multiple
  <1>5. (m + 1) * k = m * k + k
    BY <1>2, <1>3
  <1>6. ASSUME i >= 1 PROVE m * k + k <= n * k
    <2>1. m + 1 <= n /\ m + 1 \in Nat
      BY <1>3, <1>6 DEF m
    <2>2. (m + 1) * k <= n * k
      BY <1>2, <2>1, Multiple
    <2> QED BY <1>5, <2>2
  <1> QED BY <1>1, <1>2, <1>3, <1>4, <1>5, <1>6 DEF k, m

\* What a run knows of its place, as TypeInv and PassedOK have it.
Placed(r) ==
    /\ r.pc \in {"next", "ask", "write"} =>
            r.i \in 1..Len(r.symbols) + 1 /\ r.end = r.start + FetchWindow
    /\ r.pc \in {"ask", "write"} => r.i <= Len(r.symbols)
    /\ r.pc = "ask" => r.start <= r.chunk_start /\ r.chunk_start <= r.end

LEMMA StepsLeftBound ==
    ASSUME NEW r \in RunStates, Placed(r)
    PROVE  /\ StepsLeft(r) \in 0..Len(r.symbols) * SymbolSteps + 1
           /\ StepsLeft(r) \in Int
           /\ r.pc \in {"next", "ask", "write"} => StepsLeft(r) > 0
           /\ r.pc \notin {"next", "ask", "write"} => StepsLeft(r) = 0
  <1> DEFINE n == Len(r.symbols)
             all == n * SymbolSteps
             rest == (n - r.i) * SymbolSteps
  <1>1. /\ r.i \in Nat /\ n \in Nat /\ FetchWindow \in Nat /\ SymbolSteps \in Nat
        /\ r.end \in Nat /\ r.start \in Nat /\ r.chunk_start \in Nat
    BY ScannerAssumption DEF RunStates, SymbolSteps
  <1>2. all \in Nat
    BY <1>1, Multiple
  <1>3. r.i <= n =>
            /\ rest \in Nat
            /\ (n + 1 - r.i) * SymbolSteps = rest + FetchWindow + 3
            /\ r.i >= 1 => rest + FetchWindow + 3 <= all
    BY <1>1, OneLess
  <1>4. CASE r.pc = "next" /\ r.i <= n
    <2>1. StepsLeft(r) = rest + FetchWindow + 4
      BY <1>1, <1>3, <1>4 DEF StepsLeft
    <2>2. r.i >= 1
      BY <1>1, <1>4 DEF Placed
    <2> HIDE DEF n, rest, all
    <2>3. StepsLeft(r) \in 0..all + 1 /\ StepsLeft(r) > 0
      BY <1>1, <1>2, <1>3, <1>4, <2>1, <2>2
    <2> QED BY <1>4, <2>3 DEF all, n
  <1>5. CASE r.pc = "next" /\ r.i > n
    <2>1. n + 1 - r.i = 0
      BY <1>1, <1>5 DEF Placed
    <2>2. StepsLeft(r) = 0 * SymbolSteps + 1
      BY <1>5, <2>1 DEF StepsLeft
    <2>3. 0 * SymbolSteps = 0
      BY <1>1
    <2> QED BY <1>2, <1>5, <2>2, <2>3
  <1>6. CASE r.pc = "ask"
    <2>1. StepsLeft(r) = rest + (r.end - r.chunk_start) + 3
      BY <1>6 DEF StepsLeft
    <2>2. r.end - r.chunk_start \in 0..FetchWindow /\ r.i <= n /\ r.i >= 1
      BY <1>1, <1>6 DEF Placed
    <2> HIDE DEF n, rest, all
    <2>3. StepsLeft(r) \in 0..all + 1 /\ StepsLeft(r) > 0
      BY <1>1, <1>2, <1>3, <1>6, <2>1, <2>2
    <2> QED BY <1>6, <2>3 DEF all, n
  <1>7. CASE r.pc = "write"
    <2>1. StepsLeft(r) = rest + 2
      BY <1>7 DEF StepsLeft
    <2>2. r.i <= n /\ r.i >= 1
      BY <1>1, <1>7 DEF Placed
    <2> HIDE DEF n, rest, all
    <2>3. StepsLeft(r) \in 0..all + 1 /\ StepsLeft(r) > 0
      BY <1>1, <1>2, <1>3, <1>7, <2>1, <2>2
    <2> QED BY <1>7, <2>3 DEF all, n
  <1>8. CASE r.pc \in {"idle", "done", "failed"}
    <2>1. StepsLeft(r) = 0
      BY <1>8 DEF StepsLeft
    <2> QED BY <1>2, <1>8, <2>1
  <1>9. r.pc \in {"idle", "next", "ask", "write", "done", "failed"}
    BY DEF RunStates
  <1>10. r.pc = "next" => r.i <= n \/ r.i > n
    BY <1>1
  <1> QED BY <1>4, <1>5, <1>6, <1>7, <1>8, <1>9, <1>10

LEMMA ProceedsIsLess ==
    ASSUME TypeInv, TypeInv', PassedOK, Proceeds
    PROVE  StepsLeft(run') < StepsLeft(run)
  <1> DEFINE n == Len(run.symbols)
             rest == (n - run.i) * SymbolSteps
  <1>1. /\ run.i \in Nat /\ n \in Nat /\ run.i <= n
        /\ run.end \in Nat /\ run.start \in Nat /\ run.chunk_start \in Nat
        /\ run'.chunk_start \in Nat
        /\ run.end = run.start + FetchWindow
        /\ run.pc = "ask" => run.chunk_start <= run.end
        /\ run'.pc = "ask" => run'.chunk_start <= run.end
    BY RunType DEF TypeInv, TypeOK, RunStates, RunOK, PassedOK, Proceeds, Fetching
  <1>2. /\ rest \in Nat /\ FetchWindow \in Nat
        /\ (n + 1 - run.i) * SymbolSteps = rest + FetchWindow + 3
        /\ (n + 1 - (run.i + 1)) * SymbolSteps = rest
    BY <1>1, OneLess
  <1>3. /\ run'.symbols = run.symbols /\ run'.end = run.end
        /\ run'.i = run.i + 1 => StepsLeft(run') = rest + 1
    BY <1>2 DEF Proceeds, StepsLeft
  <1>4. /\ run.pc = "next" => StepsLeft(run) = rest + FetchWindow + 4
        /\ run.pc = "ask" => StepsLeft(run) = rest + (run.end - run.chunk_start) + 3
        /\ run.pc = "write" => StepsLeft(run) = rest + 2
    <2>1. run.pc = "next" => StepsLeft(run) = (n + 1 - run.i) * SymbolSteps + 1
      BY DEF StepsLeft
    <2>2. /\ run.pc = "ask" => StepsLeft(run) = rest + (run.end - run.chunk_start) + 3
          /\ run.pc = "write" => StepsLeft(run) = rest + 2
      BY DEF StepsLeft
    <2> HIDE DEF n, rest
    <2> QED BY <1>2, <2>1, <2>2
  <1>5. run'.i = run.i =>
            /\ run'.pc = "ask" => StepsLeft(run') = rest + (run.end - run'.chunk_start) + 3
            /\ run'.pc = "write" => StepsLeft(run') = rest + 2
    BY <1>3 DEF StepsLeft
  <1> DEFINE left == StepsLeft(run)
             after == StepsLeft(run')
  <1>6. \/ left = rest + FetchWindow + 4 /\ after = rest + 1
        \/ left = rest + 2 /\ after = rest + 1
        \/ left = rest + FetchWindow + 4 /\ after = rest + (run.end - run.start) + 3
        \/ /\ left = rest + (run.end - run.chunk_start) + 3
           /\ after = rest + (run.end - run'.chunk_start) + 3
           /\ run.chunk_start < run'.chunk_start
        \/ /\ left = rest + (run.end - run.chunk_start) + 3
           /\ run.chunk_start <= run.end
           /\ after = rest + 2
    <2> HIDE DEF n, rest, left, after
    <2> QED BY <1>1, <1>3, <1>4, <1>5 DEF Proceeds, left, after
  <1> HIDE DEF n, rest, left, after
  <1>7. after < left
    BY <1>1, <1>2, <1>6
  <1> QED BY <1>7 DEF left, after

\* A fetch takes at most FETCH_WINDOW + 3 steps for each symbol of the universe and one to
\* return, for any size of a chunk: with FetchCompletes all of FetchEnds but that the steps
\* happen.
THEOREM FetchStepsHold == Spec => FetchSteps
  <1>1. ASSUME TypeInv, PassedOK, TypeInv', PassedOK', [Next]_vars
        PROVE  LET left == StepsLeft(run) IN
               /\ left \in 0..Len(run.symbols) * SymbolSteps + 1
               /\ FetchStep => StepsLeft(run') < left
               /\ Fetching => StepsLeft(run') <= left
    <2>1. run \in RunStates /\ Placed(run) /\ run' \in RunStates /\ Placed(run')
      BY <1>1 DEF TypeInv, TypeOK, RunOK, PassedOK, Placed, Fetching
    <2>2. /\ StepsLeft(run) \in 0..Len(run.symbols) * SymbolSteps + 1
          /\ StepsLeft(run) \in Int /\ StepsLeft(run') \in Int
          /\ Fetching => StepsLeft(run) > 0
          /\ run'.pc \in {"done", "failed"} => StepsLeft(run') = 0
      BY <2>1, StepsLeftBound DEF Fetching
    <2>3. ASSUME FetchStep PROVE StepsLeft(run') < StepsLeft(run)
      <3>1. Fetching
        BY <2>3 DEF FetchStep, Visit, Answer, Written, Stops, Interrupted, Fetching
      <3>2. CASE Proceeds
        BY <1>1, <3>2, ProceedsIsLess
      <3>3. CASE run'.pc \in {"done", "failed"}
        BY <2>2, <3>1, <3>3
      <3>4. Proceeds \/ run'.pc \in {"done", "failed"}
        <4>1. Stops \/ Interrupted => run'.pc = "failed"
          BY DEF Stops, Interrupted, NoRun
        <4> QED BY <1>1, <2>3, <4>1, VisitMoves, AnswerMoves, WrittenMoves DEF FetchStep
      <3> QED BY <3>2, <3>3, <3>4
    <2>4. ASSUME Fetching, ~FetchStep PROVE run' = run
      BY <1>1, <2>4 DEF Next, StartFetch, Build, NextDay, vars
    <2> QED BY <2>2, <2>3, <2>4
  <1> QED BY <1>1, PassedHolds, PTL DEF Spec, FetchSteps
==============================================================================
