------------------------------- MODULE Scanner -------------------------------
(***************************************************************************)
(* The scanner's commands, run one at a time: `fetch` downloads the bars   *)
(* of each symbol of the universe, chunk by chunk, to a file of its own    *)
(* and skips symbols whose file exists; `build` computes the features file *)
(* from all of them.  A command may fail or be killed and is started again *)
(* later, perhaps on another day and for another universe; `analyze`       *)
(* changes nothing.                                                        *)
(*                                                                         *)
(* A run's pc names where it can be interrupted:                           *)
(*   next     the head of fetch_universe's loop                            *)
(*   ask      the await of historical_data                                 *)
(*   write    inside to_parquet                                            *)
(* done and failed are a run that returned and one that did not.           *)
(*                                                                         *)
(* The exchange's history is chosen at the start and does not change; of   *)
(* the current day it gives what there is so far.                          *)
(***************************************************************************)
EXTENDS Features

CONSTANTS
    Symbols,
    Universes,          \* what universe_symbols.txt may list: sequences of symbols
    Markets,            \* histories: [Symbols -> sets of bars]
    FirstDay, LastDay,  \* of the model: the days on which commands are run
    FetchWindow,
    MaxDaysPerRequest,
    Clock,              \* times of day at which a request may be answered
    Columns             \* what the ranked column of a session's rows may be

ASSUME ScannerAssumption ==
    /\ Universes \subseteq Seq(Symbols)
    /\ Markets \subseteq [Symbols -> SUBSET Bar]
    /\ \A m \in Markets, s \in Symbols : \A b, c \in m[s] :
            b.day = c.day /\ b.at = c.at => b = c
    /\ FirstDay \in Nat /\ LastDay \in Nat /\ FirstDay <= LastDay
    /\ FetchWindow \in 0..FirstDay
    /\ MaxDaysPerRequest \in Nat \ {0}
    /\ Clock \subseteq Nat
    /\ Columns \subseteq Seq(Int)

VARIABLES
    market,     \* [Symbols -> SUBSET Bar]
    today,
    run,        \* the fetch that runs, or the last one
    files,      \* data/raw/<symbol>.parquet
    table       \* data/features.parquet; not whole if it is missing or torn

vars == <<market, today, run, files, table>>

Fetching == run.pc \in {"next", "ask", "write"}

RunStates ==
    [pc: {"idle", "next", "ask", "write", "done", "failed"},
     symbols: Seq(Symbols),
     i: Nat,                    \* position in symbols
     start: Nat, end: Nat,
     chunk_start: Nat,
     candles: SUBSET Bar]       \* of the chunks answered so far

\* A file that a write was interrupted in is torn.
FileStates ==
    [state: {"none", "torn", "whole"}, start: Nat, end: Nat, bars: SUBSET Bar]

NoFile == [state |-> "none", start |-> 0, end |-> 0, bars |-> {}]
Torn == [state |-> "torn", start |-> 0, end |-> 0, bars |-> {}]

\* No fetch runs; the last one was for the symbols.
NoRun(pc, symbols) ==
    [pc |-> pc, symbols |-> symbols, i |-> 1, start |-> 0, end |-> 0, chunk_start |-> 0,
     candles |-> {}]

Init ==
    /\ market \in Markets
    /\ today = FirstDay
    /\ run = NoRun("idle", <<>>)
    /\ files = [s \in Symbols |-> NoFile]
    /\ table = [whole |-> FALSE, rows |-> [s \in Symbols |-> {}]]

Symbol == run.symbols[run.i]

----------------------------------------------------------------------------

\* run_fetch, up to fetch_universe.
StartFetch ==
    /\ ~Fetching
    /\ \E universe \in Universes :
        run' = [pc |-> "next", symbols |-> universe, i |-> 1,
                start |-> today - FetchWindow, end |-> today,
                chunk_start |-> 0, candles |-> {}]
    /\ UNCHANGED <<market, today, files, table>>

\* Mutated form: fetches a symbol although its file exists.
VisitAgain ==
    /\ run.pc = "next"
    /\ run' = IF run.i > Len(run.symbols) THEN NoRun("done", run.symbols)
              ELSE [run EXCEPT !.pc = "ask", !.chunk_start = run.start, !.candles = {}]
    /\ UNCHANGED <<market, today, files, table>>

\* The loop's head: it returns, skips a symbol or begins to fetch it.
Visit ==
    /\ run.pc = "next"
    /\ \/ /\ run.i > Len(run.symbols)
          /\ run' = NoRun("done", run.symbols)
       \/ /\ run.i <= Len(run.symbols)
          /\ files[Symbol].state # "none"
          /\ run' = [run EXCEPT !.i = run.i + 1]
       \/ /\ run.i <= Len(run.symbols)
          /\ files[Symbol].state = "none"
          /\ run' = [run EXCEPT !.pc = "ask", !.chunk_start = run.start, !.candles = {}]
    /\ UNCHANGED <<market, today, files, table>>

ChunkEnd(chunk_start, end) ==
    IF chunk_start + MaxDaysPerRequest - 1 < end
    THEN chunk_start + MaxDaysPerRequest - 1
    ELSE end

\* Mutated form: up to the last day, not through it.
CandlesBefore(bars, first, last, now) ==
    {b \in bars : /\ b.day > first \/ (b.day = first /\ b.at >= SessionStart)
                  /\ b.day < last \/ (b.day = last /\ b.at <= SessionStart)
                  /\ b.day < today \/ (b.day = today /\ b.at <= now)}

\* The bars from SESSION_START of day first to SESSION_END of day last that there are at
\* time now of today.
Candles(bars, first, last, now) ==
    {b \in bars : /\ b.day > first \/ (b.day = first /\ b.at >= SessionStart)
                  /\ b.day < last \/ (b.day = last /\ b.at <= SessionEnd)
                  /\ b.day < today \/ (b.day = today /\ b.at <= now)}

\* The answer to a chunk's request.  After the last chunk's the file is opened.
Answer ==
    /\ run.pc = "ask"
    /\ \E now \in Clock :
        LET last == ChunkEnd(run.chunk_start, run.end)
            candles == run.candles \cup Candles(market[Symbol], run.chunk_start, last, now)
        IN  \/ /\ last < run.end
               /\ run' = [run EXCEPT !.chunk_start = last + 1, !.candles = candles]
               /\ UNCHANGED files
            \/ /\ last >= run.end
               /\ run' = [run EXCEPT !.pc = "write", !.candles = candles]
               /\ files' = [files EXCEPT ![Symbol] = Torn]
    /\ UNCHANGED <<market, today, table>>

\* Mutated form: goes on to the next symbol without its loop's head.
WrittenAgain ==
    /\ run.pc = "write"
    /\ files' = [files EXCEPT ![Symbol] =
                    [state |-> "whole", start |-> run.start, end |-> run.end,
                     bars |-> run.candles]]
    /\ run' = [run EXCEPT !.i = run.i + 1, !.candles = {}]
    /\ UNCHANGED <<market, today, table>>

Written ==
    /\ run.pc = "write"
    /\ files' = [files EXCEPT ![Symbol] =
                    [state |-> "whole", start |-> run.start, end |-> run.end,
                     bars |-> run.candles]]
    /\ run' = [run EXCEPT !.pc = "next", !.i = run.i + 1, !.candles = {}]
    /\ UNCHANGED <<market, today, table>>

\* Mutated form: an error of one symbol is passed over.
StopsOne ==
    /\ run.pc \in {"next", "ask"}
    /\ run.i <= Len(run.symbols)
    /\ run' = [run EXCEPT !.pc = "next", !.i = run.i + 1, !.candles = {}]
    /\ UNCHANGED <<market, today, files, table>>

\* The run is killed, or a request or a malformed candle raises.
Stops ==
    /\ run.pc \in {"next", "ask"}
    /\ run' = NoRun("failed", <<>>)
    /\ UNCHANGED <<market, today, files, table>>

\* The same inside to_parquet, which removes the file if it raises.
Interrupted ==
    /\ run.pc = "write"
    /\ run' = NoRun("failed", <<>>)
    /\ files' \in {files, [files EXCEPT ![Symbol] = NoFile]}
    /\ UNCHANGED <<market, today, table>>

\* run_build, which reads every file there is and writes nothing if anything raises.
Stored == {s \in Symbols : files[s].state # "none"}

Build ==
    /\ ~Fetching
    /\ Stored # {}
    /\ \A s \in Stored : /\ files[s].state = "whole"
                         /\ Buildable(Clean(files[s].bars))
    /\ table' \in
        {[whole |-> TRUE,
          rows |-> [s \in Symbols |->
                        IF s \in Stored THEN MetricRows(Clean(files[s].bars)) ELSE {}]],
         [whole |-> FALSE, rows |-> [s \in Symbols |-> {}]]}
    /\ UNCHANGED <<market, today, run, files>>

NextDay ==
    /\ today < LastDay
    /\ today' = today + 1
    /\ UNCHANGED <<market, run, files, table>>

FetchStep == Visit \/ Answer \/ Written \/ Stops \/ Interrupted

Next == StartFetch \/ FetchStep \/ Build \/ NextDay

Spec == Init /\ [][Next]_vars

\* Requests are answered or fail, and writes end.
FairSpec == Spec /\ WF_vars(FetchStep)

----------------------------------------------------------------------------
(* Properties. *)

TypeOK ==
    /\ market \in [Symbols -> SUBSET Bar]
    /\ today \in FirstDay..LastDay
    /\ run \in RunStates
    /\ Fetching => run.i \in 1..Len(run.symbols) + 1
    /\ run.pc \in {"ask", "write"} => run.i <= Len(run.symbols)
    /\ files \in [Symbols -> FileStates]
    /\ table.whole \in BOOLEAN
    /\ DOMAIN table.rows = Symbols

Whole(s) == files[s].state = "whole"

\* Bars that are all those of a symbol's sessions on the days start..end, but for the last
\* day, of which they are those up to some time.
Cover(bars, s, start, end) ==
    LET traded == {b \in InSession(market[s]) : start <= b.day /\ b.day <= end}
    IN  /\ InSession(bars) \subseteq traded
        /\ \A b \in traded : b.day < end => b \in bars
        /\ \A b \in traded, c \in InSession(bars) :
                b.day = end /\ c.day = end /\ b.at <= c.at => b \in bars

\* However its range was cut into chunks and however often the command was started, a
\* file holds every bar of the days it was fetched for, except of the day of the run.
FilesCover ==
    \A s \in Symbols : Whole(s) => Cover(files[s].bars, s, files[s].start, files[s].end)

\* What analyze reads was computed from the files as they are now: no run changes a file
\* that a build has read.
TableFromFiles ==
    table.whole => \A s \in Symbols : table.rows[s] # {} =>
        Whole(s) /\ table.rows[s] = MetricRows(Clean(files[s].bars))

\* What is known of day d at 09:20, and a frame that has other prices and volumes after.
Known(frame, d) ==
    {b \in frame : b.day < d \/ (b.day = d /\ b.at < OpenWindowEnd)}

Distorted(frame, d) ==
    Known(frame, d) \cup
    {[day |-> d, at |-> b.at, open |-> 1, high |-> b.high + 1000, low |-> 1,
      close |-> b.high + 1000, volume |-> b.volume + 1000] :
        b \in On(frame, d) \ Known(frame, d)}

\* The features of a session are computed, and the session is kept, quarantined or passed
\* over, from what is known at 09:20; all that counts of the rest is that there are enough
\* bars.
NoLookahead ==
    \A s \in Symbols : Whole(s) => \A d \in SessionDates(files[s].bars) :
        LET rows == FeatureRows(Clean(files[s].bars))
            others == FeatureRows(Clean(Distorted(files[s].bars, d)))
        IN  {r \in rows : r.session_date = d} = {r \in others : r.session_date = d}

\* The outcome of a session is settled at EVAL_END: what trades later does not change it.
OutcomeSettled ==
    \A s \in Symbols : Whole(s) =>
        LET frame == Clean(files[s].bars)
        IN  \A d \in FeatureDays(frame) :
                Outcome(frame, d) =
                Outcome({b \in frame : b.day < d \/ (b.day = d /\ b.at <= EvalEnd)}, d)

\* The gap a row reports is one the gap rule has judged, or sessions that were left out lie
\* between the two prices.
GapsJudged ==
    \A s \in Symbols : Whole(s) =>
        LET judged == Judged(files[s].bars)
            frame == Clean(files[s].bars)
        IN  \A d \in FeatureDays(frame) :
                Previous(Sessions(frame), d) = Previous(SessionDates(judged), d) =>
                    LET gap == Feature(frame, d).gap_pct IN ~Gap(gap[1], gap[2])

\* The rows of a session fill the deciles evenly, whatever their values and however many tie.
\* The state has no part in it: it is enough to look before the first run.
DecilesEven ==
    run.pc = "idle" /\ today = FirstDay => \A values \in Columns : Even(values)

\* No row of the features file reports a move that the gap rule takes for a split.
NoSplitMoves ==
    table.whole => \A s \in Symbols : \A row \in table.rows[s] :
        ~Gap(row.feature.gap_pct[1], row.feature.gap_pct[2])

\* A fetch ends, and one that does not fail leaves a file for every symbol of its universe.
FetchEnds ==
    Fetching ~>
        \/ run.pc = "failed"
        \/ run.pc = "done" /\ \A i \in DOMAIN run.symbols : files[run.symbols[i]].state # "none"

=============================================================================
