------------------------------ MODULE Features ------------------------------
(***************************************************************************)
(* What the scanner computes from the bars of one symbol: the cleaning     *)
(* rules, the features known at 09:20, the outcomes measured after it, and *)
(* the deciles of the final table.  The code does it for all symbols at    *)
(* once, grouped by symbol.                                                *)
(*                                                                         *)
(* A frame is a set of bars with different timestamps; a bar has the day   *)
(* and the time of day it is stamped with.  A ratio is the pair of what is *)
(* divided, and a trailing mean the function of the sessions it is taken   *)
(* over: neither is carried out.                                           *)
(***************************************************************************)
EXTENDS Integers, Sequences, FiniteSets, FiniteSetsExt

CONSTANTS
    SessionStart, SessionEnd,   \* times of day
    OpenWindowEnd,
    EvalStart, EvalEnd,
    MinBarsPerDay,
    SplitGapPercent,            \* SPLIT_GAP_THRESHOLD
    SplitQuarantineSessions,
    WarmupSessions,
    RvolLookback, AdrLookback,
    MinPriorSessions,
    Deciles

ASSUME FeaturesAssumption ==
    /\ \A t \in {SessionStart, SessionEnd, OpenWindowEnd, EvalStart, EvalEnd} : t \in Nat
    /\ OpenWindowEnd <= SessionEnd /\ OpenWindowEnd <= EvalEnd
    /\ \A n \in {MinBarsPerDay, SplitGapPercent, SplitQuarantineSessions, WarmupSessions,
                 RvolLookback, AdrLookback} : n \in Nat
    /\ MinPriorSessions \in Nat \ {0}
    /\ Deciles \in Nat \ {0}

Bar == [day: Nat, at: Nat, open: Nat, high: Nat, low: Nat, close: Nat, volume: Nat]

Times(bars) == {b.at : b \in bars}
First(bars) == CHOOSE b \in bars : \A c \in bars : b.at <= c.at
Last(bars) == CHOOSE b \in bars : \A c \in bars : c.at <= b.at
Highest(bars) == Max({b.high : b \in bars})
Lowest(bars) == Min({b.low : b \in bars})
Value(bars) == MapThenSumSet(LAMBDA b : (b.high + b.low + b.close) * b.volume, bars)
Volume(bars) == MapThenSumSet(LAMBDA b : b.volume, bars)

SessionDates(frame) == {b.day : b \in frame}
On(frame, d) == {b \in frame : b.day = d}
Drop(frame, days) == {b \in frame : b.day \notin days}

\* The place of session d among the sessions days, from 0, and the one before it.
Position(days, d) == Cardinality({e \in days : e < d})
Latest(days) == CHOOSE e \in days : \A x \in days : x <= e
Previous(days, d) == Latest({e \in days : e < d})

----------------------------------------------------------------------------
(* clean.py *)

InSession(frame) == {b \in frame : SessionStart <= b.at /\ b.at < SessionEnd}

ShortDays(frame) ==
    {d \in SessionDates(frame) : Cardinality(Times(On(frame, d))) < MinBarsPerDay}

\* Whether the move from one price to the other is past the threshold.
Gap(open, close) ==
    \/ 100 * (open - close) > SplitGapPercent * close
    \/ 100 * (close - open) > SplitGapPercent * close

SplitSessions(frame) ==
    LET days == SessionDates(frame)
    IN  {d \in days :
            /\ Position(days, d) > 0
            /\ Gap(First(On(frame, d)).open, Last(On(frame, Previous(days, d))).close)}

\* Mutated form: the quarantine behind a split, without its session.
SessionsBehindSplit(frame) ==
    LET days == SessionDates(frame)
    IN  {d \in days : \E split \in SplitSessions(frame) :
            /\ split < d
            /\ Position(days, d) - Position(days, split) <= SplitQuarantineSessions}

CorporateActionSessions(frame) ==
    LET days == SessionDates(frame)
    IN  {d \in days : \E split \in SplitSessions(frame) :
            /\ split <= d
            /\ Position(days, d) - Position(days, split) <= SplitQuarantineSessions}

Warmup(frame) ==
    LET days == SessionDates(frame)
    IN  {d \in days : Position(days, d) < WarmupSessions}

\* The sessions left by the first two rules, which the gap rule judges.
Judged(frame) == Drop(InSession(frame), ShortDays(InSession(frame)))

Unsplit(frame) == Drop(Judged(frame), CorporateActionSessions(Judged(frame)))

Clean(frame) == Drop(Unsplit(frame), Warmup(Unsplit(frame)))

----------------------------------------------------------------------------
(* features.py *)

Opening(frame, d) ==
    {b \in On(frame, d) : SessionStart <= b.at /\ b.at < OpenWindowEnd}

\* The inner merge: a session without its opening bar is none.
Sessions(frame) ==
    {d \in SessionDates(InSession(frame)) : Opening(frame, d) # {}}

\* Mutated form: rolls without the shift.
TrailingToday(days, d, window) ==
    {e \in days : e <= d /\ Position(days, d) - Position(days, e) < window}

Trailing(days, d, window) ==
    {e \in days : e < d /\ Position(days, d) - Position(days, e) <= window}

DayRange(bars) == <<Highest(bars) - Lowest(bars), Last(bars).close>>

Feature(frame, d) ==
    LET days == Sessions(frame)
        whole(e) == On(InSession(frame), e)
        prev_close == Last(whole(Previous(days, d))).close
        opening == Opening(frame, d)
    IN  [session_date |-> d,
         or5_vol |-> Volume(opening),
         rvol_base |->
            [e \in Trailing(days, d, RvolLookback) |-> Volume(Opening(frame, e))],
         adr_pct |-> [e \in Trailing(days, d, AdrLookback) |-> DayRange(whole(e))],
         gap_pct |-> <<First(opening).open, prev_close>>,
         ret_0920 |-> <<Last(opening).close, prev_close>>]

FeatureDays(frame) ==
    LET days == Sessions(frame)
    IN  {d \in days : Position(days, d) >= MinPriorSessions}

FeatureRows(frame) == {Feature(frame, d) : d \in FeatureDays(frame)}

\* Neither mean is missing, zero or negative: _require_usable_divisors raises otherwise.
Usable(row) ==
    /\ Cardinality(DOMAIN row.rvol_base) >= MinPriorSessions
    /\ \E e \in DOMAIN row.rvol_base : row.rvol_base[e] > 0
    /\ Cardinality(DOMAIN row.adr_pct) >= MinPriorSessions
    /\ \E e \in DOMAIN row.adr_pct : row.adr_pct[e][1] > 0

----------------------------------------------------------------------------
(* metrics.py *)

Evaluated(frame, d) ==
    {b \in On(InSession(frame), d) : EvalStart <= b.at /\ b.at <= EvalEnd}

\* Mutated form: the VWAP of the whole session.
SessionVwap(frame, b) ==
    LET bars == On(InSession(frame), b.day)
    IN  <<Value(bars), 3 * Volume(bars)>>

\* The VWAP when bar b ends, as what is divided.
RunningVwap(frame, b) ==
    LET sofar == {c \in On(InSession(frame), b.day) : c.at <= b.at}
    IN  <<Value(sofar), 3 * Volume(sofar)>>

Above(frame, b) == b.close * RunningVwap(frame, b)[2] > RunningVwap(frame, b)[1]
Below(frame, b) == b.close * RunningVwap(frame, b)[2] < RunningVwap(frame, b)[1]

Outcome(frame, d) ==
    LET bars == Evaluated(frame, d)
        above == {b \in bars : Above(frame, b)}
        below == {b \in bars : Below(frame, b)}
        close_0920 == Last(Opening(frame, d)).close
        up == Highest(bars) - close_0920
        down == close_0920 - Lowest(bars)
    IN  [opportunity |-> <<IF up > down THEN up ELSE down, close_0920>>,
         vwap_side_frac |->
            <<Max({Cardinality(above), Cardinality(below)}), Cardinality(bars)>>]

MetricRows(frame) ==
    {[feature |-> Feature(frame, d), outcome |-> Outcome(frame, d)] :
        d \in FeatureDays(frame)}

\* build_features and build_metrics return; they raise otherwise.
Buildable(frame) ==
    /\ \A row \in FeatureRows(frame) : Usable(row)
    /\ \A d \in FeatureDays(frame) : Evaluated(frame, d) # {}

----------------------------------------------------------------------------
(* analyze.py: values is the ranked column of one session_date's rows. *)

Ordinal(values, i) ==
    Cardinality({j \in DOMAIN values :
        \/ values[j] < values[i]
        \/ values[j] = values[i] /\ j <= i})

\* Mutated form: counts the rows from one.
DecileFromOne(values, i) == (Ordinal(values, i) * Deciles) \div Len(values) + 1

Decile(values, i) == (Ordinal(values, i) * Deciles - 1) \div Len(values) + 1

----------------------------------------------------------------------------

\* The rows of a session fill the deciles evenly, ties or not: each has its share of rows,
\* rounded down or up, and no row is in a lower decile than one of a lower value.
Even(values) ==
    /\ \A i, j \in DOMAIN values : values[i] < values[j] => Decile(values, i) <= Decile(values, j)
    /\ \A i \in DOMAIN values : Decile(values, i) \in 1..Deciles
    /\ \A k \in 1..Deciles :
        LET rows == Cardinality({i \in DOMAIN values : Decile(values, i) = k})
        IN  /\ (rows - 1) * Deciles < Len(values)
            /\ (rows + 1) * Deciles > Len(values)

=============================================================================
