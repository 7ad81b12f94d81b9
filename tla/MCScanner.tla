----------------------------- MODULE MCScanner -----------------------------
(* Instances of Scanner for TLC. *)
EXTENDS Scanner

CONSTANTS
    a, b,
    Levels,         \* prices before and after a split
    SplitDays,      \* a's first day at the second one
    Irregular,      \* days on which a's session may be other than the regular one
    MaxRows         \* rows of a session that are ranked

\* The bars of a session, of prices around the level, at the times 1..4, and on some days
\* at 0, before it starts.  After EVAL_END, at 4, the price moves with a large volume.
Session(d, level, times) ==
    LET price(t) == level + d + (IF t = 4 THEN 7 ELSE t)
    IN  {[day |-> d, at |-> t, open |-> price(t), high |-> price(t) + 2,
          low |-> price(t) - 1, close |-> price(t) + (t % 2),
          volume |-> IF t = 4 THEN 50 ELSE t + d] : t \in times}

Regular == {1, 2, 3, 4}

\* Too few bars; no opening bar; a bar before the session; no session.
Others == {{1, 2}, {2, 3, 4}, {0, 1, 2, 3}, {}}

Days == 1..LastDay

\* Histories of a with at most one split and at most two irregular days; b has one.
AllMarkets ==
    {[s \in {a, b} |->
        UNION {Session(d,
                       IF s = a /\ d >= split THEN Levels[2] ELSE Levels[1],
                       IF s = a THEN times[d] ELSE IF d <= 2 THEN Regular ELSE {}) : d \in Days}] :
        split \in SplitDays,
        times \in {t \in [Days -> Others \cup {Regular}] :
            /\ Cardinality({d \in Days : t[d] # Regular}) <= 2
            /\ \A d \in Days \ Irregular : t[d] = Regular}}

AllUniverses == {<<a, b>>, <<b>>}

\* The two prices of a split of 5 to 1.
SplitLevels == <<200, 40>>

\* Three values, so that most columns have ties.
AllColumns == UNION {[1..n -> 1..3] : n \in 0..MaxRows}
=============================================================================
