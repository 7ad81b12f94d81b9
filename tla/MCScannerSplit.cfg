\* One symbol with every history, one with two sessions; runs on two days, of five days each.
SPECIFICATION Spec
CONSTANTS
    a = a
    b = b
    Symbols = {a, b}
    Levels <- SplitLevels
    SplitDays = {3, 9}
    Irregular = {3, 4}
    MaxRows = 5
    Universes <- AllUniverses
    Markets <- AllMarkets
    FirstDay = 5
    LastDay = 6
    FetchWindow = 4
    MaxDaysPerRequest = 2
    Clock = {3, 9}
    Columns <- AllColumns
    SessionStart = 1
    SessionEnd = 5
    OpenWindowEnd = 2
    EvalStart = 2
    EvalEnd = 3
    MinBarsPerDay = 3
    SplitGapPercent = 20
    SplitQuarantineSessions = 1
    WarmupSessions = 1
    RvolLookback = 1
    AdrLookback = 2
    MinPriorSessions = 1
    Deciles = 3
INVARIANTS NoSplitMoves
