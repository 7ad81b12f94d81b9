\* Two user tasks next to the one that listens, and the three modes of WebSocketMode.  With two
\* connections one can be open that is not the client's.  No symmetry, which liveness does
\* not allow.
SPECIFICATION FairSpec
CONSTANTS
    Users = {u1, u2}
    Tokens = {t1}
    ModeCount = 3
    DefaultMode = 2
    MaxReconnects = 1
    Sockets = {s1, s2}
INVARIANTS TypeOK FeedIsWanted
PROPERTIES OnlyPendingOpen ListenEnds
