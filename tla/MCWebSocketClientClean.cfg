\* Nobody but the server closes the connection.
SPECIFICATION FairSpec
CONSTANTS
    Users = {}
    Tokens = {t1}
    ModeCount = 2
    DefaultMode = 1
    MaxReconnects = 1
    Sockets = {s1}
PROPERTIES ListenReconnects
