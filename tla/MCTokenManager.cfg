\* Two callers; two versions are two tokens, or a token and a clear, in either order.  No
\* symmetry, which liveness does not allow.
SPECIFICATION FairSpec
CONSTANTS
    Callers = {c1, c2}
    MaxAttempts = 2
    Ttl = 2
    Skew = 1
    MaxVersions = 2
INVARIANTS TypeOK StoredIsCurrent
PROPERTIES ForcedIsFresh CallsReturn
