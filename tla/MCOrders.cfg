\* Three calls of two orders through a bucket of one and a half tokens.  No symmetry, which
\* liveness does not allow.
SPECIFICATION FairSpec
CONSTANTS
    Calls = {c1, c2, c3}
    Payloads = {p1, p2}
    Ttl = 2
    Capacity = 3
    Cost = 2
INVARIANTS TypeOK AdmissionBound
PROPERTIES OnePerWindow WaitersProgress
