\* Two saves at once, as two concurrent refreshes make them.
SPECIFICATION Spec
CONSTANTS
    Savers = {w1, w2}
    Loaders = {r1}
    Sessions = {s1, s2}
    Inodes = {i1, i2, i3, i4}
    NoSession = NoSession
    NoFile = NoFile
INVARIANTS StoredWhole
