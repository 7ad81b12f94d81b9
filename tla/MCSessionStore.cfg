\* Two saves, which may overlap, a load, clears and crashes.
SPECIFICATION Spec
CONSTANTS
    Savers = {w1, w2}
    Loaders = {r1}
    Sessions = {s1, s2}
    Inodes = {i1, i2, i3, i4}
    NoSession = NoSession
    NoFile = NoFile
SYMMETRY Symmetry
INVARIANTS TypeOK LoadSound
PROPERTIES StoreIsShared
