SPECIFICATION Spec
CONSTANTS
    k1 = k1
    k2 = k2
    Procs = {p1, p2, p3, p4}
    Keys = {k1, k2}
    Concurrently = 2
    Limits = {0, 1, 2}
    ClearSets <- ClearsBoth
INVARIANTS
    TypeOK
    MutualExclusion
    NoLostWakeup
    NoLeakedEntry
SYMMETRY Symmetry
