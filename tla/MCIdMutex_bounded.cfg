SPECIFICATION FairSpec
CONSTANTS
    k1 = k1
    k2 = k2
    Procs = {p1, p2, p3, p4}
    Keys = {k1, k2}
    Concurrently = 0
    Limits = {0, 2}
    ClearSets <- NoClears
PROPERTIES
    NoOvertaking
    WaiterServed
    ImplementsKeyedLock
    FirstInLineServed
