SPECIFICATION Spec
CONSTANTS
    None = None
    t1 = t1
    t2 = t2
    t3 = t3
    k1 = k1
    k2 = k2
    k3 = k3
    Threads = {t1, t2, t3}
    Keys = {k1, k2, k3}
    BadKeys = {k3}
    Uses <- MCUses
    MaxCalls = 5
SYMMETRY MCSymmetry
INVARIANTS
    TypeOK
    RightEngine
    StaleEnginesDisposed
    RaceIsBounded
