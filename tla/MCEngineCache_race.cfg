SPECIFICATION Spec
CONSTANTS
    None = None
    t1 = t1
    t2 = t2
    k1 = k1
    Threads = {t1, t2}
    Keys = {k1}
    BadKeys = {}
    Uses <- MCUses
    MaxCalls = 3
INVARIANTS
    RacersLoseNoEngine
