SPECIFICATION Spec
CONSTANTS
    q1 = q1
    s1 = s1
    s2 = s2
    Requests = {q1}
    Servers = {s1, s2}
    TicksPerSecond = 2
    MaxSkew = 2
    Leeway = 2
    DefaultLifetime = 2
    Deltas <- MCDeltas
    MaxNow = 9
    MaxVersions = 4
    MaxTokens = 1
CONSTRAINT Explored
SYMMETRY MCSymmetry
CHECK_DEADLOCK FALSE
INVARIANTS
    TypeOK
    RevocationSound
    NoTokenOutlivesDefault
    FullLifetime
    ServedAsEntitled
