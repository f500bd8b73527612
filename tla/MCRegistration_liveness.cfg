SPECIFICATION FairSpec
CONSTANTS
    r1 = r1
    r2 = r2
    r3 = r3
    s1 = s1
    Requests = {r1, r2, r3}
    Servers = {s1}
    Spellings <- MCSpellings
    Lower <- MCLower
    Bodies <- MCFewBodies
    ValidBodies <- MCFewBodies
    PoolLimit = 2
PROPERTIES
    EveryRequestEnds
    NothingStaysHeld
