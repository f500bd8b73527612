SPECIFICATION Spec
CONSTANTS
    r1 = r1
    r2 = r2
    r3 = r3
    s1 = s1
    s2 = s2
    Requests = {r1, r2, r3}
    Servers = {s1, s2}
    Spellings <- MCSpellings
    Lower <- MCLower
    Bodies <- MCBodies
    ValidBodies <- MCValidBodies
    PoolLimit = 1
SYMMETRY MCSymmetry
INVARIANTS
    TypeOK
    UniqueIdentity
    ConflictJustified
    ErrorStoresNothing
    PoolRespected
PROPERTIES
    AnswerIsFinal
    ImplementsDirectory
