SPECIFICATION Spec
CONSTANTS
    NoId = NoId
    BadId = BadId
    r1 = r1
    c1 = c1
    Requests = {r1}
    ClientIds = {c1}
INVARIANTS
    EveryRecordLabelled
