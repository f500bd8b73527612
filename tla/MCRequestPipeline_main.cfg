SPECIFICATION Spec
CONSTANTS
    NoId = NoId
    BadId = BadId
    r1 = r1
    r2 = r2
    c1 = c1
    Requests = {r1, r2}
    ClientIds = {c1}
INVARIANTS
    TypeOK
    EveryResponseLabelled
    LoggedUnderOwnId
    LogAgreesWithAnswer
PROPERTIES
    OneResponse
    EveryRequestAnswered
