SPECIFICATION Spec
CONSTANTS
    NoId = NoId
    t1 = t1
    t2 = t2
    i1 = i1
    Threads = {t1, t2}
    Ids = {i1}
    QueueSize = 2
    MaxRecords <- MCMaxRecords
INVARIANTS
    ListenerIsStopped
