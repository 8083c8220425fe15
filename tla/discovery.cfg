SPECIFICATION FairSpec
CONSTANTS
    Caller = {t1, t2}
    Worker = {w1, w2}
    FD = {f1, f2}
    Nil = Nil
    NoSocket = NoSocket
INVARIANTS
    TypeOK
    NoSocketLeak
    AcceptsCurrent
PROPERTIES
    WorkerHeard
