SPECIFICATION FairSpec
CONSTANTS
    Caller = {t1, t2}
    Worker = {}
    FD = {f1, f2}
    Nil = Nil
    NoSocket = NoSocket
PROPERTIES
    ServiceStops
