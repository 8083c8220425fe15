SPECIFICATION FairSpec
CONSTANTS
    Call = {k1, k2, k3}
    Oversize = {k3}
    Nil = Nil
    ServerCrashes = TRUE
    AcceptErrors = TRUE
INVARIANTS
    TypeOK
PROPERTIES
    ImplementsLossyCall
    CallReturns
    ConnectionsServed
\* The calls are made once, so the system may stop.
CHECK_DEADLOCK FALSE
