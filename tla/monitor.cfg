SPECIFICATION Spec
CONSTANTS
    Manager = {n1, n2, n3}
    Worker = {w1}
    Nil = Nil
    Never = Never
    HeartbeatPeriod = 2
    MaxBackoff = 6
    SocketTimeout = 1
    TIMEOUT_SECONDS = 4
    ReportPeriod = 2
    Phase = {2}
    Faults = {"leader", "cut", "worker"}
    MaxFailures = 2
    MaxSeconds = 11
SYMMETRY ManagerSymmetry
INVARIANTS
    TypeOK
    
    DeadWorkerDetected
    
