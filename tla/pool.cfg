SPECIFICATION FairSpec
CONSTANTS
    Thread = {h1, h2, h3}
    Producer = {p1, p2}
    Task = {k1, k2, k3, k4}
    Nil = Nil
INVARIANTS
    NoLostWakeup
PROPERTIES
    ImplementsTaskQueue
