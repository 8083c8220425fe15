SPECIFICATION FairSpec
CONSTANTS
    Thread = {t1, t2, t3}
    Nil = Nil
INVARIANTS
    TypeOK
    OneChain
    TimersAlive
PROPERTIES
    LeaderKeepsBeating
    SilenceMeansElections
