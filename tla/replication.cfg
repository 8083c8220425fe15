SPECIFICATION BoundedSpec
CONSTANTS
    Node = {n1, n2, n3}
    IdLess = {}
    Command = {x}
    Nil = Nil
    MAX_ENTRIES_PER_RPC = 1
    MaxTerm = 4
    MaxLogLen = 2
    MaxCalls = 3
SYMMETRY NodeSymmetry
INVARIANTS
    TypeOK
    ElectionSafety
    ElectionInv
    StateMachineSafety
    MatchIndexSound
    LeaderCompleteness
    LogMatching
    AppliedByMajority
PROPERTIES
    CommittedStays
    ImplementsReplicatedLog
\* MaxTerm ends the elections, the code does not.
CHECK_DEADLOCK FALSE
