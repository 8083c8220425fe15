SPECIFICATION RestartSpec
CONSTANTS
    Node = {n1, n2, n3}
    IdLess = {}
    Command = {x}
    Nil = Nil
    MAX_ENTRIES_PER_RPC = 1
    MaxTerm = 1
    MaxLogLen = 0
    MaxCalls = 2
    MaxRestarts = 1
INVARIANTS
    ElectionSafety
\* MaxTerm ends the elections, the code does not.
CHECK_DEADLOCK FALSE
