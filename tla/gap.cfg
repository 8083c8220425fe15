SPECIFICATION Spec
CONSTANTS
    Node = {n1, n2, n3}
    IdLess = {}
    Command = {x}
    Nil = Nil
    MAX_ENTRIES_PER_RPC = 1
    MaxTerm = 3
    MaxLogLen = 1
    MaxCalls = 1
SYMMETRY NodeSymmetry
PROPERTIES
    LeaderAppendOnly
\* MaxTerm ends the elections, the code does not.
CHECK_DEADLOCK FALSE
