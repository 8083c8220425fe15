SPECIFICATION ScenarioSpec
CONSTANTS
    n1 = n1
    n2 = n2
    n3 = n3
    n4 = n4
    n5 = n5
    x = x
    Node = {n1, n2, n3, n4, n5}
    IdLess = {}
    Command = {x}
    Nil = Nil
    MAX_ENTRIES_PER_RPC = 5
    MaxTerm = 5
    MaxLogLen = 3
    MaxCalls = 4
INVARIANTS
    StateMachineSafety
\* The schedule ends.
CHECK_DEADLOCK FALSE
