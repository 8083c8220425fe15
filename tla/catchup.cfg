SPECIFICATION FairSpec
CONSTANTS
    Node = {n1, n2}
    IdLess = {}
    Command = {x}
    Nil = Nil
    MAX_ENTRIES_PER_RPC = 1
    MaxTerm = 3
    MaxLogLen = 3
    MaxCalls = 2
PROPERTIES
    StableLeaderCommits
\* MaxTerm ends the elections, the code does not.
CHECK_DEADLOCK FALSE
