SPECIFICATION Spec
CONSTANTS
    Manager = {n1, n2}
    Worker = {w1, w2}
    Command <- Commands
    Absent = Absent
    Bad = Bad
    Obj = Obj
    MaxCommands = 3
    MaxTime = 1
INVARIANTS
    TypeOK
    LastWriterWins
    TablesAgreeUntimed
\* MaxCommands ends the history.
CHECK_DEADLOCK FALSE
