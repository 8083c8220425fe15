------------------------- MODULE StateMachineProofs -------------------------
(***************************************************************************)
(* The tables of the managers, for any commands, any number of managers    *)
(* and workers and any history: their types, that the last writer of a     *)
(* member wins, and that tables that were given the same commands agree.   *)
(***************************************************************************)
EXTENDS StateMachine, TLAPS

Field == {"status", "last_seen", "cpu_usage", "metadata"}

\* Every state in the table has the members of NodeState.
Table(t) == \A w \in DOMAIN t : DOMAIN t[w] = Field

\* The handlers can be applied in order.
Types ==
    /\ history \in Seq(Command)
    /\ now \in 0..MaxTime
    /\ when \in [Manager -> Seq(0..MaxTime)]
    /\ DOMAIN nodes = Manager
    /\ \A m \in Manager : Len(when[m]) <= Len(history)
    /\ \A m \in Manager : Table(nodes[m])

-----------------------------------------------------------------------------
(***************************************************************************)
(* What the handlers do to one worker.                                     *)
(***************************************************************************)

\* The members of NodeState.
LEMMA Fields ==
    /\ DOMAIN NewState = Field
    /\ NewState.last_seen = 0 /\ NewState.cpu_usage = 0
BY DEF NewState, Field

\* UPDATE_NODE assigns members of NodeState, and only values that convert.
LEMMA ReachedConverts == \A cmd : Reached(cmd) \subseteq Field /\ \A f \in Reached(cmd) : cmd[f] # Bad
<1> SUFFICES ASSUME NEW cmd, NEW f \in Reached(cmd) PROVE f \in Field /\ cmd[f] # Bad
  OBVIOUS
<1>1. PICK i \in 1..Len(Member) : f = Member[i] /\ \A j \in 1..i : cmd[Member[j]] # Bad
  BY DEF Reached
<1>2. i \in 1..4 /\ i \in 1..i
  BY <1>1 DEF Member
<1>3. Member[i] \in Field
  BY <1>2 DEF Member, Field
<1> QED BY <1>1, <1>2, <1>3

\* The state a table gives for a worker has the members of NodeState.
LEMMA LookupFields == \A t, w : Table(t) => DOMAIN Lookup(t, w) = Field
BY Fields DEF Table, Lookup

\* The state each handler stores.
Updated(cmd, old, time) ==
    [f \in DOMAIN old |-> IF f \in Reached(cmd) THEN Assigned(cmd, old, f, time) ELSE old[f]]

Stored(cmd, old, time) ==
    CASE cmd.action = "UPDATE_NODE" -> Updated(cmd, old, time)
      [] cmd.action = "SET_STATUS" -> [old EXCEPT !.status = cmd.status, !.last_seen = time]
      [] cmd.action = "HEARTBEAT" -> [old EXCEPT !.last_seen = time, !.status = "active"]
      [] OTHER -> [NewState EXCEPT !.last_seen = time, !.status = cmd.status]

Stores(cmd) == Named(cmd) /\ Inserts(cmd)
Removes(cmd) == Named(cmd) /\ cmd.action = "REMOVE_NODE"

\* A command stores a new state for its worker, removes it, or leaves the table
\* as it is.
LEMMA ApplyFacts ==
    ASSUME NEW cmd \in Command, NEW t, NEW time
    PROVE  /\ Stores(cmd) =>
                Apply(t, cmd, time) =
                    Store(t, cmd.node_id, Stored(cmd, Lookup(t, cmd.node_id), time))
           /\ Removes(cmd) => Apply(t, cmd, time) = handleRemoveNode(t, cmd.node_id)
           /\ ~Stores(cmd) /\ ~Removes(cmd) => Apply(t, cmd, time) = t
<1>1. cmd.action = "SET" => Named(cmd)
  BY CommandAssumption DEF Named
<1>2. CASE cmd.action = "UPDATE_NODE"
  BY <1>2 DEF Stores, Removes, Inserts, Apply, Stored, handleUpdateNode, Updated, Named
<1>3. CASE cmd.action = "REMOVE_NODE"
  BY <1>3 DEF Stores, Removes, Inserts, Apply, Named
<1>4. CASE cmd.action = "SET_STATUS"
  BY <1>4 DEF Stores, Removes, Inserts, Apply, Stored, handleSetStatus, Named
<1>5. CASE cmd.action = "HEARTBEAT"
  BY <1>5 DEF Stores, Removes, Inserts, Apply, Stored, handleHeartbeat, Named
<1>6. CASE cmd.action = "SET"
  BY <1>1, <1>6 DEF Stores, Removes, Inserts, Apply, Stored, legacySet
<1>7. CASE cmd.action \notin {"UPDATE_NODE", "REMOVE_NODE", "SET_STATUS", "HEARTBEAT", "SET"}
  BY <1>7 DEF Stores, Removes, Inserts, Apply
<1> QED BY <1>2, <1>3, <1>4, <1>5, <1>6, <1>7

\* A stored state has the members of NodeState again.
LEMMA StoredFields ==
    ASSUME NEW cmd, NEW old, DOMAIN old = Field, NEW time
    PROVE  DOMAIN Stored(cmd, old, time) = Field
BY Fields DEF Stored, Updated, NewState

\* apply() keeps the shape of a table.
LEMMA ApplyTable ==
    ASSUME NEW cmd \in Command, NEW t, Table(t), NEW time
    PROVE  Table(Apply(t, cmd, time))
<1>1. CASE Stores(cmd)
  <2> DEFINE w == cmd.node_id  state == Stored(cmd, Lookup(t, w), time)
  <2>1. Apply(t, cmd, time) = Store(t, w, state)
    BY <1>1, ApplyFacts
  <2>2. DOMAIN state = Field
    BY StoredFields, LookupFields
  <2> HIDE DEF w, state
  <2>3. /\ DOMAIN Store(t, w, state) = DOMAIN t \cup {w}
        /\ Store(t, w, state)[w] = state
        /\ \A v \in DOMAIN t : v # w => Store(t, w, state)[v] = t[v]
    BY DEF Store
  <2> QED BY <2>1, <2>2, <2>3 DEF Table
<1>2. CASE Removes(cmd)
  <2>1. Apply(t, cmd, time) = [v \in DOMAIN t \ {cmd.node_id} |-> t[v]]
    BY <1>2, ApplyFacts DEF handleRemoveNode
  <2> QED BY <2>1 DEF Table
<1>3. CASE ~Stores(cmd) /\ ~Removes(cmd)
  BY <1>3, ApplyFacts
<1> QED BY <1>1, <1>2, <1>3

-----------------------------------------------------------------------------
(***************************************************************************)
(* Types.                                                                  *)
(***************************************************************************)

\* The workers and the numbers a table may hold.
Filled(t) ==
    /\ DOMAIN t \subseteq Worker
    /\ \A w \in DOMAIN t : t[w].last_seen \in Nat /\ t[w].cpu_usage \in Nat

\* apply() stores numbers only: a value that does not convert is not assigned.
LEMMA ApplyFilled ==
    ASSUME NEW cmd \in Command, NEW t, Table(t), Filled(t), NEW time \in Nat
    PROVE  Filled(Apply(t, cmd, time))
<1>1. CASE Stores(cmd)
  <2> DEFINE w == cmd.node_id  old == Lookup(t, w)  state == Stored(cmd, old, time)
  <2>1. Apply(t, cmd, time) = Store(t, w, state)
    BY <1>1, ApplyFacts
  <2>2. w \in Worker
    BY <1>1, CommandAssumption DEF Stores, Named
  <2>3. /\ DOMAIN old = Field
        /\ old.last_seen \in Nat /\ old.cpu_usage \in Nat
    BY LookupFields, Fields DEF Lookup, Filled
  <2> HIDE DEF old
  <2>4. state.last_seen \in Nat /\ state.cpu_usage \in Nat
    <3>1. CASE cmd.action = "UPDATE_NODE"
      <4>1. state = Updated(cmd, old, time)
        BY <3>1 DEF Stored
      <4>2. ASSUME NEW f \in {"last_seen", "cpu_usage"}, f \in Reached(cmd)
            PROVE  Assigned(cmd, old, f, time) \in Nat
        <5>1. cmd[f] # Bad /\ cmd[f] \in Nat \cup {Absent, Bad}
          BY <4>2, ReachedConverts, CommandAssumption
        <5> QED BY <2>3, <5>1 DEF Assigned
      <4> QED BY <2>3, <4>1, <4>2 DEF Updated, Field
    <3>2. CASE cmd.action # "UPDATE_NODE"
      BY <2>3, <3>2 DEF Stored, NewState, Field
    <3> QED BY <3>1, <3>2
  <2> HIDE DEF w, state
  <2>5. /\ DOMAIN Store(t, w, state) = DOMAIN t \cup {w}
        /\ Store(t, w, state)[w] = state
        /\ \A v \in DOMAIN t : v # w => Store(t, w, state)[v] = t[v]
    BY DEF Store
  <2> QED BY <2>1, <2>2, <2>4, <2>5 DEF Filled
<1>2. CASE Removes(cmd)
  <2>1. Apply(t, cmd, time) = [v \in DOMAIN t \ {cmd.node_id} |-> t[v]]
    BY <1>2, ApplyFacts DEF handleRemoveNode
  <2> QED BY <2>1 DEF Filled
<1>3. CASE ~Stores(cmd) /\ ~Removes(cmd)
  BY <1>3, ApplyFacts
<1> QED BY <1>1, <1>2, <1>3

TypeInv == Types /\ \A m \in Manager : Filled(nodes[m])

\* What a manager that applies the next command finds and leaves behind.
LEMMA ApplyStep ==
    ASSUME Types, NEW m \in Manager, apply(m)
    PROVE  LET n == Len(when[m])  cmd == history[n + 1]
           IN  /\ n \in Nat /\ n + 1 \in 1..Len(history) /\ cmd \in Command
               /\ nodes'[m] = Apply(nodes[m], cmd, now)
               /\ \A k \in Manager : k # m => nodes'[k] = nodes[k] /\ when'[k] = when[k]
               /\ Len(when'[m]) = n + 1 /\ when'[m][n + 1] = now
               /\ \A i \in 1..n : when'[m][i] = when[m][i]
               /\ when' \in [Manager -> Seq(0..MaxTime)]
               /\ DOMAIN nodes' = Manager
               /\ UNCHANGED <<history, now>>
BY DEF Types, apply

\* What a commit leaves behind.
LEMMA CommitStep ==
    ASSUME Types, NEW cmd \in Command, commit(cmd)
    PROVE  /\ history' \in Seq(Command) /\ Len(history') = Len(history) + 1
           /\ \A i \in 1..Len(history) : history'[i] = history[i]
           /\ history'[Len(history) + 1] = cmd
           /\ UNCHANGED <<now, nodes, when>>
BY DEF Types, commit

\* A manager starts with an empty table.
LEMMA InitTypes == Init => TypeInv
BY BoundAssumption DEF Init, TypeInv, Types, Table, Filled

\* Every step keeps the types.
LEMMA NextTypes == TypeInv /\ [Next]_vars => TypeInv'
<1> SUFFICES ASSUME TypeInv, [Next]_vars PROVE TypeInv'
  OBVIOUS
<1> USE DEF TypeInv
<1>1. ASSUME NEW cmd \in Command, commit(cmd) PROVE TypeInv'
  <2>1. Types'
    BY <1>1, CommitStep DEF Types
  <2> QED BY <1>1, <2>1, CommitStep
<1>2. ASSUME NEW m \in Manager, apply(m) PROVE TypeInv'
  <2> DEFINE n == Len(when[m])  cmd == history[n + 1]
  <2>1. /\ cmd \in Command /\ n + 1 <= Len(history)
        /\ nodes'[m] = Apply(nodes[m], cmd, now)
        /\ \A k \in Manager : k # m => nodes'[k] = nodes[k] /\ when'[k] = when[k]
        /\ Len(when'[m]) = n + 1
        /\ when' \in [Manager -> Seq(0..MaxTime)] /\ DOMAIN nodes' = Manager
        /\ UNCHANGED <<history, now>>
    BY <1>2, ApplyStep
  <2> HIDE DEF n, cmd
  <2>2. now \in Nat
    BY BoundAssumption DEF Types
  <2>3. Table(nodes'[m]) /\ Filled(nodes'[m])
    BY <2>1, <2>2, ApplyTable, ApplyFilled DEF Types
  <2>4. \A k \in Manager : Table(nodes'[k]) /\ Filled(nodes'[k])
    BY <2>1, <2>3 DEF Types
  <2>5. \A k \in Manager : Len(when'[k]) <= Len(history')
    BY <2>1 DEF Types
  <2> QED BY <2>1, <2>4, <2>5 DEF Types
<1>3. CASE tick
  <2>1. now' \in 0..MaxTime
    BY <1>3, BoundAssumption DEF tick, Types
  <2> QED BY <1>3, <2>1 DEF tick, Types
<1>4. CASE UNCHANGED vars
  BY <1>4 DEF vars, Types
<1> QED BY <1>1, <1>2, <1>3, <1>4 DEF Next

\* No command, however malformed, makes a table hold anything but workers with
\* the members of NodeState and numbers where NodeState has numbers.
THEOREM TypeCorrect == Spec => []TypeOK
<1>1. TypeInv => TypeOK
  BY Fields DEF TypeInv, Types, Filled, Table, TypeOK
<1> QED BY <1>1, InitTypes, NextTypes, PTL DEF Spec

-----------------------------------------------------------------------------
(***************************************************************************)
(* Agreement.  The invariant says that there is one sequence of tables,    *)
(* one after each command of the history, that every manager goes through, *)
(* last_seen apart: comparing managers with each other is not inductive,   *)
(* because one that is behind catches up with tables the other has left.   *)
(***************************************************************************)
Untimeds == Field \ {"last_seen"}

\* The tables agree, last_seen apart.
Same(t, u) ==
    /\ DOMAIN t = DOMAIN u
    /\ \A w \in DOMAIN t, f \in Untimeds : t[w][f] = u[w][f]

\* Same is what the property compares.
LEMMA SameUntimed ==
    ASSUME NEW t, NEW u, Table(t), Table(u), Same(t, u)
    PROVE  Untimed(t) = Untimed(u)
<1>1. ASSUME NEW w \in DOMAIN t
      PROVE  [t[w] EXCEPT !.last_seen = 0] = [u[w] EXCEPT !.last_seen = 0]
  <2>1. DOMAIN t[w] = Field /\ DOMAIN u[w] = Field
    BY <1>1 DEF Same, Table
  <2> QED BY <1>1, <2>1 DEF Same, Untimeds, Field
<1> QED BY <1>1 DEF Same, Untimed

\* The state that is stored depends on the time in last_seen only.
LEMMA StoredSame ==
    ASSUME NEW cmd, NEW a, NEW b, DOMAIN a = Field, DOMAIN b = Field,
           \A f \in Untimeds : a[f] = b[f], NEW x, NEW y
    PROVE  \A f \in Untimeds : Stored(cmd, a, x)[f] = Stored(cmd, b, y)[f]
<1>1. CASE cmd.action = "UPDATE_NODE"
  BY <1>1 DEF Stored, Updated, Assigned, Untimeds, Field
<1>2. CASE cmd.action = "SET_STATUS"
  BY <1>2 DEF Stored, Untimeds, Field
<1>3. CASE cmd.action = "HEARTBEAT"
  BY <1>3 DEF Stored, Untimeds, Field
<1>4. CASE cmd.action \notin {"UPDATE_NODE", "SET_STATUS", "HEARTBEAT"}
  BY <1>4 DEF Stored, Untimeds, Field, NewState
<1> QED BY <1>1, <1>2, <1>3, <1>4

\* The same command at two times keeps two tables the same.
LEMMA ApplySame ==
    ASSUME NEW cmd \in Command, NEW t, NEW u, Table(t), Table(u), Same(t, u), NEW x, NEW y
    PROVE  Same(Apply(t, cmd, x), Apply(u, cmd, y))
<1>1. CASE Stores(cmd)
  <2> DEFINE w == cmd.node_id
             a == Stored(cmd, Lookup(t, w), x)
             b == Stored(cmd, Lookup(u, w), y)
  <2>1. Apply(t, cmd, x) = Store(t, w, a) /\ Apply(u, cmd, y) = Store(u, w, b)
    BY <1>1, ApplyFacts
  <2>2. \A f \in Untimeds : Lookup(t, w)[f] = Lookup(u, w)[f]
    BY DEF Lookup, Same
  <2>3. \A f \in Untimeds : a[f] = b[f]
    BY <2>2, StoredSame, LookupFields
  <2> HIDE DEF w, a, b
  <2>4. Same(Store(t, w, a), Store(u, w, b))
    BY <2>3 DEF Same, Store
  <2> QED BY <2>1, <2>4
<1>2. CASE Removes(cmd)
  <2> DEFINE w == cmd.node_id
  <2>1. /\ Apply(t, cmd, x) = [v \in DOMAIN t \ {w} |-> t[v]]
        /\ Apply(u, cmd, y) = [v \in DOMAIN u \ {w} |-> u[v]]
    BY <1>2, ApplyFacts DEF handleRemoveNode
  <2> HIDE DEF w
  <2> QED BY <2>1 DEF Same
<1>3. CASE ~Stores(cmd) /\ ~Removes(cmd)
  BY <1>3, ApplyFacts
<1> QED BY <1>1, <1>2, <1>3

\* tables are the ones after each command of the history.
Tables(tables) ==
    /\ \A i \in 0..Len(history) : Table(tables[i])
    /\ \A i \in 1..Len(history) : tables[i] = Apply(tables[i - 1], history[i], 0)

AgreeInv ==
    \E tables : Tables(tables) /\ \A m \in Manager : Same(nodes[m], tables[Len(when[m])])

\* All start with the empty table.
LEMMA InitAgree == Init => AgreeInv
<1> SUFFICES ASSUME Init PROVE AgreeInv
  OBVIOUS
<1> DEFINE tables == [i \in {0} |-> << >>]
<1>1. Tables(tables)
  BY DEF Init, Tables, Table
<1>2. \A m \in Manager : Same(nodes[m], tables[Len(when[m])])
  BY DEF Init, Same
<1> QED BY <1>1, <1>2 DEF AgreeInv

\* A commit adds a table to the sequence, and a manager that applies a command
\* moves to the next one.
LEMMA NextAgree == TypeInv /\ AgreeInv /\ [Next]_vars => AgreeInv'
<1> SUFFICES ASSUME TypeInv, AgreeInv, [Next]_vars PROVE AgreeInv'
  OBVIOUS
<1>1. PICK tables : Tables(tables) /\ \A m \in Manager : Same(nodes[m], tables[Len(when[m])])
  BY DEF AgreeInv
<1>2. Types /\ Len(history) \in Nat /\ \A m \in Manager : Len(when[m]) \in 0..Len(history)
  BY DEF TypeInv, Types
<1>3. ASSUME NEW cmd \in Command, commit(cmd) PROVE AgreeInv'
  <2> DEFINE n == Len(history)
  <2>0. PICK next : next = [i \in 0..(n + 1) |-> IF i <= n THEN tables[i]
                                                ELSE Apply(tables[n], cmd, 0)]
    OBVIOUS
  <2>1. /\ Len(history') = n + 1 /\ history'[n + 1] = cmd
        /\ \A i \in 1..n : history'[i] = history[i]
        /\ UNCHANGED <<now, nodes, when>>
    BY <1>2, <1>3, CommitStep
  <2>2. n \in Nat /\ next[n + 1] = Apply(tables[n], cmd, 0)
    BY <1>2, <2>0
  <2>3. \A i \in 0..n : next[i] = tables[i]
    BY <2>0, <2>2
  <2>4. Table(Apply(tables[n], cmd, 0))
    BY <1>1, <2>2, ApplyTable DEF Tables
  <2>5. \A i \in 0..(n + 1) : Table(next[i])
    BY <1>1, <2>2, <2>3, <2>4 DEF Tables
  <2>6. \A i \in 1..(n + 1) : next[i] = Apply(next[i - 1], history'[i], 0)
    BY <1>1, <2>1, <2>2, <2>3 DEF Tables
  <2>7. Tables(next)'
    BY <2>1, <2>5, <2>6 DEF Tables
  <2>8. \A m \in Manager : Same(nodes[m], next[Len(when[m])])
    BY <1>1, <1>2, <2>3
  <2> QED BY <2>1, <2>7, <2>8 DEF AgreeInv
<1>4. ASSUME NEW m \in Manager, apply(m) PROVE AgreeInv'
  <2> DEFINE n == Len(when[m])  cmd == history[n + 1]
  <2>1. /\ n \in Nat /\ n + 1 \in 1..Len(history) /\ cmd \in Command
        /\ nodes'[m] = Apply(nodes[m], cmd, now)
        /\ \A k \in Manager : k # m => nodes'[k] = nodes[k] /\ when'[k] = when[k]
        /\ Len(when'[m]) = n + 1
        /\ UNCHANGED <<history, now>>
    BY <1>2, <1>4, ApplyStep
  <2>2. Table(nodes[m]) /\ Table(tables[n]) /\ Same(nodes[m], tables[n])
    BY <1>1, <1>2 DEF Types, Tables
  <2>3. tables[n + 1] = Apply(tables[n], cmd, 0)
    BY <1>1, <2>1 DEF Tables
  <2>4. Same(nodes'[m], tables[n + 1])
    BY <2>1, <2>2, <2>3, ApplySame
  <2> HIDE DEF n, cmd
  <2>5. \A k \in Manager : Same(nodes'[k], tables[Len(when'[k])])
    BY <1>1, <2>1, <2>4
  <2>6. Tables(tables)'
    BY <1>1, <2>1 DEF Tables
  <2> QED BY <2>5, <2>6 DEF AgreeInv
<1>5. CASE tick \/ UNCHANGED vars
  BY <1>5 DEF tick, vars, AgreeInv, Tables
<1> QED BY <1>3, <1>4, <1>5 DEF Next

\* Managers that have applied the same commands have the same table, last_seen
\* apart, whenever each of them applied each command.
THEOREM TablesAgree == Spec => []TablesAgreeUntimed
<1>1. TypeInv /\ AgreeInv => TablesAgreeUntimed
  <2> SUFFICES ASSUME TypeInv, AgreeInv, NEW m \in Manager, NEW k \in Manager,
                      Len(when[m]) = Len(when[k])
               PROVE  Untimed(nodes[m]) = Untimed(nodes[k])
    BY DEF TablesAgreeUntimed
  <2>1. Table(nodes[m]) /\ Table(nodes[k])
    BY DEF TypeInv, Types
  <2>2. Same(nodes[m], nodes[k])
    BY DEF AgreeInv, Same
  <2> QED BY <2>1, <2>2, SameUntimed
<1> QED BY <1>1, InitTypes, NextTypes, InitAgree, NextAgree, PTL DEF Spec

-----------------------------------------------------------------------------
(***************************************************************************)
(* The last writer wins.                                                   *)
(***************************************************************************)

\* The commands that count for a member, and the last of a set of them.
Writers(m, w, f) == {i \in Current(m, w) : Writes(history[i], f)}
Last(W) == CHOOSE i \in W : \A j \in W : j <= i
HasLast(W) == W # {} => \E i \in W : \A j \in W : j <= i

\* Reference, with the two named.
Value(m, w, f) ==
    IF Writers(m, w, f) = {} THEN NewState[f]
    ELSE Written(history[Last(Writers(m, w, f))], f, when[m][Last(Writers(m, w, f))])

\* The table's own view of a worker is what the commands that count wrote.
WriterInv ==
    \A m \in Manager, w \in Worker :
        /\ w \in DOMAIN nodes[m] <=> Current(m, w) # {}
        /\ \A f \in Field : /\ HasLast(Writers(m, w, f))
                            /\ Lookup(nodes[m], w)[f] = Value(m, w, f)

\* A greatest element is the last one.
LEMMA LastIs ==
    ASSUME NEW W, W \subseteq Int, NEW k \in W, \A j \in W : j <= k
    PROVE  Last(W) = k
<1>1. Last(W) \in W /\ \A j \in W : j <= Last(W)
  BY DEF Last
<1>2. Last(W) \in Int /\ k \in Int /\ k <= Last(W) /\ Last(W) <= k
  BY <1>1
<1> QED BY <1>2

\* The last one is in the set.
LEMMA LastIn ==
    ASSUME NEW W, HasLast(W), W # {}
    PROVE  Last(W) \in W
BY DEF Last, HasLast

\* The writers are among the commands the manager has applied.
LEMMA WritersApplied ==
    \A m, w, f : /\ Writers(m, w, f) \subseteq Current(m, w)
                 /\ Current(m, w) \subseteq 1..Len(when[m])
BY DEF Writers, Current, About

\* The members that the loop of Reached finds are those the reference names.
LEMMA ReachedMembers == \A cmd : \A f \in Field : f \in Reached(cmd) <=> GetsTo(cmd, f)
<1> SUFFICES ASSUME NEW cmd, NEW f \in Field PROVE f \in Reached(cmd) <=> GetsTo(cmd, f)
  OBVIOUS
<1>1. /\ Len(Member) = 4
      /\ Member[1] = "status" /\ Member[2] = "last_seen"
      /\ Member[3] = "cpu_usage" /\ Member[4] = "metadata"
  BY DEF Member
<1>2. f \in Reached(cmd) <=> \E i \in 1..4 : f = Member[i] /\ \A j \in 1..i : cmd[Member[j]] # Bad
  BY <1>1 DEF Reached
<1>3. \A i \in 1..4 : i = 1 \/ i = 2 \/ i = 3 \/ i = 4
  OBVIOUS
<1>4. CASE f = "status"
  BY <1>1, <1>2, <1>3, <1>4 DEF GetsTo
<1>5. CASE f = "last_seen"
  BY <1>1, <1>2, <1>3, <1>5 DEF GetsTo
<1>6. CASE f = "cpu_usage"
  BY <1>1, <1>2, <1>3, <1>6 DEF GetsTo
<1>7. CASE f = "metadata"
  BY <1>1, <1>2, <1>3, <1>7 DEF GetsTo
<1> QED BY <1>4, <1>5, <1>6, <1>7 DEF Field

\* What a command stores in a member: what it writes, if it does.
LEMMA StoredWrites ==
    ASSUME NEW cmd \in Command, Stores(cmd), NEW old, DOMAIN old = Field, NEW time, NEW f \in Field
    PROVE  /\ Writes(cmd, f) => Stored(cmd, old, time)[f] = Written(cmd, f, time)
           /\ ~Writes(cmd, f) => Stored(cmd, old, time)[f] = old[f]
<1>1. CASE cmd.action = "UPDATE_NODE"
  <2>1. Stored(cmd, old, time)[f] =
          IF f \in Reached(cmd) THEN Assigned(cmd, old, f, time) ELSE old[f]
    BY <1>1 DEF Stored, Updated
  <2>2. Writes(cmd, f) <=> f \in Reached(cmd) /\ (f = "last_seen" \/ cmd[f] # Absent)
    BY <1>1, ReachedMembers DEF Writes
  <2>3. CASE f = "last_seen"
    BY <1>1, <2>1, <2>2, <2>3 DEF Assigned, Written
  <2>4. CASE f = "metadata"
    BY <1>1, <2>1, <2>2, <2>4 DEF Assigned, Written
  <2>5. CASE f \in {"status", "cpu_usage"}
    BY <1>1, <2>1, <2>2, <2>5 DEF Assigned, Written
  <2> QED BY <2>3, <2>4, <2>5 DEF Field
<1>2. CASE cmd.action = "SET_STATUS"
  BY <1>2 DEF Stored, Writes, Written, Field
<1>3. CASE cmd.action = "HEARTBEAT"
  BY <1>3 DEF Stored, Writes, Written, Field
<1>4. CASE cmd.action = "SET"
  <2>1. Stored(cmd, old, time) = [NewState EXCEPT !.last_seen = time, !.status = cmd.status]
    BY <1>4 DEF Stored
  <2>2. Writes(cmd, f)
    BY <1>4 DEF Writes
  <2>3. Written(cmd, f, time) = IF f = "last_seen" THEN time
                                ELSE IF f = "status" THEN cmd.status ELSE NewState[f]
    <3>1. CASE f = "last_seen" BY <1>4, <3>1 DEF Written
    <3>2. CASE f = "status"    BY <1>4, <3>2 DEF Written
    <3>3. CASE f \in {"cpu_usage", "metadata"} BY <1>4, <3>3 DEF Written
    <3> QED BY <3>1, <3>2, <3>3 DEF Field
  <2>4. Stored(cmd, old, time)[f] = IF f = "last_seen" THEN time
                                    ELSE IF f = "status" THEN cmd.status ELSE NewState[f]
    BY <2>1, Fields DEF Field
  <2> QED BY <2>2, <2>3, <2>4
<1> QED BY <1>1, <1>2, <1>3, <1>4 DEF Stores, Inserts

\* A command about another worker, and a commit, change nothing for this one.
LEMMA WritersKept ==
    ASSUME NEW m \in Manager, NEW w \in Worker, About(m, w)' = About(m, w),
           \A i \in About(m, w) : history'[i] = history[i] /\ when'[m][i] = when[m][i],
           \A f \in Field : HasLast(Writers(m, w, f))
    PROVE  /\ Current(m, w)' = Current(m, w)
           /\ \A f \in Field : /\ Writers(m, w, f)' = Writers(m, w, f)
                               /\ Value(m, w, f)' = Value(m, w, f)
<1>1. Current(m, w)' = Current(m, w)
  BY DEF Current
<1>2. Current(m, w) \subseteq About(m, w)
  BY DEF Current
<1>3. ASSUME NEW f \in Field
      PROVE  Writers(m, w, f)' = Writers(m, w, f) /\ Value(m, w, f)' = Value(m, w, f)
  <2>1. Writers(m, w, f)' = Writers(m, w, f)
    BY <1>1, <1>2 DEF Writers
  <2>2. CASE Writers(m, w, f) = {}
    BY <2>1, <2>2 DEF Value
  <2>3. CASE Writers(m, w, f) # {}
    <3>1. Last(Writers(m, w, f)) \in About(m, w)
      BY <1>2, <2>3, LastIn DEF Writers
    <3> QED BY <2>1, <2>3, <3>1 DEF Value
  <2> QED BY <2>1, <2>2, <2>3
<1> QED BY <1>1, <1>3

\* Nothing has been written to an empty table.
LEMMA InitWriters == Init => WriterInv
<1> SUFFICES ASSUME Init, NEW m \in Manager, NEW w \in Worker
             PROVE  /\ w \in DOMAIN nodes[m] <=> Current(m, w) # {}
                    /\ \A f \in Field : /\ HasLast(Writers(m, w, f))
                                        /\ Lookup(nodes[m], w)[f] = Value(m, w, f)
  BY DEF WriterInv
<1>1. Current(m, w) = {}
  BY DEF Init, Current, About
<1>2. \A f \in Field : Writers(m, w, f) = {}
  BY <1>1 DEF Writers
<1>3. w \notin DOMAIN nodes[m]
  BY DEF Init
<1> QED BY <1>1, <1>2, <1>3 DEF HasLast, Value, Lookup

\* The command a manager applies becomes the last writer of what it writes to
\* its worker, and of nothing else.
LEMMA ApplyWriters ==
    ASSUME TypeInv, WriterInv, NEW m \in Manager, apply(m), NEW w \in Worker
    PROVE  /\ w \in DOMAIN nodes'[m] <=> Current(m, w)' # {}
           /\ \A f \in Field : /\ HasLast(Writers(m, w, f)')
                               /\ Lookup(nodes'[m], w)[f] = Value(m, w, f)'
<1> DEFINE n == Len(when[m])  cmd == history[n + 1]  t == nodes[m]
<1>1. /\ n \in Nat /\ n + 1 \in 1..Len(history) /\ cmd \in Command
      /\ nodes'[m] = Apply(t, cmd, now)
      /\ Len(when'[m]) = n + 1 /\ when'[m][n + 1] = now
      /\ \A i \in 1..n : when'[m][i] = when[m][i]
      /\ UNCHANGED <<history, now>>
  BY ApplyStep DEF TypeInv
<1>2. /\ w \in DOMAIN t <=> Current(m, w) # {}
      /\ \A f \in Field : /\ HasLast(Writers(m, w, f))
                          /\ Lookup(t, w)[f] = Value(m, w, f)
  BY DEF WriterInv
<1>3. /\ About(m, w) \subseteq 1..n /\ Current(m, w) \subseteq 1..n
      /\ \A f \in Field : Writers(m, w, f) \subseteq 1..n
  BY DEF About, Current, Writers
<1>4. About(m, w)' = IF cmd.node_id = w THEN About(m, w) \cup {n + 1} ELSE About(m, w)
  BY <1>1 DEF About
<1>5. DOMAIN Lookup(t, w) = Field
  BY LookupFields DEF TypeInv, Types
<1>6. cmd.node_id = w => Named(cmd)
  BY CommandAssumption DEF Named
<1>7. Forgets(cmd) /\ cmd.node_id = w => Removes(cmd) \/ (Stores(cmd) /\ cmd.action = "SET")
  BY <1>6 DEF Forgets, Removes, Stores, Inserts
<1> HIDE DEF n, cmd, t
\* Nothing that counts for w changes.
<1>8. ASSUME Current(m, w)' = Current(m, w), Lookup(nodes'[m], w) = Lookup(t, w),
             w \in DOMAIN nodes'[m] <=> w \in DOMAIN t
      PROVE  /\ w \in DOMAIN nodes'[m] <=> Current(m, w)' # {}
             /\ \A f \in Field : /\ HasLast(Writers(m, w, f)')
                                 /\ Lookup(nodes'[m], w)[f] = Value(m, w, f)'
  <2>1. ASSUME NEW f \in Field
        PROVE  Writers(m, w, f)' = Writers(m, w, f) /\ Value(m, w, f)' = Value(m, w, f)
    <3>1. Writers(m, w, f)' = Writers(m, w, f)
      BY <1>1, <1>8 DEF Writers
    <3>2. Writers(m, w, f) # {} => Last(Writers(m, w, f)) \in 1..n
      BY <1>2, <1>3, LastIn
    <3> QED BY <1>1, <3>1, <3>2 DEF Value
  <2> QED BY <1>2, <1>8, <2>1
<1>9. CASE cmd.node_id # w
  <2>1. Current(m, w)' = Current(m, w)
    BY <1>1, <1>4, <1>9 DEF Current
  <2>2. /\ Lookup(nodes'[m], w) = Lookup(t, w)
        /\ w \in DOMAIN nodes'[m] <=> w \in DOMAIN t
    <3>1. CASE Stores(cmd)
      <4> DEFINE state == Stored(cmd, Lookup(t, cmd.node_id), now)
      <4>1. nodes'[m] = Store(t, cmd.node_id, state)
        BY <1>1, <3>1, ApplyFacts
      <4> HIDE DEF state
      <4> QED BY <1>9, <4>1 DEF Lookup, Store
    <3>2. CASE Removes(cmd)
      <4>1. nodes'[m] = handleRemoveNode(t, cmd.node_id)
        BY <1>1, <3>2, ApplyFacts
      <4> QED BY <1>9, <4>1 DEF Lookup, handleRemoveNode
    <3>3. CASE ~Stores(cmd) /\ ~Removes(cmd)
      BY <1>1, <3>3, ApplyFacts
    <3> QED BY <3>1, <3>2, <3>3
  <2> QED BY <1>8, <2>1, <2>2
<1>10. CASE cmd.node_id = w /\ Removes(cmd)
  <2>1. w \notin DOMAIN nodes'[m]
    <3>1. nodes'[m] = handleRemoveNode(t, w)
      BY <1>1, <1>10, ApplyFacts
    <3> QED BY <3>1 DEF handleRemoveNode
  <2>2. Forgets(cmd) /\ ~Inserts(cmd)
    BY <1>10 DEF Removes, Forgets, Inserts
  <2>3. Current(m, w)' = {}
    BY <1>1, <1>3, <1>4, <1>10, <2>2 DEF Current, cmd
  <2>4. \A f \in Field : Writers(m, w, f)' = {}
    BY <2>3 DEF Writers
  <2> QED BY <2>1, <2>3, <2>4 DEF HasLast, Value, Lookup
<1>11. CASE cmd.node_id = w /\ Stores(cmd)
  <2> DEFINE state == Stored(cmd, Lookup(t, w), now)
  <2>1. nodes'[m] = Store(t, w, state)
    BY <1>1, <1>11, ApplyFacts
  <2>2. \A f \in Field : /\ Writes(cmd, f) => state[f] = Written(cmd, f, now)
                         /\ ~Writes(cmd, f) => state[f] = Lookup(t, w)[f]
    BY <1>1, <1>5, <1>11, StoredWrites
  <2> HIDE DEF state
  <2>3. w \in DOMAIN nodes'[m] /\ Lookup(nodes'[m], w) = state
    BY <2>1 DEF Lookup, Store
  <2>4. Current(m, w)' = IF Forgets(cmd) THEN {n + 1} ELSE Current(m, w) \cup {n + 1}
    <3>1. \A i \in About(m, w)' : i <= n + 1 /\ i \in Int
      BY <1>1, <1>3, <1>4
    <3>2. n + 1 \in About(m, w)' /\ Inserts(history'[n + 1])
      BY <1>1, <1>4, <1>11 DEF Stores, cmd
    <3>3. n + 1 \in Current(m, w)'
      BY <3>1, <3>2 DEF Current
    <3>4. \A i \in About(m, w) : i < n + 1 /\ history'[i] = history[i]
      BY <1>1, <1>3
    <3>5. \A i \in About(m, w) : i \in Current(m, w)' <=> i \in Current(m, w) /\ ~Forgets(cmd)
      BY <1>1, <1>4, <1>11, <3>4 DEF Current, cmd
    <3>6. Current(m, w)' \subseteq About(m, w) \cup {n + 1} /\ Current(m, w) \subseteq About(m, w)
      BY <1>4 DEF Current
    <3> QED BY <3>3, <3>5, <3>6
  <2>5. ASSUME NEW f \in Field
        PROVE  HasLast(Writers(m, w, f)') /\ state[f] = Value(m, w, f)'
    <3>1. CASE Writes(cmd, f)
      <4> DEFINE W == Writers(m, w, f)'
      <4>1. n + 1 \in W /\ W \subseteq Int /\ \A j \in W : j <= n + 1
        BY <1>1, <1>3, <2>4, <3>1 DEF Writers, cmd
      <4>2. Last(W) = n + 1
        BY <4>1, LastIs
      <4>3. HasLast(W)
        BY <4>1 DEF HasLast
      <4>4. Value(m, w, f)' = Written(history'[n + 1], f, when'[m][n + 1])
        BY <4>1, <4>2 DEF Value
      <4> QED BY <1>1, <2>2, <3>1, <4>3, <4>4 DEF cmd
    <3>2. CASE ~Writes(cmd, f)
      <4>1. ~Forgets(cmd)
        BY <1>11, <3>2 DEF Forgets, Stores, Inserts, Writes
      <4>2. Writers(m, w, f)' = Writers(m, w, f)
        BY <1>1, <1>3, <2>4, <3>2, <4>1 DEF Writers, cmd
      <4>3. Writers(m, w, f) # {} => Last(Writers(m, w, f)) \in 1..n
        BY <1>2, <1>3, LastIn
      <4>4. Value(m, w, f)' = Value(m, w, f)
        BY <1>1, <4>2, <4>3 DEF Value
      <4> QED BY <1>2, <2>2, <3>2, <4>2, <4>4
    <3> QED BY <3>1, <3>2
  <2> QED BY <2>3, <2>4, <2>5
<1>12. CASE cmd.node_id = w /\ ~Stores(cmd) /\ ~Removes(cmd)
  <2>1. nodes'[m] = t
    BY <1>1, <1>12, ApplyFacts
  <2>2. ~Inserts(cmd) /\ ~Forgets(cmd)
    BY <1>6, <1>7, <1>12 DEF Stores
  <2>3. Current(m, w)' = Current(m, w)
    BY <1>1, <1>3, <1>4, <1>12, <2>2 DEF Current, cmd
  <2> QED BY <1>8, <2>1, <2>3
<1> QED BY <1>9, <1>10, <1>11, <1>12

\* Every step keeps WriterInv.
LEMMA NextWriters == TypeInv /\ WriterInv /\ [Next]_vars => WriterInv'
<1> SUFFICES ASSUME TypeInv, WriterInv, [Next]_vars PROVE WriterInv'
  OBVIOUS
<1>1. \A m \in Manager, w \in Worker :
        /\ w \in DOMAIN nodes[m] <=> Current(m, w) # {}
        /\ \A f \in Field : /\ HasLast(Writers(m, w, f))
                            /\ Lookup(nodes[m], w)[f] = Value(m, w, f)
  BY DEF WriterInv
<1>2. ASSUME NEW m \in Manager, nodes'[m] = nodes[m], when'[m] = when[m], NEW w \in Worker,
             \A i \in 1..Len(history) : history'[i] = history[i]
      PROVE  /\ w \in DOMAIN nodes'[m] <=> Current(m, w)' # {}
             /\ \A f \in Field : /\ HasLast(Writers(m, w, f)')
                                 /\ Lookup(nodes'[m], w)[f] = Value(m, w, f)'
  <2>1. Len(when[m]) \in Nat /\ Len(history) \in Nat /\ Len(when[m]) <= Len(history)
    BY DEF TypeInv, Types
  <2>2. About(m, w)' = About(m, w) /\ About(m, w) \subseteq 1..Len(history)
    BY <1>2, <2>1 DEF About
  <2>3. /\ Current(m, w)' = Current(m, w)
        /\ \A f \in Field : /\ Writers(m, w, f)' = Writers(m, w, f)
                            /\ Value(m, w, f)' = Value(m, w, f)
    BY <1>1, <1>2, <2>2, WritersKept
  <2> QED BY <1>1, <1>2, <2>3
<1>3. ASSUME NEW cmd \in Command, commit(cmd) PROVE WriterInv'
  BY <1>2, <1>3, CommitStep DEF TypeInv, WriterInv
<1>4. ASSUME NEW m \in Manager, apply(m) PROVE WriterInv'
  <2>1. /\ history' = history
        /\ \A k \in Manager : k # m => nodes'[k] = nodes[k] /\ when'[k] = when[k]
    BY <1>4, ApplyStep DEF TypeInv
  <2> QED BY <1>2, <1>4, <2>1, ApplyWriters DEF WriterInv
<1>5. CASE tick \/ UNCHANGED vars
  BY <1>2, <1>5 DEF tick, vars, WriterInv
<1> QED BY <1>3, <1>4, <1>5 DEF Next

\* A worker is in a table exactly if a command since its last removal named it,
\* and every member has the value of the last command that set it, for every
\* history of well-formed, malformed, legacy and removing commands.
THEOREM LastWriter == Spec => []LastWriterWins
<1>1. WriterInv => LastWriterWins
  <2>1. \A m \in Manager, w \in Worker, f \in Field : Reference(m, w, f) = Value(m, w, f)
    BY DEF Reference, Value, Writers, Last
  <2> QED BY <2>1, Fields DEF WriterInv, LastWriterWins, Lookup
<1> QED BY <1>1, InitTypes, NextTypes, InitWriters, NextWriters, PTL DEF Spec
=============================================================================
