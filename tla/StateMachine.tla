---------------------------- MODULE StateMachine ----------------------------
(***************************************************************************)
(* The table of workers: class StateMachine of                             *)
(* src/server/state_machine.cpp, one table per manager, each given the     *)
(* same committed commands at times of its own.                            *)
(*                                                                         *)
(* A command is what json::parse() makes of its text.  A field that is not *)
(* there is Absent; one whose value does not convert to the member it is   *)
(* meant for is Bad: the conversion throws and apply()'s handler swallows  *)
(* the exception.  Of the members that UPDATE_NODE sets one after the      *)
(* other, ip_address, cpu_usage and memory_usage behave alike; cpu_usage   *)
(* stands for them.                                                        *)
(***************************************************************************)
EXTENDS Integers, Sequences

CONSTANTS
    Manager,      \* the tables
    Worker,       \* names of workers
    Command,      \* the commands that may be submitted
    Absent, Bad

\* Bounds of the checked instance.
CONSTANTS
    MaxCommands,  \* commands committed
    MaxTime       \* seconds that pass

ASSUME BoundAssumption == MaxCommands \in Nat /\ MaxTime \in Nat
\* The text of "SET key value" always has a key.
ASSUME CommandAssumption ==
    /\ Absent \notin Worker /\ Bad \notin Worker
    /\ \A cmd \in Command :
          /\ cmd.node_id \in Worker \cup {Absent, Bad}
          /\ cmd.action = "SET" => cmd.node_id \in Worker
          /\ cmd.last_seen \in Nat \cup {Absent, Bad}
          /\ cmd.cpu_usage \in Nat \cup {Absent, Bad}

VARIABLES
    history,      \* the committed commands
    now,          \* std::time(nullptr): the managers share a host
    nodes,        \* [Manager -> table: [names present -> NodeState]]
    when          \* history: [Manager -> times at which commands were applied]

vars == <<history, now, nodes, when>>

\* The members UPDATE_NODE assigns, in its order.
Member == <<"status", "last_seen", "cpu_usage", "metadata">>

\* NodeState()
NewState == [status |-> "unknown", last_seen |-> 0, cpu_usage |-> 0, metadata |-> ""]

Init ==
    /\ history = <<>>
    /\ now = 0
    /\ nodes = [m \in Manager |-> << >>]
    /\ when = [m \in Manager |-> <<>>]

-----------------------------------------------------------------------------
\* nodes[w], which inserts a default NodeState if there is none.
Lookup(table, w) == IF w \in DOMAIN table THEN table[w] ELSE NewState

Store(table, w, state) ==
    [v \in DOMAIN table \cup {w} |-> IF v = w THEN state ELSE table[v]]

\* Mutant: values are taken as they come.
ReachedAll(cmd) == {Member[i] : i \in 1..Len(Member)}

\* Mutant: UPDATE_NODE is all or nothing.
ReachedAllOrNone(cmd) ==
    IF \E i \in 1..Len(Member) : cmd[Member[i]] = Bad THEN {} ELSE {Member[i] : i \in 1..Len(Member)}

\* The members that are assigned before a conversion throws.
Reached(cmd) ==
    {Member[i] : i \in {i \in 1..Len(Member) : \A j \in 1..i : cmd[Member[j]] # Bad}}

\* metadata that is not a string is dumped to one.
Text(v) == IF v \in STRING THEN v ELSE <<"dump", v>>

\* Mutant: a member that is absent is reset to its default.
AssignedOrDefault(cmd, state, f, time) ==
    IF cmd[f] # Absent THEN IF f = "metadata" THEN Text(cmd[f]) ELSE cmd[f]
    ELSE IF f = "last_seen" THEN time ELSE NewState[f]

\* What UPDATE_NODE makes of one member.
Assigned(cmd, state, f, time) ==
    IF cmd[f] # Absent THEN IF f = "metadata" THEN Text(cmd[f]) ELSE cmd[f]
    ELSE IF f = "last_seen" THEN time ELSE state[f]

handleUpdateNode(table, cmd, time) ==
    LET old == Lookup(table, cmd.node_id)
    IN  IF cmd.node_id \in {Absent, Bad} THEN table
        ELSE Store(table, cmd.node_id,
                   [f \in DOMAIN old |-> IF f \in Reached(cmd) THEN Assigned(cmd, old, f, time)
                                         ELSE old[f]])

handleRemoveNode(table, w) == [v \in DOMAIN table \ {w} |-> table[v]]

\* Mutant: a second change within a second is dropped.
handleSetStatusOnce(table, w, status, time) ==
    IF Lookup(table, w).last_seen = time THEN table
    ELSE Store(table, w, [Lookup(table, w) EXCEPT !.status = status, !.last_seen = time])

handleSetStatus(table, w, status, time) ==
    Store(table, w, [Lookup(table, w) EXCEPT !.status = status, !.last_seen = time])

\* HEARTBEAT: the command's own timestamp is not looked at.
handleHeartbeat(table, w, time) ==
    Store(table, w, [Lookup(table, w) EXCEPT !.last_seen = time, !.status = "active"])

\* "SET key value": the text is no JSON, and the fallback replaces the state.
legacySet(table, w, status, time) ==
    Store(table, w, [NewState EXCEPT !.last_seen = time, !.status = status])

Named(cmd) == cmd.node_id \notin {Absent, Bad}

\* StateMachine::apply(), the new table; every other command is only logged.
Apply(table, cmd, time) ==
    CASE cmd.action = "UPDATE_NODE" -> handleUpdateNode(table, cmd, time)
      [] cmd.action = "REMOVE_NODE" /\ Named(cmd) -> handleRemoveNode(table, cmd.node_id)
      [] cmd.action = "SET_STATUS" /\ Named(cmd) /\ cmd.status \notin {Absent, Bad} ->
             handleSetStatus(table, cmd.node_id, cmd.status, time)
      [] cmd.action = "HEARTBEAT" /\ Named(cmd) -> handleHeartbeat(table, cmd.node_id, time)
      [] cmd.action = "SET" -> legacySet(table, cmd.node_id, cmd.status, time)
      [] OTHER -> table

\* A command is committed.
commit(cmd) ==
    /\ Len(history) < MaxCommands
    /\ history' = Append(history, cmd)
    /\ UNCHANGED <<now, nodes, when>>

\* A manager applies the next one.
apply(m) ==
    /\ Len(when[m]) < Len(history)
    /\ nodes' = [nodes EXCEPT ![m] = Apply(@, history[Len(when[m]) + 1], now)]
    /\ when' = [when EXCEPT ![m] = Append(@, now)]
    /\ UNCHANGED <<history, now>>

tick ==
    /\ now < MaxTime
    /\ now' = now + 1
    /\ UNCHANGED <<history, nodes, when>>

Next == (\E cmd \in Command : commit(cmd)) \/ (\E m \in Manager : apply(m)) \/ tick

Spec == Init /\ [][Next]_vars

-----------------------------------------------------------------------------
(***************************************************************************)
(* The table as its documentation describes it: of the commands about a    *)
(* worker since it was last removed or replaced, the last one that sets a  *)
(* member wins.                                                            *)
(***************************************************************************)
About(m, w) == {i \in 1..Len(when[m]) : history[i].node_id = w}

\* The command inserts the worker, or would if it were not there.
Inserts(cmd) ==
    \/ cmd.action \in {"UPDATE_NODE", "HEARTBEAT", "SET"}
    \/ cmd.action = "SET_STATUS" /\ cmd.status \notin {Absent, Bad}

Forgets(cmd) == cmd.action \in {"REMOVE_NODE", "SET"}

\* An UPDATE_NODE gets as far as the member: it and those that are looked at
\* before it convert.
GetsTo(cmd, f) ==
    /\ cmd.status # Bad
    /\ f \in {"last_seen", "cpu_usage", "metadata"} => cmd.last_seen # Bad
    /\ f \in {"cpu_usage", "metadata"} => cmd.cpu_usage # Bad
    /\ f = "metadata" => cmd.metadata # Bad

Writes(cmd, f) ==
    CASE cmd.action = "UPDATE_NODE" -> GetsTo(cmd, f) /\ (f = "last_seen" \/ cmd[f] # Absent)
      [] cmd.action = "SET" -> TRUE
      [] OTHER -> f \in {"status", "last_seen"}

Written(cmd, f, time) ==
    CASE f = "last_seen" -> IF cmd.action = "UPDATE_NODE" /\ cmd.last_seen # Absent
                            THEN cmd.last_seen ELSE time
      [] f = "status" -> IF cmd.action = "HEARTBEAT" THEN "active" ELSE cmd.status
      [] f = "cpu_usage" -> IF cmd.action = "SET" THEN NewState.cpu_usage ELSE cmd.cpu_usage
      [] f = "metadata" -> IF cmd.action = "SET" THEN NewState.metadata ELSE Text(cmd.metadata)

\* The commands that still count for w at m.
Current(m, w) ==
    {i \in About(m, w) : /\ Inserts(history[i])
                         /\ \A j \in About(m, w) : j > i => ~Forgets(history[j])}

Reference(m, w, f) ==
    LET writers == {i \in Current(m, w) : Writes(history[i], f)}
        last    == CHOOSE i \in writers : \A j \in writers : j <= i
    IN  IF writers = {} THEN NewState[f] ELSE Written(history[last], f, when[m][last])

TypeOK ==
    /\ history \in Seq(Command)
    /\ now \in 0..MaxTime
    /\ \A m \in Manager :
          /\ when[m] \in Seq(0..MaxTime)
          /\ DOMAIN nodes[m] \subseteq Worker
          /\ \A w \in DOMAIN nodes[m] :
                /\ DOMAIN nodes[m][w] = DOMAIN NewState
                /\ nodes[m][w].last_seen \in Nat /\ nodes[m][w].cpu_usage \in Nat

\* A worker is in a table exactly if a command since its last removal named it,
\* and every member has the value of the last command that set it, however
\* updates, removals, legacy commands and half-converted updates follow each
\* other.
LastWriterWins ==
    \A m \in Manager, w \in Worker :
        /\ w \in DOMAIN nodes[m] <=> Current(m, w) # {}
        /\ w \in DOMAIN nodes[m] =>
               \A f \in DOMAIN NewState : nodes[m][w][f] = Reference(m, w, f)

Untimed(table) == [w \in DOMAIN table |-> [table[w] EXCEPT !.last_seen = 0]]

\* Two managers that have applied the same commands have the same workers with
\* the same members, last_seen apart, though they applied them at other times.
TablesAgreeUntimed ==
    \A m, k \in Manager : Len(when[m]) = Len(when[k]) => Untimed(nodes[m]) = Untimed(nodes[k])
=============================================================================
