--------------------------- MODULE MCStateMachine ---------------------------
(***************************************************************************)
(* Commands for TLC: the shapes of UPDATE_NODE and of the other actions,   *)
(* malformed ones included.                                                *)
(***************************************************************************)
EXTENDS StateMachine

CONSTANT Obj   \* metadata that is a JSON object

Fields(id, st, ls, cpu, meta) ==
    [node_id |-> id, status |-> st, last_seen |-> ls, cpu_usage |-> cpu, metadata |-> meta]

With(action, r) == [action |-> action, node_id |-> r.node_id, status |-> r.status,
                    last_seen |-> r.last_seen, cpu_usage |-> r.cpu_usage, metadata |-> r.metadata]

Plain(action, id, st) == With(action, Fields(id, st, Absent, Absent, Absent))

\* UPDATE_NODE with members there and not, and one that does not convert at
\* each place in the order of assignment.
Updates(id) ==
    {With("UPDATE_NODE", r) :
        r \in {Fields(id, "inactive", 9, 5, "rack1"), Fields(id, Absent, Absent, 5, Obj),
              Fields(id, "inactive", Absent, Absent, Absent), Fields(id, Bad, 9, 5, Obj),
              Fields(id, "inactive", Bad, 5, Obj), Fields(id, Absent, 9, Bad, Obj)}}

Nameless ==
    {With("UPDATE_NODE", Fields(Absent, "inactive", 9, 5, Obj)), Plain("HEARTBEAT", Bad, Absent),
     Plain("REMOVE_NODE", Absent, Absent), Plain("SET_STATUS", Bad, "dead")}

Commands ==
    UNION {Updates(id) : id \in Worker} \cup Nameless
    \cup {Plain(action, id, Absent) : action \in {"HEARTBEAT", "REMOVE_NODE"}, id \in Worker}
    \cup {Plain("SET_STATUS", id, st) : id \in Worker, st \in {"dead", Bad}}
    \cup {Plain("OTHER", Absent, Absent)}
    \cup {Plain("SET", id, st) : id \in Worker, st \in {"idle", ""}}
=============================================================================
