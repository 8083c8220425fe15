---------------------------- MODULE RaftRestart ----------------------------
(***************************************************************************)
(* The managers with crashes and restarts.  raft_node.hpp groups           *)
(* currentTerm, votedFor and log under "Persistent state (on stable        *)
(* storage)", but no code writes or reads them: a restarted process        *)
(* constructs a RaftNode whose members have their initial values.          *)
(***************************************************************************)
EXTENDS RaftNode, TLC

CONSTANT MaxRestarts          \* bound: restarts in the cluster

VARIABLE restarts             \* how many there have been

\* The process of n is killed and started again: the RaftNode constructor and
\* start().  Its sockets are closed, so the handlers it was running and the
\* answers on their way to it are gone; calls it sent may still arrive.
Restart(n) ==
    /\ restarts < MaxRestarts
    /\ restarts' = restarts + 1
    /\ currentTerm' = [currentTerm EXCEPT ![n] = 0]
    /\ votedFor' = [votedFor EXCEPT ![n] = Nil]
    /\ role' = [role EXCEPT ![n] = "FOLLOWER"]
    /\ log' = [log EXCEPT ![n] = <<>>]
    /\ commitIndex' = [commitIndex EXCEPT ![n] = 0]
    /\ applied' = [applied EXCEPT ![n] = <<>>]
    /\ nextIndex' = [nextIndex EXCEPT ![n] = [p \in Node |-> 1]]
    /\ matchIndex' = [matchIndex EXCEPT ![n] = [p \in Node |-> 0]]
    /\ voters' = [voters EXCEPT ![n] = {}]
    /\ rvReplies' = {r \in rvReplies : r.from # n}
    /\ aeReplies' = {r \in aeReplies : r.from # n}
    /\ parkedVotes' = {c \in parkedVotes : c.to # n}
    /\ parkedAppends' = {a \in parkedAppends : a.call.to # n}
    /\ UNCHANGED <<rvCalls, aeCalls, leaders>>

RestartInit == Init /\ restarts = 0

RestartNext == (Next /\ UNCHANGED restarts) \/ (\E n \in Node : Restart(n))

RestartSpec == RestartInit /\ [][RestartNext]_<<vars, restarts>>
=============================================================================
