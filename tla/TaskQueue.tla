----------------------------- MODULE TaskQueue -----------------------------
(***************************************************************************)
(* What RaftNode needs of its thread pool: tasks start in the order they   *)
(* were enqueued, each once, and no task is left waiting while a thread    *)
(* has nothing to do.                                                      *)
(***************************************************************************)
EXTENDS Naturals, Sequences

CONSTANTS Thread, Task, Nil

VARIABLES
    queue,     \* tasks not started yet
    running,   \* [Thread -> the task it runs, or Nil]
    finished   \* tasks that have run

vars == <<queue, running, finished>>

Init == queue = <<>> /\ running = [t \in Thread |-> Nil] /\ finished = {}

Enqueue(k) ==
    /\ k \notin finished
    /\ \A t \in Thread : running[t] # k
    /\ \A i \in 1..Len(queue) : queue[i] # k
    /\ queue' = Append(queue, k)
    /\ UNCHANGED <<running, finished>>

Start(t) ==
    /\ running[t] = Nil
    /\ queue # <<>>
    /\ running' = [running EXCEPT ![t] = Head(queue)]
    /\ queue' = Tail(queue)
    /\ UNCHANGED finished

Finish(t) ==
    /\ running[t] # Nil
    /\ finished' = finished \cup {running[t]}
    /\ running' = [running EXCEPT ![t] = Nil]
    /\ UNCHANGED queue

Next == (\E k \in Task : Enqueue(k)) \/ (\E t \in Thread : Start(t) \/ Finish(t))

\* Some free thread starts the next task; every task ends.
Spec == /\ Init /\ [][Next]_vars
        /\ WF_vars(\E t \in Thread : Start(t))
        /\ \A t \in Thread : WF_vars(Finish(t))
=============================================================================
