----------------------------- MODULE ThreadPool -----------------------------
(***************************************************************************)
(* src/common/thread_pool.hpp: the pool that makes the managers' calls.    *)
(*                                                                         *)
(* A step under queue_mutex is one action: condition.wait() tests its      *)
(* predicate and goes to sleep without letting anybody in between.         *)
(* notify_one() comes after the mutex is released, so it may find that the *)
(* task is gone, or nobody asleep.  The destructor is left out: main()     *)
(* never returns and the pool is never destroyed.                          *)
(***************************************************************************)
EXTENDS Integers, Sequences, FiniteSets

CONSTANTS
    Thread,     \* the pool's threads
    Producer,   \* threads that call enqueue()
    Task,       \* what is enqueued, each once
    Nil

ASSUME NilAssumption == Nil \notin Task
ASSUME FiniteAssumption == IsFiniteSet(Thread) /\ IsFiniteSet(Producer)

VARIABLES
    tasks,      \* the queue
    at,         \* [Thread -> "test" (about to lock, or woken), "asleep", "busy"]
    task,       \* [Thread -> the task it has taken, or Nil]
    producer,   \* [Producer -> "idle", or "notify" between unlock and notify_one]
    finished

vars == <<tasks, at, task, producer, finished>>

Init ==
    /\ tasks = <<>>
    /\ at = [t \in Thread |-> "test"]
    /\ task = [t \in Thread |-> Nil]
    /\ producer = [p \in Producer |-> "idle"]
    /\ finished = {}

Queued == {tasks[i] : i \in 1..Len(tasks)}

\* enqueue() up to the end of the critical section.
push(p, k) ==
    /\ producer[p] = "idle"
    /\ k \notin Queued \cup finished \cup {task[t] : t \in Thread}
    /\ tasks' = Append(tasks, k)
    /\ producer' = [producer EXCEPT ![p] = "notify"]
    /\ UNCHANGED <<at, task, finished>>

Asleep == {t \in Thread : at[t] = "asleep"}

\* Mutant: notify_one() only if the queue was empty before.
notifyIfFirst(p) ==
    /\ producer[p] = "notify"
    /\ producer' = [producer EXCEPT ![p] = "idle"]
    /\ IF Asleep = {} \/ Len(tasks) # 1 THEN UNCHANGED at
       ELSE \E t \in Asleep : at' = [at EXCEPT ![t] = "test"]
    /\ UNCHANGED <<tasks, task, finished>>

notify_one(p) ==
    /\ producer[p] = "notify"
    /\ producer' = [producer EXCEPT ![p] = "idle"]
    /\ IF Asleep = {} THEN UNCHANGED at
       ELSE \E t \in Asleep : at' = [at EXCEPT ![t] = "test"]
    /\ UNCHANGED <<tasks, task, finished>>

\* The predicate is false: release the mutex and sleep.
sleep(t) ==
    /\ at[t] = "test"
    /\ tasks = <<>>
    /\ at' = [at EXCEPT ![t] = "asleep"]
    /\ UNCHANGED <<tasks, task, producer, finished>>

wakeSpuriously(t) ==
    /\ at[t] = "asleep"
    /\ at' = [at EXCEPT ![t] = "test"]
    /\ UNCHANGED <<tasks, task, producer, finished>>

\* Mutant: the newest task first.
takeLast(t) ==
    /\ at[t] = "test"
    /\ tasks # <<>>
    /\ task' = [task EXCEPT ![t] = tasks[Len(tasks)]]
    /\ tasks' = SubSeq(tasks, 1, Len(tasks) - 1)
    /\ at' = [at EXCEPT ![t] = "busy"]
    /\ UNCHANGED <<producer, finished>>

\* The predicate is true: take the first task.
take(t) ==
    /\ at[t] = "test"
    /\ tasks # <<>>
    /\ task' = [task EXCEPT ![t] = Head(tasks)]
    /\ tasks' = Tail(tasks)
    /\ at' = [at EXCEPT ![t] = "busy"]
    /\ UNCHANGED <<producer, finished>>

\* task() returns: JsonRpcClient::call gives up after its time-outs.
run(t) ==
    /\ at[t] = "busy"
    /\ finished' = finished \cup {task[t]}
    /\ task' = [task EXCEPT ![t] = Nil]
    /\ at' = [at EXCEPT ![t] = "test"]
    /\ UNCHANGED <<tasks, producer>>

Next ==
    \/ \E p \in Producer : (\E k \in Task : push(p, k)) \/ notify_one(p)
    \/ \E t \in Thread : sleep(t) \/ wakeSpuriously(t) \/ take(t) \/ run(t)

Spec == Init /\ [][Next]_vars

\* Threads run on and get the mutex; nothing has to wake up by itself, and
\* nobody has to enqueue anything.
FairSpec ==
    /\ Spec
    /\ \A p \in Producer : WF_vars(notify_one(p))
    /\ \A t \in Thread : SF_vars(take(t)) /\ WF_vars(sleep(t)) /\ WF_vars(run(t))

-----------------------------------------------------------------------------
\* While a task is queued and a thread asleep, somebody is about to look at the
\* queue or to notify: the notification after the unlock is never the lost one.
NoLostWakeup ==
    tasks # <<>> /\ Asleep # {} =>
        \/ \E t \in Thread : at[t] = "test"
        \/ \E p \in Producer : producer[p] = "notify"

\* The pool is a task queue: FIFO, every task once, and none waits for ever
\* while a thread is free.
Queue == INSTANCE TaskQueue WITH queue <- tasks, running <- task, finished <- finished

ImplementsTaskQueue == Queue!Spec
=============================================================================
