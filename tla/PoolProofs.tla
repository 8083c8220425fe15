----------------------------- MODULE PoolProofs -----------------------------
(***************************************************************************)
(* The pool loses no wake-up, for any number of threads, producers and     *)
(* tasks.                                                                  *)
(***************************************************************************)
EXTENDS ThreadPool, FiniteSetTheorems, TLAPS

Types ==
    /\ tasks \in Seq(Task)
    /\ at \in [Thread -> {"test", "asleep", "busy"}]
    /\ producer \in [Producer -> {"idle", "notify"}]

Looking   == {t \in Thread : at[t] = "test"}
Notifying == {p \in Producer : producer[p] = "notify"}

\* NoLostWakeup is not inductive: when a thread takes a task, another one must
\* be on its way to the next.  While anybody sleeps, every queued task has a
\* thread about to look at the queue or a producer about to notify.
Covered ==
    Asleep # {} => Len(tasks) <= Cardinality(Looking) + Cardinality(Notifying)

Inv == Types /\ Covered

-----------------------------------------------------------------------------
\* Sets of threads and of producers have a cardinality.
LEMMA Counts ==
    /\ IsFiniteSet(Looking) /\ Cardinality(Looking) \in Nat
    /\ IsFiniteSet(Notifying) /\ Cardinality(Notifying) \in Nat
<1>1. Looking \subseteq Thread /\ Notifying \subseteq Producer
  BY DEF Looking, Notifying
<1>2. IsFiniteSet(Looking) /\ IsFiniteSet(Notifying)
  BY <1>1, FiniteAssumption, FS_Subset
<1> QED BY <1>2, FS_CardinalityType

\* One member more or less counts one.
LEMMA AddOne ==
    ASSUME NEW S, IsFiniteSet(S), NEW x, x \notin S
    PROVE  IsFiniteSet(S \cup {x}) /\ Cardinality(S \cup {x}) = Cardinality(S) + 1
BY FS_AddElement

LEMMA RemoveOne ==
    ASSUME NEW S, IsFiniteSet(S), NEW x \in S
    PROVE  IsFiniteSet(S \ {x}) /\ Cardinality(S \ {x}) = Cardinality(S) - 1
BY FS_RemoveElement

\* All threads of a new pool are about to look at the empty queue.
LEMMA InitInv == Init => Inv
BY DEF Init, Inv, Types, Covered, Asleep

\* Every step keeps Inv: a task comes with a notification, a notification turns
\* into a thread that looks, a thread that looks takes one task or finds none.
LEMMA NextInv == Inv /\ [Next]_vars => Inv'
<1> SUFFICES ASSUME Inv, [Next]_vars PROVE Inv'
  OBVIOUS
<1> USE DEF Inv, Types
<1>0. /\ IsFiniteSet(Looking) /\ Cardinality(Looking) \in Nat
      /\ IsFiniteSet(Notifying) /\ Cardinality(Notifying) \in Nat
  BY Counts
<1>00. Len(tasks) \in Nat
  OBVIOUS
<1>1. ASSUME NEW p \in Producer, NEW k \in Task, push(p, k) PROVE Inv'
  <2>1. Notifying' = Notifying \cup {p} /\ p \notin Notifying
    BY <1>1 DEF push, Notifying
  <2>2. Cardinality(Notifying') = Cardinality(Notifying) + 1
    BY <1>0, <2>1, AddOne
  <2>3. Looking' = Looking /\ Asleep' = Asleep
    BY <1>1 DEF push, Looking, Asleep
  <2>4. Len(tasks') = Len(tasks) + 1 /\ Types'
    BY <1>1 DEF push
  <2> QED BY <1>0, <1>00, <2>2, <2>3, <2>4 DEF Covered
<1>2. ASSUME NEW p \in Producer, notify_one(p) PROVE Inv'
  <2>1. Types' /\ tasks' = tasks
    BY <1>2 DEF notify_one, Asleep
  <2>2. CASE Asleep = {}
    BY <1>2, <2>1, <2>2 DEF notify_one, Asleep, Covered
  <2>3. CASE Asleep # {}
    <3>1. PICK t \in Asleep : at' = [at EXCEPT ![t] = "test"]
      BY <1>2, <2>3 DEF notify_one
    <3>2. Looking' = Looking \cup {t} /\ t \notin Looking
      BY <3>1 DEF Looking, Asleep
    <3>3. Notifying' = Notifying \ {p} /\ p \in Notifying
      BY <1>2 DEF notify_one, Notifying
    <3>4. /\ Cardinality(Looking') = Cardinality(Looking) + 1
          /\ Cardinality(Notifying') = Cardinality(Notifying) - 1
      BY <1>0, <3>2, <3>3, AddOne, RemoveOne
    <3> QED BY <1>0, <1>00, <2>1, <2>3, <3>4 DEF Covered
  <2> QED BY <2>2, <2>3
<1>3. ASSUME NEW t \in Thread, sleep(t) PROVE Inv'
  <2>1. Types' /\ Len(tasks') = 0
    BY <1>3 DEF sleep
  <2>2. Cardinality(Looking') \in Nat /\ Cardinality(Notifying') \in Nat
    <3>1. Looking' = Looking \ {t} /\ t \in Looking /\ Notifying' = Notifying
      BY <1>3 DEF sleep, Looking, Notifying
    <3>2. IsFiniteSet(Looking') /\ IsFiniteSet(Notifying')
      BY <1>0, <3>1, RemoveOne
    <3> QED BY <3>2, FS_CardinalityType
  <2> QED BY <2>1, <2>2 DEF Covered
<1>4. ASSUME NEW t \in Thread, wakeSpuriously(t) \/ run(t) PROVE Inv'
  <2>1. Types' /\ tasks' = tasks
    BY <1>4 DEF wakeSpuriously, run
  <2>2. Looking' = Looking \cup {t} /\ t \notin Looking /\ Notifying' = Notifying
    BY <1>4 DEF wakeSpuriously, run, Looking, Notifying
  <2>3. Cardinality(Looking') = Cardinality(Looking) + 1
    BY <1>0, <2>2, AddOne
  <2>4. Asleep' \subseteq Asleep
    BY <1>4 DEF wakeSpuriously, run, Asleep
  <2> QED BY <1>0, <1>00, <2>1, <2>2, <2>3, <2>4 DEF Covered
<1>5. ASSUME NEW t \in Thread, take(t) PROVE Inv'
  <2>1. Types' /\ Len(tasks') = Len(tasks) - 1
    BY <1>5 DEF take
  <2>2. Looking' = Looking \ {t} /\ t \in Looking /\ Notifying' = Notifying
    BY <1>5 DEF take, Looking, Notifying
  <2>3. Cardinality(Looking') = Cardinality(Looking) - 1
    BY <1>0, <2>2, RemoveOne
  <2>4. Asleep' = Asleep
    BY <1>5 DEF take, Asleep
  <2> QED BY <1>0, <1>00, <2>1, <2>2, <2>3, <2>4 DEF Covered
<1>6. CASE UNCHANGED vars
  BY <1>6 DEF vars, Covered, Asleep, Looking, Notifying
<1> QED BY <1>1, <1>2, <1>3, <1>4, <1>5, <1>6 DEF Next

\* While a task is queued and a thread asleep, a thread is about to look at the
\* queue or a producer about to notify, although enqueue() calls notify_one()
\* after it has released queue_mutex.
THEOREM WakeupsKept == Spec => []NoLostWakeup
<1>1. Inv => NoLostWakeup
  <2> SUFFICES ASSUME Inv, tasks # <<>>, Asleep # {}, Looking = {}, Notifying = {}
               PROVE  FALSE
    BY DEF NoLostWakeup, Looking, Notifying
  <2>1. Len(tasks) \in Nat /\ Len(tasks) > 0
    BY DEF Inv, Types
  <2>2. Cardinality(Looking) = 0 /\ Cardinality(Notifying) = 0
    BY FS_EmptySet
  <2> QED BY <2>1, <2>2 DEF Inv, Covered
<1> QED BY <1>1, InitInv, NextInv, PTL DEF Spec

-----------------------------------------------------------------------------
(***************************************************************************)
(* The pool is a FIFO queue.                                               *)
(***************************************************************************)

\* A thread has a task exactly between taking it and having run it.
Carries ==
    /\ tasks \in Seq(Task)
    /\ at \in [Thread -> {"test", "asleep", "busy"}]
    /\ task \in [Thread -> Task \cup {Nil}]
    /\ \A t \in Thread : at[t] = "busy" <=> task[t] # Nil

\* What TaskQueue allows without its fairness: every task starts once, in the
\* order of enqueue(), in a thread that has nothing else to run.
QueueSafety == Queue!Init /\ [][Queue!Next]_(Queue!vars)

\* Every step of the pool keeps Carries and is a step of the queue or none.
LEMMA QueueStep ==
    ASSUME Carries, [Next]_vars
    PROVE  Carries' /\ [Queue!Next]_(Queue!vars)
<1> USE DEF Carries
<1>1. ASSUME NEW p \in Producer, NEW k \in Task, push(p, k)
      PROVE  Carries' /\ Queue!Next
  <2>1. Carries'
    BY <1>1 DEF push
  <2>2. Queue!Enqueue(k)
    BY <1>1 DEF push, Queued, Queue!Enqueue
  <2> QED BY <2>1, <2>2 DEF Queue!Next
<1>2. ASSUME NEW p \in Producer, notify_one(p)
      PROVE  Carries' /\ UNCHANGED Queue!vars
  BY <1>2 DEF notify_one, Asleep, Queue!vars
<1>3. ASSUME NEW t \in Thread, sleep(t) \/ wakeSpuriously(t)
      PROVE  Carries' /\ UNCHANGED Queue!vars
  BY <1>3 DEF sleep, wakeSpuriously, Queue!vars
<1>4. ASSUME NEW t \in Thread, take(t)
      PROVE  Carries' /\ Queue!Next
  <2>1. Head(tasks) \in Task /\ Tail(tasks) \in Seq(Task) /\ Head(tasks) # Nil
    BY <1>4, NilAssumption DEF take
  <2>2. Carries'
    BY <1>4, <2>1 DEF take
  <2>3. Queue!Start(t)
    BY <1>4 DEF take, Queue!Start
  <2> QED BY <2>2, <2>3 DEF Queue!Next
<1>5. ASSUME NEW t \in Thread, run(t)
      PROVE  Carries' /\ Queue!Next
  <2>1. Carries'
    BY <1>5 DEF run
  <2>2. Queue!Finish(t)
    BY <1>5 DEF run, Queue!Finish
  <2> QED BY <2>1, <2>2 DEF Queue!Next
<1>6. CASE UNCHANGED vars
  BY <1>6 DEF vars, Queue!vars
<1> QED BY <1>1, <1>2, <1>3, <1>4, <1>5, <1>6 DEF Next

\* The pool implements the FIFO queue of TaskQueue, for any number of threads,
\* producers and tasks: no task is started twice, dropped or overtaken.
THEOREM StartsInOrder == Spec => QueueSafety
<1>1. Init => Carries /\ Queue!Init
  BY DEF Init, Carries, Queue!Init
<1>2. Carries /\ [Next]_vars => Carries' /\ [Queue!Next]_(Queue!vars)
  BY QueueStep
<1> QED BY <1>1, <1>2, PTL DEF Spec, QueueSafety

=============================================================================
