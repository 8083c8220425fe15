----------------------------- MODULE NodeTimers -----------------------------
(***************************************************************************)
(* The election and heartbeat timers of one manager that has peers: class  *)
(* Timer of src/common/timer.hpp and its uses in src/server/raft_node.cpp. *)
(*                                                                         *)
(* Timer::start() detaches a thread that sleeps, looks once at the flag    *)
(* running that start() made for it, and then runs the callback.  cancel() *)
(* clears the flag of the newest thread only and stops no thread, so       *)
(* threads of earlier starts are still about, and one that has passed its  *)
(* look at the flag waits for RaftNode::mtx and runs whatever happens      *)
(* before it gets it.  One action is one critical section of that mutex,   *)
(* or one step of a timer thread outside it.                               *)
(***************************************************************************)
EXTENDS Integers, FiniteSets

CONSTANTS
    Thread,   \* timer threads that exist at once, of either timer: a bound
    Nil       \* no timer has been started

ASSUME ThreadAssumption == Nil \notin Thread

VARIABLES
    role,
    electionTimer,
    heartbeatTimer,
    parked        \* a request handler has stepped a leader down and is in
                  \* becomeFollower()'s unlocked gap

vars == <<role, electionTimer, heartbeatTimer, parked>>

\* current: the thread whose flag the Timer's member running is;
\* at: "free", sleeping, or past the flag and waiting for mtx; flag: *running.
Timer == [current : Thread \cup {Nil},
          at      : [Thread -> {"free", "sleep", "pending"}],
          flag    : [Thread -> BOOLEAN]]

Free(T) == {t \in Thread : T.at[t] = "free"}

\* Mutant: cancel() of a timer does nothing.
cancelNothing(T) == T

\* Mutant: cancel() gives the flag away.
cancelReleases(T) == [T EXCEPT !.current = "nullptr"]

cancel(T) ==
    IF T.current = Nil THEN T ELSE [T EXCEPT !.flag[T.current] = FALSE]

\* Timer::start() on a cancelled timer, with u as the new thread.
start(T, u) ==
    [current |-> u,
     at      |-> [T.at EXCEPT ![u] = "sleep"],
     flag    |-> [cancel(T).flag EXCEPT ![u] = TRUE]]

\* The thread t of T is over.
End(T, t) == [T EXCEPT !.at[t] = "free"]

NewTimer == [current |-> Nil, at |-> [t \in Thread |-> "free"],
             flag |-> [t \in Thread |-> FALSE]]

\* The constructor: a follower with its election timer armed.
Init ==
    /\ role = "FOLLOWER"
    /\ \E u \in Thread : electionTimer = start(NewTimer, u)
    /\ heartbeatTimer = NewTimer
    /\ parked = FALSE

-----------------------------------------------------------------------------
(***************************************************************************)
(* What the critical sections do to the timers.  T is the timer as the     *)
(* critical section finds it, without the calling thread if that is one of *)
(* its own.                                                                *)
(***************************************************************************)
resetElectionTimer(T) ==
    \E u \in Free(T) : electionTimer' = start(cancel(T), u)

\* Mutant: the next heartbeat is not scheduled.
noNextHeartbeat(T) == heartbeatTimer' = cancel(T)

\* The end of sendHeartbeatsInternal() of a leader.
scheduleHeartbeat(T) ==
    \E u \in Free(T) : heartbeatTimer' = start(cancel(T), u)

\* Mutant: becomeFollower() leaves the election timer as it is.
becomeFollowerNoReset ==
    /\ role' = "FOLLOWER"
    /\ heartbeatTimer' = cancel(heartbeatTimer)
    /\ UNCHANGED electionTimer

becomeFollower ==
    /\ role' = "FOLLOWER"
    /\ heartbeatTimer' = cancel(heartbeatTimer)
    /\ resetElectionTimer(electionTimer)

becomeLeaderInternal ==
    /\ role = "CANDIDATE"
    /\ role' = "LEADER"
    /\ electionTimer' = cancel(electionTimer)
    /\ scheduleHeartbeat(heartbeatTimer)
    /\ UNCHANGED parked

\* A pool task that sees a higher term in an answer.
stepDown ==
    /\ becomeFollower
    /\ UNCHANGED parked

\* A request with a higher term, at a follower or a candidate; a leader of the
\* term a candidate stands in.  The second reset of a handler that grants its
\* vote is requestResets right after it.
requestStepDown ==
    /\ ~parked
    /\ role # "LEADER"
    /\ becomeFollower
    /\ UNCHANGED parked

\* The same at a leader: the handler releases mtx in the middle.
requestParks ==
    /\ ~parked
    /\ role = "LEADER"
    /\ becomeFollower
    /\ parked' = TRUE

\* A heartbeat that a follower accepts, or a vote that it grants.
requestResets ==
    /\ ~parked
    /\ role = "FOLLOWER"
    /\ resetElectionTimer(electionTimer)
    /\ UNCHANGED <<role, heartbeatTimer, parked>>

\* The rest of the parked handler: it grants the vote or refuses the entries
\* (both reset the timer), or not, whatever the role has become meanwhile.
requestResumes ==
    /\ parked
    /\ parked' = FALSE
    /\ resetElectionTimer(electionTimer) \/ UNCHANGED electionTimer
    /\ UNCHANGED <<role, heartbeatTimer>>

Message == stepDown \/ requestStepDown \/ requestParks \/ requestResets \/ requestResumes

-----------------------------------------------------------------------------
(***************************************************************************)
(* Timer threads.                                                          *)
(***************************************************************************)

\* The sleep is over: look at the flag.
wake(T, t) ==
    [T EXCEPT !.at[t] = IF T.flag[t] THEN "pending" ELSE "free"]

electionWakes(t) ==
    /\ electionTimer.at[t] = "sleep"
    /\ electionTimer' = wake(electionTimer, t)
    /\ UNCHANGED <<role, heartbeatTimer, parked>>

heartbeatWakes(t) ==
    /\ heartbeatTimer.at[t] = "sleep"
    /\ heartbeatTimer' = wake(heartbeatTimer, t)
    /\ UNCHANGED <<role, electionTimer, parked>>

\* Mutant: a candidate waits on instead of standing again.
followerTimesOut(t) ==
    /\ electionTimer.at[t] = "pending"
    /\ role # "LEADER"
    /\ role' = "CANDIDATE"
    /\ role = "FOLLOWER"
    /\ resetElectionTimer(End(electionTimer, t))
    /\ UNCHANGED <<heartbeatTimer, parked>>

\* The election callback of a node that does not lead: startElection().
electionTimeout(t) ==
    /\ electionTimer.at[t] = "pending"
    /\ role # "LEADER"
    /\ role' = "CANDIDATE"
    /\ resetElectionTimer(End(electionTimer, t))
    /\ UNCHANGED <<heartbeatTimer, parked>>

\* The election callback of a leader.
electionTimeoutIgnored(t) ==
    /\ electionTimer.at[t] = "pending"
    /\ role = "LEADER"
    /\ electionTimer' = End(electionTimer, t)
    /\ UNCHANGED <<role, heartbeatTimer, parked>>

\* The heartbeat callback: sendHeartbeatsInternal().
sendHeartbeats(t) ==
    /\ heartbeatTimer.at[t] = "pending"
    /\ role = "LEADER"
    /\ scheduleHeartbeat(End(heartbeatTimer, t))
    /\ UNCHANGED <<role, electionTimer, parked>>

heartbeatIgnored(t) ==
    /\ heartbeatTimer.at[t] = "pending"
    /\ role # "LEADER"
    /\ heartbeatTimer' = End(heartbeatTimer, t)
    /\ UNCHANGED <<role, electionTimer, parked>>

ElectionThread(t)  == electionWakes(t) \/ electionTimeout(t) \/ electionTimeoutIgnored(t)
HeartbeatThread(t) == heartbeatWakes(t) \/ sendHeartbeats(t) \/ heartbeatIgnored(t)

Next == \/ becomeLeaderInternal
        \/ stepDown \/ requestStepDown \/ requestParks \/ requestResets \/ requestResumes
        \/ \E t \in Thread : ElectionThread(t) \/ HeartbeatThread(t)

Spec == Init /\ [][Next]_vars

\* Sleeps end and every thread gets the mutex; no message has to come.
Fairness == \A t \in Thread : WF_vars(ElectionThread(t)) /\ WF_vars(HeartbeatThread(t))

FairSpec == Spec /\ Fairness

-----------------------------------------------------------------------------
TypeOK ==
    /\ role \in {"FOLLOWER", "CANDIDATE", "LEADER"}
    /\ electionTimer \in Timer
    /\ heartbeatTimer \in Timer
    /\ parked \in BOOLEAN

Armed(T) == {t \in Thread : T.at[t] = "sleep" /\ T.flag[t]}

\* However many threads of earlier starts are asleep or wait for mtx, at most
\* one sleeping thread of each timer will still fire: callbacks that come late
\* re-arm the timer (sendHeartbeatsInternal, startElection) but never set a
\* second chain of heartbeats or elections going.
OneChain ==
    /\ Cardinality(Armed(electionTimer)) <= 1
    /\ Cardinality(Armed(heartbeatTimer)) <= 1

Pending(T) == {t \in Thread : T.at[t] = "pending"}

\* The manager can always still act by itself: one that does not lead has an
\* election timeout coming, one that leads a heartbeat, whatever callbacks,
\* cancellations and changes of role came in between.
TimersAlive ==
    /\ role # "LEADER" => Armed(electionTimer) \cup Pending(electionTimer) # {}
    /\ role = "LEADER" => Armed(heartbeatTimer) \cup Pending(heartbeatTimer) # {}

\* A manager that stays leader sends heartbeats for ever.
LeaderKeepsBeating ==
    <>[](role = "LEADER") => []<><<\E t \in Thread : sendHeartbeats(t)>>_vars

\* A manager that hears nothing more and is never elected stands for election
\* again and again.
SilenceMeansElections ==
    <>[][~Message]_vars =>
        <>[](role = "LEADER") \/ []<><<\E t \in Thread : electionTimeout(t)>>_vars
=============================================================================
