------------------------------- MODULE Monitor -------------------------------
(***************************************************************************)
(* The monitor end to end, second by second: the workers' heartbeat loop   *)
(* (src/worker/main.cpp), the table each manager keeps of them, and the    *)
(* report every manager writes to workers.json (src/server/main.cpp).      *)
(*                                                                         *)
(* Elections, replication and the discovery service are summed up by who   *)
(* leads, if anybody, and which managers are cut off from the others:      *)
(* RaftNode, ReplicatedLog and Discovery are about them.  A heartbeat is   *)
(* applied with the time of the application as last_seen, however old it   *)
(* is: at once by the managers that the leader reaches, by the others when *)
(* they catch up; and one that a lost leader has left behind is committed  *)
(* by a later leader with the next entry of its own, if it survived in the *)
(* log of that leader, or never.                                           *)
(***************************************************************************)
EXTENDS Integers, FiniteSets, TLC

CONSTANTS
    Manager, Worker,
    Nil,          \* no leader
    Never,        \* the table has no entry for the worker
    Phase,        \* seconds to a manager's first report: they start at different
                  \* times
    Faults        \* what may happen: "leader": it is lost, "cut": managers are
                  \* cut off from the others, "worker": one dies

\* The times the programs are built with, in seconds, and their values there.
CONSTANTS
    HeartbeatPeriod,  \* 5: a worker's sleep after a success
    MaxBackoff,       \* 30: its longest
    SocketTimeout,    \* 2: of its socket, for connect() and for recv()
    TIMEOUT_SECONDS,  \* 10: of the report
    ReportPeriod      \* 5

\* Bounds: longer times, and more failures, make no further difference.
CONSTANTS
    MaxFailures,  \* failureCount
    MaxSeconds    \* steady
MaxAge == TIMEOUT_SECONDS + 1

\* A worker whose heartbeats get through is not reported offline between two.
ASSUME TimesAssumption ==
    /\ {HeartbeatPeriod, MaxBackoff, SocketTimeout, TIMEOUT_SECONDS, ReportPeriod} \subseteq Nat
    /\ HeartbeatPeriod <= MaxBackoff
    /\ HeartbeatPeriod <= TIMEOUT_SECONDS
ASSUME BoundAssumption == MaxFailures \in Nat /\ MaxSeconds \in Nat
ASSUME PhaseAssumption == Phase \subseteq 1..ReportPeriod
ASSUME NeverAssumption == Never \notin Nat
ASSUME LeaderAssumption == Nil \notin Manager /\ Faults \subseteq {"leader", "cut", "worker"}

VARIABLES
    leader,        \* the manager that leads, reaches a majority and serves port
                   \* 6000, or Nil
    cut,           \* managers that are cut off
    alive,         \* [Worker -> BOOLEAN]
    failureCount,  \* [Worker -> Nat]
    sleep,         \* [Worker -> seconds to the next attempt]
    age,           \* [Manager -> [Worker -> seconds since last_seen, or Never]]
    pending,       \* workers with an acknowledged heartbeat that a lost leader
                   \* did not commit
    missed,        \* [Manager -> workers with committed heartbeats it has not applied]
    reportIn,      \* [Manager -> seconds to its next report]
    report,        \* [Worker -> its entry in workers.json]
    steady         \* [Worker -> seconds since it started or died; for a live one,
                   \* since a leader was elected or a manager caught up; for a dead
                   \* one, since a manager last applied a heartbeat of it]

clusterVars == <<leader, cut>>
workerVars  == <<alive, failureCount, sleep, steady>>
tableVars   == <<age, pending, missed>>
reportVars  == <<reportIn, report>>
vars == <<clusterVars, workerVars, tableVars, reportVars>>

AtMost(x, bound) == IF x <= bound THEN x ELSE bound

Init ==
    /\ leader = Nil /\ cut = {}
    /\ alive = [w \in Worker |-> TRUE]
    /\ failureCount = [w \in Worker |-> 0]
    /\ sleep = [w \in Worker |-> 0]
    /\ steady = [w \in Worker |-> 0]
    /\ age = [m \in Manager |-> [w \in Worker |-> Never]]
    /\ pending = {}
    /\ missed = [m \in Manager |-> {}]
    /\ reportIn \in [Manager -> Phase]
    /\ report = [w \in Worker |-> "none"]

-----------------------------------------------------------------------------
(***************************************************************************)
(* The cluster.                                                            *)
(***************************************************************************)
\* Mutant: a manager that is cut off is elected, too.
electedAnyway(m) ==
    /\ leader = Nil
    /\ leader' = m
    /\ steady' = [w \in Worker |-> IF alive[w] THEN 0 ELSE steady[w]]
    /\ UNCHANGED <<cut, alive, failureCount, sleep, tableVars, reportVars>>

elected(m) ==
    /\ leader = Nil
    /\ m \notin cut
    /\ leader' = m
    /\ steady' = [w \in Worker |-> IF alive[w] THEN 0 ELSE steady[w]]
    /\ UNCHANGED <<cut, alive, failureCount, sleep, tableVars, reportVars>>

leaderLost ==
    /\ "leader" \in Faults
    /\ leader # Nil
    /\ leader' = Nil
    /\ UNCHANGED <<cut, workerVars, tableVars, reportVars>>

cutOff(m) ==
    /\ "cut" \in Faults
    /\ m # leader
    /\ m \notin cut
    /\ 2 * (Cardinality(cut) + 1) < Cardinality(Manager)
    /\ cut' = cut \cup {m}
    /\ UNCHANGED <<leader, workerVars, tableVars, reportVars>>

\* A manager is reached again, or hears from a new leader of commits it was not
\* told of, and applies what that leader has applied.
catchUp(m) ==
    /\ m \in cut \/ missed[m] # {}
    /\ missed[m] # {} => leader \notin {Nil, m}
    /\ cut' = cut \ {m}
    /\ LET known == {w \in missed[m] : w \notin missed[leader]}
       IN /\ age' = [age EXCEPT ![m] = [w \in Worker |-> IF w \in known THEN 0 ELSE @[w]]]
          /\ missed' = [missed EXCEPT ![m] = @ \ known]
          /\ steady' = [w \in Worker |-> IF alive[w] \/ w \in known THEN 0 ELSE steady[w]]
    /\ UNCHANGED <<leader, pending, alive, failureCount, sleep, reportVars>>

\* Heartbeats of these workers are committed, and the managers in told apply
\* them and all they have missed.
Commit(committed, told) ==
    LET applied(m) == IF m \in told THEN missed[m] \cup committed ELSE {}
    IN /\ age' = [m \in Manager |-> [w \in Worker |-> IF w \in applied(m) THEN 0 ELSE age[m][w]]]
       /\ missed' = [m \in Manager |-> (missed[m] \cup committed) \ applied(m)]
       /\ pending' = {}
       /\ steady' = [w \in Worker |-> IF ~alive[w] /\ \E m \in Manager : w \in applied(m)
                                      THEN 0 ELSE steady[w]]

\* The leader commits an entry of its own term, and with it the entries before
\* it in its log, the pending ones that survived there included; pending ones of
\* other logs are lost.  It may itself be lost before it has told the others.
CommitWith(new) ==
    /\ leader # Nil
    /\ UNCHANGED cut
    /\ \E survivors \in SUBSET pending :
          \/ /\ Commit(new \cup survivors, Manager \ cut)
             /\ UNCHANGED leader
          \/ /\ "leader" \in Faults
             /\ \E told \in SUBSET (Manager \ cut) :
                   leader \in told /\ Commit(new \cup survivors, told)
             /\ leader' = Nil

\* The heartbeat of a worker that is not followed here is committed.
otherCommitted ==
    /\ CommitWith({})
    /\ UNCHANGED <<alive, failureCount, sleep, reportVars>>

-----------------------------------------------------------------------------
(***************************************************************************)
(* sendHeartbeat(), the worker's loop: one action per outcome of an        *)
(* attempt, each with the sleep after it.                                  *)
(***************************************************************************)

\* Mutant: the back-off is not capped.
backoffUncapped(failures) == HeartbeatPeriod + failures * 2

backoff(failures) == AtMost(HeartbeatPeriod + failures * 2, MaxBackoff)

Due(w) == alive[w] /\ sleep[w] = 0

\* The attempt took the given time and left failureCount at failures.
Retry(w, failures, seconds) ==
    /\ failureCount' = [failureCount EXCEPT ![w] = AtMost(failures, MaxFailures)]
    /\ sleep' = [sleep EXCEPT ![w] = seconds + backoff(failures)]
    /\ UNCHANGED alive

\* Mutant: ACK does not reset failureCount.
heartbeatKeepsFailures(w) ==
    /\ Due(w)
    /\ Retry(w, failureCount[w], 0)
    /\ CommitWith({w})
    /\ UNCHANGED reportVars

\* ACK, and the heartbeat is committed.
heartbeatApplied(w) ==
    /\ Due(w)
    /\ Retry(w, 0, 0)
    /\ CommitWith({w})
    /\ UNCHANGED reportVars

\* ACK, and the leader is lost before the entry is on a majority, or had already
\* lost touch with one.
heartbeatDropped(w) ==
    /\ "leader" \in Faults
    /\ Due(w)
    /\ leader' = Nil
    /\ Retry(w, 0, 0)
    /\ pending' = pending \cup {w}
    /\ UNCHANGED <<cut, age, missed, steady, reportVars>>

\* ERROR: the answer is neither ACK nor NOT_LEADER, and counts as nothing; so
\* does a socket that cannot be had.
heartbeatError(w) ==
    /\ Due(w)
    /\ leader = Nil
    /\ Retry(w, failureCount[w], 0)
    /\ UNCHANGED <<steady, clusterVars, tableVars, reportVars>>

\* Refused or NOT_LEADER at once, or connect(), recv() or both time out.
heartbeatFails(w) ==
    /\ Due(w)
    /\ leader = Nil
    /\ \E seconds \in {0, SocketTimeout, 2 * SocketTimeout} :
          Retry(w, failureCount[w] + 1, seconds)
    /\ UNCHANGED <<steady, clusterVars, tableVars, reportVars>>

workerDies(w) ==
    /\ "worker" \in Faults
    /\ alive[w]
    /\ alive' = [alive EXCEPT ![w] = FALSE]
    /\ failureCount' = [failureCount EXCEPT ![w] = 0]
    /\ sleep' = [sleep EXCEPT ![w] = 0]
    /\ steady' = [steady EXCEPT ![w] = 0]
    /\ UNCHANGED <<clusterVars, tableVars, reportVars>>

workerStarts(w) ==
    /\ ~alive[w]
    /\ alive' = [alive EXCEPT ![w] = TRUE]
    /\ steady' = [steady EXCEPT ![w] = 0]
    /\ UNCHANGED <<failureCount, sleep, clusterVars, tableVars, reportVars>>

-----------------------------------------------------------------------------
(***************************************************************************)
(* generateWorkerStatusReport(), of every manager.                         *)
(***************************************************************************)

\* Mutant: the time-out of getActiveNodes(), three times as long.
isOnlineLonger(seconds) == seconds < 3 * TIMEOUT_SECONDS

\* status is "active" as well: HEARTBEAT, the one command that is ever
\* submitted, sets it.
isOnline(seconds) == seconds <= TIMEOUT_SECONDS

writeReport(m) ==
    /\ reportIn[m] = 0
    /\ report' = [w \in Worker |-> IF age[m][w] = Never THEN "none"
                                   ELSE IF isOnline(age[m][w]) THEN "online" ELSE "offline"]
    /\ reportIn' = [reportIn EXCEPT ![m] = ReportPeriod]
    /\ UNCHANGED <<clusterVars, workerVars, tableVars>>

\* A second passes once everything due in this one has been done.
tick ==
    /\ \A w \in Worker : ~Due(w)
    /\ \A m \in Manager : reportIn[m] > 0
    /\ sleep' = [w \in Worker |-> IF alive[w] THEN sleep[w] - 1 ELSE sleep[w]]
    /\ steady' = [w \in Worker |-> IF alive[w] /\ leader = Nil THEN 0
                                   ELSE AtMost(steady[w] + 1, MaxSeconds)]
    /\ age' = [m \in Manager |-> [w \in Worker |->
                  IF age[m][w] = Never THEN Never ELSE AtMost(age[m][w] + 1, MaxAge)]]
    /\ reportIn' = [m \in Manager |-> reportIn[m] - 1]
    /\ UNCHANGED <<clusterVars, alive, failureCount, pending, missed, report>>

Next ==
    \/ leaderLost \/ otherCommitted \/ tick
    \/ \E m \in Manager : elected(m) \/ cutOff(m) \/ catchUp(m) \/ writeReport(m)
    \/ \E w \in Worker : \/ heartbeatApplied(w) \/ heartbeatDropped(w)
                         \/ heartbeatError(w) \/ heartbeatFails(w)
                         \/ workerDies(w) \/ workerStarts(w)

Spec == Init /\ [][Next]_vars

-----------------------------------------------------------------------------
LongestSleep == MaxBackoff + 2 * SocketTimeout    \* with the attempt before it

TypeOK ==
    /\ leader \in Manager \cup {Nil}
    /\ cut \subseteq Manager
    /\ alive \in [Worker -> BOOLEAN]
    /\ failureCount \in [Worker -> 0..MaxFailures]
    /\ sleep \in [Worker -> 0..LongestSleep]
    /\ steady \in [Worker -> 0..MaxSeconds]
    /\ age \in [Manager -> [Worker -> (0..MaxAge) \cup {Never}]]
    /\ pending \subseteq Worker
    /\ missed \in [Manager -> SUBSET Worker]
    /\ reportIn \in [Manager -> 0..ReportPeriod]
    /\ report \in [Worker -> {"none", "online", "offline"}]

\* A live worker is reported online at the latest 40 seconds (with the times of
\* the code) after it, a leader and all managers are there to stay, however long
\* the outage was and however often the worker failed: the time-outs of an
\* attempt, the longest back-off after it and the report period add up.
RecoveryTime == LongestSleep + ReportPeriod + 1
LiveWorkerRecovers ==
    \A w \in Worker : alive[w] /\ leader # Nil /\ cut = {} /\ steady[w] >= RecoveryTime
                        => report[w] = "online"

\* A dead worker is not reported online once the time-out and a report period (16
\* seconds) have passed since it died and since any manager last applied a heartbeat of
\* it: one that a new leader commits late (raft_node.cpp:1028) or a manager
\* catches up on is stamped with the time of then (state_machine.cpp:55), and no
\* other of the managers that write the report keeps the worker alive longer,
\* whoever leads and whoever is cut off.
DetectionTime == TIMEOUT_SECONDS + ReportPeriod + 1
DeadWorkerDetected ==
    \A w \in Worker : ~alive[w] /\ steady[w] >= DetectionTime => report[w] # "online"

\* Whatever managers are cut off, elected and reached again, the leader's own
\* table is never older than a heartbeat period about a live worker, once the
\* longest back-off is over.
LeaderKnowsLive ==
    \A w \in Worker : alive[w] /\ leader # Nil /\ steady[w] > LongestSleep =>
        age[leader][w] # Never /\ age[leader][w] <= HeartbeatPeriod

\* The managers are interchangeable.
ManagerSymmetry == Permutations(Manager)
=============================================================================
