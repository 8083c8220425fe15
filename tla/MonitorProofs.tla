---------------------------- MODULE MonitorProofs ----------------------------
(***************************************************************************)
(* How late the report may be, for any number of managers and workers, any *)
(* times at which the managers write it and any periods and time-outs that *)
(* satisfy TimesAssumption, those of the code among them: the back-off,    *)
(* the time-out of the report and its period add up as LiveWorkerRecovers, *)
(* DeadWorkerDetected and LeaderKnowsLive say.                             *)
(*                                                                         *)
(* None of the three is inductive: each adds up times that run down        *)
(* together, so that the sum of what has passed and what is left stays the *)
(* same in every tick.                                                     *)
(***************************************************************************)
EXTENDS Monitor, TLAPS

\* A manager that is reached either has a heartbeat of the worker and gets the
\* next one when it is a heartbeat period old, or the worker still sleeps off the
\* outage.
Fresh(m, w) ==
    \/ steady[w] + sleep[w] <= LongestSleep
    \/ age[m][w] # Never /\ age[m][w] + sleep[w] <= HeartbeatPeriod

\* The report is right, or some manager has yet to write its first one after
\* the longest sleep.
ReportDue(m, w) ==
    report[w] = "online" \/ steady[w] + reportIn[m] <= LongestSleep + ReportPeriod

\* The table has no heartbeat of a dead worker that is younger than its death.
Aged(m, w) == age[m][w] # Never => age[m][w] >= AtMost(steady[w], MaxAge)

\* A dead worker that is still reported online will not be in the next report.
ReportOld(m, w) == steady[w] + reportIn[m] <= TIMEOUT_SECONDS + ReportPeriod

LiveInv ==
    \A w \in Worker : alive[w] /\ leader # Nil =>
        /\ \A m \in Manager \ cut : Fresh(m, w)
        /\ cut = {} => \A m \in Manager : ReportDue(m, w)

DeadInv ==
    \A w \in Worker : ~alive[w] =>
        /\ \A m \in Manager : Aged(m, w)
        /\ report[w] = "online" => \A m \in Manager : ReportOld(m, w)

Inv ==
    /\ TypeOK
    /\ leader \notin cut
    /\ \A w \in Worker : report[w] = "online" => Manager # {}
    /\ LiveInv
    /\ DeadInv

-----------------------------------------------------------------------------
\* The constants are natural numbers.
LEMMA NatTimes ==
    /\ HeartbeatPeriod \in Nat /\ MaxBackoff \in Nat /\ SocketTimeout \in Nat
    /\ TIMEOUT_SECONDS \in Nat /\ ReportPeriod \in Nat
    /\ HeartbeatPeriod <= MaxBackoff /\ HeartbeatPeriod <= TIMEOUT_SECONDS
    /\ LongestSleep \in Nat /\ LongestSleep >= MaxBackoff
    /\ MaxAge \in Nat /\ MaxAge = TIMEOUT_SECONDS + 1
BY TimesAssumption DEF LongestSleep, MaxAge

\* The back-off of the worker's loop is between a heartbeat period and the
\* longest, and is the period itself after a success.
LEMMA BackoffBounds ==
    /\ backoff(0) = HeartbeatPeriod
    /\ \A failures \in Nat : backoff(failures) \in HeartbeatPeriod..MaxBackoff
BY NatTimes DEF backoff, AtMost

\* The times of TypeOK, one by one.
Times ==
    /\ \A w \in Worker : /\ sleep[w] \in 0..LongestSleep
                          /\ steady[w] \in Nat /\ steady[w] <= MaxSeconds
    /\ \A m \in Manager : reportIn[m] \in 0..ReportPeriod
    /\ \A m \in Manager, w \in Worker : age[m][w] = Never \/ age[m][w] \in 0..MaxAge

\* The type invariant bounds every time, in this state and in the next.
LEMMA TypeTimes == /\ TypeOK => Times
                   /\ TypeOK' => Times'
BY BoundAssumption, NatTimes DEF TypeOK, Times

\* A new cluster satisfies Inv: everybody is up and nothing has been reported.
LEMMA InitInv == Init => Inv
<1> SUFFICES ASSUME Init PROVE Inv
  OBVIOUS
<1>1. reportIn \in [Manager -> 0..ReportPeriod]
  <2>1. Phase \subseteq 0..ReportPeriod
    BY PhaseAssumption, NatTimes
  <2>2. reportIn \in [Manager -> Phase]
    BY DEF Init
  <2> QED BY <2>1, <2>2
<1>2. TypeOK
  BY <1>1, BoundAssumption, NatTimes DEF Init, TypeOK
<1> QED BY <1>2, LeaderAssumption DEF Init, Inv, LiveInv, DeadInv

\* The sleep after an attempt keeps the types.
LEMMA RetryType ==
    ASSUME TypeOK, NEW w \in Worker, NEW failures \in Nat,
           NEW seconds \in {0, SocketTimeout, 2 * SocketTimeout},
           Retry(w, failures, seconds)
    PROVE  /\ failureCount' \in [Worker -> 0..MaxFailures]
           /\ sleep' \in [Worker -> 0..LongestSleep]
           /\ sleep' = [sleep EXCEPT ![w] = seconds + backoff(failures)]
           /\ UNCHANGED alive
<1>1. seconds + backoff(failures) \in 0..LongestSleep
  BY BackoffBounds, NatTimes DEF LongestSleep
<1>2. AtMost(failures, MaxFailures) \in 0..MaxFailures
  BY BoundAssumption DEF AtMost
<1> QED BY <1>1, <1>2 DEF Retry, TypeOK

-----------------------------------------------------------------------------
(***************************************************************************)
(* One lemma per group of actions.                                         *)
(***************************************************************************)

\* Whoever is elected, lost, cut off or reached again: an election and a
\* manager that is reached again start steady anew for those it is about.
LEMMA ClusterStep ==
    ASSUME Inv,
           leaderLost \/ \E m \in Manager : elected(m) \/ cutOff(m) \/ catchUp(m)
    PROVE  Inv'
<1> USE DEF Inv, reportVars, tableVars, workerVars
<1>t. Times BY TypeTimes
<1>1. CASE leaderLost
  <2>1. TypeOK' /\ leader' = Nil /\ UNCHANGED <<cut, alive, age, steady, report, reportIn>>
    BY <1>1 DEF leaderLost, TypeOK
  <2>2. Nil \notin cut
    BY LeaderAssumption DEF TypeOK
  <2>3. DeadInv'
    BY <2>1 DEF DeadInv, Aged, ReportOld
  <2> QED BY <2>1, <2>2, <2>3 DEF LiveInv
<1>2. ASSUME NEW m \in Manager, elected(m) PROVE Inv'
  <2>1. TypeOK'
    BY <1>2, BoundAssumption DEF elected, TypeOK
  <2>2. /\ UNCHANGED <<cut, alive, sleep, age, report, reportIn>> /\ leader' \notin cut
        /\ \A w \in Worker : steady'[w] = IF alive[w] THEN 0 ELSE steady[w]
    BY <1>2 DEF elected
  <2>3. LiveInv'
    BY <1>t, <2>2, NatTimes DEF LiveInv, Times, Fresh, ReportDue
  <2>4. DeadInv'
    BY <2>2 DEF DeadInv, Aged, ReportOld
  <2> QED BY <2>1, <2>2, <2>3, <2>4
<1>3. ASSUME NEW m \in Manager, cutOff(m) PROVE Inv'
  <2>1. TypeOK'
    BY <1>3 DEF cutOff, TypeOK
  <2>2. /\ UNCHANGED <<leader, alive, sleep, steady, age, report, reportIn>>
        /\ cut' = cut \cup {m} /\ leader # m
    BY <1>3 DEF cutOff
  <2>3. LiveInv'
    BY <2>2 DEF LiveInv, Fresh
  <2>4. DeadInv'
    BY <2>2 DEF DeadInv, Aged, ReportOld
  <2> QED BY <2>1, <2>2, <2>3, <2>4
<1>4. ASSUME NEW m \in Manager, catchUp(m) PROVE Inv'
  <2> DEFINE known == {w \in missed[m] : w \notin missed[leader]}
  <2>1. /\ UNCHANGED <<leader, alive, sleep, report, reportIn, failureCount, pending>>
        /\ cut' = cut \ {m}
        /\ age' = [age EXCEPT ![m] = [w \in Worker |-> IF w \in known THEN 0 ELSE @[w]]]
        /\ missed' = [missed EXCEPT ![m] = @ \ known]
        /\ steady' = [w \in Worker |-> IF alive[w] \/ w \in known THEN 0 ELSE steady[w]]
    BY <1>4 DEF catchUp
  <2> HIDE DEF known
  <2>2. TypeOK'
    <3>1. age' \in [Manager -> [Worker -> (0..MaxAge) \cup {Never}]]
      BY <2>1, NatTimes DEF TypeOK
    <3>2. steady' \in [Worker -> 0..MaxSeconds] /\ missed' \in [Manager -> SUBSET Worker]
      BY <2>1, BoundAssumption DEF TypeOK
    <3> QED BY <2>1, <3>1, <3>2 DEF TypeOK
  <2>3. \A w \in Worker :
          /\ alive[w] \/ w \in known => steady'[w] = 0
          /\ w \notin known => \A n \in Manager : age'[n][w] = age[n][w]
          /\ ~alive[w] /\ w \notin known => steady'[w] = steady[w]
    BY <2>1 DEF TypeOK
  <2>4. Times'
    BY <2>2, TypeTimes
  <2>5. LiveInv'
    BY <2>1, <2>3, <2>4, NatTimes DEF LiveInv, Times, Fresh, ReportDue
  <2>6. DeadInv'
    BY <2>1, <2>3, <2>4, NatTimes DEF DeadInv, Times, Aged, ReportOld, AtMost
  <2> QED BY <2>1, <2>2, <2>5, <2>6
<1> QED BY <1>1, <1>2, <1>3, <1>4

\* What a commit does to the tables: a heartbeat that is applied is as new as can
\* be, and steady starts anew for a dead worker it is of.
LEMMA CommitFacts ==
    ASSUME TypeOK, NEW committed \in SUBSET Worker, NEW told \in SUBSET Manager,
           Commit(committed, told)
    PROVE  /\ age' \in [Manager -> [Worker -> (0..MaxAge) \cup {Never}]]
           /\ missed' \in [Manager -> SUBSET Worker]
           /\ steady' \in [Worker -> 0..MaxSeconds]
           /\ pending' = {}
           /\ \A m \in Manager, w \in Worker : age'[m][w] \in {0, age[m][w]}
           /\ \A m \in told, w \in committed : age'[m][w] = 0
           /\ \A w \in Worker : alive[w] => steady'[w] = steady[w]
           /\ \A w \in Worker : ~alive[w] =>
                 \/ steady'[w] = 0
                 \/ steady'[w] = steady[w] /\ \A m \in Manager : age'[m][w] = age[m][w]
<1> DEFINE applied(m) == IF m \in told THEN missed[m] \cup committed ELSE {}
<1>1. /\ age' = [m \in Manager |-> [w \in Worker |-> IF w \in applied(m) THEN 0 ELSE age[m][w]]]
      /\ missed' = [m \in Manager |-> (missed[m] \cup committed) \ applied(m)]
      /\ pending' = {}
      /\ steady' = [w \in Worker |-> IF ~alive[w] /\ \E m \in Manager : w \in applied(m)
                                     THEN 0 ELSE steady[w]]
  BY DEF Commit
<1>2. \A m \in told : committed \subseteq applied(m)
  OBVIOUS
<1> HIDE DEF applied
<1>3. age' \in [Manager -> [Worker -> (0..MaxAge) \cup {Never}]]
  BY <1>1, NatTimes DEF TypeOK
<1>4. missed' \in [Manager -> SUBSET Worker] /\ steady' \in [Worker -> 0..MaxSeconds]
  BY <1>1, BoundAssumption DEF TypeOK
<1>5. \A m \in Manager, w \in Worker : age'[m][w] = IF w \in applied(m) THEN 0 ELSE age[m][w]
  BY <1>1
<1>6. \A w \in Worker : steady'[w] = IF ~alive[w] /\ \E m \in Manager : w \in applied(m)
                                      THEN 0 ELSE steady[w]
  BY <1>1
<1> QED BY <1>1, <1>2, <1>3, <1>4, <1>5, <1>6

\* A commit, and the sleep of the workers whose new heartbeats are in it: every
\* manager that is reached is fresh, or there is no leader any more.
LEMMA CommitStep ==
    ASSUME Inv, NEW new \in SUBSET Worker, CommitWith(new), UNCHANGED <<alive, reportVars>>,
           failureCount' \in [Worker -> 0..MaxFailures],
           sleep' \in [Worker -> 0..LongestSleep],
           \A w \in Worker : sleep'[w] = IF w \in new THEN HeartbeatPeriod ELSE sleep[w]
    PROVE  Inv'
<1> USE DEF Inv, reportVars
<1>1. PICK survivors \in SUBSET pending, told \in SUBSET Manager :
        /\ Commit(new \cup survivors, told)
        /\ (leader' = leader /\ told = Manager \ cut) \/ leader' = Nil
  BY DEF CommitWith
<1>2. new \cup survivors \in SUBSET Worker
  BY DEF TypeOK
<1>3. /\ age' \in [Manager -> [Worker -> (0..MaxAge) \cup {Never}]]
      /\ missed' \in [Manager -> SUBSET Worker]
      /\ steady' \in [Worker -> 0..MaxSeconds]
      /\ pending' = {}
      /\ \A m \in Manager, w \in Worker : age'[m][w] \in {0, age[m][w]}
      /\ \A m \in told, w \in new \cup survivors : age'[m][w] = 0
      /\ \A w \in Worker : alive[w] => steady'[w] = steady[w]
      /\ \A w \in Worker : ~alive[w] =>
            \/ steady'[w] = 0
            \/ steady'[w] = steady[w] /\ \A m \in Manager : age'[m][w] = age[m][w]
  BY <1>1, <1>2, CommitFacts
<1>4. cut' = cut /\ leader' \in {leader, Nil} /\ leader' \notin cut'
  BY <1>1, LeaderAssumption DEF CommitWith, TypeOK
<1>5. TypeOK'
  BY <1>3, <1>4 DEF TypeOK
<1>6. Times /\ Times'
  BY <1>5, TypeTimes
<1>7. LiveInv'
  <2> SUFFICES ASSUME NEW w \in Worker, alive[w], leader' # Nil, leader' = leader,
                      told = Manager \ cut
               PROVE  /\ \A m \in Manager \ cut : Fresh(m, w)'
                      /\ cut = {} => \A m \in Manager : ReportDue(m, w)'
    BY <1>1, <1>4 DEF LiveInv
  <2>1. ASSUME NEW m \in Manager \ cut, w \in new PROVE Fresh(m, w)'
    <3>1. age'[m][w] = 0 /\ sleep'[w] = HeartbeatPeriod
      BY <1>3, <2>1
    <3> QED BY <3>1, NeverAssumption, NatTimes DEF Fresh
  <2>2. ASSUME NEW m \in Manager \ cut, w \notin new PROVE Fresh(m, w)'
    <3>1. Fresh(m, w)
      BY DEF LiveInv
    <3>2. sleep'[w] = sleep[w] /\ steady'[w] = steady[w] /\ age'[m][w] \in {0, age[m][w]}
      BY <1>3, <2>2
    <3> QED BY <1>6, <3>1, <3>2, NeverAssumption, NatTimes DEF Fresh, Times
  <2>3. ASSUME cut = {}, NEW m \in Manager PROVE ReportDue(m, w)'
    BY <1>3, <2>3 DEF LiveInv, ReportDue
  <2> QED BY <2>1, <2>2, <2>3
<1>8. DeadInv'
  <2> SUFFICES ASSUME NEW w \in Worker, ~alive[w], NEW m \in Manager
               PROVE  Aged(m, w)' /\ (report[w] = "online" => ReportOld(m, w)')
    BY DEF DeadInv
  <2>1. CASE steady'[w] = 0
    BY <1>6, <2>1, BoundAssumption, NatTimes DEF Aged, ReportOld, Times, AtMost
  <2>2. CASE steady'[w] = steady[w] /\ age'[m][w] = age[m][w]
    BY <2>2 DEF DeadInv, Aged, ReportOld
  <2> QED BY <1>3, <2>1, <2>2
<1> QED BY <1>4, <1>5, <1>7, <1>8

\* The worker's loop: a heartbeat that is committed makes every manager that is
\* reached fresh; the other outcomes leave no leader.
LEMMA WorkerStep ==
    ASSUME Inv, NEW w \in Worker,
           \/ heartbeatApplied(w) \/ heartbeatDropped(w) \/ heartbeatError(w)
           \/ heartbeatFails(w) \/ workerDies(w) \/ workerStarts(w)
    PROVE  Inv'
<1> USE DEF Inv, reportVars, tableVars, clusterVars
<1>t. Times BY TypeTimes
<1>1. CASE heartbeatApplied(w)
  <2>1. /\ failureCount' \in [Worker -> 0..MaxFailures]
        /\ sleep' \in [Worker -> 0..LongestSleep]
        /\ sleep' = [sleep EXCEPT ![w] = HeartbeatPeriod]
        /\ UNCHANGED alive
    <3>1. Retry(w, 0, 0) /\ 0 + backoff(0) = HeartbeatPeriod
      BY <1>1, BackoffBounds, NatTimes DEF heartbeatApplied
    <3> QED BY <3>1, RetryType
  <2>2. \A v \in Worker : sleep'[v] = IF v \in {w} THEN HeartbeatPeriod ELSE sleep[v]
    BY <2>1 DEF TypeOK
  <2> QED BY <1>1, <2>1, <2>2, CommitStep DEF heartbeatApplied
<1>2. ASSUME NEW failures \in Nat, NEW seconds \in {0, SocketTimeout, 2 * SocketTimeout},
             Retry(w, failures, seconds), leader' = Nil, pending' \in SUBSET Worker,
             UNCHANGED <<cut, age, missed, steady, reportVars>>
      PROVE  Inv'
  <2>1. /\ failureCount' \in [Worker -> 0..MaxFailures]
        /\ sleep' \in [Worker -> 0..LongestSleep]
        /\ UNCHANGED alive
    BY <1>2, RetryType
  <2>2. TypeOK' /\ Nil \notin cut
    BY <1>2, <2>1, LeaderAssumption DEF TypeOK
  <2>3. DeadInv'
    BY <1>2, <2>1 DEF DeadInv, Aged, ReportOld
  <2> QED BY <1>2, <2>2, <2>3 DEF LiveInv
<1>3. CASE heartbeatDropped(w)
  BY <1>2, <1>3 DEF heartbeatDropped, TypeOK
<1>4. failureCount[w] \in Nat /\ pending \in SUBSET Worker
  BY BoundAssumption DEF TypeOK
<1>5. CASE heartbeatError(w)
  BY <1>2, <1>4, <1>5 DEF heartbeatError
<1>6. CASE heartbeatFails(w)
  BY <1>2, <1>4, <1>6 DEF heartbeatFails
<1>7. CASE workerDies(w) \/ workerStarts(w)
  <2>1. /\ UNCHANGED <<leader, cut, age, report, reportIn, pending, missed>>
        /\ steady' = [steady EXCEPT ![w] = 0]
        /\ alive' \in [Worker -> BOOLEAN]
        /\ \A v \in Worker : v # w => alive'[v] = alive[v] /\ sleep'[v] = sleep[v]
    BY <1>7 DEF workerDies, workerStarts, TypeOK
  <2>2. TypeOK'
    <3>1. steady' \in [Worker -> 0..MaxSeconds]
      BY <2>1, BoundAssumption DEF TypeOK
    <3>2. failureCount' = failureCount \/ failureCount' = [failureCount EXCEPT ![w] = 0]
      BY <1>7 DEF workerDies, workerStarts
    <3>3. failureCount' \in [Worker -> 0..MaxFailures]
      BY <3>2, BoundAssumption DEF TypeOK
    <3>4. sleep' \in [Worker -> 0..LongestSleep]
      BY <1>7, NatTimes DEF workerDies, workerStarts, TypeOK
    <3> QED BY <2>1, <3>1, <3>3, <3>4 DEF TypeOK
  <2>3. steady'[w] = 0 /\ \A v \in Worker : v # w => steady'[v] = steady[v]
    BY <2>1 DEF TypeOK
  <2>4. Times'
    BY <2>2, TypeTimes
  <2>5. LiveInv'
    BY <2>1, <2>3, <2>4, NatTimes DEF LiveInv, Times, Fresh, ReportDue
  <2>6. DeadInv'
    BY <2>1, <2>3, <2>4, NatTimes DEF DeadInv, Times, Aged, ReportOld, AtMost
  <2> QED BY <2>1, <2>2, <2>5, <2>6
<1> QED BY <1>1, <1>3, <1>5, <1>6, <1>7

\* A report that is written once the table must be right is right.
LEMMA ReportStep ==
    ASSUME Inv, NEW m \in Manager, writeReport(m)
    PROVE  Inv'
<1> USE DEF Inv
<1>1. TypeOK'
  BY NatTimes DEF writeReport, TypeOK, tableVars, clusterVars, workerVars
<1>2. \A w \in Worker : report'[w] = "online" <=> age[m][w] # Never /\ age[m][w] <= TIMEOUT_SECONDS
  BY DEF writeReport, isOnline
<1>3. UNCHANGED <<leader, cut, alive, sleep, steady, age>>
  BY DEF writeReport, tableVars, clusterVars, workerVars
<1>4. Times /\ Times'
  BY <1>1, TypeTimes
<1>5. LiveInv'
  <2> SUFFICES ASSUME NEW w \in Worker, alive[w], leader # Nil, cut = {}, NEW n \in Manager
               PROVE  ReportDue(n, w)'
    BY <1>3 DEF LiveInv, Fresh
  <2>1. Fresh(m, w)
    BY DEF LiveInv
  <2> QED BY <1>2, <1>3, <1>4, <2>1, NeverAssumption, NatTimes DEF Fresh, ReportDue, Times
<1>6. DeadInv'
  <2> SUFFICES ASSUME NEW w \in Worker, ~alive[w], report'[w] = "online", NEW n \in Manager
               PROVE  ReportOld(n, w)'
    BY <1>3 DEF DeadInv, Aged
  <2>1. Aged(m, w)
    BY DEF DeadInv
  <2> QED BY <1>2, <1>3, <1>4, <2>1, NatTimes DEF Aged, ReportOld, Times, AtMost
<1> QED BY <1>1, <1>3, <1>5, <1>6

\* A second that passes takes from what is left what it adds to what has passed.
LEMMA TickStep == Inv /\ tick => Inv'
<1> SUFFICES ASSUME Inv, tick PROVE Inv'
  OBVIOUS
<1> USE DEF Inv
<1>t. Times BY TypeTimes
<1>1. UNCHANGED <<leader, cut, alive, failureCount, pending, missed, report>>
  BY DEF tick, clusterVars
<1>2. \A w \in Worker : sleep'[w] = IF alive[w] THEN sleep[w] - 1 ELSE sleep[w]
  BY DEF tick
<1>3. \A w \in Worker : alive[w] => sleep[w] > 0
  BY <1>t DEF tick, Due, Times
<1>4. \A m \in Manager : reportIn[m] > 0 /\ reportIn'[m] = reportIn[m] - 1
  BY DEF tick
<1>5. \A w \in Worker :
        /\ steady'[w] \in Nat /\ steady'[w] <= MaxSeconds /\ steady'[w] <= steady[w] + 1
        /\ ~alive[w] => steady'[w] = AtMost(steady[w] + 1, MaxSeconds)
  BY <1>t, BoundAssumption DEF tick, Times, AtMost
<1>6. \A m \in Manager, w \in Worker :
        age'[m][w] = IF age[m][w] = Never THEN Never ELSE AtMost(age[m][w] + 1, MaxAge)
  BY DEF tick
<1>7. TypeOK'
  <2>1. sleep' \in [Worker -> 0..LongestSleep]
    BY <1>t, <1>2, <1>3, NatTimes DEF tick, Times
  <2>2. steady' \in [Worker -> 0..MaxSeconds]
    BY <1>5, BoundAssumption DEF tick
  <2>3. age' \in [Manager -> [Worker -> (0..MaxAge) \cup {Never}]]
    <3>1. \A m \in Manager, w \in Worker : age'[m][w] \in (0..MaxAge) \cup {Never}
      BY <1>t, <1>6, NatTimes DEF Times, AtMost
    <3> QED BY <3>1 DEF tick
  <2>4. reportIn' \in [Manager -> 0..ReportPeriod]
    BY <1>t, <1>4, NatTimes DEF tick, Times
  <2> QED BY <1>1, <2>1, <2>2, <2>3, <2>4 DEF TypeOK
<1>8. LiveInv'
  <2> SUFFICES ASSUME NEW w \in Worker, alive[w], leader # Nil
               PROVE  /\ \A m \in Manager \ cut : Fresh(m, w)'
                      /\ cut = {} => \A m \in Manager : ReportDue(m, w)'
    BY <1>1 DEF LiveInv
  <2>1. ASSUME NEW m \in Manager \ cut PROVE Fresh(m, w)'
    <3>1. Fresh(m, w) BY DEF LiveInv
    <3>2. CASE steady[w] + sleep[w] <= LongestSleep
      BY <1>t, <1>2, <1>3, <1>5, <3>2, NatTimes DEF Fresh, Times
    <3>3. CASE age[m][w] # Never /\ age[m][w] + sleep[w] <= HeartbeatPeriod
      BY <1>t, <1>2, <1>3, <1>6, <3>3, NeverAssumption, NatTimes DEF Fresh, Times, AtMost
    <3> QED BY <3>1, <3>2, <3>3 DEF Fresh
  <2>2. ASSUME cut = {}, NEW m \in Manager PROVE ReportDue(m, w)'
    <3>1. ReportDue(m, w) BY <2>2 DEF LiveInv
    <3> QED BY <1>t, <1>1, <1>4, <1>5, <3>1, NatTimes DEF ReportDue, Times
  <2> QED BY <2>1, <2>2
<1>9. DeadInv'
  <2> SUFFICES ASSUME NEW w \in Worker, ~alive[w], NEW m \in Manager
               PROVE  Aged(m, w)' /\ (report[w] = "online" => ReportOld(m, w)')
    BY <1>1 DEF DeadInv
  <2>1. Aged(m, w) /\ (report[w] = "online" => ReportOld(m, w))
    BY DEF DeadInv
  <2>2. Aged(m, w)'
    BY <1>t, <1>5, <1>6, <2>1, BoundAssumption, NatTimes DEF Aged, Times, AtMost
  <2> QED BY <1>t, <1>4, <1>5, <2>1, <2>2, NatTimes DEF ReportOld, Times
<1> QED BY <1>1, <1>7, <1>8, <1>9

\* No step breaks Inv.
LEMMA NextInv == Inv /\ [Next]_vars => Inv'
<1> SUFFICES ASSUME Inv, [Next]_vars PROVE Inv'
  OBVIOUS
<1>1. CASE UNCHANGED vars
  BY <1>1 DEF vars, clusterVars, workerVars, tableVars, reportVars, Inv, TypeOK,
              LiveInv, DeadInv, Fresh, ReportDue, Aged, ReportOld
<1>2. CASE otherCommitted
  <2>1. \A w \in Worker : sleep'[w] = IF w \in {} THEN HeartbeatPeriod ELSE sleep[w]
    BY <1>2 DEF otherCommitted
  <2> QED BY <1>2, <2>1, CommitStep DEF otherCommitted, Inv, TypeOK
<1> QED BY <1>1, <1>2, ClusterStep, WorkerStep, ReportStep, TickStep DEF Next

-----------------------------------------------------------------------------
\* What the tables, the timers and the report may hold.
THEOREM TypeCorrect == Spec => []TypeOK
<1>1. Inv => TypeOK BY DEF Inv
<1> QED BY <1>1, InitInv, NextInv, PTL DEF Spec

\* A live worker is reported online at the latest 40 seconds, with the times of
\* the code, after it, a leader and all managers are there to stay, however many
\* managers write the report and whenever they do.
THEOREM WorkerRecovers == Spec => []LiveWorkerRecovers
<1>1. Inv => LiveWorkerRecovers
  BY LeaderAssumption, NatTimes DEF Inv, TypeOK, LiveInv, ReportDue, LiveWorkerRecovers,
     RecoveryTime
<1> QED BY <1>1, InitInv, NextInv, PTL DEF Spec

\* A dead worker is not reported online 16 seconds, with the times of the code,
\* after it died and a manager last applied a heartbeat of it, however late a new
\* leader committed it or a manager caught up on it.
THEOREM DeathDetected == Spec => []DeadWorkerDetected
<1>1. Inv => DeadWorkerDetected
  BY NatTimes DEF Inv, TypeOK, DeadInv, ReportOld, DeadWorkerDetected, DetectionTime
<1> QED BY <1>1, InitInv, NextInv, PTL DEF Spec

\* Whoever leads has heard of a live worker within the last heartbeat period, once
\* the longest back-off is over.
THEOREM LeaderInformed == Spec => []LeaderKnowsLive
<1>1. Inv => LeaderKnowsLive
  BY LeaderAssumption, NeverAssumption, NatTimes
     DEF Inv, TypeOK, LiveInv, Fresh, LeaderKnowsLive
<1> QED BY <1>1, InitInv, NextInv, PTL DEF Spec
=============================================================================
