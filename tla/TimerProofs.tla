----------------------------- MODULE TimerProofs -----------------------------
(***************************************************************************)
(* The timers of a manager stay alive and never double, for any number of  *)
(* timer threads that are left over from earlier starts.                   *)
(***************************************************************************)
EXTENDS NodeTimers, FiniteSetTheorems, TLAPS

\* Only the newest thread of a timer may sleep with its flag set.
Chained(T) == \A t \in Armed(T) : t = T.current

Sound(T) == T \in Timer /\ Chained(T)

Inv == TypeOK /\ Chained(electionTimer) /\ Chained(heartbeatTimer) /\ TimersAlive

-----------------------------------------------------------------------------
\* Timer::cancel() leaves no thread armed and none that waits for mtx behind.
LEMMA CancelFacts ==
    ASSUME NEW T, Sound(T)
    PROVE  Sound(cancel(T)) /\ Armed(cancel(T)) = {} /\ Pending(cancel(T)) = Pending(T)
<1>1. cancel(T) \in Timer
  BY ThreadAssumption DEF Sound, Timer, cancel
<1>2. Armed(cancel(T)) = {}
  BY ThreadAssumption DEF Sound, Timer, cancel, Armed, Chained
<1>3. Pending(cancel(T)) = Pending(T)
  BY DEF Sound, Timer, cancel, Pending
<1> QED BY <1>1, <1>2, <1>3 DEF Sound, Chained

\* cancel() and start() leave exactly the new thread armed.
LEMMA StartFacts ==
    ASSUME NEW T, Sound(T), NEW u \in Thread
    PROVE  Sound(start(cancel(T), u)) /\ Armed(start(cancel(T), u)) = {u}
<1> DEFINE C == cancel(T)  D == cancel(C)  S == start(C, u)
<1>1. Sound(C) /\ Armed(C) = {} BY CancelFacts
<1>2. Sound(D) /\ Armed(D) = {} /\ D.at = C.at
  BY <1>1, CancelFacts DEF cancel, Sound, Timer
<1> HIDE DEF C, D
<1>3. S \in Timer /\ S.current = u
  BY <1>1, <1>2 DEF D, start, Sound, Timer
<1>4. \A t \in Thread : S.at[t] = "sleep" /\ S.flag[t] <=> t = u
  BY <1>1, <1>2 DEF D, start, Sound, Timer, Armed
<1> QED BY <1>3, <1>4 DEF C, Sound, Chained, Armed

\* The end of a thread that waits for mtx arms and disarms nobody.
LEMMA EndFacts ==
    ASSUME NEW T, Sound(T), NEW t \in Pending(T)
    PROVE  Sound(End(T, t))
BY DEF Sound, Timer, End, Pending, Armed, Chained

\* A thread that wakes with its flag set waits for mtx next; one whose flag was
\* cleared was not counted.
LEMMA WakeFacts ==
    ASSUME NEW T, Sound(T), NEW t \in Thread, T.at[t] = "sleep",
           Armed(T) \cup Pending(T) # {}
    PROVE  Armed(wake(T, t)) \cup Pending(wake(T, t)) # {}
<1>1. PICK x \in Thread : x \in Armed(T) \cup Pending(T)
  BY DEF Armed, Pending
<1>2. x \in Armed(wake(T, t)) \cup Pending(wake(T, t))
  BY <1>1 DEF Armed, Pending, wake, Sound, Timer
<1> QED BY <1>2

\* Waking leaves a timer sound.
LEMMA WakeSound ==
    ASSUME NEW T, Sound(T), NEW t \in Thread, T.at[t] = "sleep"
    PROVE  Sound(wake(T, t))
BY DEF Sound, Timer, wake, Armed, Chained

-----------------------------------------------------------------------------
\* A new manager is a follower whose election timer is armed.
LEMMA InitInv == Init => Inv
<1> SUFFICES ASSUME Init PROVE Inv
  OBVIOUS
<1>1. Sound(NewTimer) /\ cancel(NewTimer) = NewTimer
  BY ThreadAssumption DEF Sound, Timer, NewTimer, Chained, Armed, cancel
<1>2. PICK u \in Thread : electionTimer = start(NewTimer, u)
  BY DEF Init
<1>3. Sound(electionTimer) /\ Armed(electionTimer) = {u}
  BY <1>1, <1>2, StartFacts
<1> QED BY <1>1, <1>3 DEF Init, Inv, TypeOK, Sound, TimersAlive

\* Every critical section and every step of a timer thread keeps Inv: whoever
\* takes the role arms the timer of that role, and a callback that ends without
\* re-arming belongs to the other role.
LEMMA NextInv == Inv /\ [Next]_vars => Inv'
<1> SUFFICES ASSUME Inv, [Next]_vars PROVE Inv'
  OBVIOUS
<1> DEFINE E == electionTimer  H == heartbeatTimer
<1> USE DEF Inv, TypeOK
<1>1. Sound(E) /\ Sound(H)
  BY DEF Sound
<1>2. ASSUME NEW T, Sound(T), resetElectionTimer(T)
      PROVE  Sound(E') /\ Armed(E') # {}
  <2>1. PICK u \in Thread : E' = start(cancel(T), u)
    BY <1>2 DEF resetElectionTimer, Free
  <2>2. Sound(start(cancel(T), u)) /\ Armed(start(cancel(T), u)) = {u}
    BY <1>2, StartFacts
  <2> QED BY <2>1, <2>2
<1>3. ASSUME NEW T, Sound(T), scheduleHeartbeat(T)
      PROVE  Sound(H') /\ Armed(H') # {}
  <2>1. PICK u \in Thread : H' = start(cancel(T), u)
    BY <1>3 DEF scheduleHeartbeat, Free
  <2>2. Sound(start(cancel(T), u)) /\ Armed(start(cancel(T), u)) = {u}
    BY <1>3, StartFacts
  <2> QED BY <2>1, <2>2
<1>4. ASSUME becomeFollower
      PROVE  role' = "FOLLOWER" /\ Sound(E') /\ Sound(H') /\ Armed(E') # {}
  BY <1>1, <1>2, <1>4, CancelFacts DEF becomeFollower
<1>5. ASSUME Sound(E'), Sound(H'), parked' \in BOOLEAN,
             role' \in {"FOLLOWER", "CANDIDATE", "LEADER"}, TimersAlive'
      PROVE  Inv'
  BY <1>5 DEF Sound
<1>6. CASE becomeLeaderInternal
  <2>1. Sound(H') /\ Armed(H') # {}
    BY <1>1, <1>3, <1>6 DEF becomeLeaderInternal
  <2>2. Sound(E')
    BY <1>1, <1>6, CancelFacts DEF becomeLeaderInternal
  <2> QED BY <1>5, <1>6, <2>1, <2>2 DEF becomeLeaderInternal, TimersAlive
<1>7. CASE stepDown \/ requestStepDown \/ requestParks
  <2>1. becomeFollower /\ parked' \in BOOLEAN
    BY <1>7 DEF stepDown, requestStepDown, requestParks
  <2> QED BY <1>4, <1>5, <2>1 DEF TimersAlive
<1>8. CASE requestResets
  <2>1. Sound(E') /\ Armed(E') # {}
    BY <1>1, <1>2, <1>8 DEF requestResets
  <2> QED BY <1>1, <1>5, <1>8, <2>1 DEF requestResets, TimersAlive
<1>9. CASE requestResumes
  <2>1. CASE resetElectionTimer(E)
    <3>1. Sound(E') /\ Armed(E') # {}
      BY <1>1, <1>2, <2>1
    <3> QED BY <1>1, <1>5, <1>9, <3>1 DEF requestResumes, TimersAlive
  <2>2. CASE UNCHANGED E
    BY <1>1, <1>5, <1>9, <2>2 DEF requestResumes, TimersAlive
  <2> QED BY <1>9, <2>1, <2>2 DEF requestResumes
<1>10. ASSUME NEW t \in Thread, ElectionThread(t) PROVE Inv'
  <2>1. CASE electionWakes(t)
    <3>1. Sound(E')
      BY <1>1, <2>1, WakeSound DEF electionWakes
    <3>2. role # "LEADER" => Armed(E') \cup Pending(E') # {}
      BY <1>1, <2>1, WakeFacts DEF electionWakes, TimersAlive
    <3> QED BY <1>1, <1>5, <2>1, <3>1, <3>2 DEF electionWakes, TimersAlive
  <2>2. CASE electionTimeout(t)
    <3>1. Sound(End(E, t))
      BY <1>1, <2>2, EndFacts DEF electionTimeout, Pending
    <3>2. Sound(E') /\ Armed(E') # {}
      BY <1>2, <2>2, <3>1 DEF electionTimeout
    <3> QED BY <1>1, <1>5, <2>2, <3>2 DEF electionTimeout, TimersAlive
  <2>3. CASE electionTimeoutIgnored(t)
    <3>1. Sound(E')
      BY <1>1, <2>3, EndFacts DEF electionTimeoutIgnored, Pending
    <3> QED BY <1>1, <1>5, <2>3, <3>1 DEF electionTimeoutIgnored, TimersAlive
  <2> QED BY <1>10, <2>1, <2>2, <2>3 DEF ElectionThread
<1>11. ASSUME NEW t \in Thread, HeartbeatThread(t) PROVE Inv'
  <2>1. CASE heartbeatWakes(t)
    <3>1. Sound(H')
      BY <1>1, <2>1, WakeSound DEF heartbeatWakes
    <3>2. role = "LEADER" => Armed(H') \cup Pending(H') # {}
      BY <1>1, <2>1, WakeFacts DEF heartbeatWakes, TimersAlive
    <3> QED BY <1>1, <1>5, <2>1, <3>1, <3>2 DEF heartbeatWakes, TimersAlive
  <2>2. CASE sendHeartbeats(t)
    <3>1. Sound(End(H, t))
      BY <1>1, <2>2, EndFacts DEF sendHeartbeats, Pending
    <3>2. Sound(H') /\ Armed(H') # {}
      BY <1>3, <2>2, <3>1 DEF sendHeartbeats
    <3> QED BY <1>1, <1>5, <2>2, <3>2 DEF sendHeartbeats, TimersAlive
  <2>3. CASE heartbeatIgnored(t)
    <3>1. Sound(H')
      BY <1>1, <2>3, EndFacts DEF heartbeatIgnored, Pending
    <3> QED BY <1>1, <1>5, <2>3, <3>1 DEF heartbeatIgnored, TimersAlive
  <2> QED BY <1>11, <2>1, <2>2, <2>3 DEF HeartbeatThread
<1>12. CASE UNCHANGED vars
  BY <1>1, <1>5, <1>12 DEF vars, TimersAlive, Sound, Armed, Pending, Chained
<1> QED BY <1>6, <1>7, <1>8, <1>9, <1>10, <1>11, <1>12 DEF Next

\* A set whose members are all the same has at most one.
LEMMA AtMostOne ==
    ASSUME NEW T, Chained(T)
    PROVE  Cardinality(Armed(T)) <= 1
<1>1. Armed(T) = {} \/ Armed(T) = {T.current}
  BY DEF Chained
<1>2. Cardinality({}) = 0 /\ Cardinality({T.current}) = 1
  BY FS_EmptySet, FS_Singleton
<1>3. CASE Armed(T) = {}
  <2>1. Cardinality(Armed(T)) = 0 BY <1>2, <1>3
  <2> QED BY <2>1
<1>4. CASE Armed(T) = {T.current}
  <2>1. Cardinality(Armed(T)) = 1 BY <1>2, <1>4
  <2> QED BY <2>1
<1> QED BY <1>1, <1>3, <1>4

\* The types of the timers, as start() and cancel() leave them.
THEOREM TypeCorrect == Spec => []TypeOK
<1>1. Inv => TypeOK BY DEF Inv
<1> QED BY <1>1, InitInv, NextInv, PTL DEF Spec

\* However many threads earlier starts have left behind, at most one sleeping
\* thread of each timer still fires: late callbacks never set a second chain of
\* elections or heartbeats going.
THEOREM SingleChain == Spec => []OneChain
<1>1. Inv => OneChain BY AtMostOne DEF Inv, OneChain
<1> QED BY <1>1, InitInv, NextInv, PTL DEF Spec

\* A manager always has an election timeout or, if it leads, a heartbeat to
\* come: no cancellation and no late callback silences it.
THEOREM NeverSilent == Spec => []TimersAlive
<1>1. Inv => TimersAlive BY DEF Inv
<1> QED BY <1>1, InitInv, NextInv, PTL DEF Spec
=============================================================================
