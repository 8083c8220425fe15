--------------------------- MODULE DiscoveryProofs ---------------------------
(***************************************************************************)
(* startDiscoveryService() and stopDiscoveryService() leave no socket      *)
(* behind, and a service that runs has a live accept thread on its own     *)
(* socket, for any number of threads that change the role, in any order,   *)
(* and any number of workers and descriptors.                              *)
(***************************************************************************)
EXTENDS Discovery, TLAPS

Inside == {"open", "listen", "join", "close"}

\* The parts of the type invariant the argument needs.
Types ==
    /\ discoveryMutex \in Caller \cup {Nil}
    /\ discoverySocket \in FD \cup {NoSocket}
    /\ runningDiscoveryService \in BOOLEAN
    /\ listening \subseteq FD
    /\ pc \in [Caller -> StartPC \cup StopPC \cup {"idle"}]

\* discoveryMutex is held by exactly the thread that is between its two ends.
Exclusive == \A t \in Caller : pc[t] \in Inside <=> discoveryMutex = t

\* What the holder has left undone at each of its places.
Holder(t) ==
    /\ pc[t] = "open" => ~runningDiscoveryService /\ listening = {} /\ discoverySocket = NoSocket
    /\ pc[t] = "listen" => ~runningDiscoveryService /\ listening = {discoverySocket}
    /\ pc[t] = "join" => runningDiscoveryService /\ listening = {discoverySocket}
    /\ pc[t] = "close" => ~runningDiscoveryService /\ listening = {discoverySocket}

\* Between two holders the socket, the flag and the descriptor agree.
AtRest ==
    discoveryMutex = Nil =>
        /\ runningDiscoveryService => listening = {discoverySocket}
        /\ ~runningDiscoveryService => listening = {} /\ discoverySocket = NoSocket

Inv == Types /\ Exclusive /\ (\A t \in Caller : Holder(t)) /\ AtRest

\* A manager starts without a socket and with the mutex free.
LEMMA InitInv == Init => Inv
BY NilAssumption DEF Init, Inv, Types, Exclusive, Holder, AtRest, Inside, StartPC, StopPC

\* Every step keeps Inv: only the holder of discoveryMutex touches the socket
\* and the flag; the accept thread and the workers only read them.
LEMMA NextInv == Inv /\ [Next]_vars => Inv'
<1> SUFFICES ASSUME Inv, [Next]_vars PROVE Inv'
  OBVIOUS
<1> USE NilAssumption DEF Inv, Types, Exclusive, Holder, AtRest, Inside, StartPC, StopPC
<1>1. ASSUME NEW t \in Caller, becomeLeaderInternal(t) \/ becomeFollower(t) PROVE Inv'
  BY <1>1 DEF becomeLeaderInternal, becomeFollower, Goto, serviceVars
<1>2. ASSUME NEW t \in Caller, StartStep(t) PROVE Inv'
  <2>1. CASE startLocks(t)          BY <2>1 DEF startLocks, Goto
  <2>2. CASE startAlreadyRunning(t) BY <2>2 DEF startAlreadyRunning, Goto, serviceVars
  <2>3. CASE startFails(t)          BY <2>3 DEF startFails, Goto
  <2>4. CASE startListens(t)        BY <2>4 DEF startListens, Goto
  <2>5. CASE startRuns(t)           BY <2>5 DEF startRuns, Goto
  <2>6. CASE startSpawns(t)         BY <2>6 DEF startSpawns, Goto
  <2> QED BY <1>2, <2>1, <2>2, <2>3, <2>4, <2>5, <2>6 DEF StartStep
<1>3. ASSUME NEW t \in Caller, StopStep(t) PROVE Inv'
  <2>1. CASE stopNotRunning(t)      BY <2>1 DEF stopNotRunning, Goto, serviceVars
  <2>2. CASE stopLocks(t)           BY <2>2 DEF stopLocks, Goto
  <2>3. CASE stopCloses(t)          BY <2>3 DEF stopCloses, Goto
  <2> QED BY <1>3, <2>1, <2>2, <2>3 DEF StopStep
<1>4. ASSUME ThreadStep PROVE Inv'
  <2>1. UNCHANGED <<pc, serviceVars>>
    BY <1>4 DEF ThreadStep, loadSocket, checkLoop, acceptConnection, acceptFails,
                checkRunning, checkSocket, ThreadGoto
  <2> QED BY <2>1 DEF serviceVars
<1>5. ASSUME NEW w \in Worker, WorkerStep(w) PROVE Inv'
  <2>1. UNCHANGED <<pc, serviceVars>>
    BY <1>5 DEF WorkerStep, connect, closeUnanswered, checkRole, submitHeartbeat
  <2> QED BY <2>1 DEF serviceVars
<1>6. CASE UNCHANGED vars
  BY <1>6 DEF vars, serviceVars
<1> QED BY <1>1, <1>2, <1>3, <1>4, <1>5, <1>6 DEF Next

\* Whenever no start or stop is under way, the service runs exactly if one
\* socket listens, the one in discoverySocket: no order in which threads start
\* and stop the service leaves a listening socket behind or loses the one in use.
THEOREM SocketsReleased == Spec => []NoSocketLeak
<1>1. Inv => NoSocketLeak BY DEF Inv, AtRest, NoSocketLeak
<1> QED BY <1>1, InitInv, NextInv, PTL DEF Spec

-----------------------------------------------------------------------------
(***************************************************************************)
(* The accept thread.  AcceptsCurrent is inductive given Inv: the flag is  *)
(* set and the mutex free only while one socket listens, so the thread     *)
(* finds no reason to leave its loop, and a new service is not reached     *)
(* before join() has seen the thread of the last one exit.                 *)
(***************************************************************************)

\* A manager starts without the service.
LEMMA InitAccepts == Init => AcceptsCurrent
BY DEF Init, AcceptsCurrent

\* Every step keeps AcceptsCurrent.
LEMMA NextAccepts == Inv /\ AcceptsCurrent /\ [Next]_vars => AcceptsCurrent'
<1> SUFFICES ASSUME Inv, AcceptsCurrent, [Next]_vars PROVE AcceptsCurrent'
  OBVIOUS
<1> USE NilAssumption DEF Inv, AcceptsCurrent
<1>1. UNCHANGED <<serviceVars, threadVars>> => AcceptsCurrent'
  BY DEF serviceVars, threadVars
<1>2. ASSUME NEW t \in Caller, StartStep(t) PROVE AcceptsCurrent'
  <2>1. CASE startLocks(t) BY <2>1 DEF startLocks
  <2>2. CASE startAlreadyRunning(t) BY <1>1, <2>2 DEF startAlreadyRunning
  <2>3. CASE startFails(t) BY <2>3 DEF startFails, Holder
  <2>4. CASE startListens(t) BY <2>4 DEF startListens, Exclusive, Inside
  <2>5. CASE startRuns(t) BY <2>5 DEF startRuns, Exclusive, Inside
  <2>6. CASE startSpawns(t) BY <2>6 DEF startSpawns
  <2> QED BY <1>2, <2>1, <2>2, <2>3, <2>4, <2>5, <2>6 DEF StartStep
<1>3. ASSUME NEW t \in Caller, StopStep(t) PROVE AcceptsCurrent'
  <2>1. CASE stopNotRunning(t) BY <1>1, <2>1 DEF stopNotRunning
  <2>2. CASE stopLocks(t) BY <2>2 DEF stopLocks
  <2>3. CASE stopCloses(t) BY <2>3 DEF stopCloses, Holder
  <2> QED BY <1>3, <2>1, <2>2, <2>3 DEF StopStep
\* The thread, while the service runs and nobody is inside start or stop.
<1>4. ASSUME ThreadStep PROVE AcceptsCurrent'
  <2> SUFFICES ASSUME discoveryMutex = Nil, runningDiscoveryService
               PROVE  thread' \notin {"none", "load", "done"} /\ serverSocket' = discoverySocket'
    BY <1>4 DEF ThreadStep, loadSocket, checkLoop, acceptConnection, acceptFails, checkRunning,
                checkSocket, ThreadGoto, serviceVars
  <2>1. discoverySocket # NoSocket
    BY DEF AtRest, Types
  <2>2. CASE loadSocket BY <2>2 DEF loadSocket, ThreadGoto, serviceVars
  <2>3. CASE checkLoop BY <2>1, <2>3 DEF checkLoop, ThreadGoto, serviceVars
  <2>4. CASE acceptConnection BY <2>4 DEF acceptConnection, ThreadGoto, serviceVars
  <2>5. CASE acceptFails BY <2>5 DEF acceptFails, ThreadGoto, serviceVars
  <2>6. CASE checkRunning BY <2>6 DEF checkRunning, ThreadGoto, serviceVars
  <2>7. CASE checkSocket BY <2>1, <2>7 DEF checkSocket, ThreadGoto, serviceVars
  <2> QED BY <1>4, <2>2, <2>3, <2>4, <2>5, <2>6, <2>7 DEF ThreadStep
<1>5. ASSUME NEW t \in Caller, becomeLeaderInternal(t) \/ becomeFollower(t) PROVE AcceptsCurrent'
  BY <1>1, <1>5 DEF becomeLeaderInternal, becomeFollower
<1>6. ASSUME NEW w \in Worker, WorkerStep(w) PROVE AcceptsCurrent'
  BY <1>1, <1>6 DEF WorkerStep, connect, closeUnanswered, checkRole, submitHeartbeat
<1>7. CASE UNCHANGED vars
  BY <1>1, <1>7 DEF vars
<1> QED BY <1>2, <1>3, <1>4, <1>5, <1>6, <1>7 DEF Next

\* In whatever order threads start and stop the service, once none of them is
\* inside and the service runs, its accept thread is alive and accepts from the
\* socket that listens: no thread of an earlier service, and no thread that exits
\* on what it saw of one, is left in its place.
THEOREM AcceptsFromCurrent == Spec => []AcceptsCurrent
BY InitInv, NextInv, InitAccepts, NextAccepts, PTL DEF Spec

-----------------------------------------------------------------------------
(***************************************************************************)
(* Types, and the backlog of the listening socket.                         *)
(***************************************************************************)

\* The first connection of the backlog is accepted, and no other.
LEMMA TailFacts ==
    ASSUME NEW q \in Seq(Worker), q # <<>>, \A i, j \in DOMAIN q : q[i] = q[j] => i = j
    PROVE  /\ Head(q) \in Worker /\ Tail(q) \in Seq(Worker)
           /\ {Tail(q)[i] : i \in DOMAIN Tail(q)} = {q[i] : i \in DOMAIN q} \ {Head(q)}
           /\ \A i, j \in DOMAIN Tail(q) : Tail(q)[i] = Tail(q)[j] => i = j
<1>1. /\ Tail(q) \in Seq(Worker) /\ Head(q) = q[1] /\ Len(q) \in Nat \ {0}
      /\ DOMAIN q = 1..Len(q) /\ DOMAIN Tail(q) = 1..(Len(q) - 1)
      /\ \A i \in 1..(Len(q) - 1) : Tail(q)[i] = q[i + 1]
  OBVIOUS
<1>2. Head(q) \in Worker
  BY <1>1
<1>3. \A i \in DOMAIN Tail(q) : Tail(q)[i] \in {q[j] : j \in DOMAIN q} /\ Tail(q)[i] # Head(q)
  BY <1>1
<1>4. ASSUME NEW j \in DOMAIN q, q[j] # Head(q)
      PROVE  \E i \in DOMAIN Tail(q) : q[j] = Tail(q)[i]
  <2>1. j \in 2..Len(q)
    BY <1>1, <1>4
  <2>2. j - 1 \in DOMAIN Tail(q) /\ q[j] = Tail(q)[j - 1]
    BY <1>1, <2>1
  <2> QED BY <2>2
<1>5. {Tail(q)[i] : i \in DOMAIN Tail(q)} = {q[i] : i \in DOMAIN q} \ {Head(q)}
  BY <1>3, <1>4
<1>6. ASSUME NEW i \in DOMAIN Tail(q), NEW j \in DOMAIN Tail(q), Tail(q)[i] = Tail(q)[j]
      PROVE  i = j
  BY <1>1, <1>6
<1> QED BY <1>1, <1>2, <1>5, <1>6

\* A new connection is the last of the backlog.
LEMMA AppendFacts ==
    ASSUME NEW q \in Seq(Worker), NEW w \in Worker, w \notin {q[i] : i \in DOMAIN q},
           \A i, j \in DOMAIN q : q[i] = q[j] => i = j
    PROVE  \A r : r = Append(q, w) =>
               /\ r \in Seq(Worker)
               /\ {r[i] : i \in DOMAIN r} = {q[i] : i \in DOMAIN q} \cup {w}
               /\ \A i, j \in DOMAIN r : r[i] = r[j] => i = j
<1> SUFFICES ASSUME NEW r, r = Append(q, w)
             PROVE  /\ r \in Seq(Worker)
                    /\ {r[i] : i \in DOMAIN r} = {q[i] : i \in DOMAIN q} \cup {w}
                    /\ \A i, j \in DOMAIN r : r[i] = r[j] => i = j
  OBVIOUS
<1>1. /\ r \in Seq(Worker) /\ Len(q) \in Nat /\ DOMAIN q = 1..Len(q)
      /\ DOMAIN r = 1..(Len(q) + 1)
      /\ \A i \in 1..Len(q) : r[i] = q[i]
      /\ r[Len(q) + 1] = w
  OBVIOUS
<1>2. \A i \in DOMAIN r : i = Len(q) + 1 \/ i \in DOMAIN q
  BY <1>1
<1>3. {r[i] : i \in DOMAIN r} = {q[i] : i \in DOMAIN q} \cup {w}
  BY <1>1, <1>2
<1>4. \A i, j \in DOMAIN r : r[i] = r[j] => i = j
  BY <1>1, <1>2
<1> QED BY <1>1, <1>3, <1>4

\* The connections that wait to be accepted.
Waiting == {w \in Worker : conn[w] = "backlog"}

\* TypeOK, of the service and of the connections.
ServiceTypes ==
    /\ role \in {"LEADER", "OTHER"}
    /\ Types
    /\ refused \in BOOLEAN
    /\ thread \in ThreadPC
    /\ serverSocket \in FD \cup {NoSocket}
ConnectionTypes ==
    /\ backlog \in Seq(Worker)
    /\ conn \in [Worker -> ConnPC]
    /\ reply \in [Worker -> Reply]
    /\ {backlog[i] : i \in DOMAIN backlog} = Waiting
    /\ \A i, j \in DOMAIN backlog : backlog[i] = backlog[j] => i = j

\* They are all of it.
LEMMA TypeParts == TypeOK <=> ServiceTypes /\ ConnectionTypes
BY DEF TypeOK, ServiceTypes, ConnectionTypes, Types, Waiting

\* A manager has no connections at first.
LEMMA InitType == Init => ServiceTypes /\ ConnectionTypes
<1> SUFFICES ASSUME Init PROVE ServiceTypes /\ ConnectionTypes
  OBVIOUS
<1>1. ServiceTypes
  BY DEF Init, ServiceTypes, Types, ThreadPC, StartPC, StopPC
<1>2. Waiting = {} /\ backlog = <<>>
  BY DEF Init, Waiting
<1>3. conn \in [Worker -> ConnPC] /\ reply \in [Worker -> Reply]
  BY DEF Init, ConnPC, Reply
<1> QED BY <1>1, <1>2, <1>3 DEF ConnectionTypes

\* Every step keeps the types: accept() and connect move a connection between
\* the backlog and its handler, and a close empties both sides.
LEMMA NextType ==
    ServiceTypes /\ ConnectionTypes /\ [Next]_vars => (ServiceTypes /\ ConnectionTypes)'
<1> SUFFICES ASSUME ServiceTypes, ConnectionTypes, [Next]_vars
             PROVE  ServiceTypes' /\ ConnectionTypes'
  OBVIOUS
<1> USE DEF serviceVars, threadVars, workerVars
<1>1. UNCHANGED <<role, pc, serviceVars, serverSocket>> /\ thread' \in ThreadPC
        => ServiceTypes'
  BY DEF ServiceTypes, Types
<1>2. UNCHANGED workerVars => ConnectionTypes'
  BY DEF ConnectionTypes, Waiting
<1>3. thread \in ThreadPC
  BY DEF ServiceTypes
<1>4. ASSUME NEW t \in Caller, NEW label \in StartPC \cup StopPC \cup {"idle"}, Goto(t, label)
      PROVE  pc' \in [Caller -> StartPC \cup StopPC \cup {"idle"}]
  BY <1>4 DEF ServiceTypes, Types, Goto
<1>5. ASSUME NEW t \in Caller, becomeLeaderInternal(t) \/ becomeFollower(t)
      PROVE  ServiceTypes' /\ ConnectionTypes'
  <2>1. pc' \in [Caller -> StartPC \cup StopPC \cup {"idle"}]
    BY <1>4, <1>5 DEF becomeLeaderInternal, becomeFollower, StartPC, StopPC
  <2>2. /\ role' \in {"LEADER", "OTHER"}
        /\ UNCHANGED <<serviceVars, threadVars, workerVars>>
    BY <1>5 DEF becomeLeaderInternal, becomeFollower
  <2> QED BY <1>2, <2>1, <2>2 DEF ServiceTypes, Types
<1>6. ASSUME NEW t \in Caller, StartStep(t) PROVE ServiceTypes' /\ ConnectionTypes'
  <2>1. pc' \in [Caller -> StartPC \cup StopPC \cup {"idle"}]
    BY <1>4, <1>6 DEF StartStep, startLocks, startAlreadyRunning, startFails, startListens,
                      startRuns, startSpawns, StartPC
  <2>2. UNCHANGED workerVars
    BY <1>6 DEF StartStep, startLocks, startAlreadyRunning, startFails, startListens, startRuns,
                startSpawns
  <2>3. ServiceTypes'
    BY <1>6, <2>1 DEF ServiceTypes, Types, StartStep, startLocks, startAlreadyRunning, startFails,
                      startListens, startRuns, startSpawns, ThreadPC
  <2> QED BY <1>2, <2>2, <2>3
<1>7. ASSUME NEW t \in Caller, StopStep(t) PROVE ServiceTypes' /\ ConnectionTypes'
  <2>1. pc' \in [Caller -> StartPC \cup StopPC \cup {"idle"}]
    BY <1>4, <1>7 DEF StopStep, stopNotRunning, stopLocks, stopCloses, StopPC
  <2>2. ServiceTypes'
    BY <1>7, <2>1 DEF ServiceTypes, Types, StopStep, stopNotRunning, stopLocks, stopCloses
  <2>3. CASE stopCloses(t)
    <3>1. conn' \in [Worker -> ConnPC] /\ \A w \in Worker : conn'[w] # "backlog"
      BY <2>3 DEF stopCloses, ConnPC, ConnectionTypes
    <3>2. backlog' = <<>> /\ reply' = reply /\ Waiting' = {}
      BY <2>3, <3>1 DEF stopCloses, Waiting
    <3>3. ConnectionTypes'
      BY <3>1, <3>2 DEF ConnectionTypes
    <3> QED BY <2>2, <3>3
  <2> QED BY <1>2, <1>7, <2>2, <2>3 DEF StopStep, stopNotRunning, stopLocks
<1>8. CASE acceptConnection
  <2>1. /\ Head(backlog) \in Worker /\ backlog' \in Seq(Worker)
        /\ {backlog'[i] : i \in DOMAIN backlog'} = Waiting \ {Head(backlog)}
        /\ \A i, j \in DOMAIN backlog' : backlog'[i] = backlog'[j] => i = j
    <3>1. /\ backlog \in Seq(Worker) /\ backlog # <<>> /\ backlog' = Tail(backlog)
          /\ {backlog[i] : i \in DOMAIN backlog} = Waiting
          /\ \A i, j \in DOMAIN backlog : backlog[i] = backlog[j] => i = j
      BY <1>8 DEF acceptConnection, ConnectionTypes
    <3> QED BY <3>1, TailFacts
  <2>2. conn' \in [Worker -> ConnPC] /\ Waiting' = Waiting \ {Head(backlog)}
    BY <1>8, <2>1 DEF acceptConnection, ConnPC, Waiting, ConnectionTypes
  <2>3. reply' = reply
    BY <1>8 DEF acceptConnection
  <2>4. ConnectionTypes'
    BY <2>1, <2>2, <2>3 DEF ConnectionTypes
  <2> QED BY <1>1, <1>8, <2>4 DEF acceptConnection, ThreadGoto, ThreadPC
<1>9. CASE loadSocket
  BY <1>2, <1>9 DEF loadSocket, ThreadGoto, ThreadPC, ServiceTypes, Types
<1>10. CASE checkLoop \/ acceptFails \/ checkRunning \/ checkSocket
  BY <1>1, <1>2, <1>10
     DEF checkLoop, acceptFails, checkRunning, checkSocket, ThreadGoto, ThreadPC
<1>11. ASSUME NEW w \in Worker, connect(w) PROVE ServiceTypes' /\ ConnectionTypes'
  <2>1. w \notin {backlog[i] : i \in DOMAIN backlog} /\ backlog' = Append(backlog, w)
    BY <1>11 DEF connect, Waiting, ConnectionTypes
  <2>2. /\ backlog' \in Seq(Worker)
        /\ {backlog'[i] : i \in DOMAIN backlog'} = Waiting \cup {w}
        /\ \A i, j \in DOMAIN backlog' : backlog'[i] = backlog'[j] => i = j
    BY <2>1, AppendFacts DEF ConnectionTypes
  <2>3. conn' \in [Worker -> ConnPC] /\ Waiting' = Waiting \cup {w}
    BY <1>11 DEF connect, ConnPC, Waiting, ConnectionTypes
  <2>4. reply' \in [Worker -> Reply]
    BY <1>11 DEF connect, Reply, ConnectionTypes
  <2>5. ConnectionTypes'
    BY <2>2, <2>3, <2>4 DEF ConnectionTypes
  <2> QED BY <1>1, <1>3, <1>11, <2>5 DEF connect
<1>12. ASSUME NEW w \in Worker, closeUnanswered(w) \/ checkRole(w) \/ submitHeartbeat(w)
       PROVE  ServiceTypes' /\ ConnectionTypes'
  <2>1. conn' \in [Worker -> ConnPC] /\ reply' \in [Worker -> Reply]
    BY <1>12 DEF closeUnanswered, checkRole, submitHeartbeat, Answer, ConnPC, Reply, ConnectionTypes
  <2>2. Waiting' = Waiting /\ backlog' = backlog
    BY <1>12 DEF closeUnanswered, checkRole, submitHeartbeat, Answer, Waiting, ConnectionTypes
  <2>3. ConnectionTypes'
    BY <2>1, <2>2 DEF ConnectionTypes
  <2> QED BY <1>1, <1>3, <1>12, <2>3 DEF closeUnanswered, checkRole, submitHeartbeat
<1>13. CASE UNCHANGED vars
  BY <1>1, <1>2, <1>3, <1>13 DEF vars
<1> QED BY <1>5, <1>6, <1>7, <1>8, <1>9, <1>10, <1>11, <1>12, <1>13
    DEF Next, ThreadStep, WorkerStep

\* The variables keep their types, and the backlog holds exactly the connections
\* that wait to be accepted, each once, through every start and stop.
THEOREM TypeCorrect == Spec => []TypeOK
BY TypeParts, InitType, NextType, PTL DEF Spec
=============================================================================
