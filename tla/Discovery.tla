----------------------------- MODULE Discovery -----------------------------
(***************************************************************************)
(* The leader discovery service of one manager: startDiscoveryService(),   *)
(* stopDiscoveryService() and runDiscoveryService() of                     *)
(* src/server/raft_node.cpp, and the handler thread of a worker's          *)
(* connection.                                                             *)
(*                                                                         *)
(* becomeLeaderInternal() and becomeFollower() change the role under       *)
(* RaftNode::mtx and release it before they start or stop the service, so  *)
(* several threads of the manager can be inside start and stop at once, in *)
(* another order than the roles changed.  They exclude each other with     *)
(* discoveryMutex; the accept thread and the handlers do not take it.      *)
(***************************************************************************)
EXTENDS Integers, Sequences, FiniteSets

CONSTANTS
    Caller,      \* threads of the manager that change its role
    Worker,      \* workers that connect to port 6000
    FD,          \* file descriptors a listening socket may get
    Nil,         \* no thread
    NoSocket     \* discoverySocket = -1

ASSUME NilAssumption == Nil \notin Caller /\ NoSocket \notin FD

VARIABLES
    role,                     \* "LEADER" or "OTHER"
    discoveryMutex,           \* the caller that holds it, or Nil
    discoverySocket,          \* a descriptor or NoSocket
    runningDiscoveryService,
    listening,                \* descriptors that are open and listening
    pc,                       \* [Caller -> where in start or stop it is]
    refused,                  \* the last start found no socket or port
    thread,                   \* where the accept thread is; "none": never started
    serverSocket,             \* its local copy of discoverySocket
    backlog,                  \* workers connected and not accepted, in order
    conn,                     \* [Worker -> state of its connection]
    reply                     \* [Worker -> the last answer it got]

serviceVars == <<discoveryMutex, discoverySocket, runningDiscoveryService, listening, refused>>
threadVars  == <<thread, serverSocket>>
workerVars  == <<backlog, conn, reply>>
vars == <<role, pc, serviceVars, threadVars, workerVars>>

StartPC  == {"start", "open", "listen", "join"}
StopPC   == {"stop", "close"}
ThreadPC == {"none", "load", "check", "accept", "failed", "recheck", "done"}
ConnPC   == {"none", "backlog", "handler", "submit"}
Reply    == {"", "ACK", "ERROR", "NOT_LEADER"}

Init ==
    /\ role = "OTHER"
    /\ discoveryMutex = Nil
    /\ discoverySocket = NoSocket
    /\ runningDiscoveryService = FALSE
    /\ listening = {}
    /\ pc = [t \in Caller |-> "idle"]
    /\ refused = FALSE
    /\ thread = "none"
    /\ serverSocket = NoSocket
    /\ backlog = <<>>
    /\ conn = [w \in Worker |-> "none"]
    /\ reply = [w \in Worker |-> ""]

-----------------------------------------------------------------------------
(***************************************************************************)
(* Changes of role.                                                        *)
(***************************************************************************)
Goto(t, label) == pc' = [pc EXCEPT ![t] = label]

Idle == \A t \in Caller : pc[t] = "idle"

\* A role changes at any time: a node that has just been elected is deposed by
\* the next message of a higher term.
becomeLeaderInternal(t) ==
    /\ pc[t] = "idle"
    /\ role # "LEADER"
    /\ role' = "LEADER"
    /\ Goto(t, "start")
    /\ UNCHANGED <<serviceVars, threadVars, workerVars>>

becomeFollower(t) ==
    /\ pc[t] = "idle"
    /\ role = "LEADER"
    /\ role' = "OTHER"
    /\ Goto(t, "stop")
    /\ UNCHANGED <<serviceVars, threadVars, workerVars>>

-----------------------------------------------------------------------------
(***************************************************************************)
(* startDiscoveryService().                                                *)
(***************************************************************************)
startLocks(t) ==
    /\ pc[t] = "start"
    /\ discoveryMutex = Nil
    /\ ~runningDiscoveryService
    /\ discoveryMutex' = t
    /\ Goto(t, "open")
    /\ UNCHANGED <<role, discoverySocket, runningDiscoveryService, listening, refused,
                   threadVars, workerVars>>

startAlreadyRunning(t) ==
    /\ pc[t] = "start"
    /\ discoveryMutex = Nil
    /\ runningDiscoveryService
    /\ Goto(t, "idle")
    /\ UNCHANGED <<role, serviceVars, threadVars, workerVars>>

\* socket(), bind() or listen() fails: there is no second attempt.
startFails(t) ==
    /\ pc[t] = "open"
    /\ refused' = TRUE
    /\ discoveryMutex' = Nil
    /\ Goto(t, "idle")
    /\ UNCHANGED <<role, discoverySocket, runningDiscoveryService, listening,
                   threadVars, workerVars>>

\* The new socket may get the number of the one that was closed last.
startListens(t) ==
    /\ pc[t] = "open"
    /\ \E fd \in FD \ listening :
          listening' = listening \cup {fd} /\ discoverySocket' = fd
    /\ refused' = FALSE
    /\ Goto(t, "listen")
    /\ UNCHANGED <<role, discoveryMutex, runningDiscoveryService, threadVars, workerVars>>

startRuns(t) ==
    /\ pc[t] = "listen"
    /\ runningDiscoveryService' = TRUE
    /\ Goto(t, "join")
    /\ UNCHANGED <<role, discoveryMutex, discoverySocket, listening, refused,
                   threadVars, workerVars>>

\* Mutant: a thread that is still there is kept.
startKeepsThread(t) ==
    /\ pc[t] = "join"
    /\ thread' = IF thread \in {"none", "done"} THEN "load" ELSE thread
    /\ discoveryMutex' = Nil
    /\ Goto(t, "idle")
    /\ UNCHANGED <<role, discoverySocket, runningDiscoveryService, listening, refused,
                   serverSocket, workerVars>>

\* join() of the old accept thread, if there is one, and a new one.
startSpawns(t) ==
    /\ pc[t] = "join"
    /\ thread \in {"none", "done"}
    /\ thread' = "load"
    /\ discoveryMutex' = Nil
    /\ Goto(t, "idle")
    /\ UNCHANGED <<role, discoverySocket, runningDiscoveryService, listening, refused,
                   serverSocket, workerVars>>

-----------------------------------------------------------------------------
(***************************************************************************)
(* stopDiscoveryService().                                                 *)
(***************************************************************************)
stopNotRunning(t) ==
    /\ pc[t] = "stop"
    /\ discoveryMutex = Nil
    /\ ~runningDiscoveryService
    /\ Goto(t, "idle")
    /\ UNCHANGED <<role, serviceVars, threadVars, workerVars>>

stopLocks(t) ==
    /\ pc[t] = "stop"
    /\ discoveryMutex = Nil
    /\ runningDiscoveryService
    /\ discoveryMutex' = t
    /\ runningDiscoveryService' = FALSE
    /\ Goto(t, "close")
    /\ UNCHANGED <<role, discoverySocket, listening, refused, threadVars, workerVars>>

\* Mutant: the socket is forgotten, not closed.
stopForgets(t) ==
    /\ pc[t] = "close"
    /\ discoverySocket' = NoSocket
    /\ discoveryMutex' = Nil
    /\ Goto(t, "idle")
    /\ UNCHANGED <<role, runningDiscoveryService, listening, refused, threadVars, workerVars>>

\* Mutant: the connections of the backlog are not reset.
stopKeepsConnections(t) ==
    /\ pc[t] = "close"
    /\ discoverySocket' = NoSocket
    /\ listening' = listening \ {discoverySocket}
    /\ backlog' = <<>>
    /\ discoveryMutex' = Nil
    /\ Goto(t, "idle")
    /\ UNCHANGED <<role, runningDiscoveryService, refused, threadVars, conn, reply>>

\* exchange(-1), shutdown() and close(): connections in the backlog are reset.
stopCloses(t) ==
    /\ pc[t] = "close"
    /\ discoverySocket' = NoSocket
    /\ listening' = listening \ {discoverySocket}
    /\ backlog' = <<>>
    /\ conn' = [w \in Worker |-> IF conn[w] = "backlog" THEN "none" ELSE conn[w]]
    /\ discoveryMutex' = Nil
    /\ Goto(t, "idle")
    /\ UNCHANGED <<role, runningDiscoveryService, refused, threadVars, reply>>

-----------------------------------------------------------------------------
(***************************************************************************)
(* runDiscoveryService(), the accept thread.                               *)
(***************************************************************************)
ThreadGoto(from, to) ==
    /\ thread = from
    /\ thread' = to
    /\ UNCHANGED <<role, pc, serviceVars>>

loadSocket ==
    /\ ThreadGoto("load", "check")
    /\ serverSocket' = discoverySocket
    /\ UNCHANGED workerVars

checkLoop ==
    /\ ThreadGoto("check", IF runningDiscoveryService /\ serverSocket # NoSocket
                           THEN "accept" ELSE "done")
    /\ UNCHANGED <<serverSocket, workerVars>>

\* Mutant: the thread serves one connection only.
acceptOnce ==
    /\ serverSocket \in listening
    /\ backlog # <<>>
    /\ ThreadGoto("accept", "done")
    /\ backlog' = Tail(backlog)
    /\ conn' = [conn EXCEPT ![Head(backlog)] = "handler"]
    /\ UNCHANGED <<serverSocket, reply>>

\* accept() on the descriptor the thread remembers, whoever owns it by now.
acceptConnection ==
    /\ serverSocket \in listening
    /\ backlog # <<>>
    /\ ThreadGoto("accept", "check")
    /\ backlog' = Tail(backlog)
    /\ conn' = [conn EXCEPT ![Head(backlog)] = "handler"]
    /\ UNCHANGED <<serverSocket, reply>>

\* accept() fails: the descriptor is closed, or was while accept() waited, or
\* the connection or the process's descriptors are gone.
acceptFails ==
    /\ ThreadGoto("accept", "failed")
    /\ UNCHANGED <<serverSocket, workerVars>>

checkRunning ==
    /\ ThreadGoto("failed", IF runningDiscoveryService THEN "recheck" ELSE "done")
    /\ UNCHANGED <<serverSocket, workerVars>>

checkSocket ==
    /\ ThreadGoto("recheck", IF discoverySocket = NoSocket THEN "done" ELSE "check")
    /\ UNCHANGED <<serverSocket, workerVars>>

-----------------------------------------------------------------------------
(***************************************************************************)
(* A worker's connection and its handler thread.                           *)
(***************************************************************************)
connect(w) ==
    /\ conn[w] = "none"
    /\ listening # {}
    /\ backlog' = Append(backlog, w)
    /\ conn' = [conn EXCEPT ![w] = "backlog"]
    /\ reply' = [reply EXCEPT ![w] = ""]
    /\ UNCHANGED <<role, pc, serviceVars, threadVars>>

Answer(w, text) ==
    /\ reply' = [reply EXCEPT ![w] = text]
    /\ conn' = [conn EXCEPT ![w] = "none"]

\* read() fails or times out, or what it read is no heartbeat.
closeUnanswered(w) ==
    /\ conn[w] = "handler"
    /\ conn' = [conn EXCEPT ![w] = "none"]
    /\ UNCHANGED <<role, pc, serviceVars, threadVars, backlog, reply>>

\* The handler of a heartbeat loads role without the mutex.
checkRole(w) ==
    /\ conn[w] = "handler"
    /\ IF role = "LEADER"
       THEN conn' = [conn EXCEPT ![w] = "submit"] /\ UNCHANGED reply
       ELSE Answer(w, "NOT_LEADER")
    /\ UNCHANGED <<role, pc, serviceVars, threadVars, backlog>>

\* submitCommand() checks it again, under the mutex.
submitHeartbeat(w) ==
    /\ conn[w] = "submit"
    /\ Answer(w, IF role = "LEADER" THEN "ACK" ELSE "ERROR")
    /\ UNCHANGED <<role, pc, serviceVars, threadVars, backlog>>

-----------------------------------------------------------------------------
StartStep(t) == \/ startLocks(t) \/ startAlreadyRunning(t) \/ startFails(t)
                \/ startListens(t) \/ startRuns(t) \/ startSpawns(t)
StopStep(t)  == stopNotRunning(t) \/ stopLocks(t) \/ stopCloses(t)
ThreadStep   == \/ loadSocket \/ checkLoop \/ acceptConnection \/ acceptFails
                \/ checkRunning \/ checkSocket
WorkerStep(w) == connect(w) \/ closeUnanswered(w) \/ checkRole(w) \/ submitHeartbeat(w)

Next == \/ \E t \in Caller : \/ becomeLeaderInternal(t) \/ becomeFollower(t)
                             \/ StartStep(t) \/ StopStep(t)
        \/ ThreadStep
        \/ \E w \in Worker : WorkerStep(w)

Spec == Init /\ [][Next]_vars

\* Every thread runs on and a mutex that is free again and again is obtained.
\* accept() returns when its descriptor is closed and does not fail for ever on
\* an open one; workers keep connecting, and not every heartbeat is unreadable.
\* Nobody has to be elected or deposed.
Fairness == /\ \A t \in Caller : SF_vars(StartStep(t)) /\ SF_vars(StopStep(t))
            /\ WF_vars(ThreadStep /\ (thread = "accept" => serverSocket \notin listening))
            /\ SF_vars(acceptConnection)
            /\ \A w \in Worker : WF_vars(WorkerStep(w)) /\ SF_vars(checkRole(w))

FairSpec == Spec /\ Fairness

-----------------------------------------------------------------------------
\* The types of the variables; the backlog holds exactly the connections that
\* wait to be accepted, each once.
TypeOK ==
    /\ role \in {"LEADER", "OTHER"}
    /\ discoveryMutex \in Caller \cup {Nil}
    /\ discoverySocket \in FD \cup {NoSocket}
    /\ runningDiscoveryService \in BOOLEAN
    /\ listening \subseteq FD
    /\ pc \in [Caller -> StartPC \cup StopPC \cup {"idle"}]
    /\ refused \in BOOLEAN
    /\ thread \in ThreadPC
    /\ serverSocket \in FD \cup {NoSocket}
    /\ backlog \in Seq(Worker)
    /\ conn \in [Worker -> ConnPC]
    /\ reply \in [Worker -> Reply]
    /\ {backlog[i] : i \in DOMAIN backlog} = {w \in Worker : conn[w] = "backlog"}
    /\ \A i, j \in DOMAIN backlog : backlog[i] = backlog[j] => i = j

\* While nobody holds discoveryMutex, the service runs exactly if one socket
\* listens, and discoverySocket is that socket: start and stop leave no
\* listening socket behind, in whatever order the threads run them.
NoSocketLeak ==
    discoveryMutex = Nil =>
        listening = IF runningDiscoveryService THEN {discoverySocket} ELSE {}

\* Whenever no start or stop is under way and the service runs, its accept
\* thread is alive and accepts from the socket that listens now: join() lets no
\* thread of an earlier service, with the descriptor it remembers, into a later
\* one, and no thread exits on what it saw of the earlier one.
AcceptsCurrent ==
    discoveryMutex = Nil /\ runningDiscoveryService =>
        /\ thread \notin {"none", "done"}
        /\ thread # "load" => serverSocket = discoverySocket

\* A worker that keeps connecting to a leader whose service runs is acknowledged
\* again and again, whatever the starts and stops before that were, although the
\* accept thread starts late and serves a descriptor it remembers.
WorkerHeard ==
    <>[](role = "LEADER" /\ Idle /\ runningDiscoveryService)
        => \A w \in Worker : []<>(reply[w] = "ACK")

\* A node that leads no more and is not elected again ends up with every start
\* and stop returned and without the service: "Stopping discovery service (no
\* longer leader)", and stopped "AFTER releasing the lock to avoid deadlock".
ServiceStops ==
    <>[](role # "LEADER") => <>[](Idle /\ ~runningDiscoveryService)
=============================================================================
