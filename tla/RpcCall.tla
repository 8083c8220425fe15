------------------------------ MODULE RpcCall ------------------------------
(***************************************************************************)
(* src/common/rpc.cpp: JsonRpcClient::call() of several callers and one    *)
(* JsonRpcServer, a connection per call.                                   *)
(*                                                                         *)
(* A connection is named by its call.  The data is reduced to whether      *)
(* bytes are a whole message: a proper part of a JSON object does not      *)
(* parse, and read() is called once with room for 8191 bytes, so a request *)
(* that is longer, or has not arrived completely, is a parse error.        *)
(* Both methods of the managers are registered before the server starts,   *)
(* so "unknown method" does not occur.                                     *)
(***************************************************************************)
EXTENDS Naturals

CONSTANTS
    Call,           \* calls, each made once
    Oversize,       \* those whose request is longer than 8191 bytes
    Nil,
    ServerCrashes,  \* TRUE: the server's process may be killed and started again
    AcceptErrors    \* TRUE: accept() may fail (no descriptors left, aborted connection)

ASSUME CallAssumption == Nil \notin Call /\ Oversize \subseteq Call
ASSUME FaultAssumption == ServerCrashes \in BOOLEAN /\ AcceptErrors \in BOOLEAN

VARIABLES
    client,     \* [Call -> "idle", "connecting", "connected", "waiting", "done"]
    result,     \* [Call -> what call() returned: "none", "response", "error"]
    arrived,    \* [Call -> bytes of the request at the server]
    conn,       \* [Call -> the server's side of the connection]
    answer,     \* [Call -> bytes of the reply at the client]
    mtx,        \* JsonRpcServer::mtx: the call whose handler holds it, or Nil
    ran,        \* [Call -> how often its handler has run]
    up,         \* the server's process runs
    accepting   \* its accept loop runs

callVars   == <<client, result>>
serverVars == <<mtx, ran, up, accepting>>
vars == <<callVars, arrived, conn, answer, serverVars>>

Bytes    == {"nothing", "part", "whole"}
ClientPC == {"idle", "connecting", "connected", "waiting", "done"}
ConnPC   == {"none", "backlog", "reading", "parsed", "locked", "answered", "failed", "closed"}
Result   == {"none", "response", "error"}

Init ==
    /\ client = [c \in Call |-> "idle"]
    /\ result = [c \in Call |-> "none"]
    /\ arrived = [c \in Call |-> "nothing"]
    /\ conn = [c \in Call |-> "none"]
    /\ answer = [c \in Call |-> "none"]
    /\ mtx = Nil
    /\ ran = [c \in Call |-> 0]
    /\ up = TRUE
    /\ accepting = TRUE

-----------------------------------------------------------------------------
(***************************************************************************)
(* The client.                                                             *)
(***************************************************************************)
ReturnResult(c, r) ==
    /\ client' = [client EXCEPT ![c] = "done"]
    /\ result' = [result EXCEPT ![c] = r]

begin(c) ==
    /\ client[c] = "idle"
    /\ client' = [client EXCEPT ![c] = "connecting"]
    /\ UNCHANGED <<result, arrived, conn, answer, serverVars>>

\* The kernel completes the connection, whether or not the server accepts it.
connect(c) ==
    /\ client[c] = "connecting"
    /\ up
    /\ client' = [client EXCEPT ![c] = "connected"]
    /\ conn' = [conn EXCEPT ![c] = "backlog"]
    /\ UNCHANGED <<result, arrived, answer, serverVars>>

\* No socket, nobody listens, or two seconds are over.
connectFails(c) ==
    /\ client[c] = "connecting"
    /\ ReturnResult(c, "error")
    /\ UNCHANGED <<arrived, conn, answer, serverVars>>

\* One send(); the bytes may arrive in two segments.
send(c) ==
    /\ client[c] = "connected"
    /\ client' = [client EXCEPT ![c] = "waiting"]
    /\ IF conn[c] = "closed" THEN UNCHANGED arrived
       ELSE \E b \in {"part", "whole"} : arrived' = [arrived EXCEPT ![c] = b]
    /\ UNCHANGED <<result, conn, answer, serverVars>>

sendFails(c) ==
    /\ client[c] = "connected"
    /\ ReturnResult(c, "error")
    /\ UNCHANGED <<arrived, conn, answer, serverVars>>

restArrives(c) ==
    /\ arrived[c] = "part"
    /\ arrived' = [arrived EXCEPT ![c] = "whole"]
    /\ UNCHANGED <<callVars, conn, answer, serverVars>>

\* read() and parse(); an answer cut in two is an error as well.
readAnswer(c) ==
    /\ client[c] = "waiting"
    /\ answer[c] # "none"
    /\ \E r \in {answer[c], "error"} : ReturnResult(c, r)
    /\ UNCHANGED <<arrived, conn, answer, serverVars>>

\* Mutant: another attempt, on a new connection.
retryCall(c) ==
    /\ client[c] = "waiting"
    /\ client' = [client EXCEPT ![c] = "connecting"]
    /\ conn' = [conn EXCEPT ![c] = "none"]
    /\ arrived' = [arrived EXCEPT ![c] = "nothing"]
    /\ UNCHANGED <<result, answer, serverVars>>

\* Mutant: read() has no time limit.
waitForReset(c) ==
    /\ client[c] = "waiting"
    /\ conn[c] = "closed"
    /\ ReturnResult(c, "error")
    /\ UNCHANGED <<arrived, conn, answer, serverVars>>

\* read() fails: two seconds are over, or the connection was reset.  The call is
\* over for the client; the server is not told.
giveUp(c) ==
    /\ client[c] = "waiting"
    /\ ReturnResult(c, "error")
    /\ UNCHANGED <<arrived, conn, answer, serverVars>>

-----------------------------------------------------------------------------
(***************************************************************************)
(* The server: the accept loop and a handleClient() thread per connection. *)
(***************************************************************************)
accept(c) ==
    /\ up /\ accepting
    /\ conn[c] = "backlog"
    /\ conn' = [conn EXCEPT ![c] = "reading"]
    /\ UNCHANGED <<callVars, arrived, answer, serverVars>>

\* The loop ends; the listening socket stays open.
acceptFails ==
    /\ AcceptErrors
    /\ up /\ accepting
    /\ accepting' = FALSE
    /\ UNCHANGED <<callVars, arrived, conn, answer, mtx, ran, up>>

readRequest(c) ==
    /\ conn[c] = "reading"
    /\ arrived[c] # "nothing"
    /\ conn' = [conn EXCEPT ![c] =
          IF arrived[c] = "whole" /\ c \notin Oversize THEN "parsed" ELSE "failed"]
    /\ UNCHANGED <<callVars, arrived, answer, serverVars>>

\* n <= 0: five seconds without a byte, or the client has closed.
readFails(c) ==
    /\ conn[c] = "reading"
    /\ arrived[c] = "nothing"
    /\ conn' = [conn EXCEPT ![c] = "closed"]
    /\ UNCHANGED <<callVars, arrived, answer, serverVars>>

lock(c) ==
    /\ conn[c] = "parsed"
    /\ mtx = Nil
    /\ mtx' = c
    /\ conn' = [conn EXCEPT ![c] = "locked"]
    /\ UNCHANGED <<callVars, arrived, answer, ran, up, accepting>>

\* Mutant: the mutex is not released.
handleAndKeep(c) ==
    /\ conn[c] = "locked"
    /\ ran' = [ran EXCEPT ![c] = @ + 1]
    /\ conn' = [conn EXCEPT ![c] = "answered"]
    /\ UNCHANGED <<callVars, arrived, answer, mtx, up, accepting>>

\* handlers[method](params), whether or not the client still waits; an exception,
\* whatever the handler has done by then, is answered like one of the parser.
handle(c) ==
    /\ conn[c] = "locked"
    /\ ran' = [ran EXCEPT ![c] = @ + 1]
    /\ mtx' = Nil
    /\ \E outcome \in {"answered", "failed"} : conn' = [conn EXCEPT ![c] = outcome]
    /\ UNCHANGED <<callVars, arrived, answer, up, accepting>>

\* Mutant: the answer to a request that does not parse looks like any other.
replyAlike(c) ==
    /\ conn[c] \in {"answered", "failed"}
    /\ answer' = [answer EXCEPT ![c] = "response"]
    /\ conn' = [conn EXCEPT ![c] = "closed"]
    /\ UNCHANGED <<callVars, arrived, serverVars>>

\* send() and close(); what the catch block sends has no "term", so that the
\* managers take it for an error.
reply(c) ==
    /\ conn[c] \in {"answered", "failed"}
    /\ answer' = [answer EXCEPT ![c] = IF conn[c] = "answered" THEN "response" ELSE "error"]
    /\ conn' = [conn EXCEPT ![c] = "closed"]
    /\ UNCHANGED <<callVars, arrived, serverVars>>

\* The process is killed: its connections are reset, whatever its threads did.
crash ==
    /\ ServerCrashes
    /\ up
    /\ up' = FALSE
    /\ accepting' = FALSE
    /\ mtx' = Nil
    /\ conn' = [c \in Call |-> IF conn[c] = "none" THEN "none" ELSE "closed"]
    /\ UNCHANGED <<callVars, arrived, answer, ran>>

\* JsonRpcServer::start(); SO_REUSEADDR makes bind() succeed at once.
start ==
    /\ ~up
    /\ up' = TRUE
    /\ accepting' = TRUE
    /\ UNCHANGED <<callVars, arrived, conn, answer, mtx, ran>>

-----------------------------------------------------------------------------
ClientStep(c) == \/ begin(c) \/ connect(c) \/ connectFails(c) \/ send(c) \/ sendFails(c)
                 \/ restArrives(c) \/ readAnswer(c) \/ giveUp(c)
ThreadStep(c) == readRequest(c) \/ readFails(c) \/ lock(c) \/ handle(c) \/ reply(c)

Next == \/ \E c \in Call : ClientStep(c) \/ accept(c) \/ ThreadStep(c)
        \/ acceptFails \/ crash \/ start

Spec == Init /\ [][Next]_vars

\* Clients and server threads run on, and the mutex is obtained by a thread that
\* finds it free again and again.  Nothing has to be sent, to fail or to crash.
Fairness == \A c \in Call :
    /\ WF_vars(connect(c) \/ connectFails(c)) /\ WF_vars(send(c) \/ sendFails(c))
    /\ WF_vars(readAnswer(c) \/ giveUp(c))
    /\ WF_vars(accept(c)) /\ SF_vars(lock(c))
    /\ WF_vars(readRequest(c) \/ readFails(c) \/ handle(c) \/ reply(c))

FairSpec == Spec /\ Fairness

-----------------------------------------------------------------------------
\* The types of the variables; no handler runs twice for one call.
TypeOK ==
    /\ client \in [Call -> ClientPC]
    /\ result \in [Call -> Result]
    /\ arrived \in [Call -> Bytes]
    /\ conn \in [Call -> ConnPC]
    /\ answer \in [Call -> Result]
    /\ mtx \in Call \cup {Nil}
    /\ ran \in [Call -> 0..1]
    /\ up \in BOOLEAN /\ accepting \in BOOLEAN

\* The transport keeps the promise RaftNode builds on, through lost, late, split
\* and oversize messages and crashes of the server: a handler runs at most
\* once, and a response means that it has run.
Lossy == INSTANCE LossyCall WITH
    issued <- {c \in Call : client[c] # "idle"}

ImplementsLossyCall == Lossy!Spec

\* call() returns, whatever happens to the server: a pool thread is never held
\* for good (SO_RCVTIMEO and SO_SNDTIMEO on the client's socket).
CallReturns ==
    \A c \in Call : client[c] # "idle" ~> client[c] = "done"

\* Every connection is served and closed in the end by a server thread that
\* waits for nobody for good, also one whose client has long given up, as long
\* as the accept loop lives: it ends with the first accept() that fails.
ConnectionsServed ==
    \A c \in Call : conn[c] = "backlog" ~> conn[c] = "closed" \/ ~accepting
=============================================================================
