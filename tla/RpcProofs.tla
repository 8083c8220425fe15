----------------------------- MODULE RpcProofs -----------------------------
(***************************************************************************)
(* The transport keeps its promise for any number of calls, of any size,   *)
(* with any number of crashes: RpcCall implements LossyCall.               *)
(***************************************************************************)
EXTENDS RpcCall, TLAPS

\* How far a call has come decides whether its handler has run: a connection
\* that has not reached the handler proves that it has not, a response that it
\* has; nothing happens for a call before it connects.
Progress(c) ==
    /\ client[c] \in {"idle", "connecting"} => conn[c] = "none"
    /\ conn[c] \notin {"answered", "failed", "closed"} => ran[c] = 0
    /\ conn[c] = "answered" => ran[c] = 1
    /\ answer[c] = "response" => ran[c] = 1
    /\ client[c] # "done" => result[c] = "none"

Inv == TypeOK /\ \A c \in Call : Progress(c)

\* No call has begun and no handler has run before the first step.
LEMMA InitInv == Init => Inv
BY CallAssumption DEF Init, Inv, TypeOK, Progress, ClientPC, ConnPC, Result, Bytes

\* Every step of a client, a server thread or the server's process keeps Inv;
\* in particular handle() finds ran = 0.
LEMMA NextInv == Inv /\ [Next]_vars => Inv'
<1> SUFFICES ASSUME Inv, [Next]_vars PROVE Inv'
  OBVIOUS
<1> USE DEF Inv, TypeOK, Progress, ClientPC, ConnPC, Result, Bytes
<1>1. ASSUME NEW c \in Call, ClientStep(c) PROVE Inv'
  <2>1. CASE begin(c)        BY <2>1 DEF begin, serverVars
  <2>2. CASE connect(c)      BY <2>2 DEF connect, serverVars
  <2>3. CASE connectFails(c) BY <2>3 DEF connectFails, ReturnResult, serverVars
  <2>4. CASE send(c)         BY <2>4 DEF send, serverVars
  <2>5. CASE sendFails(c)    BY <2>5 DEF sendFails, ReturnResult, serverVars
  <2>6. CASE restArrives(c)  BY <2>6 DEF restArrives, callVars, serverVars
  <2>7. CASE readAnswer(c)   BY <2>7 DEF readAnswer, ReturnResult, serverVars
  <2>8. CASE giveUp(c)       BY <2>8 DEF giveUp, ReturnResult, serverVars
  <2> QED BY <1>1, <2>1, <2>2, <2>3, <2>4, <2>5, <2>6, <2>7, <2>8 DEF ClientStep
<1>2. ASSUME NEW c \in Call, accept(c) PROVE Inv'
  BY <1>2 DEF accept, callVars, serverVars
<1>3. ASSUME NEW c \in Call, ThreadStep(c) PROVE Inv'
  <2>1. CASE readRequest(c)  BY <2>1 DEF readRequest, callVars, serverVars
  <2>2. CASE readFails(c)    BY <2>2 DEF readFails, callVars, serverVars
  <2>3. CASE lock(c)         BY <2>3 DEF lock, callVars
  <2>4. CASE handle(c)       BY <2>4 DEF handle, callVars
  <2>5. CASE reply(c)        BY <2>5 DEF reply, callVars, serverVars
  <2> QED BY <1>3, <2>1, <2>2, <2>3, <2>4, <2>5 DEF ThreadStep
<1>4. CASE acceptFails       BY <1>4 DEF acceptFails, callVars
<1>5. CASE crash             BY <1>5 DEF crash, callVars
<1>6. CASE start             BY <1>6 DEF start, callVars
<1>7. CASE UNCHANGED vars    BY <1>7 DEF vars, callVars, serverVars
<1> QED BY <1>1, <1>2, <1>3, <1>4, <1>5, <1>6, <1>7 DEF Next

\* No handler runs twice for one call, however often the server is killed and
\* however late a request is read (the bound on ran in TypeOK).
THEOREM TypeCorrect == Spec => []TypeOK
<1>1. Inv => TypeOK BY DEF Inv
<1> QED BY <1>1, InitInv, NextInv, PTL DEF Spec

\* JsonRpcClient::call() and JsonRpcServer::handleClient() together are a call
\* that may be lost or late but runs its handler at most once, and returns a
\* response only after it has run.
THEOREM Refinement == Spec => ImplementsLossyCall
<1>1. Init => Lossy!Init
  BY DEF Init, Lossy!Init
<1>2. Inv /\ [Next]_vars => [Lossy!Next]_(Lossy!vars)
  <2> SUFFICES ASSUME Inv, [Next]_vars PROVE [Lossy!Next]_(Lossy!vars)
    OBVIOUS
  <2> USE DEF Inv, TypeOK, Progress, ClientPC, ConnPC, Result, Lossy!vars
  <2>1. ASSUME NEW c \in Call, begin(c) PROVE Lossy!Issue(c)
    BY <2>1 DEF begin, serverVars, Lossy!Issue
  <2>2. ASSUME NEW c \in Call, handle(c) PROVE Lossy!Run(c)
    <3>1. ran[c] = 0 /\ client[c] # "idle" BY <2>2 DEF handle
    <3>2. ran' = [ran EXCEPT ![c] = 1] BY <2>2, <3>1 DEF handle
    <3> QED BY <2>2, <3>1, <3>2 DEF handle, callVars, Lossy!Run
  <2>3. ASSUME NEW c \in Call, NEW r \in {"response", "error"}, ReturnResult(c, r),
               client[c] \notin {"idle", "done"}, ran' = ran,
               r = "response" => ran[c] = 1
        PROVE Lossy!Return(c)
    <3>1. \A d \in Call : client'[d] = "idle" <=> client[d] = "idle"
      BY <2>3 DEF ReturnResult
    <3>2. result[c] = "none" /\ result' = [result EXCEPT ![c] = r]
      BY <2>3 DEF ReturnResult
    <3> QED BY <2>3, <3>1, <3>2 DEF Lossy!Return
  <2>4. ASSUME NEW c \in Call, connectFails(c) \/ sendFails(c) \/ giveUp(c)
        PROVE Lossy!Return(c)
    BY <2>3, <2>4 DEF connectFails, sendFails, giveUp, serverVars
  <2>5. ASSUME NEW c \in Call, readAnswer(c) PROVE Lossy!Return(c)
    <3>1. PICK r \in {answer[c], "error"} : ReturnResult(c, r)
      BY <2>5 DEF readAnswer
    <3>2. r \in {"response", "error"} /\ (r = "response" => ran[c] = 1)
      BY <2>5 DEF readAnswer
    <3> QED BY <2>3, <2>5, <3>1, <3>2 DEF readAnswer, serverVars
  <2>6. ASSUME NEW c \in Call, connect(c) \/ send(c) \/ restArrives(c) \/ accept(c)
        PROVE UNCHANGED Lossy!vars
    BY <2>6 DEF connect, send, restArrives, accept, callVars, serverVars
  <2>7. ASSUME NEW c \in Call, readRequest(c) \/ readFails(c) \/ lock(c) \/ reply(c)
        PROVE UNCHANGED Lossy!vars
    BY <2>7 DEF readRequest, readFails, lock, reply, callVars, serverVars
  <2>8. ASSUME acceptFails \/ crash \/ start \/ UNCHANGED vars PROVE UNCHANGED Lossy!vars
    BY <2>8 DEF acceptFails, crash, start, vars, callVars, serverVars
  <2> QED
    BY <2>1, <2>2, <2>4, <2>5, <2>6, <2>7, <2>8 DEF Next, ClientStep, ThreadStep, Lossy!Next
<1> QED BY <1>1, <1>2, InitInv, NextInv, PTL DEF Spec, ImplementsLossyCall, Lossy!Spec
=============================================================================
