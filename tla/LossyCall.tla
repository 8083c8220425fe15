----------------------------- MODULE LossyCall -----------------------------
(***************************************************************************)
(* What the managers' protocol assumes of a remote call: the handler runs  *)
(* at most once, possibly long after the caller has given up, and the      *)
(* caller gets the handler's own answer or an error that tells nothing.    *)
(* RaftNode's network is built on these three steps.                       *)
(***************************************************************************)
EXTENDS Naturals

CONSTANT Call

VARIABLES
    issued,   \* calls that were made
    ran,      \* [Call -> how often its handler has run]
    result    \* [Call -> "none", "response" or "error"]

vars == <<issued, ran, result>>

Init == issued = {} /\ ran = [c \in Call |-> 0] /\ result = [c \in Call |-> "none"]

Issue(c) ==
    /\ c \notin issued
    /\ issued' = issued \cup {c}
    /\ UNCHANGED <<ran, result>>

Run(c) ==
    /\ c \in issued
    /\ ran[c] = 0
    /\ ran' = [ran EXCEPT ![c] = 1]
    /\ UNCHANGED <<issued, result>>

Return(c) ==
    /\ c \in issued
    /\ result[c] = "none"
    /\ \E r \in {"response", "error"} :
          /\ r = "response" => ran[c] = 1
          /\ result' = [result EXCEPT ![c] = r]
    /\ UNCHANGED <<issued, ran>>

Next == \E c \in Call : Issue(c) \/ Run(c) \/ Return(c)

Spec == Init /\ [][Next]_vars
=============================================================================
