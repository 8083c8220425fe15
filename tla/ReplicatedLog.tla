--------------------------- MODULE ReplicatedLog ---------------------------
(***************************************************************************)
(* What the cluster of managers promises the monitor: one sequence of      *)
(* worker reports that only grows, of which every manager has handed some  *)
(* prefix to its state machine, in order, and never takes anything back.   *)
(* There are no terms, logs or messages here.                              *)
(***************************************************************************)
EXTENDS Sequences, SequencesExt

CONSTANT Node

VARIABLES
    chosen,    \* the reports, in the order fixed for everybody
    applied    \* [Node -> what stateMachine.apply() was given]

Init == chosen = <<>> /\ applied = [n \in Node |-> <<>>]

\* n applies more of the sequence, which may be fixed in the same step.
Apply(n) ==
    /\ IsStrictPrefix(applied[n], applied'[n])
    /\ IsPrefix(chosen, chosen')
    /\ IsPrefix(applied'[n], chosen')
    /\ \A m \in Node \ {n} : applied'[m] = applied[m]

Next == \E n \in Node : Apply(n)

Spec == Init /\ [][Next]_<<chosen, applied>>
=============================================================================
