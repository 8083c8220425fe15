----------------------------- MODULE MCRaftNode -----------------------------
(***************************************************************************)
(* RaftNode for TLC.  The managers are interchangeable: their ids are only *)
(* compared (IdLess) when a leader hears of a second leader of its own     *)
(* term, which ElectionSafety excludes, so IdLess is empty and the nodes   *)
(* are a symmetry set.                                                     *)
(***************************************************************************)
EXTENDS RaftNode, TLC

NodeSymmetry == Permutations(Node)

-----------------------------------------------------------------------------
(***************************************************************************)
(* One search over several shapes: many terms, long logs and many calls in *)
(* flight all at once are too much, each with little of the others is not. *)
(* Elections are searched without a timing assumption, the shapes with     *)
(* entries under QuietStep.                                                *)
(***************************************************************************)
InFlight == Cardinality(rvCalls) + Cardinality(rvReplies)
            + Cardinality(aeCalls) + Cardinality(aeReplies)

Within(terms, entries, calls) ==
    /\ \A n \in Node : currentTerm[n] <= terms /\ Len(log[n]) <= entries
    /\ InFlight <= calls

Elections == Within(3, 0, 2) \/ Within(2, 0, 3)   \* lost, late and forgotten votes

SearchBounds ==
    \/ Elections
    \/ Within(1, 2, 2)    \* calls of one leader that overtake each other
    \/ Within(2, 1, 2)    \* calls of two leaders that overtake each other
    \/ Within(3, 2, 1)    \* logs of different lengths that diverge and are repaired
    \/ Within(4, 1, 1)    \* an old entry on a majority that is replaced

BoundedNext == Next /\ SearchBounds' /\ (QuietStep \/ Elections')

BoundedSpec == Init /\ [][BoundedNext]_vars
=============================================================================
