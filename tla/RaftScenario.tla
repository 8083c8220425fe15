---------------------------- MODULE RaftScenario ----------------------------
(***************************************************************************)
(* One schedule of a cluster of five managers, too long for a search: it   *)
(* shows what the matchIndex that a former leader keeps does when its      *)
(* applyStateMachine() runs again as a follower.                           *)
(*                                                                         *)
(* Every step is a step of RaftNode.  The schedule only chooses which      *)
(* timer fires or which command arrives next and which peers can be        *)
(* reached; calls on their way are handled, and answered, before that.     *)
(***************************************************************************)
EXTENDS RaftNode, TLC

CONSTANTS n1, n2, n3, n4, n5, x

VARIABLE step

\* What happens, at which node, and the peers its calls reach.
Schedule == <<
    <<"elect",  n1, {n2, n3}>>,       \* term 1: n1 logs three commands alone
    <<"submit", n1, {}>>,
    <<"submit", n1, {}>>,
    <<"submit", n1, {}>>,
    <<"elect",  n5, {}>>,
    <<"elect",  n5, {n1, n2, n4}>>,   \* term 2: n5 logs one command alone
    <<"submit", n5, {}>>,
    <<"elect",  n1, {n2, n3, n5}>>,   \* term 3: n1 copies its three entries to n2 and
    <<"beat",   n1, {n2, n3}>>,       \* n3, whose matchIndex is then 3; entries of
    <<"beat",   n1, {n2, n3}>>,       \* term 1 are not committed by counting
    <<"elect",  n5, {n2, n3, n4}>>,   \* term 4: n5 replaces them on n2 and n3 and
    <<"submit", n5, {n2, n3}>>,       \* commits two entries
    <<"beat",   n5, {n2, n3}>>,
    <<"submit", n5, {n1}>>,           \* a third one is only sent to n1, which counts
    <<"beat",   n5, {n1}>>,           \* its old matchIndex for n2 and n3 and applies it
    <<"elect",  n2, {n3, n4}>>,       \* term 5: n2, which never saw that entry,
    <<"submit", n2, {n3}>>,           \* commits another one at its position
    <<"beat",   n2, {n3, n4}>>,
    <<"beat",   n2, {n4}>> >>

Quiet == /\ rvCalls = {} /\ rvReplies = {} /\ aeCalls = {} /\ aeReplies = {}
         /\ parkedVotes = {} /\ parkedAppends = {}

Targets(calls) == {call.to : call \in calls}

\* The next event of the schedule.
Scheduled ==
    LET what == Schedule[step][1]
        n    == Schedule[step][2]
        up   == Schedule[step][3]
    IN  /\ Quiet
        /\ step <= Len(Schedule)
        /\ step' = step + 1
        /\ \/ what = "elect" /\ startElection(n) /\ Targets(rvCalls') = up
           \/ what = "submit" /\ submitCommand(n, x) /\ Targets(aeCalls') = up
           \/ what = "beat" /\ sendHeartbeatsInternal(n) /\ Targets(aeCalls') = up

\* Handlers and pool tasks run; the first heartbeat of a new leader is lost.
Handled ==
    /\ UNCHANGED step
    /\ \/ \E m \in rvCalls : rejectRequestVote(m) \/ parkRequestVote(m) \/ onRequestVote(m)
       \/ \E m \in parkedVotes : resumeRequestVote(m)
       \/ \E r \in rvReplies : voteReplyStepDown(r) \/ voteReplyIgnored(r) \/ voteReplyCounted(r)
       \/ \E m \in aeCalls : rejectAppendEntries(m) \/ parkAppendEntries(m) \/ onAppendEntries(m)
       \/ \E m \in parkedAppends : resumeAppendEntries(m)
       \/ \E r \in aeReplies : \/ appendReplyStepDown(r) \/ appendReplyIgnored(r)
                               \/ appendReplySuccess(r) \/ appendReplyFailure(r)
    /\ aeCalls' \subseteq aeCalls

ScenarioInit == Init /\ step = 1
ScenarioNext == Scheduled \/ Handled
ScenarioSpec == ScenarioInit /\ [][ScenarioNext]_<<vars, step>>
=============================================================================
