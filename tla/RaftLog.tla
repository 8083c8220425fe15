------------------------------ MODULE RaftLog ------------------------------
(***************************************************************************)
(* RaftNode as an implementation of ReplicatedLog, and what becomes of a   *)
(* command under a leader that stays.                                      *)
(***************************************************************************)
EXTENDS MCRaftNode

\* The refinement mapping: the longest history any manager has applied is the
\* sequence that has been fixed.
Longest ==
    LET n == CHOOSE n \in Node : \A m \in Node : Len(applied[m]) <= Len(applied[n])
    IN  applied[n]

Abstract == INSTANCE ReplicatedLog WITH chosen <- Longest, applied <- applied

\* The managers implement one replicated log: what applyStateMachine() hands
\* out is, at every manager and across changes of leader, a growing prefix of
\* one sequence.
ImplementsReplicatedLog == Abstract!Spec

-----------------------------------------------------------------------------
(***************************************************************************)
(* Fairness.  A leader's heartbeat timer fires for ever (NodeTimers), and  *)
(* a peer that is called for ever does not always refuse the connection,   *)
(* time out, or lose its answer.  A vote call ends, answered or timed out. *)
(* Nobody has to be elected, and no command has to be submitted.           *)
(***************************************************************************)
HeartbeatReaches(p) ==
    \E n \in Peers(p) :
        /\ sendHeartbeatsInternal(n)
        /\ AppendCall(n, p, currentTerm[n], log[n], nextIndex[n][p]) \in aeCalls'

CallHandled(p) ==
    \E c \in aeCalls :
        c.to = p /\ (rejectAppendEntries(c) \/ parkAppendEntries(c) \/ onAppendEntries(c))

AnswerHandled(p) ==
    \E r \in aeReplies : /\ r.to = p
                         /\ \/ appendReplyStepDown(r) \/ appendReplyIgnored(r)
                            \/ appendReplySuccess(r) \/ appendReplyFailure(r)

HandlerResumes ==
    \/ \E c \in parkedVotes : resumeRequestVote(c)
    \/ \E a \in parkedAppends : resumeAppendEntries(a)

\* Two shapes: three leaders in turn, or two of which one has a longer log.  A
\* leader that stays has no call or answer whose handling leaves either.
CatchupBounds == Within(3, 2, MaxCalls) \/ Within(2, 3, MaxCalls)

Bounded(A) == A /\ CatchupBounds'

Fairness ==
    /\ \A p \in Node : /\ SF_vars(Bounded(HeartbeatReaches(p)))
                       /\ SF_vars(Bounded(CallHandled(p)))
                       /\ SF_vars(Bounded(AnswerHandled(p)))
    /\ WF_vars(Bounded(VoteStep))
    /\ WF_vars(Bounded(HandlerResumes))

FairSpec == Init /\ [][Bounded(Next)]_vars /\ Fairness

\* n leads and the last entry of its log is one it appended itself.
LeadsWithNews(n) == role[n] = "LEADER" /\ Len(log[n]) > 0 /\ LastTerm(log[n]) = currentTerm[n]

\* Under a leader that stays and has appended something, every manager applies
\* the whole log of the leader, the entries of earlier terms and what a diverged
\* follower lacked included: backing up nextIndex and late answers that move it
\* and matchIndex back do not stop replication.
StableLeaderCommits ==
    \A n \in Node : <>[]LeadsWithNews(n) => <>[](\A m \in Node : applied[m] = log[n])
=============================================================================
