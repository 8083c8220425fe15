------------------------------ MODULE RaftNode ------------------------------
(***************************************************************************)
(* The managers of the cluster monitor: class RaftNode of                  *)
(* src/server/raft_node.cpp, and the RequestVote and AppendEntries calls   *)
(* its thread pool makes through JsonRpcClient::call.                      *)
(*                                                                         *)
(* One action is one critical section of RaftNode::mtx.  The mutex is      *)
(* released in the middle of one handler: becomeFollower() unlocks it      *)
(* around stopDiscoveryService() when the node was leader.  A request      *)
(* handler that runs into that gap is parked and resumed by an action of   *)
(* its own, and other threads of the node run in between.                  *)
(*                                                                         *)
(* Log positions are 1-based here and 0-based in the code: commitIndex,    *)
(* lastApplied, nextIndex, matchIndex and prevLogIndex are the code's      *)
(* value plus one, so the code's -1 is 0 here.                             *)
(***************************************************************************)
EXTENDS Integers, Sequences, FiniteSets

CONSTANTS
    Node,                 \* the managers
    IdLess,               \* the order of their ids, as pairs <<smaller, larger>>
    Command,              \* the commands workers submit
    Nil,                  \* the empty string in votedFor
    MAX_ENTRIES_PER_RPC   \* entries one AppendEntries call carries at most

\* Bounds of the checked instance; the code has none of them.
CONSTANTS
    MaxTerm,              \* terms an election may open
    MaxLogLen,            \* entries a log may hold
    MaxCalls              \* calls in flight in the cluster

ASSUME NodeAssumption == IsFiniteSet(Node) /\ Nil \notin Node /\ IdLess \subseteq Node \X Node
ASSUME BatchAssumption == MAX_ENTRIES_PER_RPC \in Nat \ {0}
ASSUME BoundAssumption == MaxTerm \in Nat /\ MaxLogLen \in Nat /\ MaxCalls \in Nat

VARIABLES
    currentTerm,   \* [Node -> term]
    votedFor,      \* [Node -> the node voted for in currentTerm, or Nil]
    role,          \* [Node -> "FOLLOWER", "CANDIDATE" or "LEADER"]
    log,           \* [Node -> sequence of entries]
    commitIndex,   \* [Node -> entries known to be committed]
    applied,       \* [Node -> entries whose command stateMachine.apply was given,
                   \* in order]; lastApplied is its length
    nextIndex,     \* [Node -> [peer -> first entry to send next]]
    matchIndex,    \* [Node -> [peer -> entries the peer confirmed]]
    voters,        \* [Node -> nodes voteCount has counted in the running election]
    rvCalls,       \* RequestVote calls on their way to the peer
    rvReplies,     \* RequestVote answers on their way back
    aeCalls,       \* AppendEntries calls on their way to the peer
    aeReplies,     \* AppendEntries answers on their way back
    parkedVotes,   \* RequestVote calls whose handler is in the unlocked gap
    parkedAppends, \* the same for AppendEntries, with the term read on entry
    leaders        \* history: [term -> nodes that became leader in it]

termVars   == <<currentTerm, votedFor, role>>
logVars    == <<log, commitIndex, applied>>
leaderVars == <<nextIndex, matchIndex>>
voteVars   == <<voters, leaders>>
rvVars     == <<rvCalls, rvReplies>>
aeVars     == <<aeCalls, aeReplies>>
gapVars    == <<parkedVotes, parkedAppends>>
vars == <<termVars, logVars, leaderVars, voteVars, rvVars, aeVars, gapVars>>

Term  == 0..MaxTerm
Role  == {"FOLLOWER", "CANDIDATE", "LEADER"}
Entry == [term : Term, command : Command]

RequestVote      == [from : Node, to : Node, term : Term,
                     lastLogIndex : Nat, lastLogTerm : Term]
RequestVoteReply == [from : Node, to : Node, term : Term,
                     respTerm : Term, voteGranted : BOOLEAN]
AppendEntries    == [from : Node, to : Node, term : Term,
                     prevLogIndex : Nat, prevLogTerm : Term,
                     entries : Seq(Entry), leaderCommit : Nat]
AppendEntriesReply == [from : Node, to : Node, term : Term, respTerm : Term,
                       success : BOOLEAN, conflictIndex : Nat,
                       nextIdx : Nat \ {0}, entriesCount : Nat]
ParkedAppend     == [call : AppendEntries, respTerm : Term]

-----------------------------------------------------------------------------
(***************************************************************************)
(* Helpers.                                                                *)
(***************************************************************************)
Peers(n) == Node \ {n}

\* (peerAddrs.size() + 1) / 2 + 1
Majority == Cardinality(Node) \div 2 + 1

Smaller(a, b) == IF a <= b THEN a ELSE b

\* Mutant: the term of an empty log follows the -1 convention of the indices.
LastTermMinusOne(l) == IF l = <<>> THEN -1 ELSE l[Len(l)].term

LastTerm(l) == IF l = <<>> THEN 0 ELSE l[Len(l)].term

\* The candidate's log is at least as recent as l.
LogUpToDate(l, c) ==
    \/ c.lastLogTerm > LastTerm(l)
    \/ c.lastLogTerm = LastTerm(l) /\ c.lastLogIndex >= Len(l)

\* Mutants: votedFor is not looked at; the candidate's log is not looked at.
GrantsAnyone(l, vote, c) == LogUpToDate(l, c)
GrantsAnyLog(l, vote, c) == vote \in {Nil, c.from}

GrantsVote(l, vote, c) == vote \in {Nil, c.from} /\ LogUpToDate(l, c)

\* The parameters of an AppendEntries call to a peer whose nextIndex is next.
AppendCall(n, p, term, l, next) ==
    [from |-> n, to |-> p, term |-> term,
     prevLogIndex |-> next - 1,
     prevLogTerm  |-> IF next - 1 \in 1..Len(l) THEN l[next - 1].term ELSE 0,
     entries      |-> SubSeq(l, next, Smaller(Len(l), next + MAX_ENTRIES_PER_RPC - 1)),
     leaderCommit |-> commitIndex[n]]

\* The calls a node makes to its peers, one pool task each.
AppendCalls(n, term, l, next) ==
    {AppendCall(n, p, term, l, next[p]) : p \in Peers(n)}

VoteCalls(n, term, l) ==
    {[from |-> n, to |-> p, term |-> term,
      lastLogIndex |-> Len(l), lastLogTerm |-> LastTerm(l)] : p \in Peers(n)}

\* Some of the calls reach the network, the others fail to connect.
Connect(calls) ==
    {S \in SUBSET calls :
        Cardinality(rvCalls) + Cardinality(rvReplies) + Cardinality(aeCalls)
          + Cardinality(aeReplies) + Cardinality(S) <= MaxCalls}

\* Mutant: only the length of the log is compared.
LongEnough(l, c) == c.prevLogIndex <= Len(l)

\* The peer has the entry the call builds on.
LogMatches(l, c) ==
    \/ c.prevLogIndex = 0
    \/ c.prevLogIndex <= Len(l) /\ l[c.prevLogIndex].term = c.prevLogTerm

\* The first i entries of the call are already in l.
Agrees(l, c, i) ==
    \A j \in 1..i : /\ c.prevLogIndex + j <= Len(l)
                    /\ l[c.prevLogIndex + j].term = c.entries[j].term

\* Mutant: every call truncates the log to its own entries.
MergeTruncating(l, c) == SubSeq(l, 1, c.prevLogIndex) \o c.entries

\* The append loop: entries already present are kept, the first one that
\* conflicts truncates the log, the rest are appended.
MergeEntries(l, c) ==
    IF Agrees(l, c, Len(c.entries)) THEN l
    ELSE [i \in 1..(c.prevLogIndex + Len(c.entries)) |->
            IF i <= c.prevLogIndex \/ Agrees(l, c, i - c.prevLogIndex)
            THEN l[i] ELSE c.entries[i - c.prevLogIndex]]

\* Mutant: entries of earlier terms are committed by counting, too.
CommittableOldTerm(n, l, ci, term, match) ==
    {k \in (ci + 1)..Len(l) :
        1 + Cardinality({p \in Peers(n) : match[p] >= k}) >= Majority}

\* Entries of the current term, above ci, that a majority is known to hold.
Committable(n, l, ci, term, match) ==
    {k \in (ci + 1)..Len(l) :
        /\ l[k].term = term
        /\ 1 + Cardinality({p \in Peers(n) : match[p] >= k}) >= Majority}

AdvanceCommit(n, l, ci, term, match) ==
    LET S == Committable(n, l, ci, term, match)
    IN  IF S = {} THEN ci ELSE CHOOSE k \in S : \A j \in S : j <= k

\* Apply the entries after the last applied one, up to position ci.
ApplyUpTo(done, l, ci) ==
    IF ci <= Len(done) THEN done
    ELSE [i \in 1..ci |-> IF i <= Len(done) THEN done[i] ELSE l[i]]

\* applyStateMachine() on the log l, with commitIndex ci, in term term.
applyStateMachine(n, l, ci, term, match) ==
    LET c == AdvanceCommit(n, l, ci, term, match)
    IN  /\ commitIndex' = [commitIndex EXCEPT ![n] = c]
        /\ applied' = [applied EXCEPT ![n] = ApplyUpTo(@, l, c)]

-----------------------------------------------------------------------------
Init ==
    /\ currentTerm = [n \in Node |-> 0]
    /\ votedFor = [n \in Node |-> Nil]
    /\ role = [n \in Node |-> "FOLLOWER"]
    /\ log = [n \in Node |-> <<>>]
    /\ commitIndex = [n \in Node |-> 0]
    /\ applied = [n \in Node |-> <<>>]
    /\ nextIndex = [n \in Node |-> [p \in Node |-> 1]]
    /\ matchIndex = [n \in Node |-> [p \in Node |-> 0]]
    /\ voters = [n \in Node |-> {}]
    /\ leaders = [t \in Term |-> {}]
    /\ rvCalls = {} /\ rvReplies = {} /\ aeCalls = {} /\ aeReplies = {}
    /\ parkedVotes = {} /\ parkedAppends = {}

\* No request handler of n is inside the gap: JsonRpcServer runs one handler
\* at a time under its own mutex.
ServerFree(n) == /\ \A c \in parkedVotes : c.to # n
                 /\ \A a \in parkedAppends : a.call.to # n

becomeFollower(n, term) ==
    /\ role' = [role EXCEPT ![n] = "FOLLOWER"]
    /\ currentTerm' = [currentTerm EXCEPT ![n] = term]
    /\ votedFor' = [votedFor EXCEPT ![n] = Nil]
    /\ voters' = [voters EXCEPT ![n] = {}]

-----------------------------------------------------------------------------
(***************************************************************************)
(* Elections.                                                              *)
(***************************************************************************)

\* becomeLeaderInternal() of a node with peers, term its current term.
becomeLeaderInternal(n, term) ==
    /\ role' = [role EXCEPT ![n] = "LEADER"]
    /\ nextIndex' = [nextIndex EXCEPT ![n] = [p \in Node |-> Len(log[n]) + 1]]
    /\ matchIndex' = [matchIndex EXCEPT ![n] = [p \in Node |-> 0]]
    /\ \E S \in Connect(AppendCalls(n, term, log[n], [p \in Node |-> Len(log[n]) + 1])) :
          aeCalls' = aeCalls \cup S
    /\ voters' = [voters EXCEPT ![n] = {}]
    /\ leaders' = [leaders EXCEPT ![term] = @ \cup {n}]

\* A candidate that needs the votes of others asks its peers for them.
requestVotes(n) ==
    /\ role' = [role EXCEPT ![n] = "CANDIDATE"]
    /\ voters' = [voters EXCEPT ![n] = {n}]
    /\ \E S \in Connect(VoteCalls(n, currentTerm[n] + 1, log[n])) : rvCalls' = rvCalls \cup S
    /\ UNCHANGED <<logVars, leaderVars, leaders, rvReplies, aeVars>>

\* A candidate whose own vote is enough, in a cluster of one: leader at once,
\* and the first heartbeat of a node without peers only applies.
leadAlone(n) ==
    /\ becomeLeaderInternal(n, currentTerm[n] + 1)
    /\ applyStateMachine(n, log[n], commitIndex[n], currentTerm[n] + 1, matchIndex[n])
    /\ UNCHANGED <<log, rvVars, aeReplies>>

\* The election timer fires and startElection() runs: at any moment at which
\* the mutex is free, the gap of a handler of the same node included.
startElection(n) ==
    /\ role[n] # "LEADER"
    /\ currentTerm[n] < MaxTerm
    /\ currentTerm' = [currentTerm EXCEPT ![n] = @ + 1]
    /\ votedFor' = [votedFor EXCEPT ![n] = n]
    /\ IF Majority > 1 THEN requestVotes(n) ELSE leadAlone(n)
    /\ UNCHANGED gapVars

VoteReply(c, respTerm, granted) ==
    [from |-> c.from, to |-> c.to, term |-> c.term,
     respTerm |-> respTerm, voteGranted |-> granted]

\* onRequestVote() of a stale call.
rejectRequestVote(c) ==
    /\ ServerFree(c.to)
    /\ c.term < currentTerm[c.to]
    /\ rvCalls' = rvCalls \ {c}
    /\ rvReplies' = rvReplies \cup {VoteReply(c, currentTerm[c.to], FALSE)}
    /\ UNCHANGED <<termVars, logVars, leaderVars, voteVars, aeVars, gapVars>>

\* onRequestVote() that makes a leader step down: up to the unlocked gap.
parkRequestVote(c) ==
    /\ ServerFree(c.to)
    /\ c.term > currentTerm[c.to]
    /\ role[c.to] = "LEADER"
    /\ becomeFollower(c.to, c.term)
    /\ rvCalls' = rvCalls \ {c}
    /\ parkedVotes' = parkedVotes \cup {c}
    /\ UNCHANGED <<logVars, leaderVars, leaders, rvReplies, aeVars, parkedAppends>>

\* onRequestVote() without the gap, from the term check to the answer.
onRequestVote(c) ==
    LET n     == c.to
        newer == c.term > currentTerm[n]
        vote  == IF newer THEN Nil ELSE votedFor[n]
        grant == GrantsVote(log[n], vote, c)
    IN  /\ ServerFree(n)
        /\ c.term >= currentTerm[n]
        /\ newer => role[n] # "LEADER"
        /\ currentTerm' = [currentTerm EXCEPT ![n] = c.term]
        /\ role' = [role EXCEPT ![n] = IF newer THEN "FOLLOWER" ELSE @]
        /\ votedFor' = [votedFor EXCEPT ![n] = IF grant THEN c.from ELSE vote]
        /\ voters' = [voters EXCEPT ![n] = IF newer THEN {} ELSE @]
        /\ rvCalls' = rvCalls \ {c}
        /\ rvReplies' = rvReplies \cup {VoteReply(c, c.term, grant)}
        /\ UNCHANGED <<logVars, leaderVars, leaders, aeVars, gapVars>>

\* The rest of onRequestVote() once the mutex is held again.
resumeRequestVote(c) ==
    LET n     == c.to
        grant == GrantsVote(log[n], votedFor[n], c)
    IN  /\ votedFor' = [votedFor EXCEPT ![n] = IF grant THEN c.from ELSE @]
        /\ parkedVotes' = parkedVotes \ {c}
        /\ rvReplies' = rvReplies \cup {VoteReply(c, currentTerm[n], grant)}
        /\ UNCHANGED <<currentTerm, role, logVars, leaderVars, voteVars,
                       rvCalls, aeVars, parkedAppends>>

\* The pool task on an answer that carries a higher term.
voteReplyStepDown(r) ==
    /\ r.respTerm > currentTerm[r.from]
    /\ becomeFollower(r.from, r.respTerm)
    /\ rvReplies' = rvReplies \ {r}
    /\ UNCHANGED <<logVars, leaderVars, leaders, rvCalls, aeVars, gapVars>>

\* Mutant: a vote of an earlier election of the same candidate counts.
OutdatedVoteRoleOnly(r) == role[r.from] # "CANDIDATE"

OutdatedVote(r) == role[r.from] # "CANDIDATE" \/ currentTerm[r.from] # r.term

\* The pool task on an answer that changes nothing.
voteReplyIgnored(r) ==
    /\ r.respTerm <= currentTerm[r.from]
    /\ OutdatedVote(r) \/ ~r.voteGranted
    /\ rvReplies' = rvReplies \ {r}
    /\ UNCHANGED <<termVars, logVars, leaderVars, voteVars, rvCalls, aeVars, gapVars>>

\* The pool task on a granted vote.
voteReplyCounted(r) ==
    LET n   == r.from
        won == Cardinality(voters[n] \cup {r.to}) >= Majority
    IN  /\ r.respTerm <= currentTerm[n]
        /\ ~OutdatedVote(r)
        /\ r.voteGranted
        /\ IF won THEN becomeLeaderInternal(n, currentTerm[n])
                  ELSE /\ voters' = [voters EXCEPT ![n] = @ \cup {r.to}]
                       /\ UNCHANGED <<role, leaderVars, aeCalls, leaders>>
        /\ rvReplies' = rvReplies \ {r}
        /\ UNCHANGED <<currentTerm, votedFor, logVars, rvCalls, aeReplies, gapVars>>

-----------------------------------------------------------------------------
(***************************************************************************)
(* Log replication.                                                        *)
(***************************************************************************)

\* submitCommand(): append, replicate, and commit at once without peers.
submitCommand(n, cmd) ==
    LET l == Append(log[n], [term |-> currentTerm[n], command |-> cmd])
    IN  /\ role[n] = "LEADER"
        /\ Len(log[n]) < MaxLogLen
        /\ log' = [log EXCEPT ![n] = l]
        /\ \E S \in Connect(AppendCalls(n, currentTerm[n], l, nextIndex[n])) :
              aeCalls' = aeCalls \cup S
        /\ IF Peers(n) = {}
           THEN applyStateMachine(n, l, commitIndex[n], currentTerm[n], matchIndex[n])
           ELSE UNCHANGED <<commitIndex, applied>>
        /\ UNCHANGED <<termVars, leaderVars, voteVars, rvVars, aeReplies, gapVars>>

\* The heartbeat timer: sendHeartbeatsInternal() of a leader.
sendHeartbeatsInternal(n) ==
    /\ role[n] = "LEADER"
    /\ \E S \in Connect(AppendCalls(n, currentTerm[n], log[n], nextIndex[n])) :
          aeCalls' = aeCalls \cup S
    /\ IF Peers(n) = {}
       THEN applyStateMachine(n, log[n], commitIndex[n], currentTerm[n], matchIndex[n])
       ELSE UNCHANGED <<commitIndex, applied>>
    /\ UNCHANGED <<termVars, log, leaderVars, voteVars, rvVars, aeReplies, gapVars>>

AppendReply(c, respTerm, success, conflict) ==
    [from |-> c.from, to |-> c.to, term |-> c.term, respTerm |-> respTerm,
     success |-> success, conflictIndex |-> conflict,
     nextIdx |-> c.prevLogIndex + 1, entriesCount |-> Len(c.entries)]

\* A stale call, or a second leader of the same term whose id is not smaller.
RejectsAppend(n, c) ==
    \/ c.term < currentTerm[n]
    \/ c.term = currentTerm[n] /\ role[n] = "LEADER" /\ <<c.from, n>> \notin IdLess

\* onAppendEntries() up to its early returns; conflictIndex 0 is "absent".
rejectAppendEntries(c) ==
    /\ ServerFree(c.to)
    /\ RejectsAppend(c.to, c)
    /\ aeCalls' = aeCalls \ {c}
    /\ aeReplies' = aeReplies \cup {AppendReply(c, currentTerm[c.to], FALSE, 0)}
    /\ UNCHANGED <<termVars, logVars, leaderVars, voteVars, rvVars, gapVars>>

\* onAppendEntries() that makes a leader step down: up to the unlocked gap.
parkAppendEntries(c) ==
    /\ ServerFree(c.to)
    /\ ~RejectsAppend(c.to, c)
    /\ role[c.to] = "LEADER"
    /\ becomeFollower(c.to, c.term)
    /\ aeCalls' = aeCalls \ {c}
    /\ parkedAppends' = parkedAppends \cup {[call |-> c, respTerm |-> currentTerm[c.to]]}
    /\ UNCHANGED <<logVars, leaderVars, leaders, rvVars, aeReplies, parkedVotes>>

\* The log part of onAppendEntries(), in term term; entryTerm is the term read
\* when the handler was entered, which is what a conflict answer carries.
ReplicateEntries(n, c, term, entryTerm) ==
    LET l == MergeEntries(log[n], c)
    IN  IF ~LogMatches(log[n], c)
        THEN /\ aeReplies' = aeReplies \cup
                  {AppendReply(c, entryTerm, FALSE, Smaller(c.prevLogIndex, Len(log[n]) + 1))}
             /\ UNCHANGED logVars
        ELSE /\ log' = [log EXCEPT ![n] = l]
             /\ IF c.leaderCommit > commitIndex[n]
                THEN applyStateMachine(n, l, Smaller(c.leaderCommit, Len(l)), term, matchIndex[n])
                ELSE UNCHANGED <<commitIndex, applied>>
             /\ aeReplies' = aeReplies \cup {AppendReply(c, term, TRUE, 0)}

\* onAppendEntries() of a follower or a candidate.
onAppendEntries(c) ==
    LET n     == c.to
        steps == c.term > currentTerm[n] \/ role[n] = "CANDIDATE"
    IN  /\ ServerFree(n)
        /\ ~RejectsAppend(n, c)
        /\ role[n] # "LEADER"
        /\ IF steps THEN becomeFollower(n, c.term) ELSE UNCHANGED <<termVars, voters>>
        /\ ReplicateEntries(n, c, c.term, currentTerm[n])
        /\ aeCalls' = aeCalls \ {c}
        /\ UNCHANGED <<leaderVars, leaders, rvVars, gapVars>>

\* The rest of onAppendEntries() once the mutex is held again.
resumeAppendEntries(a) ==
    /\ ReplicateEntries(a.call.to, a.call, currentTerm[a.call.to], a.respTerm)
    /\ parkedAppends' = parkedAppends \ {a}
    /\ UNCHANGED <<termVars, leaderVars, voteVars, rvVars, aeCalls, parkedVotes>>

\* The pool task on an answer that carries a higher term.
appendReplyStepDown(r) ==
    /\ r.respTerm > currentTerm[r.from]
    /\ becomeFollower(r.from, r.respTerm)
    /\ aeReplies' = aeReplies \ {r}
    /\ UNCHANGED <<logVars, leaderVars, leaders, rvVars, aeCalls, gapVars>>

OutdatedAppend(r) == role[r.from] # "LEADER" \/ currentTerm[r.from] # r.term

\* The pool task on an answer that changes nothing.
appendReplyIgnored(r) ==
    /\ r.respTerm <= currentTerm[r.from]
    /\ OutdatedAppend(r) \/ (r.success /\ r.entriesCount = 0)
    /\ aeReplies' = aeReplies \ {r}
    /\ UNCHANGED <<termVars, logVars, leaderVars, voteVars, rvVars, aeCalls, gapVars>>

\* The pool task on a confirmed batch.
appendReplySuccess(r) ==
    LET n     == r.from
        match == [matchIndex[n] EXCEPT ![r.to] = r.nextIdx + r.entriesCount - 1]
    IN  /\ r.respTerm <= currentTerm[n]
        /\ ~OutdatedAppend(r)
        /\ r.success /\ r.entriesCount > 0
        /\ matchIndex' = [matchIndex EXCEPT ![n] = match]
        /\ nextIndex' = [nextIndex EXCEPT ![n][r.to] = r.nextIdx + r.entriesCount]
        /\ applyStateMachine(n, log[n], commitIndex[n], currentTerm[n], match)
        /\ aeReplies' = aeReplies \ {r}
        /\ UNCHANGED <<termVars, log, voteVars, rvVars, aeCalls, gapVars>>

\* Mutant: a refusal leaves nextIndex where it is.
NoBacktrack(next, conflict) == next

\* nextIndex after a refusal: back to conflictIndex, or by one without it.
Backtrack(next, conflict) ==
    IF next <= 1 THEN next ELSE IF conflict > 0 THEN conflict ELSE next - 1

\* The pool task on a refused batch.
appendReplyFailure(r) ==
    /\ r.respTerm <= currentTerm[r.from]
    /\ ~OutdatedAppend(r)
    /\ ~r.success
    /\ nextIndex' = [nextIndex EXCEPT ![r.from][r.to] = Backtrack(@, r.conflictIndex)]
    /\ aeReplies' = aeReplies \ {r}
    /\ UNCHANGED <<termVars, logVars, matchIndex, voteVars, rvVars, aeCalls, gapVars>>

-----------------------------------------------------------------------------
(***************************************************************************)
(* JsonRpcClient::call fails (no connection, a time-out, a truncated       *)
(* answer): the task sees a response without a term and does nothing.      *)
(***************************************************************************)
LoseVoteCall(c) ==
    /\ rvCalls' = rvCalls \ {c}
    /\ UNCHANGED <<termVars, logVars, leaderVars, voteVars, rvReplies, aeVars, gapVars>>
LoseVoteReply(r) ==
    /\ rvReplies' = rvReplies \ {r}
    /\ UNCHANGED <<termVars, logVars, leaderVars, voteVars, rvCalls, aeVars, gapVars>>
LoseAppendCall(c) ==
    /\ aeCalls' = aeCalls \ {c}
    /\ UNCHANGED <<termVars, logVars, leaderVars, voteVars, rvVars, aeReplies, gapVars>>
LoseAppendReply(r) ==
    /\ aeReplies' = aeReplies \ {r}
    /\ UNCHANGED <<termVars, logVars, leaderVars, voteVars, rvVars, aeCalls, gapVars>>

NodeStep(n) ==
    \/ startElection(n) \/ sendHeartbeatsInternal(n)
    \/ \E cmd \in Command : submitCommand(n, cmd)

VoteStep ==
    \/ \E c \in rvCalls : \/ rejectRequestVote(c) \/ parkRequestVote(c)
                          \/ onRequestVote(c) \/ LoseVoteCall(c)
    \/ \E c \in parkedVotes : resumeRequestVote(c)
    \/ \E r \in rvReplies : \/ voteReplyStepDown(r) \/ voteReplyIgnored(r)
                            \/ voteReplyCounted(r) \/ LoseVoteReply(r)

AppendStep ==
    \/ \E c \in aeCalls : \/ rejectAppendEntries(c) \/ parkAppendEntries(c)
                          \/ onAppendEntries(c) \/ LoseAppendCall(c)
    \/ \E a \in parkedAppends : resumeAppendEntries(a)
    \/ \E r \in aeReplies : \/ appendReplyStepDown(r) \/ appendReplyIgnored(r)
                            \/ appendReplySuccess(r) \/ appendReplyFailure(r)
                            \/ LoseAppendReply(r)

Next == (\E n \in Node : NodeStep(n)) \/ VoteStep \/ AppendStep

Spec == Init /\ [][Next]_vars

-----------------------------------------------------------------------------
(***************************************************************************)
(* An assumption, not a part of the model: no startElection() gets the     *)
(* mutex while a handler of the same node is inside stopDiscoveryService().*)
(* The code does not see to it.  becomeFollower() re-arms the election     *)
(* timer, with 300 ms or more, before it unlocks, so the call would have   *)
(* to take that long; or a callback that had passed the timer's flag       *)
(* before it was cleared would have to wait for the mutex just then.       *)
(* What holds without the assumption is stated without it, and             *)
(* LeaderAppendOnly shows what can happen when it fails.                   *)
(***************************************************************************)
QuietStep == \A n \in Node : ServerFree(n) \/ ~startElection(n)

QuietGap == [][QuietStep]_vars

-----------------------------------------------------------------------------
TypeOK ==
    /\ currentTerm \in [Node -> Term]
    /\ votedFor \in [Node -> Node \cup {Nil}]
    /\ role \in [Node -> Role]
    /\ log \in [Node -> Seq(Entry)]
    /\ commitIndex \in [Node -> Nat]
    /\ applied \in [Node -> Seq(Entry)]
    /\ nextIndex \in [Node -> [Node -> Nat \ {0}]]
    /\ matchIndex \in [Node -> [Node -> Nat]]
    /\ voters \in [Node -> SUBSET Node]
    /\ leaders \in [Term -> SUBSET Node]
    /\ rvCalls \subseteq RequestVote
    /\ rvReplies \subseteq RequestVoteReply
    /\ aeCalls \subseteq AppendEntries
    /\ aeReplies \subseteq AppendEntriesReply
    /\ parkedVotes \subseteq RequestVote
    /\ parkedAppends \subseteq ParkedAppend

\* At most one node ever becomes leader in a term: becomeLeaderInternal() runs
\* at most once per term in the cluster, although a candidate that steps down
\* in its own term forgets its vote (becomeFollower clears votedFor).
ElectionSafety ==
    \A t \in Term : \A n, m \in leaders[t] : n = m

\* Two logs that hold an entry of the same term at the same position are
\* identical up to it: what the prevLogTerm check and the truncation in the
\* append loop of onAppendEntries() are for.
LogMatching ==
    \A n, m \in Node : \A i \in 1..Smaller(Len(log[n]), Len(log[m])) :
        log[n][i].term = log[m][i].term
            => SubSeq(log[n], 1, i) = SubSeq(log[m], 1, i)

\* Any two managers have given stateMachine.apply() the same submissions in
\* the same order, as far as both have come.
StateMachineSafety ==
    \A n, m \in Node : \A i \in 1..Smaller(Len(applied[n]), Len(applied[m])) :
        applied[n][i] = applied[m][i]

\* A leader's log holds everything that a manager of an older or the same term
\* has applied: what the log comparison in onRequestVote() is for.
LeaderCompleteness ==
    \A n, m \in Node : role[n] = "LEADER" /\ currentTerm[m] <= currentTerm[n] =>
        /\ Len(applied[m]) <= Len(log[n])
        /\ \A i \in 1..Len(applied[m]) : applied[m][i] = log[n][i]

\* A leader's matchIndex is backed by the peer's log as long as the peer has
\* not moved to a later term, however late the answers it was set from arrived
\* (they are applied unconditionally, so it may move backwards).
MatchIndexSound ==
    \A n \in Node : \A p \in Peers(n) :
        role[n] = "LEADER" /\ currentTerm[p] <= currentTerm[n] =>
            /\ matchIndex[n][p] <= Len(log[p])
            /\ SubSeq(log[p], 1, matchIndex[n][p]) = SubSeq(log[n], 1, matchIndex[n][p])

\* A manager never moves its commitIndex back and never changes an entry below
\* it: the truncation in onAppendEntries() does not check commitIndex.
CommittedStays ==
    [][\A n \in Node : /\ commitIndex'[n] >= commitIndex[n]
                       /\ Len(log'[n]) >= commitIndex[n]
                       /\ SubSeq(log'[n], 1, commitIndex[n]) = SubSeq(log[n], 1, commitIndex[n])]_vars

\* While a node leads a term its log only grows: no handler truncates it, not
\* even one that entered onAppendEntries() before the node was elected again
\* ("Reject if term is older" is decided once, before the gap).
LeaderAppendOnly ==
    [][\A n \in Node :
         role[n] = "LEADER" /\ role'[n] = "LEADER" /\ currentTerm'[n] = currentTerm[n] =>
             /\ Len(log[n]) <= Len(log'[n])
             /\ SubSeq(log'[n], 1, Len(log[n])) = log[n]]_vars

\* An entry that some manager has applied stays in the logs of a majority, so
\* that no later election can lose it: applyStateMachine() applies nothing
\* before its majority count, and nothing is truncated afterwards.
AppliedByMajority ==
    \A n \in Node : \A i \in 1..Len(applied[n]) :
        Cardinality({m \in Node : Len(log[m]) >= i /\ log[m][i] = applied[n][i]}) >= Majority

\* In a cluster of one, everything submitted is applied before submitCommand()
\* or the heartbeat returns.
AloneAppliesAll ==
    \A n \in Node : Peers(n) = {} => applied[n] = log[n]

-----------------------------------------------------------------------------
(***************************************************************************)
(* The inductive invariant behind ElectionSafety.                          *)
(***************************************************************************)

\* lastApplied has caught up with commitIndex whenever the mutex is free.
AppliedCaughtUp == \A n \in Node : commitIndex[n] <= Len(applied[n])

\* n's vote in term t counts, or can still be counted, for c.
Granted(n, c, t) ==
    \/ \E r \in rvReplies : /\ r.from = c /\ r.to = n /\ r.voteGranted
                            /\ r.term = t /\ r.respTerm = t
    \/ role[c] = "CANDIDATE" /\ currentTerm[c] = t /\ n \in voters[c]

\* n can grant its vote in term t to nobody but c any more.
LockedTo(n, c, t) == \/ currentTerm[n] > t
                     \/ currentTerm[n] = t /\ votedFor[n] = c

\* Nobody calls itself, a handler in the gap has taken over the call's term,
\* votes are not granted for a term ahead of the voter's, and AppendEntries
\* only comes from a leader of its term.
CallsInv ==
    /\ \A c \in rvCalls : c.from # c.to
    /\ \A c \in parkedVotes : c.from # c.to /\ c.term <= currentTerm[c.to]
    /\ \A r \in rvReplies : /\ r.from # r.to
                            /\ r.voteGranted => r.term <= r.respTerm
    /\ \A c \in aeCalls : c.from # c.to /\ c.from \in leaders[c.term]

\* A candidate holds its own vote; leaders holds who leads, and a node that led
\* a term never stands for election in it again.
RolesInv ==
    \A n \in Node :
        /\ role[n] = "CANDIDATE" => votedFor[n] = n
        /\ role[n] = "LEADER" => n \in leaders[currentTerm[n]]
        /\ \A t \in Term : n \in leaders[t] =>
               \/ t < currentTerm[n]
               \/ t = currentTerm[n] /\ role[n] # "CANDIDATE"

\* Before a term has a leader nobody is free to vote in it twice.
VotesInv ==
    \A t \in Term : leaders[t] = {} =>
        \A n, c \in Node : Granted(n, c, t) =>
            /\ LockedTo(n, c, t)
            /\ \A d \in Node : Granted(n, d, t) => c = d

\* Behind a leader stands a majority that is, and stays, lost to everyone else.
BackedInv ==
    \A t \in Term : \A l \in leaders[t] :
        \E Q \in SUBSET Node :
            /\ Cardinality(Q) >= Majority
            /\ \A n \in Q : /\ LockedTo(n, l, t)
                            /\ \A c \in Node : Granted(n, c, t) => c = l

\* The vote bookkeeping of the whole cluster, from which ElectionSafety
\* follows: votes in flight and counted, votedFor, roles and past leaders fit
\* together, although becomeFollower() forgets votes within a term.
ElectionInv == CallsInv /\ RolesInv /\ VotesInv /\ BackedInv /\ ElectionSafety

=============================================================================
