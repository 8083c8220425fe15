--------------------------- MODULE RaftNodeProofs ---------------------------
(***************************************************************************)
(* Theorems on the managers for a cluster of any size and every bound:     *)
(* type correctness and at most one leader per term, a single node that    *)
(* applies everything at once and, if nobody stands for election while a   *)
(* handler of its own is in the unlocked gap (QuietGap), logs that match   *)
(* and a matchIndex the peers' logs back.                                  *)
(*                                                                         *)
(* votedFor alone does not carry one leader per term: becomeFollower()     *)
(* clears it within a term when a candidate, or a leader, hears of the     *)
(* term's leader, so a node can vote twice in a term.  ElectionInv says    *)
(* why this is harmless: a vote can only be forgotten once the term has a  *)
(* leader, and then by nobody in the majority that elected it.             *)
(***************************************************************************)
EXTENDS RaftNode, TLAPS, NaturalsInduction, WellFoundedInduction, FiniteSetTheorems

\* startElection() of a node with peers to ask, and of a node without.
startElectionAmong(n) == startElection(n) /\ Majority > 1
startElectionAlone(n) == startElection(n) /\ ~(Majority > 1)

-----------------------------------------------------------------------------
(***************************************************************************)
(* What the helpers return.                                                *)
(***************************************************************************)

\* A function on 1..k is a sequence of length k.
LEMMA SeqFromFunction ==
    ASSUME NEW S, NEW k \in Nat, NEW f \in [1..k -> S]
    PROVE  f \in Seq(S) /\ Len(f) = k
  OBVIOUS

\* A nonempty set of numbers that are at most b has a greatest element.
LEMMA GreatestElement ==
    ASSUME NEW b \in Nat, NEW S, S \subseteq 0..b, S # {}
    PROVE  \E k \in S : \A j \in S : j <= k
  <1> DEFINE T == {d \in 0..b : b - d \in S}
  <1>1. T \subseteq Nat
    OBVIOUS
  <1>2. T # {}
    <2>1. PICK s \in S : TRUE
      OBVIOUS
    <2>2. b - s \in 0..b /\ b - (b - s) = s
      BY <2>1
    <2> QED  BY <2>1, <2>2
  <1> HIDE DEF T
  <1>3. PICK x \in T : \A y \in T : ~(<<y, x>> \in OpToRel(<, Nat))
    BY <1>1, <1>2, NatLessThanWellFounded, WFMin
  <1>4. \A y \in T : ~(y < x)
    BY <1>1, <1>3 DEF OpToRel
  <1>5. b - x \in S /\ x \in 0..b
    BY DEF T
  <1>6. ASSUME NEW j \in S PROVE j <= b - x
    <2>1. b - j \in T
      BY DEF T
    <2>2. ~(b - j < x)
      BY <1>4, <2>1
    <2> QED  BY <1>5, <2>2
  <1> QED  BY <1>5, <1>6

\* The commit index that applyStateMachine() chooses is the old one or the
\* position of an entry of the log.
LEMMA AdvanceCommitRange ==
    ASSUME NEW n, NEW l \in Seq(Entry), NEW ci \in Nat, NEW term, NEW match
    PROVE  LET c == AdvanceCommit(n, l, ci, term, match)
           IN  c = ci \/ (c \in Nat /\ ci < c /\ c <= Len(l))
  <1> DEFINE S == Committable(n, l, ci, term, match)
  <1>1. S \subseteq 0..Len(l) /\ \A k \in S : k \in Nat /\ ci < k /\ k <= Len(l)
    BY DEF Committable
  <1>2. CASE S = {}
    BY <1>2 DEF AdvanceCommit
  <1>3. CASE S # {}
    <2>1. \E k \in S : \A j \in S : j <= k
      BY <1>1, <1>3, GreatestElement
    <2>2. AdvanceCommit(n, l, ci, term, match) \in S
      BY <1>3, <2>1 DEF AdvanceCommit
    <2> QED  BY <1>1, <2>2
  <1> QED  BY <1>2, <1>3

\* The append loop of onAppendEntries() yields a log.
LEMMA MergeEntriesType ==
    ASSUME NEW l \in Seq(Entry), NEW c \in AppendEntries, LogMatches(l, c)
    PROVE  MergeEntries(l, c) \in Seq(Entry)
  <1> DEFINE k == c.prevLogIndex + Len(c.entries)
  <1> DEFINE f == [i \in 1..k |-> IF i <= c.prevLogIndex \/ Agrees(l, c, i - c.prevLogIndex)
                                  THEN l[i] ELSE c.entries[i - c.prevLogIndex]]
  <1>1. c.prevLogIndex \in Nat /\ c.entries \in Seq(Entry) /\ k \in Nat
    BY DEF AppendEntries
  <1>2. c.prevLogIndex <= Len(l)
    BY <1>1 DEF LogMatches
  <1>3. ASSUME NEW i \in 1..k, ~(i <= c.prevLogIndex)
        PROVE  c.entries[i - c.prevLogIndex] \in Entry
    BY <1>1, <1>3
  <1>4. ASSUME NEW i \in 1..k, ~(i <= c.prevLogIndex), Agrees(l, c, i - c.prevLogIndex)
        PROVE  l[i] \in Entry
    <2>1. i - c.prevLogIndex \in 1..(i - c.prevLogIndex)
      BY <1>1, <1>4
    <2>2. c.prevLogIndex + (i - c.prevLogIndex) <= Len(l)
      BY <1>4, <2>1 DEF Agrees
    <2> QED  BY <1>1, <2>2
  <1>5. ASSUME NEW i \in 1..k, i <= c.prevLogIndex
        PROVE  l[i] \in Entry
    BY <1>1, <1>2, <1>5
  <1>6. f \in [1..k -> Entry]
    BY <1>3, <1>4, <1>5
  <1>7. f \in Seq(Entry)
    BY <1>1, <1>6, SeqFromFunction
  <1> QED  BY <1>7 DEF MergeEntries

\* Applying up to a position of the log, or one that is applied already,
\* yields a sequence that reaches it.
LEMMA ApplyUpToType ==
    ASSUME NEW done \in Seq(Entry), NEW l \in Seq(Entry), NEW c \in Nat,
           c <= Len(done) \/ c <= Len(l)
    PROVE  ApplyUpTo(done, l, c) \in Seq(Entry) /\ c <= Len(ApplyUpTo(done, l, c))
  <1>1. CASE c <= Len(done)
    BY <1>1 DEF ApplyUpTo
  <1>2. CASE ~(c <= Len(done))
    <2> DEFINE f == [i \in 1..c |-> IF i <= Len(done) THEN done[i] ELSE l[i]]
    <2>1. f \in [1..c -> Entry]
      BY <1>2
    <2>2. f \in Seq(Entry) /\ Len(f) = c
      BY <2>1, SeqFromFunction
    <2> QED  BY <1>2, <2>2 DEF ApplyUpTo
  <1> QED  BY <1>1, <1>2

\* applyStateMachine() keeps the types, and lastApplied level with commitIndex.
LEMMA applyStateMachineType ==
    ASSUME TypeOK, AppliedCaughtUp, NEW n \in Node, NEW l \in Seq(Entry), NEW ci \in Nat,
           ci <= commitIndex[n] \/ ci <= Len(l), NEW term, NEW match,
           applyStateMachine(n, l, ci, term, match)
    PROVE  /\ commitIndex' \in [Node -> Nat]
           /\ applied' \in [Node -> Seq(Entry)]
           /\ AppliedCaughtUp'
  <1> DEFINE c == AdvanceCommit(n, l, ci, term, match)
  <1> DEFINE a == ApplyUpTo(applied[n], l, c)
  <1>1. c = ci \/ (c \in Nat /\ ci < c /\ c <= Len(l))
    BY AdvanceCommitRange
  <1>2. commitIndex[n] \in Nat /\ applied[n] \in Seq(Entry) /\ commitIndex[n] <= Len(applied[n])
    BY DEF TypeOK, AppliedCaughtUp
  <1>3. c \in Nat /\ (c <= Len(applied[n]) \/ c <= Len(l))
    BY <1>1, <1>2
  <1>4. a \in Seq(Entry) /\ c <= Len(a)
    BY <1>2, <1>3, ApplyUpToType
  <1>5. /\ commitIndex' = [commitIndex EXCEPT ![n] = c]
        /\ applied' = [applied EXCEPT ![n] = a]
    BY DEF applyStateMachine
  <1> HIDE DEF c, a
  <1>6. commitIndex' \in [Node -> Nat] /\ applied' \in [Node -> Seq(Entry)]
    BY <1>3, <1>4, <1>5 DEF TypeOK
  <1>7. AppliedCaughtUp'
    BY <1>3, <1>4, <1>5 DEF TypeOK, AppliedCaughtUp
  <1> QED  BY <1>6, <1>7

\* Terms of log entries.
LEMMA EntryTerm ==
    /\ 0 \in Term
    /\ \A e \in Entry : e.term \in Term
    /\ \A l \in Seq(Entry) : \A i \in 1..Len(l) : l[i].term \in Term
  <1>1. 0 \in Term
    BY BoundAssumption DEF Term
  <1>2. \A e \in Entry : e.term \in Term
    BY DEF Entry
  <1>3. \A l \in Seq(Entry) : \A i \in 1..Len(l) : l[i] \in Entry
    OBVIOUS
  <1> QED  BY <1>1, <1>2, <1>3

\* Every AppendEntries call a node makes is well formed.
LEMMA AppendCallsType ==
    ASSUME TypeOK, NEW n \in Node, NEW term \in Term, NEW l \in Seq(Entry),
           NEW next \in [Node -> Nat \ {0}]
    PROVE  AppendCalls(n, term, l, next) \subseteq AppendEntries
  <1> SUFFICES ASSUME NEW p \in Node
               PROVE  AppendCall(n, p, term, l, next[p]) \in AppendEntries
    BY DEF AppendCalls, Peers
  <1> DEFINE k == next[p]
  <1> DEFINE last == Smaller(Len(l), k + MAX_ENTRIES_PER_RPC - 1)
  <1>1. k \in Nat /\ k >= 1 /\ last \in Int /\ last <= Len(l)
    BY BatchAssumption DEF Smaller
  <1> HIDE DEF k, last
  <1>2. SubSeq(l, k, last) \in Seq(Entry)
    BY <1>1
  <1>3. (IF k - 1 \in 1..Len(l) THEN l[k - 1].term ELSE 0) \in Term
    BY <1>1, EntryTerm
  <1>4. commitIndex[n] \in Nat
    BY DEF TypeOK
  <1> QED  BY <1>1, <1>2, <1>3, <1>4 DEF AppendCall, AppendEntries, k, last

\* Every RequestVote call a candidate makes is well formed.
LEMMA VoteCallsType ==
    ASSUME NEW n \in Node, NEW term \in Term, NEW l \in Seq(Entry)
    PROVE  VoteCalls(n, term, l) \subseteq RequestVote
  <1>1. LastTerm(l) \in Term
    BY EntryTerm DEF LastTerm
  <1> QED  BY <1>1 DEF VoteCalls, RequestVote, Peers

\* Types of the answers.
LEMMA VoteReplyType ==
    ASSUME NEW c \in RequestVote, NEW term \in Term, NEW granted \in BOOLEAN
    PROVE  VoteReply(c, term, granted) \in RequestVoteReply
  BY DEF VoteReply, RequestVote, RequestVoteReply

\* An answer to a well-formed AppendEntries call is well formed.
LEMMA AppendReplyType ==
    ASSUME NEW c \in AppendEntries, NEW term \in Term, NEW success \in BOOLEAN,
           NEW conflict \in Nat
    PROVE  AppendReply(c, term, success, conflict) \in AppendEntriesReply
  BY DEF AppendReply, AppendEntries, AppendEntriesReply

\* The log part of onAppendEntries() keeps the types.
LEMMA ReplicateEntriesType ==
    ASSUME TypeOK, AppliedCaughtUp, NEW c \in AppendEntries,
           NEW term \in Term, NEW entryTerm \in Term,
           ReplicateEntries(c.to, c, term, entryTerm)
    PROVE  /\ log' \in [Node -> Seq(Entry)]
           /\ commitIndex' \in [Node -> Nat]
           /\ applied' \in [Node -> Seq(Entry)]
           /\ aeReplies' \subseteq AppendEntriesReply
           /\ AppliedCaughtUp'
  <1> DEFINE n == c.to
  <1> DEFINE l == MergeEntries(log[n], c)
  <1>1. n \in Node /\ log[n] \in Seq(Entry) /\ c.prevLogIndex \in Nat /\ c.leaderCommit \in Nat
    BY DEF TypeOK, AppendEntries
  <1>2. CASE ~LogMatches(log[n], c)
    <2>1. Smaller(c.prevLogIndex, Len(log[n]) + 1) \in Nat
      BY <1>1 DEF Smaller
    <2>2. aeReplies' \subseteq AppendEntriesReply
      <3>1. AppendReply(c, entryTerm, FALSE, Smaller(c.prevLogIndex, Len(log[n]) + 1))
              \in AppendEntriesReply
        BY <2>1, AppendReplyType
      <3> QED  BY <1>2, <3>1 DEF ReplicateEntries, TypeOK
    <2>3. UNCHANGED logVars
      BY <1>2 DEF ReplicateEntries
    <2> QED  BY <2>2, <2>3 DEF TypeOK, AppliedCaughtUp, logVars
  <1>3. CASE LogMatches(log[n], c)
    <2>1. l \in Seq(Entry)
      BY <1>1, <1>3, MergeEntriesType
    <2>2. log' = [log EXCEPT ![n] = l] /\ aeReplies' = aeReplies \cup {AppendReply(c, term, TRUE, 0)}
      BY <1>3 DEF ReplicateEntries
    <2> HIDE DEF l
    <2>3. log' \in [Node -> Seq(Entry)] /\ aeReplies' \subseteq AppendEntriesReply
      BY <1>1, <2>1, <2>2, AppendReplyType DEF TypeOK
    <2>4. CASE c.leaderCommit > commitIndex[n]
      <3>1. applyStateMachine(n, l, Smaller(c.leaderCommit, Len(l)), term, matchIndex[n])
        BY <1>3, <2>4 DEF ReplicateEntries, l
      <3>2. /\ Smaller(c.leaderCommit, Len(l)) \in Nat
            /\ Smaller(c.leaderCommit, Len(l)) <= Len(l)
        BY <1>1, <2>1 DEF Smaller
      <3> HIDE DEF n
      <3> QED  BY <1>1, <2>1, <2>3, <3>1, <3>2, applyStateMachineType
    <2>5. CASE ~(c.leaderCommit > commitIndex[n])
      <3>1. UNCHANGED <<commitIndex, applied>>
        BY <1>3, <2>5 DEF ReplicateEntries
      <3> QED  BY <2>3, <3>1 DEF TypeOK, AppliedCaughtUp
    <2> QED  BY <2>4, <2>5
  <1> QED  BY <1>2, <1>3


-----------------------------------------------------------------------------
(***************************************************************************)
(* Every step keeps the types.                                             *)
(***************************************************************************)
TypeInv == TypeOK /\ AppliedCaughtUp

\* becomeFollower() keeps the types of what it assigns.
LEMMA becomeFollowerType ==
    ASSUME TypeOK, NEW n \in Node, NEW term \in Term, becomeFollower(n, term)
    PROVE  /\ currentTerm' \in [Node -> Term]
           /\ votedFor' \in [Node -> Node \cup {Nil}]
           /\ role' \in [Node -> Role]
           /\ voters' \in [Node -> SUBSET Node]
  BY DEF TypeOK, becomeFollower, Role

\* becomeLeaderInternal() keeps the types of what it assigns.
LEMMA becomeLeaderType ==
    ASSUME TypeOK, NEW n \in Node, NEW term \in Term, becomeLeaderInternal(n, term)
    PROVE  /\ role' \in [Node -> Role]
           /\ nextIndex' \in [Node -> [Node -> Nat \ {0}]]
           /\ matchIndex' \in [Node -> [Node -> Nat]]
           /\ aeCalls' \subseteq AppendEntries
           /\ voters' \in [Node -> SUBSET Node]
           /\ leaders' \in [Term -> SUBSET Node]
  <1> DEFINE next == [p \in Node |-> Len(log[n]) + 1]
  <1>1. log[n] \in Seq(Entry) /\ next \in [Node -> Nat \ {0}]
    BY DEF TypeOK
  <1>2. AppendCalls(n, term, log[n], next) \subseteq AppendEntries
    BY <1>1, AppendCallsType
  <1>3. PICK S \in Connect(AppendCalls(n, term, log[n], next)) : aeCalls' = aeCalls \cup S
    BY DEF becomeLeaderInternal
  <1>4. aeCalls' \subseteq AppendEntries
    BY <1>2, <1>3 DEF Connect, TypeOK
  <1>5. /\ nextIndex' = [nextIndex EXCEPT ![n] = next]
        /\ matchIndex' = [matchIndex EXCEPT ![n] = [p \in Node |-> 0]]
        /\ leaders' = [leaders EXCEPT ![term] = @ \cup {n}]
        /\ voters' = [voters EXCEPT ![n] = {}]
        /\ role' = [role EXCEPT ![n] = "LEADER"]
    BY DEF becomeLeaderInternal
  <1> HIDE DEF next
  <1> QED  BY <1>1, <1>4, <1>5 DEF TypeOK, Role

\* The actions of elections.
LEMMA ElectionTypeStep ==
    ASSUME TypeInv
    PROVE  /\ \A n \in Node : startElectionAmong(n) => TypeInv'
           /\ \A n \in Node : startElectionAlone(n) => TypeInv'
           /\ \A c \in rvCalls : rejectRequestVote(c) => TypeInv'
           /\ \A c \in rvCalls : parkRequestVote(c) => TypeInv'
           /\ \A c \in rvCalls : onRequestVote(c) => TypeInv'
           /\ \A c \in parkedVotes : resumeRequestVote(c) => TypeInv'
           /\ \A r \in rvReplies : voteReplyStepDown(r) => TypeInv'
           /\ \A r \in rvReplies : voteReplyIgnored(r) => TypeInv'
           /\ \A r \in rvReplies : voteReplyCounted(r) => TypeInv'
  <1> USE DEF TypeInv, termVars, logVars, leaderVars, voteVars, rvVars, aeVars, gapVars
  <1>0. /\ TypeOK /\ AppliedCaughtUp
        /\ \A n \in Node : currentTerm[n] \in Term /\ log[n] \in Seq(Entry)
        /\ \A c \in rvCalls \cup parkedVotes :
               c \in RequestVote /\ c.from \in Node /\ c.to \in Node /\ c.term \in Term
        /\ \A r \in rvReplies :
               /\ r \in RequestVoteReply /\ r.from \in Node /\ r.to \in Node
               /\ r.term \in Term /\ r.respTerm \in Term
    BY DEF TypeOK, RequestVote, RequestVoteReply
  <1>1. ASSUME NEW n \in Node, startElectionAmong(n) PROVE TypeInv'
    <2>1. currentTerm[n] + 1 \in Term
      BY <1>0, <1>1, BoundAssumption DEF startElectionAmong, startElection, requestVotes, Term
    <2>2. VoteCalls(n, currentTerm[n] + 1, log[n]) \subseteq RequestVote
      BY <1>0, <2>1, VoteCallsType
    <2>3. rvCalls' \subseteq RequestVote
      BY <1>0, <1>1, <2>2 DEF startElectionAmong, startElection, requestVotes, Connect, TypeOK
    <2>4. /\ role' = [role EXCEPT ![n] = "CANDIDATE"] /\ voters' = [voters EXCEPT ![n] = {n}]
          /\ currentTerm' = [currentTerm EXCEPT ![n] = @ + 1]
          /\ votedFor' = [votedFor EXCEPT ![n] = n]
          /\ UNCHANGED <<logVars, leaderVars, leaders, rvReplies, aeVars, gapVars>>
      BY <1>1 DEF startElectionAmong, startElection, requestVotes
    <2> QED  BY <1>0, <2>1, <2>3, <2>4 DEF TypeOK, AppliedCaughtUp, Role
  <1>2. ASSUME NEW n \in Node, startElectionAlone(n) PROVE TypeInv'
    <2>1. currentTerm[n] + 1 \in Term
      BY <1>0, <1>2, BoundAssumption DEF startElectionAlone, startElection, leadAlone, Term
    <2>2. becomeLeaderInternal(n, currentTerm[n] + 1)
      BY <1>2 DEF startElectionAlone, startElection, leadAlone
    <2>3. applyStateMachine(n, log[n], commitIndex[n], currentTerm[n] + 1, matchIndex[n])
      BY <1>2 DEF startElectionAlone, startElection, leadAlone
    <2>4. commitIndex[n] \in Nat /\ commitIndex[n] <= commitIndex[n]
      BY <1>0 DEF TypeOK
    <2>5. /\ commitIndex' \in [Node -> Nat] /\ applied' \in [Node -> Seq(Entry)]
          /\ AppliedCaughtUp'
      BY <1>0, <2>3, <2>4, applyStateMachineType
    <2>6. /\ currentTerm' \in [Node -> Term] /\ votedFor' \in [Node -> Node \cup {Nil}]
          /\ UNCHANGED <<log, rvVars, aeReplies, gapVars>>
      BY <1>0, <1>2, <2>1 DEF startElectionAlone, startElection, leadAlone, TypeOK
    <2> QED  BY <1>0, <2>1, <2>2, <2>5, <2>6, becomeLeaderType DEF TypeOK
  <1>3. ASSUME NEW c \in rvCalls, rejectRequestVote(c) PROVE TypeInv'
    BY <1>0, <1>3, VoteReplyType DEF rejectRequestVote, TypeOK, AppliedCaughtUp
  <1>4. ASSUME NEW c \in rvCalls, parkRequestVote(c) PROVE TypeInv'
    BY <1>0, <1>4, becomeFollowerType DEF parkRequestVote, TypeOK, AppliedCaughtUp
  <1>5. ASSUME NEW c \in rvCalls, onRequestVote(c) PROVE TypeInv'
    <2> DEFINE newer == c.term > currentTerm[c.to]
    <2> DEFINE grant == GrantsVote(log[c.to], IF newer THEN Nil ELSE votedFor[c.to], c)
    <2>1. grant \in BOOLEAN
      BY DEF GrantsVote
    <2>2. VoteReply(c, c.term, grant) \in RequestVoteReply
      BY <1>0, <2>1, VoteReplyType
    <2>3. /\ currentTerm' = [currentTerm EXCEPT ![c.to] = c.term]
          /\ role' = [role EXCEPT ![c.to] = IF newer THEN "FOLLOWER" ELSE @]
          /\ votedFor' = [votedFor EXCEPT ![c.to] = IF grant THEN c.from
                            ELSE IF newer THEN Nil ELSE votedFor[c.to]]
          /\ voters' = [voters EXCEPT ![c.to] = IF newer THEN {} ELSE @]
          /\ rvCalls' = rvCalls \ {c}
          /\ rvReplies' = rvReplies \cup {VoteReply(c, c.term, grant)}
          /\ UNCHANGED <<logVars, leaderVars, leaders, aeVars, gapVars>>
      BY <1>5 DEF onRequestVote
    <2> HIDE DEF newer, grant
    <2> QED  BY <1>0, <2>2, <2>3 DEF TypeOK, AppliedCaughtUp, Role
  <1>6. ASSUME NEW c \in parkedVotes, resumeRequestVote(c) PROVE TypeInv'
    <2> DEFINE grant == GrantsVote(log[c.to], votedFor[c.to], c)
    <2>1. grant \in BOOLEAN
      BY DEF GrantsVote
    <2>2. VoteReply(c, currentTerm[c.to], grant) \in RequestVoteReply
      BY <1>0, <2>1, VoteReplyType
    <2>3. /\ votedFor' = [votedFor EXCEPT ![c.to] = IF grant THEN c.from ELSE @]
          /\ parkedVotes' = parkedVotes \ {c}
          /\ rvReplies' = rvReplies \cup {VoteReply(c, currentTerm[c.to], grant)}
          /\ UNCHANGED <<currentTerm, role, logVars, leaderVars, voteVars, rvCalls, aeVars,
                         parkedAppends>>
      BY <1>6 DEF resumeRequestVote
    <2> HIDE DEF grant
    <2> QED  BY <1>0, <2>2, <2>3 DEF TypeOK, AppliedCaughtUp
  <1>7. ASSUME NEW r \in rvReplies, voteReplyStepDown(r) PROVE TypeInv'
    BY <1>0, <1>7, becomeFollowerType DEF voteReplyStepDown, TypeOK, AppliedCaughtUp
  <1>8. ASSUME NEW r \in rvReplies, voteReplyIgnored(r) PROVE TypeInv'
    BY <1>0, <1>8 DEF voteReplyIgnored, TypeOK, AppliedCaughtUp
  <1>9. ASSUME NEW r \in rvReplies, voteReplyCounted(r) PROVE TypeInv'
    <2>1. /\ rvReplies' \subseteq rvReplies
          /\ UNCHANGED <<currentTerm, votedFor, logVars, rvCalls, aeReplies, gapVars>>
      BY <1>9 DEF voteReplyCounted
    <2>2. CASE becomeLeaderInternal(r.from, currentTerm[r.from])
      BY <1>0, <2>1, <2>2, becomeLeaderType DEF TypeOK, AppliedCaughtUp
    <2>3. CASE /\ voters' = [voters EXCEPT ![r.from] = @ \cup {r.to}]
               /\ UNCHANGED <<role, leaderVars, aeCalls, leaders>>
      <3>1. voters' \in [Node -> SUBSET Node]
        BY <1>0, <2>3 DEF TypeOK
      <3> QED  BY <1>0, <2>1, <2>3, <3>1 DEF TypeOK, AppliedCaughtUp
    <2> QED  BY <1>9, <2>2, <2>3 DEF voteReplyCounted
  <1> QED  BY <1>1, <1>2, <1>3, <1>4, <1>5, <1>6, <1>7, <1>8, <1>9


\* The actions of log replication.
LEMMA ReplicationTypeStep ==
    ASSUME TypeInv
    PROVE  /\ \A n \in Node, cmd \in Command : submitCommand(n, cmd) => TypeInv'
           /\ \A n \in Node : sendHeartbeatsInternal(n) => TypeInv'
           /\ \A c \in aeCalls : rejectAppendEntries(c) => TypeInv'
           /\ \A c \in aeCalls : parkAppendEntries(c) => TypeInv'
           /\ \A c \in aeCalls : onAppendEntries(c) => TypeInv'
           /\ \A a \in parkedAppends : resumeAppendEntries(a) => TypeInv'
           /\ \A r \in aeReplies : appendReplyStepDown(r) => TypeInv'
           /\ \A r \in aeReplies : appendReplyIgnored(r) => TypeInv'
           /\ \A r \in aeReplies : appendReplySuccess(r) => TypeInv'
           /\ \A r \in aeReplies : appendReplyFailure(r) => TypeInv'
  <1> USE DEF TypeInv, termVars, logVars, leaderVars, voteVars, rvVars, aeVars, gapVars
  <1>0. /\ TypeOK /\ AppliedCaughtUp
        /\ \A n \in Node : /\ currentTerm[n] \in Term /\ log[n] \in Seq(Entry)
                           /\ commitIndex[n] \in Nat /\ nextIndex[n] \in [Node -> Nat \ {0}]
                           /\ matchIndex[n] \in [Node -> Nat]
        /\ \A c \in aeCalls :
               c \in AppendEntries /\ c.from \in Node /\ c.to \in Node /\ c.term \in Term
        /\ \A a \in parkedAppends :
               /\ a.call \in AppendEntries /\ a.call.to \in Node
               /\ a.respTerm \in Term
        /\ \A r \in aeReplies :
               /\ r \in AppendEntriesReply /\ r.from \in Node /\ r.to \in Node
               /\ r.respTerm \in Term /\ r.nextIdx \in Nat \ {0}
               /\ r.entriesCount \in Nat /\ r.conflictIndex \in Nat
    BY DEF TypeOK, AppendEntries, AppendEntriesReply, ParkedAppend
  <1>1. ASSUME NEW n \in Node, NEW cmd \in Command, submitCommand(n, cmd) PROVE TypeInv'
    <2> DEFINE l == Append(log[n], [term |-> currentTerm[n], command |-> cmd])
    <2>1. l \in Seq(Entry)
      <3>1. [term |-> currentTerm[n], command |-> cmd] \in Entry
        BY <1>0 DEF Entry
      <3> QED  BY <1>0, <3>1
    <2>2. /\ log' = [log EXCEPT ![n] = l]
          /\ \E S \in Connect(AppendCalls(n, currentTerm[n], l, nextIndex[n])) :
                aeCalls' = aeCalls \cup S
          /\ \/ applyStateMachine(n, l, commitIndex[n], currentTerm[n], matchIndex[n])
             \/ UNCHANGED <<commitIndex, applied>>
          /\ UNCHANGED <<termVars, leaderVars, voteVars, rvVars, aeReplies, gapVars>>
      BY <1>1 DEF submitCommand
    <2> HIDE DEF l
    <2>3. AppendCalls(n, currentTerm[n], l, nextIndex[n]) \subseteq AppendEntries
      BY <1>0, <2>1, AppendCallsType
    <2>4. aeCalls' \subseteq AppendEntries
      BY <1>0, <2>2, <2>3 DEF Connect, TypeOK
    <2>5. /\ commitIndex' \in [Node -> Nat] /\ applied' \in [Node -> Seq(Entry)]
          /\ AppliedCaughtUp'
      <3>1. CASE applyStateMachine(n, l, commitIndex[n], currentTerm[n], matchIndex[n])
        <4>1. commitIndex[n] <= commitIndex[n]
          BY <1>0
        <4> QED  BY <1>0, <2>1, <3>1, <4>1, applyStateMachineType
      <3>2. CASE UNCHANGED <<commitIndex, applied>>
        BY <1>0, <3>2 DEF TypeOK, AppliedCaughtUp
      <3> QED  BY <2>2, <3>1, <3>2
    <2> QED  BY <1>0, <2>1, <2>2, <2>4, <2>5 DEF TypeOK
  <1>2. ASSUME NEW n \in Node, sendHeartbeatsInternal(n) PROVE TypeInv'
    <2>1. /\ \E S \in Connect(AppendCalls(n, currentTerm[n], log[n], nextIndex[n])) :
                aeCalls' = aeCalls \cup S
          /\ \/ applyStateMachine(n, log[n], commitIndex[n], currentTerm[n], matchIndex[n])
             \/ UNCHANGED <<commitIndex, applied>>
          /\ UNCHANGED <<termVars, log, leaderVars, voteVars, rvVars, aeReplies, gapVars>>
      BY <1>2 DEF sendHeartbeatsInternal
    <2>2. AppendCalls(n, currentTerm[n], log[n], nextIndex[n]) \subseteq AppendEntries
      BY <1>0, AppendCallsType
    <2>3. aeCalls' \subseteq AppendEntries
      BY <1>0, <2>1, <2>2 DEF Connect, TypeOK
    <2>4. /\ commitIndex' \in [Node -> Nat] /\ applied' \in [Node -> Seq(Entry)]
          /\ AppliedCaughtUp'
      <3>1. CASE applyStateMachine(n, log[n], commitIndex[n], currentTerm[n], matchIndex[n])
        <4>1. commitIndex[n] <= commitIndex[n]
          BY <1>0
        <4> QED  BY <1>0, <3>1, <4>1, applyStateMachineType
      <3>2. CASE UNCHANGED <<commitIndex, applied>>
        BY <1>0, <3>2 DEF TypeOK, AppliedCaughtUp
      <3> QED  BY <2>1, <3>1, <3>2
    <2> QED  BY <1>0, <2>1, <2>3, <2>4 DEF TypeOK
  <1>3. ASSUME NEW c \in aeCalls, rejectAppendEntries(c) PROVE TypeInv'
    <2>1. AppendReply(c, currentTerm[c.to], FALSE, 0) \in AppendEntriesReply
      BY <1>0, AppendReplyType
    <2> QED  BY <1>0, <1>3, <2>1 DEF rejectAppendEntries, TypeOK, AppliedCaughtUp
  <1>4. ASSUME NEW c \in aeCalls, parkAppendEntries(c) PROVE TypeInv'
    <2>1. [call |-> c, respTerm |-> currentTerm[c.to]] \in ParkedAppend
      BY <1>0 DEF ParkedAppend
    <2>2. becomeFollower(c.to, c.term)
      BY <1>4 DEF parkAppendEntries
    <2> QED  BY <1>0, <1>4, <2>1, <2>2, becomeFollowerType
             DEF parkAppendEntries, TypeOK, AppliedCaughtUp
  <1>5. ASSUME NEW c \in aeCalls, onAppendEntries(c) PROVE TypeInv'
    <2>1. /\ becomeFollower(c.to, c.term) \/ UNCHANGED <<termVars, voters>>
          /\ ReplicateEntries(c.to, c, c.term, currentTerm[c.to])
          /\ aeCalls' = aeCalls \ {c}
          /\ UNCHANGED <<leaderVars, leaders, rvVars, gapVars>>
      BY <1>5 DEF onAppendEntries
    <2>2. /\ log' \in [Node -> Seq(Entry)] /\ commitIndex' \in [Node -> Nat]
          /\ applied' \in [Node -> Seq(Entry)] /\ aeReplies' \subseteq AppendEntriesReply
          /\ AppliedCaughtUp'
      BY <1>0, <2>1, ReplicateEntriesType
    <2>3. /\ currentTerm' \in [Node -> Term] /\ votedFor' \in [Node -> Node \cup {Nil}]
          /\ role' \in [Node -> Role] /\ voters' \in [Node -> SUBSET Node]
      BY <1>0, <2>1, becomeFollowerType DEF TypeOK
    <2> QED  BY <1>0, <2>1, <2>2, <2>3 DEF TypeOK
  <1>6. ASSUME NEW a \in parkedAppends, resumeAppendEntries(a) PROVE TypeInv'
    <2>1. /\ ReplicateEntries(a.call.to, a.call, currentTerm[a.call.to], a.respTerm)
          /\ parkedAppends' = parkedAppends \ {a}
          /\ UNCHANGED <<termVars, leaderVars, voteVars, rvVars, aeCalls, parkedVotes>>
      BY <1>6 DEF resumeAppendEntries
    <2>2. /\ log' \in [Node -> Seq(Entry)] /\ commitIndex' \in [Node -> Nat]
          /\ applied' \in [Node -> Seq(Entry)] /\ aeReplies' \subseteq AppendEntriesReply
          /\ AppliedCaughtUp'
      BY <1>0, <2>1, ReplicateEntriesType
    <2> QED  BY <1>0, <2>1, <2>2 DEF TypeOK
  <1>7. ASSUME NEW r \in aeReplies, appendReplyStepDown(r) PROVE TypeInv'
    BY <1>0, <1>7, becomeFollowerType DEF appendReplyStepDown, TypeOK, AppliedCaughtUp
  <1>8. ASSUME NEW r \in aeReplies, appendReplyIgnored(r) PROVE TypeInv'
    BY <1>0, <1>8 DEF appendReplyIgnored, TypeOK, AppliedCaughtUp
  <1>9. ASSUME NEW r \in aeReplies, appendReplySuccess(r) PROVE TypeInv'
    <2> DEFINE n == r.from
    <2> DEFINE match == [matchIndex[n] EXCEPT ![r.to] = r.nextIdx + r.entriesCount - 1]
    <2>1. /\ matchIndex' = [matchIndex EXCEPT ![n] = match]
          /\ nextIndex' = [nextIndex EXCEPT ![n][r.to] = r.nextIdx + r.entriesCount]
          /\ applyStateMachine(n, log[n], commitIndex[n], currentTerm[n], match)
          /\ aeReplies' = aeReplies \ {r}
          /\ UNCHANGED <<termVars, log, voteVars, rvVars, aeCalls, gapVars>>
      BY <1>9 DEF appendReplySuccess
    <2>2. n \in Node /\ match \in [Node -> Nat] /\ commitIndex[n] <= commitIndex[n]
      BY <1>0
    <2> HIDE DEF n, match
    <2>3. /\ commitIndex' \in [Node -> Nat] /\ applied' \in [Node -> Seq(Entry)]
          /\ AppliedCaughtUp'
      BY <1>0, <2>1, <2>2, applyStateMachineType
    <2>4. nextIndex' \in [Node -> [Node -> Nat \ {0}]]
      <3>1. r.nextIdx + r.entriesCount \in Nat \ {0}
        BY <1>0
      <3> QED  BY <1>0, <2>1, <2>2, <3>1 DEF TypeOK
    <2> QED  BY <1>0, <2>1, <2>2, <2>3, <2>4 DEF TypeOK
  <1>10. ASSUME NEW r \in aeReplies, appendReplyFailure(r) PROVE TypeInv'
    <2>1. Backtrack(nextIndex[r.from][r.to], r.conflictIndex) \in Nat \ {0}
      BY <1>0 DEF Backtrack
    <2>2. nextIndex' \in [Node -> [Node -> Nat \ {0}]]
      BY <1>0, <1>10, <2>1 DEF appendReplyFailure, TypeOK
    <2> QED  BY <1>0, <1>10, <2>2 DEF appendReplyFailure, TypeOK, AppliedCaughtUp
  <1> QED  BY <1>1, <1>2, <1>3, <1>4, <1>5, <1>6, <1>7, <1>8, <1>9, <1>10

\* Every step of the cluster.
LEMMA TypeInvStep == TypeInv /\ [Next]_vars => TypeInv'
  <1> SUFFICES ASSUME TypeInv, [Next]_vars PROVE TypeInv'
    OBVIOUS
  <1> USE DEF termVars, logVars, leaderVars, voteVars, rvVars, aeVars, gapVars
  <1>1. CASE \E n \in Node : NodeStep(n)
    BY <1>1, ElectionTypeStep, ReplicationTypeStep
       DEF NodeStep, startElectionAmong, startElectionAlone
  <1>2. ASSUME NEW c \in rvCalls, LoseVoteCall(c) PROVE TypeInv'
    BY <1>2 DEF LoseVoteCall, TypeInv, TypeOK, AppliedCaughtUp
  <1>3. ASSUME NEW r \in rvReplies, LoseVoteReply(r) PROVE TypeInv'
    BY <1>3 DEF LoseVoteReply, TypeInv, TypeOK, AppliedCaughtUp
  <1>4. CASE VoteStep
    BY <1>2, <1>3, <1>4, ElectionTypeStep DEF VoteStep
  <1>5. ASSUME NEW c \in aeCalls, LoseAppendCall(c) PROVE TypeInv'
    BY <1>5 DEF LoseAppendCall, TypeInv, TypeOK, AppliedCaughtUp
  <1>6. ASSUME NEW r \in aeReplies, LoseAppendReply(r) PROVE TypeInv'
    BY <1>6 DEF LoseAppendReply, TypeInv, TypeOK, AppliedCaughtUp
  <1>7. CASE AppendStep
    BY <1>5, <1>6, <1>7, ReplicationTypeStep DEF AppendStep
  <1>8. CASE UNCHANGED vars
    BY <1>8 DEF vars, TypeInv, TypeOK, AppliedCaughtUp
  <1> QED  BY <1>1, <1>4, <1>7, <1>8 DEF Next

\* The members of a RaftNode start with the right types.
LEMMA TypeInvInit == Init => TypeInv
  <1> SUFFICES ASSUME Init PROVE TypeInv
    OBVIOUS
  <1>1. 0 \in Term
    BY EntryTerm
  <1>2. TypeOK
    BY <1>1 DEF Init, TypeOK, Role
  <1>3. AppliedCaughtUp
    BY DEF Init, AppliedCaughtUp
  <1> QED  BY <1>2, <1>3 DEF TypeInv

\* Every variable keeps its type in every reachable state: in particular
\* nextIndex never falls below the first entry, no message carries an index or
\* a term out of range, and applyStateMachine() never reads past the log.
THEOREM TypeCorrect == Spec => []TypeOK
  <1>1. TypeInv => TypeOK
    BY DEF TypeInv
  <1> QED  BY <1>1, TypeInvInit, TypeInvStep, PTL DEF Spec

\* lastApplied is level with commitIndex whenever the mutex is free.
THEOREM AppliedCaughtUpCorrect == Spec => [](TypeOK /\ AppliedCaughtUp)
  <1>1. TypeInv => TypeOK /\ AppliedCaughtUp
    BY DEF TypeInv
  <1> QED  BY <1>1, TypeInvInit, TypeInvStep, PTL DEF Spec

-----------------------------------------------------------------------------
(***************************************************************************)
(* Steps in which nobody becomes leader.                                   *)
(***************************************************************************)

\* n newly votes for c in term t and was not bound to anyone else.
NewVote(n, c, t) ==
    /\ currentTerm'[n] = t /\ votedFor'[n] = c
    /\ \A d \in Node : LockedTo(n, d, t) => d = c

\* What such a step may do to votes: new ones are free ones, and a lock is
\* only released in a term whose leader it does not support.
VotesKept ==
    /\ leaders' = leaders
    /\ \A n, c \in Node, t \in Term :
           Granted(n, c, t)' => Granted(n, c, t) \/ NewVote(n, c, t)
    /\ \A n, c \in Node, t \in Term :
           LockedTo(n, c, t) => \/ LockedTo(n, c, t)'
                                \/ leaders[t] # {} /\ c \notin leaders[t]

\* Such a step keeps the invariants on votes.
LEMMA VotesKeptPreserves ==
    ASSUME TypeOK, TypeOK', ElectionInv, VotesKept
    PROVE  VotesInv' /\ BackedInv' /\ ElectionSafety'
  <1>1. ElectionSafety'
    BY DEF ElectionInv, ElectionSafety, VotesKept
  <1>2. VotesInv'
    <2> SUFFICES ASSUME NEW t \in Term, leaders[t] = {}, NEW n \in Node, NEW c \in Node,
                        Granted(n, c, t)'
                 PROVE  /\ LockedTo(n, c, t)'
                        /\ \A d \in Node : Granted(n, d, t)' => c = d
      BY DEF VotesInv, VotesKept
    <2>1. \A d \in Node : Granted(n, d, t) =>
             LockedTo(n, d, t) /\ \A e \in Node : Granted(n, e, t) => d = e
      BY DEF ElectionInv, VotesInv
    <2>2. \A d \in Node : LockedTo(n, d, t) => LockedTo(n, d, t)'
      BY DEF VotesKept
    <2>3. \A d \in Node : Granted(n, d, t)' => Granted(n, d, t) \/ NewVote(n, d, t)
      BY DEF VotesKept
    <2>4. \A d \in Node : NewVote(n, d, t) => LockedTo(n, d, t)'
      BY DEF NewVote, LockedTo
    <2>5. \A d, e \in Node : NewVote(n, d, t) /\ NewVote(n, e, t) => d = e
      BY DEF NewVote
    <2>6. \A d, e \in Node : NewVote(n, d, t) /\ Granted(n, e, t) => d = e
      BY <2>1 DEF NewVote
    <2> QED  BY <2>1, <2>2, <2>3, <2>4, <2>5, <2>6
  <1>3. BackedInv'
    <2> SUFFICES ASSUME NEW t \in Term, NEW l \in leaders[t]
                 PROVE  \E Q \in SUBSET Node :
                           /\ Cardinality(Q) >= Majority
                           /\ \A n \in Q : /\ LockedTo(n, l, t)'
                                           /\ \A c \in Node : Granted(n, c, t)' => c = l
      BY DEF BackedInv, VotesKept
    <2>1. PICK Q \in SUBSET Node :
             /\ Cardinality(Q) >= Majority
             /\ \A n \in Q : /\ LockedTo(n, l, t)
                             /\ \A c \in Node : Granted(n, c, t) => c = l
      BY DEF ElectionInv, BackedInv
    <2>2. l \in Node
      BY DEF TypeOK
    <2>3. ASSUME NEW n \in Q PROVE LockedTo(n, l, t)'
      BY <2>1, <2>2 DEF VotesKept
    <2>4. ASSUME NEW n \in Q, NEW c \in Node, Granted(n, c, t)' PROVE c = l
      <3>1. Granted(n, c, t) \/ NewVote(n, c, t)
        BY <2>4 DEF VotesKept
      <3> QED  BY <2>1, <2>2, <3>1 DEF NewVote
    <2> QED  BY <2>1, <2>3, <2>4
  <1> QED  BY <1>1, <1>2, <1>3

\* A step that leaves terms, votes, roles and elections alone.
LEMMA VotesUntouched ==
    ASSUME TypeOK, TypeOK', ElectionInv, UNCHANGED <<termVars, voteVars>>,
           rvCalls' \subseteq rvCalls, parkedVotes' \subseteq parkedVotes,
           \A r \in rvReplies' : r \in rvReplies \/ (~r.voteGranted /\ r.from # r.to),
           \A c \in aeCalls' : c \in aeCalls \/ (c.from # c.to /\ c.from \in leaders[c.term])
    PROVE  ElectionInv'
  <1> USE DEF termVars, voteVars
  <1>1. VotesKept
    BY DEF VotesKept, Granted, LockedTo
  <1>2. CallsInv'
    BY DEF ElectionInv, CallsInv
  <1>3. RolesInv'
    BY DEF ElectionInv, RolesInv
  <1> QED  BY <1>1, <1>2, <1>3, VotesKeptPreserves DEF ElectionInv

\* becomeFollower() in a later term, or in the same term on a call of its leader.
LEMMA StepDown ==
    ASSUME TypeOK, ElectionInv, NEW n \in Node, NEW term \in Term, becomeFollower(n, term),
           leaders' = leaders, rvReplies' \subseteq rvReplies,
           \/ term > currentTerm[n]
           \/ /\ term = currentTerm[n] /\ role[n] # "FOLLOWER"
              /\ \E m \in Node : m # n /\ m \in leaders[term]
    PROVE  VotesKept /\ RolesInv' /\ \A m \in Node : currentTerm[m] <= currentTerm'[m]
  <1>0. /\ currentTerm \in [Node -> Int] /\ term \in Int /\ votedFor \in [Node -> Node \cup {Nil}]
        /\ role \in [Node -> Role] /\ \A t \in Term : t \in Int
    BY BoundAssumption DEF TypeOK, Term
  <1>1. /\ role' = [role EXCEPT ![n] = "FOLLOWER"]
        /\ currentTerm' = [currentTerm EXCEPT ![n] = term]
        /\ votedFor' = [votedFor EXCEPT ![n] = Nil]
        /\ voters' = [voters EXCEPT ![n] = {}]
    BY DEF becomeFollower
  <1>2. \A m \in Node : currentTerm[m] <= currentTerm'[m]
    BY <1>0, <1>1
  <1>3. RolesInv'
    <2> SUFFICES ASSUME NEW m \in Node
                 PROVE  /\ role'[m] = "CANDIDATE" => votedFor'[m] = m
                        /\ role'[m] = "LEADER" => m \in leaders[currentTerm'[m]]
                        /\ \A t \in Term : m \in leaders[t] =>
                               \/ t < currentTerm'[m]
                               \/ t = currentTerm'[m] /\ role'[m] # "CANDIDATE"
      BY DEF RolesInv
    <2>1. CASE m = n
      <3>1. role'[n] = "FOLLOWER" /\ currentTerm'[n] \in Int
        BY <1>0, <1>1
      <3>2. \A t \in Term : n \in leaders[t] => t <= currentTerm[n]
        BY <1>0 DEF ElectionInv, RolesInv
      <3> QED  BY <1>0, <1>2, <2>1, <3>1, <3>2
    <2>2. CASE m # n
      BY <1>0, <1>1, <2>2 DEF ElectionInv, RolesInv
    <2> QED  BY <2>1, <2>2
  <1>4. \A m, c \in Node, t \in Term : Granted(m, c, t)' => Granted(m, c, t)
    BY <1>0, <1>1 DEF Granted, TypeOK
  <1>5. ASSUME NEW m \in Node, NEW c \in Node, NEW t \in Term, LockedTo(m, c, t)
        PROVE  LockedTo(m, c, t)' \/ (leaders[t] # {} /\ c \notin leaders[t])
    <2>1. CASE m # n \/ currentTerm[m] > t \/ term > currentTerm[n]
      <3>1. CASE m # n
        <4>1. currentTerm'[m] = currentTerm[m] /\ votedFor'[m] = votedFor[m]
          BY <1>0, <1>1, <3>1
        <4> QED  BY <1>5, <4>1 DEF LockedTo
      <3>2. CASE m = n
        <4>1. currentTerm'[m] = term
          BY <1>0, <1>1, <3>2
        <4>2. currentTerm[m] >= t
          <5>1. t \in Int /\ currentTerm[m] \in Int
            BY <1>0
          <5> QED  BY <1>5, <5>1 DEF LockedTo
        <4>3. term > t
          BY <1>0, <1>2, <2>1, <3>2, <4>1, <4>2
        <4> QED  BY <4>1, <4>3 DEF LockedTo
      <3> QED  BY <3>1, <3>2
    <2>2. CASE m = n /\ currentTerm[m] = t /\ term = currentTerm[n]
      <3>1. PICK k \in Node : k # n /\ k \in leaders[t]
        BY <1>0, <2>2
      <3>2. votedFor[n] = c
        BY <1>0, <1>5, <2>2 DEF LockedTo
      <3>3. role[n] = "CANDIDATE" => c = n /\ n \notin leaders[t]
        BY <1>0, <2>2, <3>2 DEF ElectionInv, RolesInv
      <3>4. role[n] # "LEADER"
        <4>1. role[n] = "LEADER" => n \in leaders[t]
          BY <2>2 DEF ElectionInv, RolesInv
        <4> QED  BY <3>1, <4>1 DEF ElectionInv, ElectionSafety
      <3>5. role[n] = "CANDIDATE"
        BY <1>0, <2>2, <3>4 DEF Role
      <3> QED  BY <3>1, <3>3, <3>5
    <2> QED  BY <1>0, <1>5, <2>1, <2>2 DEF LockedTo
  <1> QED  BY <1>2, <1>3, <1>4, <1>5 DEF VotesKept

\* The vote of onRequestVote(), with or without the gap: n, moving to term if
\* that is newer, answers a call of cand, and grants it only if it has no vote
\* or the same one.
LEMMA CastVote ==
    ASSUME TypeOK, ElectionInv, NEW n \in Node, NEW cand \in Node, cand # n,
           NEW term \in Term, term >= currentTerm[n], NEW grant \in BOOLEAN,
           NEW vote, vote = IF term > currentTerm[n] THEN Nil ELSE votedFor[n],
           grant => vote \in {Nil, cand},
           NEW reply, reply.from = cand, reply.to = n, reply.respTerm = term,
           reply.voteGranted = grant,
           currentTerm' = [currentTerm EXCEPT ![n] = term],
           role' = [role EXCEPT ![n] = IF term > currentTerm[n] THEN "FOLLOWER" ELSE @],
           votedFor' = [votedFor EXCEPT ![n] = IF grant THEN cand ELSE vote],
           voters' = [voters EXCEPT ![n] = IF term > currentTerm[n] THEN {} ELSE @],
           rvReplies' = rvReplies \cup {reply}, leaders' = leaders
    PROVE  VotesKept /\ RolesInv' /\ \A m \in Node : currentTerm[m] <= currentTerm'[m]
  <1>0. /\ currentTerm \in [Node -> Int] /\ term \in Int /\ votedFor \in [Node -> Node \cup {Nil}]
        /\ role \in [Node -> Role] /\ voters \in [Node -> SUBSET Node]
        /\ \A t \in Term : t \in Int
    <2>1. \A t \in Term : t \in Int
      BY BoundAssumption DEF Term
    <2>2. term \in Int
      BY <2>1
    <2>3. currentTerm \in [Node -> Int]
      BY <2>1 DEF TypeOK
    <2> QED  BY <2>1, <2>2, <2>3 DEF TypeOK
  <1>1. \A m \in Node : currentTerm[m] <= currentTerm'[m]
    BY <1>0
  <1>2. role'[n] = "CANDIDATE" => term = currentTerm[n] /\ ~grant /\ votedFor'[n] = n
    <2> SUFFICES ASSUME role'[n] = "CANDIDATE"
                 PROVE  term = currentTerm[n] /\ ~grant /\ votedFor'[n] = n
      OBVIOUS
    <2>1. term = currentTerm[n] /\ role[n] = "CANDIDATE"
      BY <1>0
    <2>2. vote = n
      BY <1>0, <2>1 DEF ElectionInv, RolesInv
    <2>3. ~grant
      BY <2>2, NodeAssumption
    <2> QED  BY <1>0, <2>1, <2>2, <2>3
  <1>3. RolesInv'
    <2> SUFFICES ASSUME NEW m \in Node
                 PROVE  /\ role'[m] = "CANDIDATE" => votedFor'[m] = m
                        /\ role'[m] = "LEADER" => m \in leaders[currentTerm'[m]]
                        /\ \A t \in Term : m \in leaders[t] =>
                             \/ t < currentTerm'[m]
                             \/ t = currentTerm'[m] /\ role'[m] # "CANDIDATE"
      BY DEF RolesInv
    <2>1. CASE m # n
      BY <1>0, <2>1 DEF ElectionInv, RolesInv
    <2>2. CASE m = n
      BY <1>0, <1>1, <1>2, <2>2 DEF ElectionInv, RolesInv
    <2> QED  BY <2>1, <2>2
  <1>4. ASSUME NEW d \in Node, LockedTo(n, d, term), grant PROVE d = cand
    <2>1. currentTerm[n] = term /\ votedFor[n] = d
      BY <1>0, <1>4 DEF LockedTo
    <2> QED  BY <1>0, <1>4, <2>1, NodeAssumption
  <1>5. ASSUME NEW m \in Node, NEW c \in Node, NEW t \in Term, Granted(m, c, t)'
        PROVE  Granted(m, c, t) \/ NewVote(m, c, t)
    <2>1. CASE role'[c] = "CANDIDATE" /\ currentTerm'[c] = t /\ m \in voters'[c]
      <3>1. role[c] = "CANDIDATE" /\ currentTerm[c] = t /\ m \in voters[c]
        BY <1>0, <1>2, <2>1
      <3> QED  BY <3>1 DEF Granted
    <2>2. ASSUME NEW r \in rvReplies', r.from = c, r.to = m, r.voteGranted, r.term = t, r.respTerm = t
          PROVE  Granted(m, c, t) \/ NewVote(m, c, t)
      <3>1. CASE r \in rvReplies
        BY <2>2, <3>1 DEF Granted
      <3>2. CASE r = reply
        <4>1. m = n /\ c = cand /\ t = term /\ grant
          BY <2>2, <3>2
        <4>2. currentTerm'[n] = term /\ votedFor'[n] = cand
          BY <1>0, <4>1
        <4> QED  BY <1>4, <4>1, <4>2 DEF NewVote
      <3> QED  BY <3>1, <3>2
    <2> QED  BY <1>5, <2>1, <2>2 DEF Granted
  <1>6. ASSUME NEW m \in Node, NEW c \in Node, NEW t \in Term, LockedTo(m, c, t)
        PROVE  LockedTo(m, c, t)'
    <2>1. t \in Int /\ currentTerm[m] \in Int /\ currentTerm'[m] \in Int
      BY <1>0
    <2>2. CASE currentTerm[m] > t
      BY <1>1, <2>1, <2>2 DEF LockedTo
    <2>3. CASE currentTerm[m] = t /\ votedFor[m] = c
      <3>1. CASE m # n
        BY <1>0, <2>3, <3>1 DEF LockedTo
      <3>2. CASE m = n /\ term > currentTerm[n]
        BY <1>0, <2>3, <3>2 DEF LockedTo
      <3>3. CASE m = n /\ term = currentTerm[n]
        <4>1. grant => c = cand
          BY <1>4, <1>6, <2>3, <3>3
        <4>2. votedFor'[m] = c /\ currentTerm'[m] = t
          BY <1>0, <2>3, <3>3, <4>1
        <4> QED  BY <4>2 DEF LockedTo
      <3> QED  BY <1>0, <3>1, <3>2, <3>3
    <2> QED  BY <1>6, <2>2, <2>3 DEF LockedTo
  <1> QED  BY <1>1, <1>3, <1>5, <1>6 DEF VotesKept


-----------------------------------------------------------------------------
(***************************************************************************)
(* Winning an election.                                                    *)
(***************************************************************************)

\* Two sets of at least needed nodes have a node in common.
LEMMA MajoritiesMeet ==
    ASSUME NEW S \in SUBSET Node, NEW Q \in SUBSET Node,
           Cardinality(S) >= Majority, Cardinality(Q) >= Majority
    PROVE  \E m \in Node : m \in S /\ m \in Q
  <1>1. IsFiniteSet(Node) /\ IsFiniteSet(S) /\ IsFiniteSet(Q)
    BY NodeAssumption, FS_Subset
  <1>2. Cardinality(Node) \in Nat /\ Cardinality(S) \in Nat /\ Cardinality(Q) \in Nat
    BY <1>1, FS_CardinalityType
  <1>3. Cardinality(S) + Cardinality(Q) > Cardinality(Node)
    BY <1>2 DEF Majority
  <1>4. S \cap Q # {}
    BY <1>1, <1>3, FS_MajoritiesIntersect
  <1> QED  BY <1>4

\* A candidate with a majority of votes is the first leader of its term, and
\* that majority backs it.
LEMMA Win ==
    ASSUME TypeOK, ElectionInv, NEW n \in Node, NEW S \in SUBSET Node,
           Cardinality(S) >= Majority, role[n] = "CANDIDATE",
           \A m \in S : Granted(m, n, currentTerm[n]),
           role' = [role EXCEPT ![n] = "LEADER"], voters' = [voters EXCEPT ![n] = {}],
           leaders' = [leaders EXCEPT ![currentTerm[n]] = @ \cup {n}],
           UNCHANGED <<currentTerm, votedFor>>, rvReplies' \subseteq rvReplies
    PROVE  RolesInv' /\ VotesInv' /\ BackedInv' /\ ElectionSafety'
  <1> DEFINE t == currentTerm[n]
  <1>0. /\ t \in Term /\ leaders \in [Term -> SUBSET Node] /\ role \in [Node -> Role]
        /\ voters \in [Node -> SUBSET Node]
    BY DEF TypeOK
  <1>1. \A m, c \in Node, u \in Term : Granted(m, c, u)' => Granted(m, c, u)
    BY <1>0 DEF Granted
  <1>2. \A m, c \in Node, u \in Term : LockedTo(m, c, u)' <=> LockedTo(m, c, u)
    BY DEF LockedTo
  <1>3. leaders[t] = {}
    <2> SUFFICES ASSUME NEW l \in leaders[t] PROVE FALSE
      OBVIOUS
    <2>1. PICK Q \in SUBSET Node :
             /\ Cardinality(Q) >= Majority
             /\ \A m \in Q : \A c \in Node : Granted(m, c, t) => c = l
      BY <1>0 DEF ElectionInv, BackedInv
    <2>2. PICK m \in Node : m \in S /\ m \in Q
      BY <2>1, MajoritiesMeet
    <2>3. n = l
      BY <2>1, <2>2
    <2>4. t \in Int
      BY <1>0, BoundAssumption DEF Term
    <2>5. t < t
      BY <1>0, <2>3 DEF ElectionInv, RolesInv
    <2> QED  BY <2>4, <2>5
  <1>4. leaders'[t] = {n} /\ \A u \in Term : u # t => leaders'[u] = leaders[u]
    BY <1>0, <1>3
  <1>5. ElectionSafety'
    BY <1>4 DEF ElectionInv, ElectionSafety
  <1>6. VotesInv'
    <2> SUFFICES ASSUME NEW u \in Term, leaders'[u] = {}
                 PROVE  \A m, c \in Node : Granted(m, c, u)' =>
                           /\ LockedTo(m, c, u)'
                           /\ \A d \in Node : Granted(m, d, u)' => c = d
      BY DEF VotesInv
    <2>1. leaders[u] = {}
      BY <1>4
    <2>2. \A m, c \in Node : Granted(m, c, u) =>
             /\ LockedTo(m, c, u)
             /\ \A d \in Node : Granted(m, d, u) => c = d
      BY <2>1 DEF ElectionInv, VotesInv
    <2> QED  BY <1>1, <1>2, <2>2
  <1>7. BackedInv'
    <2> SUFFICES ASSUME NEW u \in Term, NEW l \in leaders'[u]
                 PROVE  \E Q \in SUBSET Node :
                           /\ Cardinality(Q) >= Majority
                           /\ \A m \in Q : /\ LockedTo(m, l, u)'
                                           /\ \A c \in Node : Granted(m, c, u)' => c = l
      BY DEF BackedInv
    <2>1. l \in Node
      BY <1>0, <1>4
    <2>2. CASE u = t
      <3>1. l = n
        BY <1>4, <2>2
      <3>2. \A m \in S : /\ LockedTo(m, n, t)
                         /\ \A c \in Node : Granted(m, c, t) => c = n
        BY <1>0, <1>3 DEF ElectionInv, VotesInv
      <3>3. \A m \in S : /\ LockedTo(m, n, t)'
                         /\ \A c \in Node : Granted(m, c, t)' => c = n
        BY <1>0, <1>1, <1>2, <3>2
      <3> QED  BY <2>2, <3>1, <3>3
    <2>3. CASE u # t
      <3>1. PICK Q \in SUBSET Node :
               /\ Cardinality(Q) >= Majority
               /\ \A m \in Q : /\ LockedTo(m, l, u)
                               /\ \A c \in Node : Granted(m, c, u) => c = l
        BY <1>4, <2>3 DEF ElectionInv, BackedInv
      <3>2. \A m \in Q : /\ LockedTo(m, l, u)'
                         /\ \A c \in Node : Granted(m, c, u)' => c = l
        BY <1>1, <1>2, <2>1, <3>1
      <3> QED  BY <3>1, <3>2
    <2> QED  BY <2>2, <2>3
  <1>8. RolesInv'
    <2> SUFFICES ASSUME NEW m \in Node
                 PROVE  /\ role'[m] = "CANDIDATE" => votedFor[m] = m
                        /\ role'[m] = "LEADER" => m \in leaders'[currentTerm[m]]
                        /\ \A u \in Term : m \in leaders'[u] =>
                             \/ u < currentTerm[m]
                             \/ u = currentTerm[m] /\ role'[m] # "CANDIDATE"
      BY DEF RolesInv
    <2>1. CASE m = n
      BY <1>0, <1>4, <2>1 DEF ElectionInv, RolesInv
    <2>2. CASE m # n
      <3>1. /\ role'[m] = role[m] /\ currentTerm[m] \in Term
            /\ \A u \in Term : m \in leaders'[u] <=> m \in leaders[u]
        BY <1>0, <1>3, <1>4, <2>2 DEF TypeOK
      <3> QED  BY <3>1 DEF ElectionInv, RolesInv
    <2> QED  BY <2>1, <2>2
  <1> QED  BY <1>5, <1>6, <1>7, <1>8


\* A cluster of one: its node leads every term it opens.
LEMMA WinAlone ==
    ASSUME TypeOK, ElectionInv, NEW n \in Node, startElectionAlone(n)
    PROVE  ElectionInv'
  <1> DEFINE t == currentTerm[n] + 1
  <1>1. Node = {n} /\ Cardinality(Node) = 1
    <2>1. IsFiniteSet(Node) /\ IsFiniteSet({n}) /\ Cardinality({n}) = 1
      BY NodeAssumption, FS_Singleton
    <2>2. Cardinality(Node) \in Nat /\ Cardinality({n}) <= Cardinality(Node)
      BY <2>1, FS_CardinalityType, FS_Subset
    <2>3. Cardinality(Node) = 1
      BY <2>1, <2>2 DEF startElectionAlone, startElection, leadAlone, Majority
    <2> QED  BY <2>1, <2>3, FS_Subset
  <1>2. /\ currentTerm' = [currentTerm EXCEPT ![n] = t]
        /\ votedFor' = [votedFor EXCEPT ![n] = n]
        /\ role' = [role EXCEPT ![n] = "LEADER"]
        /\ leaders' = [leaders EXCEPT ![t] = @ \cup {n}]
        /\ UNCHANGED <<rvVars, gapVars>>
        /\ \E S \in Connect(AppendCalls(n, t, log[n], [p \in Node |-> Len(log[n]) + 1])) :
              aeCalls' = aeCalls \cup S
    BY DEF startElectionAlone, startElection, leadAlone, becomeLeaderInternal
  <1>3. aeCalls' = aeCalls
    BY <1>1, <1>2 DEF Connect, AppendCalls, Peers
  <1>4. /\ currentTerm[n] \in Nat /\ t \in Term /\ leaders \in [Term -> SUBSET Node]
        /\ currentTerm \in [Node -> Term] /\ votedFor \in [Node -> Node \cup {Nil}]
        /\ role \in [Node -> Role] /\ \A u \in Term : u \in Nat
    BY BoundAssumption DEF TypeOK, Term, startElectionAlone, startElection, leadAlone
  <1>5. currentTerm'[n] = t /\ votedFor'[n] = n /\ role'[n] = "LEADER" /\ n \in leaders'[t]
    BY <1>2, <1>4
  <1>6. \A u \in Term : leaders[u] \subseteq leaders'[u] /\ (u # t => leaders'[u] = leaders[u])
    BY <1>2, <1>4
  <1>7. CallsInv'
    <2>1. /\ \A c \in rvCalls' : c.from # c.to
          /\ \A r \in rvReplies' : r.from # r.to /\ (r.voteGranted => r.term <= r.respTerm)
      BY <1>2 DEF ElectionInv, CallsInv, rvVars
    <2>2. parkedVotes' = {}
      <3>1. \A c \in parkedVotes : c.from \in Node /\ c.to \in Node /\ c.from # c.to
        BY DEF TypeOK, RequestVote, ElectionInv, CallsInv
      <3> QED  BY <1>1, <1>2, <3>1 DEF gapVars
    <2>3. aeCalls' = {}
      <3>1. \A c \in aeCalls : c.from \in Node /\ c.to \in Node /\ c.from # c.to
        BY DEF TypeOK, AppendEntries, ElectionInv, CallsInv
      <3> QED  BY <1>1, <1>3, <3>1
    <2> QED  BY <2>1, <2>2, <2>3 DEF CallsInv
  <1>8. \A u \in Term : n \in leaders'[u] => u < t \/ u = t
    <2> SUFFICES ASSUME NEW u \in Term, n \in leaders'[u], u # t PROVE u < t
      OBVIOUS
    <2>1. u <= currentTerm[n]
      BY <1>4, <1>6 DEF ElectionInv, RolesInv
    <2> QED  BY <1>4, <2>1
  <1>9. RolesInv'
    BY <1>1, <1>5, <1>8 DEF RolesInv
  <1>10. \A m, c \in Node, u \in Term : ~Granted(m, c, u)'
    <2>1. rvReplies' = {}
      <3>1. \A r \in rvReplies : r.from \in Node /\ r.to \in Node /\ r.from # r.to
        BY DEF TypeOK, RequestVoteReply, ElectionInv, CallsInv
      <3> QED  BY <1>1, <1>2, <3>1 DEF rvVars
    <2> QED  BY <1>1, <1>5, <2>1 DEF Granted
  <1>11. VotesInv'
    BY <1>10 DEF VotesInv
  <1>12. BackedInv'
    <2> SUFFICES ASSUME NEW u \in Term, NEW l \in leaders'[u]
                 PROVE  \E Q \in SUBSET Node :
                           /\ Cardinality(Q) >= Majority
                           /\ \A m \in Q : /\ LockedTo(m, l, u)'
                                           /\ \A c \in Node : Granted(m, c, u)' => c = l
      BY DEF BackedInv
    <2>1. l = n
      BY <1>1, <1>2, <1>4
    <2>2. LockedTo(n, n, u)'
      BY <1>4, <1>5, <1>8, <2>1 DEF LockedTo
    <2>3. Cardinality(Node) >= Majority
      BY <1>1 DEF Majority
    <2> QED  BY <1>1, <1>10, <2>1, <2>2, <2>3
  <1>13. ElectionSafety'
    BY <1>1, <1>2, <1>4 DEF ElectionSafety
  <1> QED  BY <1>7, <1>9, <1>11, <1>12, <1>13 DEF ElectionInv

-----------------------------------------------------------------------------
(***************************************************************************)
(* Every action keeps ElectionInv.                                         *)
(***************************************************************************)

\* The AppendEntries calls a leader makes name it as the leader of its term.
LEMMA LeaderCalls ==
    ASSUME NEW n \in Node, NEW term, NEW l, NEW next,
           NEW c \in AppendCalls(n, term, l, next)
    PROVE  c.from = n /\ c.from # c.to /\ c.term = term
  BY DEF AppendCalls, AppendCall, Peers

\* Calls and answers stay sound when terms and the sets of leaders only grow
\* and what is new is sound.
LEMMA CallsKept ==
    ASSUME TypeOK, TypeOK', ElectionInv,
           \A m \in Node : currentTerm[m] <= currentTerm'[m],
           \A t \in Term : leaders[t] \subseteq leaders'[t],
           \A c \in rvCalls' : c \in rvCalls \/ c.from # c.to,
           \A c \in parkedVotes' :
               c \in parkedVotes \/ (c.from # c.to /\ c.term <= currentTerm'[c.to]),
           \A r \in rvReplies' :
               \/ r \in rvReplies
               \/ r.from # r.to /\ (r.voteGranted => r.term <= r.respTerm),
           \A c \in aeCalls' :
               c \in aeCalls \/ (c.from # c.to /\ c.from \in leaders'[c.term])
    PROVE  CallsInv'
  <1>1. ASSUME NEW c \in parkedVotes PROVE c.from # c.to /\ c.term <= currentTerm'[c.to]
    <2>1. /\ c.from # c.to /\ c.to \in Node /\ c.term \in Term
          /\ c.term <= currentTerm[c.to]
      BY DEF ElectionInv, CallsInv, TypeOK, RequestVote
    <2>2. c.term \in Int /\ currentTerm[c.to] \in Int /\ currentTerm'[c.to] \in Int
      BY <2>1, BoundAssumption DEF TypeOK, Term
    <2>3. currentTerm[c.to] <= currentTerm'[c.to]
      BY <2>1
    <2> QED  BY <2>1, <2>2, <2>3
  <1>2. ASSUME NEW c \in aeCalls PROVE c.from # c.to /\ c.from \in leaders'[c.term]
    BY DEF ElectionInv, CallsInv, TypeOK, AppendEntries
  <1>3. \A c \in rvCalls' : c.from # c.to
    BY DEF ElectionInv, CallsInv
  <1>4. \A r \in rvReplies' : r.from # r.to /\ (r.voteGranted => r.term <= r.respTerm)
    BY DEF ElectionInv, CallsInv
  <1> QED  BY <1>1, <1>2, <1>3, <1>4 DEF CallsInv

\* The actions of elections.
LEMMA ElectionInvVoteStep ==
    ASSUME TypeOK, TypeOK', ElectionInv
    PROVE  /\ \A n \in Node : startElectionAmong(n) => ElectionInv'
           /\ \A c \in rvCalls : rejectRequestVote(c) => ElectionInv'
           /\ \A c \in rvCalls : parkRequestVote(c) => ElectionInv'
           /\ \A c \in rvCalls : onRequestVote(c) => ElectionInv'
           /\ \A c \in parkedVotes : resumeRequestVote(c) => ElectionInv'
           /\ \A r \in rvReplies : voteReplyStepDown(r) => ElectionInv'
           /\ \A r \in rvReplies : voteReplyIgnored(r) => ElectionInv'
           /\ \A r \in rvReplies : voteReplyCounted(r) => ElectionInv'
  <1> USE DEF termVars, voteVars, rvVars, aeVars, gapVars
  <1>0. /\ \A n \in Node : currentTerm[n] \in Term /\ currentTerm[n] \in Int
        /\ \A t \in Term : t \in Int
        /\ \A c \in rvCalls \cup parkedVotes :
               c.from \in Node /\ c.to \in Node /\ c.term \in Term /\ c.from # c.to
        /\ \A r \in rvReplies :
               /\ r.from \in Node /\ r.to \in Node /\ r.term \in Term /\ r.respTerm \in Term
               /\ r.from # r.to /\ r.voteGranted \in BOOLEAN
               /\ r.voteGranted => r.term <= r.respTerm
    <2>1. \A n \in Node : currentTerm[n] \in Term
      BY DEF TypeOK
    <2>2. \A t \in Term : t \in Int
      BY BoundAssumption DEF Term
    <2>3. \A c \in rvCalls \cup parkedVotes :
               c.from \in Node /\ c.to \in Node /\ c.term \in Term /\ c.from # c.to
      BY DEF TypeOK, RequestVote, ElectionInv, CallsInv
    <2>4. \A r \in rvReplies :
               /\ r.from \in Node /\ r.to \in Node /\ r.term \in Term /\ r.respTerm \in Term
               /\ r.from # r.to /\ r.voteGranted \in BOOLEAN
               /\ r.voteGranted => r.term <= r.respTerm
      BY DEF TypeOK, RequestVoteReply, ElectionInv, CallsInv
    <2> QED  BY <2>1, <2>2, <2>3, <2>4
  <1>1. ASSUME NEW n \in Node, startElectionAmong(n) PROVE ElectionInv'
    <2>1. /\ role' = [role EXCEPT ![n] = "CANDIDATE"]
          /\ currentTerm' = [currentTerm EXCEPT ![n] = @ + 1]
          /\ votedFor' = [votedFor EXCEPT ![n] = n]
          /\ voters' = [voters EXCEPT ![n] = {n}]
          /\ \E S \in Connect(VoteCalls(n, currentTerm[n] + 1, log[n])) : rvCalls' = rvCalls \cup S
          /\ leaders' = leaders /\ rvReplies' = rvReplies /\ aeCalls' = aeCalls
          /\ parkedVotes' = parkedVotes
      BY <1>1 DEF startElectionAmong, startElection, requestVotes
    <2>2. /\ role \in [Node -> Role] /\ currentTerm \in [Node -> Int]
          /\ votedFor \in [Node -> Node \cup {Nil}] /\ voters \in [Node -> SUBSET Node]
      BY <1>0 DEF TypeOK
    <2>3. \A m \in Node : currentTerm[m] <= currentTerm'[m]
      BY <2>1, <2>2
    <2>4. CallsInv'
      <3>1. \A c \in rvCalls' : c \in rvCalls \/ c.from # c.to
        BY <2>1 DEF Connect, VoteCalls, Peers
      <3> QED  BY <2>1, <2>3, <3>1, CallsKept
    <2>5. RolesInv'
      <3> SUFFICES ASSUME NEW m \in Node
                   PROVE  /\ role'[m] = "CANDIDATE" => votedFor'[m] = m
                          /\ role'[m] = "LEADER" => m \in leaders[currentTerm'[m]]
                          /\ \A t \in Term : m \in leaders[t] =>
                               \/ t < currentTerm'[m]
                               \/ t = currentTerm'[m] /\ role'[m] # "CANDIDATE"
        BY <2>1 DEF RolesInv
      <3>1. CASE m # n
        BY <2>1, <2>2, <3>1 DEF ElectionInv, RolesInv
      <3>2. CASE m = n
        BY <1>0, <2>1, <2>2, <3>2 DEF ElectionInv, RolesInv
      <3> QED  BY <3>1, <3>2
    <2>6. ASSUME NEW m \in Node, NEW c \in Node, NEW t \in Term, Granted(m, c, t)'
          PROVE  Granted(m, c, t) \/ NewVote(m, c, t)
      <3>1. CASE c # n
        BY <2>1, <2>2, <2>6, <3>1 DEF Granted
      <3>2. CASE c = n /\ \E r \in rvReplies : /\ r.from = c /\ r.to = m /\ r.voteGranted
                                               /\ r.term = t /\ r.respTerm = t
        BY <3>2 DEF Granted
      <3>3. CASE c = n /\ currentTerm'[c] = t /\ m \in voters'[c]
        <4>1. m = n /\ t = currentTerm[n] + 1
          BY <2>1, <2>2, <3>3
        <4>2. \A d \in Node : ~LockedTo(n, d, t)
          BY <1>0, <4>1 DEF LockedTo
        <4>3. votedFor'[n] = n
          BY <2>1, <2>2
        <4> QED  BY <3>3, <4>1, <4>2, <4>3 DEF NewVote
      <3> QED  BY <2>1, <2>6, <3>1, <3>2, <3>3 DEF Granted
    <2>7. ASSUME NEW m \in Node, NEW c \in Node, NEW t \in Term, LockedTo(m, c, t)
          PROVE  LockedTo(m, c, t)'
      <3>1. CASE m # n
        BY <2>1, <2>2, <2>7, <3>1 DEF LockedTo
      <3>2. CASE m = n
        <4>1. t \in Int /\ currentTerm[n] \in Int /\ currentTerm'[n] = currentTerm[n] + 1
          BY <1>0, <2>1, <2>2
        <4> QED  BY <2>7, <3>2, <4>1 DEF LockedTo
      <3> QED  BY <3>1, <3>2
    <2>8. VotesKept
      BY <2>1, <2>6, <2>7 DEF VotesKept
    <2> QED  BY <2>4, <2>5, <2>8, VotesKeptPreserves DEF ElectionInv
  <1>2. ASSUME NEW c \in rvCalls, rejectRequestVote(c) PROVE ElectionInv'
    <2>1. /\ UNCHANGED <<termVars, voteVars>> /\ rvCalls' \subseteq rvCalls
          /\ parkedVotes' \subseteq parkedVotes /\ aeCalls' = aeCalls
          /\ rvReplies' = rvReplies \cup {VoteReply(c, currentTerm[c.to], FALSE)}
      BY <1>2 DEF rejectRequestVote
    <2>2. \A r \in rvReplies' : r \in rvReplies \/ (~r.voteGranted /\ r.from # r.to)
      BY <1>0, <2>1 DEF VoteReply
    <2> QED  BY <2>1, <2>2, VotesUntouched
  <1>3. ASSUME NEW c \in rvCalls, parkRequestVote(c) PROVE ElectionInv'
    <2>1. /\ becomeFollower(c.to, c.term) /\ c.term > currentTerm[c.to]
          /\ leaders' = leaders /\ rvReplies' = rvReplies /\ rvCalls' \subseteq rvCalls
          /\ parkedVotes' = parkedVotes \cup {c} /\ aeCalls' = aeCalls
      BY <1>3 DEF parkRequestVote
    <2>2. VotesKept /\ RolesInv' /\ \A m \in Node : currentTerm[m] <= currentTerm'[m]
      BY <1>0, <2>1, StepDown
    <2>3. CallsInv'
      <3>1. currentTerm'[c.to] = c.term
        BY <1>0, <2>1 DEF becomeFollower, TypeOK
      <3>2. c.from # c.to /\ c.term <= currentTerm'[c.to]
        BY <1>0, <3>1
      <3> QED  BY <2>1, <2>2, <3>2, CallsKept
    <2> QED  BY <2>2, <2>3, VotesKeptPreserves DEF ElectionInv
  <1>4. ASSUME NEW c \in rvCalls, onRequestVote(c) PROVE ElectionInv'
    <2> DEFINE n == c.to
    <2> DEFINE vote == IF c.term > currentTerm[n] THEN Nil ELSE votedFor[n]
    <2> DEFINE grant == GrantsVote(log[n], vote, c)
    <2> DEFINE reply == VoteReply(c, c.term, grant)
    <2>1. /\ c.term >= currentTerm[n]
          /\ currentTerm' = [currentTerm EXCEPT ![n] = c.term]
          /\ role' = [role EXCEPT ![n] = IF c.term > currentTerm[n] THEN "FOLLOWER" ELSE @]
          /\ votedFor' = [votedFor EXCEPT ![n] = IF grant THEN c.from ELSE vote]
          /\ voters' = [voters EXCEPT ![n] = IF c.term > currentTerm[n] THEN {} ELSE @]
          /\ rvCalls' \subseteq rvCalls /\ rvReplies' = rvReplies \cup {reply}
          /\ leaders' = leaders /\ aeCalls' = aeCalls /\ parkedVotes' = parkedVotes
      BY <1>4 DEF onRequestVote
    <2>2. grant \in BOOLEAN /\ (grant => vote \in {Nil, c.from})
      BY DEF GrantsVote
    <2>3. /\ reply.from = c.from /\ reply.to = n /\ reply.term = c.term
          /\ reply.respTerm = c.term /\ reply.voteGranted = grant
      BY DEF VoteReply
    <2>4. n \in Node /\ c.from \in Node /\ c.from # n /\ c.term \in Term /\ c.term \in Int
      BY <1>0
    <2>5. vote = IF c.term > currentTerm[n] THEN Nil ELSE votedFor[n]
      OBVIOUS
    <2> HIDE DEF n, vote, grant, reply
    <2>6. VotesKept /\ RolesInv' /\ \A m \in Node : currentTerm[m] <= currentTerm'[m]
      BY <2>1, <2>2, <2>3, <2>4, <2>5, CastVote
    <2>7. CallsInv'
      <3>1. \A r \in rvReplies' : \/ r \in rvReplies
                                  \/ r.from # r.to /\ (r.voteGranted => r.term <= r.respTerm)
        BY <2>1, <2>3, <2>4
      <3> QED  BY <2>1, <2>6, <3>1, CallsKept
    <2> QED  BY <2>6, <2>7, VotesKeptPreserves DEF ElectionInv
  <1>5. ASSUME NEW c \in parkedVotes, resumeRequestVote(c) PROVE ElectionInv'
    <2> DEFINE n == c.to
    <2> DEFINE vote == votedFor[n]
    <2> DEFINE grant == GrantsVote(log[n], vote, c)
    <2> DEFINE reply == VoteReply(c, currentTerm[n], grant)
    <2>1. /\ votedFor' = [votedFor EXCEPT ![n] = IF grant THEN c.from ELSE vote]
          /\ UNCHANGED <<currentTerm, role, voters>> /\ leaders' = leaders
          /\ rvReplies' = rvReplies \cup {reply} /\ rvCalls' = rvCalls
          /\ aeCalls' = aeCalls /\ parkedVotes' \subseteq parkedVotes
      BY <1>5 DEF resumeRequestVote
    <2>2. grant \in BOOLEAN /\ (grant => vote \in {Nil, c.from})
      BY DEF GrantsVote
    <2>3. /\ reply.from = c.from /\ reply.to = n /\ reply.term = c.term
          /\ reply.respTerm = currentTerm[n] /\ reply.voteGranted = grant
      BY DEF VoteReply
    <2>4. /\ n \in Node /\ c.from \in Node /\ c.from # n
          /\ currentTerm[n] \in Term /\ currentTerm[n] \in Int /\ c.term \in Int
          /\ c.term <= currentTerm[n]
      BY <1>0 DEF ElectionInv, CallsInv
    <2>5. PICK term \in Term : term = currentTerm[n]
      BY <2>4
    <2>6. /\ vote = (IF term > currentTerm[n] THEN Nil ELSE votedFor[n])
          /\ term >= currentTerm[n] /\ reply.respTerm = term
      BY <2>3, <2>4, <2>5
    <2> HIDE DEF n, vote, grant, reply
    <2>7. /\ currentTerm' = [currentTerm EXCEPT ![n] = term]
          /\ role' = [role EXCEPT ![n] = IF term > currentTerm[n] THEN "FOLLOWER" ELSE @]
          /\ voters' = [voters EXCEPT ![n] = IF term > currentTerm[n] THEN {} ELSE @]
      BY <2>1, <2>4, <2>5 DEF TypeOK
    <2>8. VotesKept /\ RolesInv' /\ \A m \in Node : currentTerm[m] <= currentTerm'[m]
      <3>1. /\ votedFor' = [votedFor EXCEPT ![n] = IF grant THEN c.from ELSE vote]
            /\ rvReplies' = rvReplies \cup {reply} /\ leaders' = leaders
        BY <2>1
      <3>2. /\ n \in Node /\ c.from \in Node /\ c.from # n
            /\ reply.from = c.from /\ reply.to = n /\ reply.voteGranted = grant
        BY <2>3, <2>4
      <3> QED  BY <2>2, <2>5, <2>6, <2>7, <3>1, <3>2, CastVote
    <2>9. CallsInv'
      <3>1. \A r \in rvReplies' : \/ r \in rvReplies
                                  \/ r.from # r.to /\ (r.voteGranted => r.term <= r.respTerm)
        BY <2>1, <2>3, <2>4
      <3> QED  BY <2>1, <2>8, <3>1, CallsKept
    <2> QED  BY <2>8, <2>9, VotesKeptPreserves DEF ElectionInv
  <1>6. ASSUME NEW r \in rvReplies, voteReplyStepDown(r) PROVE ElectionInv'
    <2>1. /\ becomeFollower(r.from, r.respTerm) /\ r.respTerm > currentTerm[r.from]
          /\ leaders' = leaders /\ rvReplies' \subseteq rvReplies /\ rvCalls' = rvCalls
          /\ parkedVotes' = parkedVotes /\ aeCalls' = aeCalls
      BY <1>6 DEF voteReplyStepDown
    <2>2. VotesKept /\ RolesInv' /\ \A m \in Node : currentTerm[m] <= currentTerm'[m]
      BY <1>0, <2>1, StepDown
    <2>3. CallsInv'
      BY <2>1, <2>2, CallsKept
    <2> QED  BY <2>2, <2>3, VotesKeptPreserves DEF ElectionInv
  <1>7. ASSUME NEW r \in rvReplies, voteReplyIgnored(r) PROVE ElectionInv'
    BY <1>7, VotesUntouched DEF voteReplyIgnored
  <1>8. ASSUME NEW r \in rvReplies, voteReplyCounted(r) PROVE ElectionInv'
    <2> DEFINE n == r.from
    <2> DEFINE S == voters[n] \cup {r.to}
    <2>1. /\ r.respTerm <= currentTerm[n] /\ role[n] = "CANDIDATE" /\ currentTerm[n] = r.term
          /\ r.voteGranted /\ rvReplies' = rvReplies \ {r}
          /\ UNCHANGED <<currentTerm, votedFor, rvCalls, parkedVotes>>
      BY <1>8 DEF voteReplyCounted, OutdatedVote
    <2>2. n \in Node /\ r.to \in Node /\ S \in SUBSET Node
      BY <1>0 DEF TypeOK
    <2>3. \A m \in S : Granted(m, n, currentTerm[n])
      <3>1. r.respTerm = r.term
        BY <1>0, <2>1
      <3>2. Granted(r.to, n, currentTerm[n])
        BY <2>1, <3>1 DEF Granted
      <3> QED  BY <2>1, <3>2 DEF Granted
    <2>4. \A m \in Node : currentTerm[m] <= currentTerm'[m]
      BY <1>0, <2>1
    <2>5. CASE Cardinality(S) >= Majority
      <3>1. becomeLeaderInternal(n, currentTerm[n])
        BY <1>8, <2>5 DEF voteReplyCounted
      <3>2. /\ role' = [role EXCEPT ![n] = "LEADER"] /\ voters' = [voters EXCEPT ![n] = {}]
            /\ leaders' = [leaders EXCEPT ![currentTerm[n]] = @ \cup {n}]
            /\ \E C \in Connect(AppendCalls(n, currentTerm[n], log[n],
                                            [p \in Node |-> Len(log[n]) + 1])) :
                  aeCalls' = aeCalls \cup C
        BY <3>1 DEF becomeLeaderInternal
      <3> HIDE DEF n, S
      <3>3. RolesInv' /\ VotesInv' /\ BackedInv' /\ ElectionSafety'
        BY <2>1, <2>2, <2>3, <2>5, <3>2, Win
      <3>4. /\ \A t \in Term : leaders[t] \subseteq leaders'[t]
            /\ n \in leaders'[currentTerm[n]]
        BY <1>0, <2>2, <3>2 DEF TypeOK
      <3>5. \A c \in aeCalls' : c \in aeCalls \/ (c.from # c.to /\ c.from \in leaders'[c.term])
        BY <2>2, <3>2, <3>4, LeaderCalls DEF Connect
      <3>6. CallsInv'
        BY <2>1, <2>4, <3>4, <3>5, CallsKept
      <3> QED  BY <3>3, <3>6 DEF ElectionInv
    <2>6. CASE ~(Cardinality(S) >= Majority)
      <3>1. /\ voters' = [voters EXCEPT ![n] = S] /\ UNCHANGED <<role, aeCalls, leaders>>
        BY <1>8, <2>6 DEF voteReplyCounted, leaderVars
      <3>2. voters \in [Node -> SUBSET Node]
        BY DEF TypeOK
      <3> HIDE DEF n, S
      <3>3. \A m, c \in Node, t \in Term : Granted(m, c, t)' => Granted(m, c, t)
        <4> SUFFICES ASSUME NEW m \in Node, NEW c \in Node, NEW t \in Term, Granted(m, c, t)'
                     PROVE  Granted(m, c, t)
          OBVIOUS
        <4>1. CASE \E q \in rvReplies : /\ q.from = c /\ q.to = m /\ q.voteGranted
                                        /\ q.term = t /\ q.respTerm = t
          BY <4>1 DEF Granted
        <4>2. CASE role[c] = "CANDIDATE" /\ currentTerm[c] = t /\ m \in voters'[c]
          <5>1. CASE c = n
            BY <2>2, <2>3, <3>1, <3>2, <4>2, <5>1
          <5>2. CASE c # n
            BY <2>2, <3>1, <3>2, <4>2, <5>2 DEF Granted
          <5> QED  BY <5>1, <5>2
        <4> QED  BY <2>1, <3>1, <4>1, <4>2 DEF Granted
      <3>4. VotesKept
        BY <2>1, <3>1, <3>3 DEF VotesKept, LockedTo
      <3>5. RolesInv'
        BY <2>1, <3>1 DEF ElectionInv, RolesInv
      <3>6. CallsInv'
        BY <2>1, <2>4, <3>1, CallsKept
      <3> QED  BY <3>4, <3>5, <3>6, VotesKeptPreserves DEF ElectionInv
    <2> QED  BY <2>5, <2>6
  <1> QED  BY <1>1, <1>2, <1>3, <1>4, <1>5, <1>6, <1>7, <1>8

\* The actions of log replication.
LEMMA ElectionInvAppendStep ==
    ASSUME TypeOK, TypeOK', ElectionInv
    PROVE  /\ \A n \in Node, cmd \in Command : submitCommand(n, cmd) => ElectionInv'
           /\ \A n \in Node : sendHeartbeatsInternal(n) => ElectionInv'
           /\ \A c \in aeCalls : rejectAppendEntries(c) => ElectionInv'
           /\ \A c \in aeCalls : parkAppendEntries(c) => ElectionInv'
           /\ \A c \in aeCalls : onAppendEntries(c) => ElectionInv'
           /\ \A a \in parkedAppends : resumeAppendEntries(a) => ElectionInv'
           /\ \A r \in aeReplies : appendReplyStepDown(r) => ElectionInv'
           /\ \A r \in aeReplies : appendReplyIgnored(r) => ElectionInv'
           /\ \A r \in aeReplies : appendReplySuccess(r) => ElectionInv'
           /\ \A r \in aeReplies : appendReplyFailure(r) => ElectionInv'
  <1> USE DEF termVars, voteVars, rvVars, aeVars, gapVars
  <1>0. /\ \A n \in Node : currentTerm[n] \in Term /\ currentTerm[n] \in Int
        /\ \A t \in Term : t \in Int
        /\ \A c \in aeCalls : /\ c.from \in Node /\ c.to \in Node /\ c.term \in Term
                              /\ c.from # c.to /\ c.from \in leaders[c.term]
        /\ \A r \in aeReplies : r.from \in Node /\ r.respTerm \in Term
    <2>1. \A n \in Node : currentTerm[n] \in Term
      BY DEF TypeOK
    <2>2. \A t \in Term : t \in Int
      BY BoundAssumption DEF Term
    <2>3. \A c \in aeCalls : /\ c.from \in Node /\ c.to \in Node /\ c.term \in Term
                             /\ c.from # c.to /\ c.from \in leaders[c.term]
      BY DEF TypeOK, AppendEntries, ElectionInv, CallsInv
    <2>4. \A r \in aeReplies : r.from \in Node /\ r.respTerm \in Term
      BY DEF TypeOK, AppendEntriesReply
    <2> QED  BY <2>1, <2>2, <2>3, <2>4
  <1>1. ASSUME NEW n \in Node, NEW l, role[n] = "LEADER",
               \E S \in Connect(AppendCalls(n, currentTerm[n], l, nextIndex[n])) :
                  aeCalls' = aeCalls \cup S,
               UNCHANGED <<termVars, voteVars, rvVars, gapVars>>
        PROVE  ElectionInv'
    <2>1. n \in leaders[currentTerm[n]]
      BY <1>1 DEF ElectionInv, RolesInv
    <2>2. \A c \in aeCalls' : c \in aeCalls \/ (c.from # c.to /\ c.from \in leaders[c.term])
      BY <1>1, <2>1, LeaderCalls DEF Connect
    <2> QED  BY <1>1, <2>2, VotesUntouched
  <1>2. ASSUME NEW n \in Node, NEW cmd \in Command, submitCommand(n, cmd) PROVE ElectionInv'
    BY <1>1, <1>2 DEF submitCommand
  <1>3. ASSUME NEW n \in Node, sendHeartbeatsInternal(n) PROVE ElectionInv'
    BY <1>1, <1>3 DEF sendHeartbeatsInternal
  <1>4. ASSUME NEW c \in aeCalls, rejectAppendEntries(c) PROVE ElectionInv'
    BY <1>4, VotesUntouched DEF rejectAppendEntries
  <1>5. ASSUME NEW c \in aeCalls, ~RejectsAppend(c.to, c), becomeFollower(c.to, c.term),
               \/ c.term > currentTerm[c.to]
               \/ role[c.to] # "FOLLOWER",
               leaders' = leaders, aeCalls' = aeCalls \ {c},
               UNCHANGED <<rvVars, parkedVotes>>
        PROVE  ElectionInv'
    <2>1. \/ c.term > currentTerm[c.to]
          \/ c.term = currentTerm[c.to] /\ role[c.to] # "FOLLOWER"
      BY <1>0, <1>5 DEF RejectsAppend
    <2>2. \E m \in Node : m # c.to /\ m \in leaders[c.term]
      BY <1>0
    <2>3. VotesKept /\ RolesInv' /\ \A m \in Node : currentTerm[m] <= currentTerm'[m]
      BY <1>0, <1>5, <2>1, <2>2, StepDown
    <2>4. CallsInv'
      BY <1>5, <2>3, CallsKept
    <2> QED  BY <2>3, <2>4, VotesKeptPreserves DEF ElectionInv
  <1>6. ASSUME NEW c \in aeCalls, parkAppendEntries(c) PROVE ElectionInv'
    BY <1>5, <1>6 DEF parkAppendEntries
  <1>7. ASSUME NEW c \in aeCalls, onAppendEntries(c) PROVE ElectionInv'
    <2>1. /\ ~RejectsAppend(c.to, c) /\ leaders' = leaders /\ aeCalls' = aeCalls \ {c}
          /\ UNCHANGED <<rvVars, parkedVotes>>
      BY <1>7 DEF onAppendEntries
    <2>2. CASE c.term > currentTerm[c.to] \/ role[c.to] = "CANDIDATE"
      <3>1. becomeFollower(c.to, c.term)
        BY <1>7, <2>2 DEF onAppendEntries
      <3> QED  BY <1>5, <2>1, <2>2, <3>1
    <2>3. CASE ~(c.term > currentTerm[c.to] \/ role[c.to] = "CANDIDATE")
      <3>1. UNCHANGED <<termVars, voters>>
        BY <1>7, <2>3 DEF onAppendEntries
      <3> QED  BY <2>1, <3>1, VotesUntouched
    <2> QED  BY <2>2, <2>3
  <1>8. ASSUME NEW a \in parkedAppends, resumeAppendEntries(a) PROVE ElectionInv'
    BY <1>8, VotesUntouched DEF resumeAppendEntries
  <1>9. ASSUME NEW r \in aeReplies, appendReplyStepDown(r) PROVE ElectionInv'
    <2>1. /\ becomeFollower(r.from, r.respTerm) /\ r.respTerm > currentTerm[r.from]
          /\ leaders' = leaders /\ UNCHANGED rvVars
          /\ parkedVotes' = parkedVotes /\ aeCalls' = aeCalls
      BY <1>9 DEF appendReplyStepDown
    <2>2. VotesKept /\ RolesInv' /\ \A m \in Node : currentTerm[m] <= currentTerm'[m]
      BY <1>0, <2>1, StepDown
    <2>3. CallsInv'
      BY <2>1, <2>2, CallsKept
    <2> QED  BY <2>2, <2>3, VotesKeptPreserves DEF ElectionInv
  <1>10. ASSUME NEW r \in aeReplies, appendReplyIgnored(r) PROVE ElectionInv'
    BY <1>10, VotesUntouched DEF appendReplyIgnored
  <1>11. ASSUME NEW r \in aeReplies, appendReplySuccess(r) PROVE ElectionInv'
    BY <1>11, VotesUntouched DEF appendReplySuccess
  <1>12. ASSUME NEW r \in aeReplies, appendReplyFailure(r) PROVE ElectionInv'
    BY <1>12, VotesUntouched DEF appendReplyFailure
  <1> QED  BY <1>2, <1>3, <1>4, <1>6, <1>7, <1>8, <1>9, <1>10, <1>11, <1>12

\* Every step of the cluster.
LEMMA ElectionInvStep == TypeOK /\ TypeOK' /\ ElectionInv /\ [Next]_vars => ElectionInv'
  <1> SUFFICES ASSUME TypeOK, TypeOK', ElectionInv, [Next]_vars PROVE ElectionInv'
    OBVIOUS
  <1> USE DEF termVars, voteVars, rvVars, aeVars, gapVars
  <1>1. CASE \E n \in Node : NodeStep(n)
    BY <1>1, ElectionInvVoteStep, ElectionInvAppendStep, WinAlone
       DEF NodeStep, startElectionAmong, startElectionAlone
  <1>2. ASSUME NEW c \in rvCalls, LoseVoteCall(c) PROVE ElectionInv'
    BY <1>2, VotesUntouched DEF LoseVoteCall
  <1>3. ASSUME NEW r \in rvReplies, LoseVoteReply(r) PROVE ElectionInv'
    BY <1>3, VotesUntouched DEF LoseVoteReply
  <1>4. CASE VoteStep
    BY <1>2, <1>3, <1>4, ElectionInvVoteStep DEF VoteStep
  <1>5. ASSUME NEW c \in aeCalls, LoseAppendCall(c) PROVE ElectionInv'
    BY <1>5, VotesUntouched DEF LoseAppendCall
  <1>6. ASSUME NEW r \in aeReplies, LoseAppendReply(r) PROVE ElectionInv'
    BY <1>6, VotesUntouched DEF LoseAppendReply
  <1>7. CASE AppendStep
    BY <1>5, <1>6, <1>7, ElectionInvAppendStep DEF AppendStep
  <1>8. CASE UNCHANGED vars
    BY <1>8, VotesUntouched DEF vars
  <1> QED  BY <1>1, <1>4, <1>7, <1>8 DEF Next

\* At the start there are no votes, no calls and no leaders.
LEMMA ElectionInvInit == Init => ElectionInv
  <1> SUFFICES ASSUME Init PROVE ElectionInv
    OBVIOUS
  <1>1. \A t \in Term : leaders[t] = {}
    BY DEF Init
  <1>2. \A n, c \in Node, t \in Term : ~Granted(n, c, t)
    BY DEF Init, Granted
  <1>3. CallsInv /\ RolesInv
    BY <1>1 DEF Init, CallsInv, RolesInv
  <1> QED  BY <1>1, <1>2, <1>3 DEF ElectionInv, VotesInv, BackedInv, ElectionSafety

\* The vote bookkeeping holds in every reachable state.
THEOREM VotesFitTogether == Spec => []ElectionInv
  <1>1. Init /\ TypeOK => ElectionInv
    BY ElectionInvInit
  <1> QED  BY <1>1, ElectionInvStep, TypeCorrect, PTL DEF Spec

\* At most one node ever becomes leader in a term, in a cluster of any size,
\* with calls and answers lost, delayed and reordered in any way, although
\* becomeFollower() forgets votes within a term.
THEOREM OneLeaderPerTerm == Spec => []ElectionSafety
  <1>1. ElectionInv => ElectionSafety
    BY DEF ElectionInv
  <1> QED  BY <1>1, VotesFitTogether, PTL

-----------------------------------------------------------------------------
(***************************************************************************)
(* The logs.  The invariant speaks of one sequence per term, g[t]: the log *)
(* its leader had when it last led the term.  There is such a g in every   *)
(* reachable state; it needs no variable of the specification.             *)
(***************************************************************************)

Logs == [Term -> Seq(Entry)]

\* q is l with nothing or something appended.
Extends(l, q) == Len(l) <= Len(q) /\ \A i \in 1..Len(l) : q[i] = l[i]

Grows(g, h) == \A t \in Term : Extends(g[t], h[t])

\* Up to an entry of term t, l is the log of the leader of t.
Grounded(l, g) ==
    \A i \in 1..Len(l) : /\ i <= Len(g[l[i].term])
                         /\ \A j \in 1..i : l[j] = g[l[i].term][j]

\* The entries of a call, and the one before them, are a piece of its leader's log.
PieceOf(c, l) ==
    /\ c.prevLogIndex + Len(c.entries) <= Len(l)
    /\ c.prevLogIndex > 0 => c.prevLogTerm = l[c.prevLogIndex].term
    /\ \A j \in 1..Len(c.entries) : c.entries[j] = l[c.prevLogIndex + j]

Slice(c, g) == c.entries # <<>> => PieceOf(c, g[c.term])

\* The two agree on their first k entries, and have them.
Share(l, q, k) == k <= Len(l) /\ k <= Len(q) /\ \A j \in 1..k : l[j] = q[j]

-----------------------------------------------------------------------------
(***************************************************************************)
(* Sequences.                                                              *)
(***************************************************************************)

\* Extending the leaders' logs disturbs nothing that is said of them.
LEMMA GroundedGrows ==
    ASSUME NEW g \in Logs, NEW h \in Logs, Grows(g, h), NEW l \in Seq(Entry), Grounded(l, g)
    PROVE  Grounded(l, h)
  <1> SUFFICES ASSUME NEW i \in 1..Len(l)
               PROVE  i <= Len(h[l[i].term]) /\ \A j \in 1..i : l[j] = h[l[i].term][j]
    BY DEF Grounded
  <1>1. l[i].term \in Term
    BY EntryTerm
  <1>2. g[l[i].term] \in Seq(Entry) /\ h[l[i].term] \in Seq(Entry)
    BY <1>1 DEF Logs
  <1>3. Extends(g[l[i].term], h[l[i].term])
    BY <1>1 DEF Grows
  <1>4. i <= Len(g[l[i].term]) /\ \A j \in 1..i : l[j] = g[l[i].term][j]
    BY DEF Grounded
  <1> QED  BY <1>2, <1>3, <1>4 DEF Extends

\* The same for the calls.
LEMMA SliceGrows ==
    ASSUME NEW g \in Logs, NEW h \in Logs, Grows(g, h), NEW c \in AppendEntries, Slice(c, g)
    PROVE  Slice(c, h)
  <1>1. /\ c.term \in Term /\ c.prevLogIndex \in Nat /\ c.entries \in Seq(Entry)
        /\ Len(c.entries) \in Nat
    BY DEF AppendEntries
  <1>2. g[c.term] \in Seq(Entry) /\ h[c.term] \in Seq(Entry) /\ Extends(g[c.term], h[c.term])
    BY <1>1 DEF Logs, Grows
  <1>3. CASE c.entries = <<>>
    BY <1>3 DEF Slice
  <1>4. CASE c.entries # <<>>
    <2>1. PieceOf(c, g[c.term])
      BY <1>4 DEF Slice
    <2>2. /\ c.prevLogIndex + Len(c.entries) <= Len(g[c.term])
          /\ Len(g[c.term]) <= Len(h[c.term])
          /\ \A i \in 1..Len(g[c.term]) : h[c.term][i] = g[c.term][i]
      BY <1>2, <2>1 DEF PieceOf, Extends
    <2>3. c.prevLogIndex > 0 => c.prevLogTerm = h[c.term][c.prevLogIndex].term
      <3> SUFFICES ASSUME c.prevLogIndex > 0
                   PROVE  c.prevLogTerm = h[c.term][c.prevLogIndex].term
        OBVIOUS
      <3>1. c.prevLogIndex \in 1..Len(g[c.term])
        BY <1>1, <1>2, <2>2
      <3> QED  BY <2>1, <2>2, <3>1 DEF PieceOf
    <2>4. ASSUME NEW j \in 1..Len(c.entries)
          PROVE  c.entries[j] = h[c.term][c.prevLogIndex + j]
      <3>1. c.prevLogIndex + j \in 1..Len(g[c.term])
        BY <1>1, <1>2, <2>2
      <3> QED  BY <2>1, <2>2, <3>1 DEF PieceOf
    <2>5. PieceOf(c, h[c.term])
      BY <1>1, <1>2, <2>2, <2>3, <2>4 DEF PieceOf
    <2> QED  BY <2>5 DEF Slice
  <1> QED  BY <1>3, <1>4

\* The same for what two logs share.
LEMMA ShareGrows ==
    ASSUME NEW l \in Seq(Entry), NEW m \in Seq(Entry), NEW q \in Seq(Entry), NEW r \in Seq(Entry),
           NEW k \in Nat, Share(l, q, k), Extends(l, m), Extends(q, r)
    PROVE  Share(m, r, k)
  BY DEF Share, Extends

\* A prefix of a grounded log is grounded.
LEMMA PrefixGrounded ==
    ASSUME NEW g, NEW l \in Seq(Entry), NEW q \in Seq(Entry), Grounded(l, g), Extends(q, l)
    PROVE  Grounded(q, g)
  BY DEF Grounded, Extends

\* Two grounded logs with the same term at a position are the same up to it.
LEMMA SameTermSamePrefix ==
    ASSUME NEW g, NEW l \in Seq(Entry), NEW q \in Seq(Entry), Grounded(l, g), Grounded(q, g),
           NEW i \in Nat, i > 0, i <= Len(l), i <= Len(q), l[i].term = q[i].term
    PROVE  Share(l, q, i)
  BY DEF Grounded, Share

\* The append loop of onAppendEntries() makes the log share the leader's up to
\* the end of the call, and gives up nothing it shared before: the first
\* conflict, where it truncates, is behind everything the two logs share.
LEMMA MergeFacts ==
    ASSUME NEW g, NEW l \in Seq(Entry), NEW G \in Seq(Entry), Grounded(l, g), Grounded(G, g),
           NEW c \in AppendEntries, c.entries # <<>>, PieceOf(c, G), LogMatches(l, c)
    PROVE  LET q == MergeEntries(l, c)
           IN  /\ Grounded(q, g)
               /\ Share(q, G, c.prevLogIndex + Len(c.entries))
               /\ \A k \in Nat : Share(l, G, k) => Share(q, G, k)
  <1> DEFINE prev == c.prevLogIndex  len == Len(c.entries)  q == MergeEntries(l, c)
  <1>1. prev \in Nat /\ len \in Nat /\ c.entries \in Seq(Entry)
    BY DEF AppendEntries
  <1>2. len > 0
    BY <1>1
  <1>3. prev <= Len(l) /\ prev + len <= Len(G)
    BY <1>1 DEF LogMatches, PieceOf
  <1>4. Share(l, G, prev)
    <2>1. CASE prev = 0
      BY <1>3, <2>1 DEF Share
    <2>2. CASE prev > 0
      <3>1. l[prev].term = G[prev].term
        BY <1>1, <2>2 DEF LogMatches, PieceOf
      <3> QED  BY <1>1, <1>2, <1>3, <2>2, <3>1, SameTermSamePrefix
    <2> QED  BY <1>1, <2>1, <2>2
  <1>5. ASSUME NEW i \in 1..len, Agrees(l, c, i)
        PROVE  Share(l, G, prev + i)
    <2>1. prev + i <= Len(l) /\ l[prev + i].term = c.entries[i].term
      BY <1>5 DEF Agrees
    <2>2. c.entries[i] = G[prev + i]
      BY DEF PieceOf
    <2>3. prev + i \in Nat /\ prev + i > 0 /\ prev + i <= Len(G)
      BY <1>1, <1>3
    <2> QED  BY <2>1, <2>2, <2>3, SameTermSamePrefix
  <1>6. CASE Agrees(l, c, len)
    <2>1. q = l
      BY <1>6 DEF MergeEntries
    <2>2. Share(l, G, prev + len)
      BY <1>1, <1>2, <1>5, <1>6
    <2> QED  BY <2>1, <2>2
  <1>7. CASE ~Agrees(l, c, len)
    <2>1. q = [i \in 1..(prev + len) |-> IF i <= prev \/ Agrees(l, c, i - prev)
                                         THEN l[i] ELSE c.entries[i - prev]]
      BY <1>7 DEF MergeEntries
    <2>2. q \in Seq(Entry)
      BY MergeEntriesType
    <2>3. Len(q) = prev + len
      BY <1>1, <2>1, <2>2
    <2>4. ASSUME NEW i \in 1..(prev + len) PROVE q[i] = G[i]
      <3>1. CASE i <= prev
        BY <1>4, <2>1, <3>1 DEF Share
      <3>2. CASE ~(i <= prev)
        <4>1. i - prev \in 1..len /\ prev + (i - prev) = i
          BY <1>1, <3>2
        <4>2. CASE Agrees(l, c, i - prev)
          <5>1. Share(l, G, i)
            BY <1>5, <4>1, <4>2
          <5> QED  BY <2>1, <4>2, <5>1 DEF Share
        <4>3. CASE ~Agrees(l, c, i - prev)
          <5>1. c.entries[i - prev] = G[i]
            BY <4>1 DEF PieceOf
          <5> QED  BY <2>1, <3>2, <4>3, <5>1
        <4> QED  BY <4>2, <4>3
      <3> QED  BY <3>1, <3>2
    <2> HIDE DEF q
    <2>5. Extends(q, G) /\ Share(q, G, prev + len)
      BY <1>3, <2>3, <2>4 DEF Extends, Share
    <2>6. Grounded(q, g)
      BY <2>2, <2>5, PrefixGrounded
    <2>7. ASSUME NEW k \in Nat, Share(l, G, k) PROVE Share(q, G, k)
      <3>1. k <= prev + len
        <4> SUFFICES ASSUME k > prev + len PROVE Agrees(l, c, len)
          BY <1>1, <1>7
        <4>1. ASSUME NEW j \in 1..len
              PROVE  prev + j <= Len(l) /\ l[prev + j].term = c.entries[j].term
          <5>1. prev + j \in 1..k
            BY <1>1
          <5>2. l[prev + j] = G[prev + j] /\ prev + j <= Len(l)
            BY <2>7, <5>1 DEF Share
          <5>3. c.entries[j] = G[prev + j]
            BY DEF PieceOf
          <5> QED  BY <5>2, <5>3
        <4> QED  BY <4>1 DEF Agrees
      <3> QED  BY <1>1, <2>3, <2>4, <2>7, <3>1 DEF Share
    <2> QED  BY <2>5, <2>6, <2>7 DEF q
  <1> QED  BY <1>6, <1>7

-----------------------------------------------------------------------------
(***************************************************************************)
(* The invariants.                                                         *)
(***************************************************************************)

\* A node whose onAppendEntries() is in the unlocked gap is a follower, of the
\* call's term or a later one, and has only that handler there.
GapInv ==
    /\ \A a \in parkedAppends : /\ role[a.call.to] = "FOLLOWER"
                                /\ a.call.term <= currentTerm[a.call.to]
    /\ \A a, b \in parkedAppends : a.call.to = b.call.to => a = b

\* p's log has the first k entries of the leader of t, unless p has gone on to a
\* later term, and no call of an earlier leader is in the gap to spoil it.
Confirmed(p, t, k, g) ==
    /\ t <= currentTerm[p]
    /\ t = currentTerm[p] => /\ Share(log[p], g[t], k)
                             /\ \A a \in parkedAppends : a.call.to = p => a.call.term = t

\* The answer makes the leader set matchIndex.
Confirms(r) == r.success /\ r.entriesCount > 0

LogInv(g) ==
    /\ \A n \in Node : role[n] = "LEADER" => log[n] = g[currentTerm[n]]
    /\ \A t \in Term : leaders[t] = {} => g[t] = <<>>
    /\ \A n \in Node : Grounded(log[n], g)
    /\ \A t \in Term : Grounded(g[t], g)
    /\ \A c \in aeCalls : Slice(c, g)
    /\ \A a \in parkedAppends : Slice(a.call, g)
    /\ \A r \in aeReplies :
          Confirms(r) => Confirmed(r.to, r.term, r.nextIdx + r.entriesCount - 1, g)
    /\ \A n \in Node : \A p \in Peers(n) :
          role[n] = "LEADER" /\ matchIndex[n][p] > 0
              => Confirmed(p, currentTerm[n], matchIndex[n][p], g)

\* The logs of the leaders of all terms exist, and everything comes from them.
LogsInv == \E g \in Logs : LogInv(g)

\* How a step may change what the invariants are about when it leaves the logs,
\* matchIndex and the set of leaders alone.
Quiet(g) ==
    /\ log' = log /\ matchIndex' = matchIndex /\ leaders' = leaders
    /\ parkedAppends' \subseteq parkedAppends
    /\ \A c \in aeCalls' : c \in aeCalls \/ Slice(c, g)
    /\ \A r \in aeReplies' : r \in aeReplies \/ ~Confirms(r)
    /\ \A n \in Node :
          /\ currentTerm[n] <= currentTerm'[n]
          /\ role'[n] = "LEADER" => role[n] = "LEADER" /\ currentTerm'[n] = currentTerm[n]

\* The types the proofs below keep needing.
LEMMA LogTypes ==
    ASSUME TypeOK
    PROVE  /\ \A n \in Node : /\ currentTerm[n] \in Term /\ currentTerm[n] \in Int
                              /\ log[n] \in Seq(Entry) /\ role[n] \in Role
           /\ \A n, p \in Node : matchIndex[n][p] \in Nat
           /\ \A c \in aeCalls : /\ c \in AppendEntries /\ c.to \in Node /\ c.from \in Node
                                 /\ c.term \in Term /\ c.term \in Int
           /\ \A a \in parkedAppends :
                 /\ a.call \in AppendEntries /\ a.call.to \in Node
                 /\ a.call.term \in Term /\ a.call.term \in Int /\ a.respTerm \in Term
           /\ \A r \in aeReplies :
                 /\ r.from \in Node /\ r.to \in Node /\ r.term \in Term /\ r.term \in Int
                 /\ r.respTerm \in Int
                 /\ r.nextIdx + r.entriesCount - 1 \in Nat
                 /\ Confirms(r) => r.nextIdx + r.entriesCount - 1 > 0
  <1>1. \A t \in Term : t \in Int
    BY BoundAssumption DEF Term
  <1>2. \A n \in Node : /\ currentTerm[n] \in Term
                        /\ log[n] \in Seq(Entry) /\ role[n] \in Role
    BY DEF TypeOK
  <1>3. \A n, p \in Node : matchIndex[n][p] \in Nat
    BY DEF TypeOK
  <1>4. \A c \in aeCalls : /\ c \in AppendEntries /\ c.to \in Node /\ c.from \in Node
                           /\ c.term \in Term
    BY DEF TypeOK, AppendEntries
  <1>5. \A a \in parkedAppends : /\ a.call \in AppendEntries /\ a.call.to \in Node
                                 /\ a.call.term \in Term /\ a.respTerm \in Term
    BY DEF TypeOK, ParkedAppend, AppendEntries
  <1>6. \A r \in aeReplies : /\ r.from \in Node /\ r.to \in Node /\ r.term \in Term
                             /\ r.respTerm \in Term /\ r.nextIdx \in Nat \ {0}
                             /\ r.entriesCount \in Nat
    BY DEF TypeOK, AppendEntriesReply
  <1>7. \A r \in aeReplies : /\ r.nextIdx + r.entriesCount - 1 \in Nat
                             /\ Confirms(r) => r.nextIdx + r.entriesCount - 1 > 0
    BY <1>6 DEF Confirms
  <1> QED  BY <1>1, <1>2, <1>3, <1>4, <1>5, <1>6, <1>7

\* What was confirmed stays so while the logs only grow.
LEMMA ConfirmedKept ==
    ASSUME TypeOK, TypeOK', NEW p \in Node, NEW t \in Term, NEW k \in Nat,
           NEW g \in Logs, NEW h \in Logs, Grows(g, h), Confirmed(p, t, k, g),
           currentTerm[p] <= currentTerm'[p], Extends(log[p], log'[p]),
           \A a \in parkedAppends' :
               a.call.to = p => a \in parkedAppends \/ a.call.term = currentTerm'[p]
    PROVE  Confirmed(p, t, k, h)'
  <1>1. /\ t \in Int /\ currentTerm[p] \in Int /\ currentTerm'[p] \in Int
        /\ log[p] \in Seq(Entry) /\ log'[p] \in Seq(Entry)
        /\ g[t] \in Seq(Entry) /\ h[t] \in Seq(Entry)
    BY BoundAssumption DEF TypeOK, Term, Logs
  <1>2. t <= currentTerm'[p]
    BY <1>1 DEF Confirmed
  <1>3. ASSUME t = currentTerm'[p]
        PROVE  /\ Share(log'[p], h[t], k)
               /\ \A a \in parkedAppends' : a.call.to = p => a.call.term = t
    <2>1. t = currentTerm[p]
      BY <1>1, <1>3 DEF Confirmed
    <2>2. Share(log[p], g[t], k) /\ \A a \in parkedAppends : a.call.to = p => a.call.term = t
      BY <2>1 DEF Confirmed
    <2>3. Extends(g[t], h[t])
      BY DEF Grows
    <2>4. Share(log'[p], h[t], k)
      BY <1>1, <2>2, <2>3, ShareGrows
    <2> QED  BY <1>3, <2>2, <2>4
  <1> QED  BY <1>2, <1>3 DEF Confirmed

\* Nothing appended is an extension, too.
LEMMA ExtendsSelf == /\ \A l \in Seq(Entry) : Extends(l, l)
                     /\ \A g \in Logs : Grows(g, g)
  BY DEF Extends, Grows, Logs

\* Steps in which no log is truncated: the logs, the leaders' logs and the terms
\* grow, and what is new comes from the leaders' logs.
LogGrows(g, h) ==
    /\ Grows(g, h)
    /\ \A n \in Node : Extends(log[n], log'[n]) /\ currentTerm[n] <= currentTerm'[n]
    /\ \A n \in Node : role'[n] = "LEADER" => log'[n] = h[currentTerm'[n]]
    /\ \A t \in Term : leaders'[t] = {} => h[t] = <<>>
    /\ \A n \in Node : Grounded(log'[n], h)
    /\ \A t \in Term : Grounded(h[t], h)
    /\ \A c \in aeCalls' : c \in aeCalls \/ Slice(c, h)
    /\ \A a \in parkedAppends' :
          \/ a \in parkedAppends
          \/ a.call \in aeCalls /\ a.call.term = currentTerm'[a.call.to]
    /\ \A r \in aeReplies' : r \in aeReplies \/ ~Confirms(r)
    /\ \A n \in Node : \A p \in Peers(n) :
          role'[n] = "LEADER" /\ matchIndex'[n][p] > 0 =>
              /\ currentTerm'[n] = currentTerm[n]
              /\ Confirmed(p, currentTerm[n], matchIndex'[n][p], g)

\* Such a step keeps the invariant.
LEMMA LogGrowsKeeps ==
    ASSUME TypeOK, TypeOK', NEW g \in Logs, NEW h \in Logs, LogInv(g), LogGrows(g, h)
    PROVE  LogInv(h)'
  <1>1. ASSUME NEW p \in Node, NEW t \in Term, NEW k \in Nat, Confirmed(p, t, k, g)
        PROVE  Confirmed(p, t, k, h)'
    <2>1. /\ Extends(log[p], log'[p]) /\ Grows(g, h) /\ currentTerm[p] <= currentTerm'[p]
          /\ \A a \in parkedAppends' :
               a.call.to = p => a \in parkedAppends \/ a.call.term = currentTerm'[p]
      BY DEF LogGrows
    <2> QED  BY <1>1, <2>1, ConfirmedKept
  <1>2. \A c \in aeCalls' : Slice(c, h)
    <2>1. \A c \in aeCalls : Slice(c, g) /\ c \in AppendEntries
      BY LogTypes DEF LogInv
    <2> QED  BY <2>1, SliceGrows DEF LogGrows
  <1>3. \A a \in parkedAppends' : Slice(a.call, h)
    <2>1. /\ \A a \in parkedAppends : Slice(a.call, g) /\ a.call \in AppendEntries
          /\ \A c \in aeCalls : Slice(c, g) /\ c \in AppendEntries
      BY LogTypes DEF LogInv
    <2> QED  BY <2>1, SliceGrows DEF LogGrows
  <1>4. \A r \in aeReplies' :
          Confirms(r) => Confirmed(r.to, r.term, r.nextIdx + r.entriesCount - 1, h)'
    BY <1>1, LogTypes DEF LogGrows, LogInv
  <1>5. ASSUME NEW n \in Node, NEW p \in Peers(n), role'[n] = "LEADER", matchIndex'[n][p] > 0
        PROVE  Confirmed(p, currentTerm[n], matchIndex[n][p], h)'
    <2>1. currentTerm'[n] = currentTerm[n] /\ Confirmed(p, currentTerm[n], matchIndex'[n][p], g)
      BY <1>5 DEF LogGrows
    <2>2. p \in Node /\ currentTerm[n] \in Term /\ matchIndex'[n][p] \in Nat
      BY DEF Peers, TypeOK
    <2>3. PICK t \in Term : t = currentTerm[n]
      BY <2>2
    <2>4. PICK k \in Nat : k = matchIndex'[n][p]
      BY <2>2
    <2>5. Confirmed(p, t, k, h)'
      BY <1>1, <2>1, <2>2, <2>3, <2>4
    <2> QED  BY <2>1, <2>3, <2>4, <2>5
  <1> QED  BY <1>2, <1>3, <1>4, <1>5 DEF LogInv, LogGrows

\* A quiet step keeps the invariant, with the same leaders' logs.
LEMMA QuietLog ==
    ASSUME TypeOK, TypeOK', NEW g \in Logs, LogInv(g), Quiet(g)
    PROVE  LogInv(g)'
  <1>1. /\ Grows(g, g) /\ \A n \in Node : Extends(log[n], log'[n])
    BY ExtendsSelf, LogTypes DEF Quiet
  <1>2. ASSUME NEW n \in Node, NEW p \in Peers(n), role'[n] = "LEADER", matchIndex'[n][p] > 0
        PROVE  /\ currentTerm'[n] = currentTerm[n]
               /\ Confirmed(p, currentTerm[n], matchIndex'[n][p], g)
    BY <1>2 DEF Quiet, LogInv
  <1>3. \A a \in parkedAppends' : a \in parkedAppends
    BY DEF Quiet
  <1>4. \A n \in Node : role'[n] = "LEADER" => log'[n] = g[currentTerm'[n]]
    BY DEF Quiet, LogInv
  <1>5. LogGrows(g, g)
    BY <1>1, <1>2, <1>3, <1>4 DEF LogGrows, Quiet, LogInv
  <1> QED  BY <1>5, LogGrowsKeeps

-----------------------------------------------------------------------------
(***************************************************************************)
(* The actions that disturb no log and elect nobody.                       *)
(***************************************************************************)

\* Terms grow, no handler enters the gap, and a node whose handler is there
\* does not stand for election.
Tame ==
    /\ parkedAppends' \subseteq parkedAppends
    /\ \A n \in Node : /\ currentTerm[n] <= currentTerm'[n]
                       /\ role[n] = "FOLLOWER" => role'[n] = "FOLLOWER" \/ ServerFree(n)

\* A tame step keeps the invariant on the gap.
LEMMA TameGap ==
    ASSUME TypeOK, TypeOK', GapInv, Tame
    PROVE  GapInv'
  <1>1. ASSUME NEW a \in parkedAppends'
        PROVE  role'[a.call.to] = "FOLLOWER" /\ a.call.term <= currentTerm'[a.call.to]
    <2>1. a \in parkedAppends /\ ~ServerFree(a.call.to)
      BY DEF Tame, ServerFree
    <2>2. a.call.to \in Node /\ a.call.term \in Int /\ currentTerm[a.call.to] \in Int
      BY <2>1, LogTypes
    <2>3. currentTerm'[a.call.to] \in Int
      BY <2>2, BoundAssumption DEF TypeOK, Term
    <2> QED  BY <2>1, <2>2, <2>3 DEF Tame, GapInv
  <1> QED  BY <1>1 DEF GapInv, Tame

\* Stepping down, in the same term or a later one.
LEMMA FollowerRoles ==
    ASSUME TypeOK, NEW n \in Node, NEW term \in Term, currentTerm[n] <= term,
           becomeFollower(n, term)
    PROVE  \A m \in Node : /\ currentTerm[m] <= currentTerm'[m]
                           /\ role[m] = "FOLLOWER" => role'[m] = "FOLLOWER"
                           /\ role'[m] = "LEADER" => /\ role[m] = "LEADER"
                                                     /\ currentTerm'[m] = currentTerm[m]
  <1>1. /\ \A m \in Node : currentTerm[m] \in Int
        /\ term \in Int /\ currentTerm \in [Node -> Term] /\ role \in [Node -> Role]
    BY BoundAssumption DEF TypeOK, Term
  <1> QED  BY <1>1 DEF becomeFollower

\* The calls of a leader of term are pieces of its log l.
LEMMA NewCalls ==
    ASSUME TypeOK, NEW n \in Node, NEW term \in Term, NEW l \in Seq(Entry),
           NEW next \in [Node -> Nat \ {0}], NEW g \in Logs, g[term] = l,
           NEW c \in AppendCalls(n, term, l, next)
    PROVE  Slice(c, g)
  <1>1. PICK p \in Node : c = AppendCall(n, p, term, l, next[p])
    BY DEF AppendCalls, Peers
  <1>2. PICK k \in Nat : k = next[p] /\ k >= 1
    OBVIOUS
  <1>3. PICK last \in Int : last = Smaller(Len(l), k + MAX_ENTRIES_PER_RPC - 1) /\ last <= Len(l)
    <2>1. /\ Smaller(Len(l), k + MAX_ENTRIES_PER_RPC - 1) \in Int
          /\ Smaller(Len(l), k + MAX_ENTRIES_PER_RPC - 1) <= Len(l)
      BY <1>2, BatchAssumption DEF Smaller
    <2> QED  BY <2>1
  <1>4. /\ c.prevLogIndex = k - 1 /\ c.term = term
        /\ c.prevLogTerm = (IF k - 1 \in 1..Len(l) THEN l[k - 1].term ELSE 0)
        /\ c.entries = SubSeq(l, k, last)
    BY <1>1, <1>2, <1>3 DEF AppendCall
  <1>5. CASE k <= last
    <2>1. /\ Len(c.entries) = last - k + 1
          /\ \A j \in 1..(last - k + 1) : c.entries[j] = l[k + j - 1]
      <3> HIDE DEF AppendCall
      <3>1. k \in 1..Len(l) /\ last \in k..Len(l)
        BY <1>2, <1>3, <1>5
      <3> QED  BY <1>4, <3>1
    <2>2. c.prevLogIndex + Len(c.entries) <= Len(l)
      BY <1>2, <1>3, <1>4, <2>1
    <2>3. c.prevLogIndex > 0 => c.prevLogTerm = l[c.prevLogIndex].term
      BY <1>2, <1>3, <1>4, <1>5
    <2>4. ASSUME NEW j \in 1..Len(c.entries) PROVE c.entries[j] = l[c.prevLogIndex + j]
      <3>1. c.prevLogIndex + j = k + j - 1
        BY <1>2, <1>3, <1>4, <2>1
      <3> QED  BY <2>1, <3>1
    <2> QED  BY <1>4, <2>2, <2>3, <2>4 DEF Slice, PieceOf
  <1>6. CASE ~(k <= last)
    <2>1. c.entries = <<>>
      BY <1>2, <1>3, <1>4, <1>6
    <2> QED  BY <2>1 DEF Slice
  <1> QED  BY <1>5, <1>6

\* The quiet actions of elections.
LEMMA QuietVotes ==
    ASSUME TypeOK, TypeOK', QuietStep, NEW g \in Logs
    PROVE  /\ \A n \in Node : startElectionAmong(n) => Quiet(g) /\ Tame
           /\ \A c \in rvCalls : rejectRequestVote(c) => Quiet(g) /\ Tame
           /\ \A c \in rvCalls : parkRequestVote(c) => Quiet(g) /\ Tame
           /\ \A c \in rvCalls : onRequestVote(c) => Quiet(g) /\ Tame
           /\ \A c \in parkedVotes : resumeRequestVote(c) => Quiet(g) /\ Tame
           /\ \A r \in rvReplies : voteReplyStepDown(r) => Quiet(g) /\ Tame
           /\ \A r \in rvReplies : voteReplyIgnored(r) => Quiet(g) /\ Tame
           /\ \A r \in rvReplies : voteReplyCounted(r) /\ role' = role => Quiet(g) /\ Tame
           /\ \A c \in rvCalls : LoseVoteCall(c) => Quiet(g) /\ Tame
           /\ \A r \in rvReplies : LoseVoteReply(r) => Quiet(g) /\ Tame
  <1> USE DEF termVars, logVars, leaderVars, voteVars, aeVars, gapVars
  <1>0. /\ \A n \in Node : currentTerm[n] \in Term /\ currentTerm[n] \in Int
        /\ \A c \in rvCalls : c.to \in Node /\ c.term \in Term /\ c.term \in Int
        /\ \A r \in rvReplies : r.from \in Node /\ r.respTerm \in Term /\ r.respTerm \in Int
        /\ currentTerm \in [Node -> Term] /\ role \in [Node -> Role]
    <2>1. \A t \in Term : t \in Int
      BY BoundAssumption DEF Term
    <2>2. \A c \in rvCalls : c.to \in Node /\ c.term \in Term
      BY DEF TypeOK, RequestVote
    <2>3. \A r \in rvReplies : r.from \in Node /\ r.respTerm \in Term
      BY DEF TypeOK, RequestVoteReply
    <2> QED  BY <2>1, <2>2, <2>3 DEF TypeOK
  <1>1. ASSUME UNCHANGED <<currentTerm, role, log, leaderVars, leaders, aeVars, parkedAppends>>
        PROVE  Quiet(g) /\ Tame
    BY <1>0, <1>1 DEF Quiet, Tame
  <1>2. ASSUME NEW n \in Node, NEW term \in Term, term > currentTerm[n], becomeFollower(n, term),
               UNCHANGED <<log, leaderVars, leaders, aeVars, parkedAppends>>
        PROVE  Quiet(g) /\ Tame
    <2>1. currentTerm[n] <= term
      BY <1>0, <1>2, BoundAssumption DEF Term
    <2>2. \A m \in Node : /\ currentTerm[m] <= currentTerm'[m]
                          /\ role[m] = "FOLLOWER" => role'[m] = "FOLLOWER"
                          /\ role'[m] = "LEADER" => /\ role[m] = "LEADER"
                                                    /\ currentTerm'[m] = currentTerm[m]
      BY <1>2, <2>1, FollowerRoles
    <2> QED  BY <1>2, <2>2 DEF Quiet, Tame
  <1>3. ASSUME NEW n \in Node, startElectionAmong(n) PROVE Quiet(g) /\ Tame
    <2>1. /\ ServerFree(n) /\ role' = [role EXCEPT ![n] = "CANDIDATE"]
          /\ currentTerm' = [currentTerm EXCEPT ![n] = @ + 1]
          /\ UNCHANGED <<log, leaderVars, leaders, aeVars, parkedAppends>>
      BY <1>3 DEF startElectionAmong, startElection, requestVotes, QuietStep
    <2>2. \A m \in Node : /\ currentTerm[m] <= currentTerm'[m]
                          /\ role'[m] = "LEADER" => /\ role[m] = "LEADER"
                                                    /\ currentTerm'[m] = currentTerm[m]
                          /\ role[m] = "FOLLOWER" => role'[m] = "FOLLOWER" \/ ServerFree(m)
      BY <1>0, <2>1
    <2> QED  BY <2>1, <2>2 DEF Quiet, Tame
  <1>4. ASSUME NEW c \in rvCalls, onRequestVote(c) PROVE Quiet(g) /\ Tame
    <2>1. /\ c.term >= currentTerm[c.to]
          /\ c.term > currentTerm[c.to] => role[c.to] # "LEADER"
          /\ currentTerm' = [currentTerm EXCEPT ![c.to] = c.term]
          /\ role' = [role EXCEPT ![c.to] = IF c.term > currentTerm[c.to] THEN "FOLLOWER" ELSE @]
          /\ UNCHANGED <<log, leaderVars, leaders, aeVars, parkedAppends>>
      BY <1>4 DEF onRequestVote
    <2>2. \A m \in Node : /\ currentTerm[m] <= currentTerm'[m]
                          /\ role[m] = "FOLLOWER" => role'[m] = "FOLLOWER"
                          /\ role'[m] = "LEADER" => /\ role[m] = "LEADER"
                                                    /\ currentTerm'[m] = currentTerm[m]
      BY <1>0, <2>1
    <2> QED  BY <2>1, <2>2 DEF Quiet, Tame
  <1>5. ASSUME NEW c \in rvCalls, parkRequestVote(c) PROVE Quiet(g) /\ Tame
    BY <1>0, <1>2, <1>5 DEF parkRequestVote
  <1>6. ASSUME NEW r \in rvReplies, voteReplyStepDown(r) PROVE Quiet(g) /\ Tame
    BY <1>0, <1>2, <1>6 DEF voteReplyStepDown
  <1>7. ASSUME NEW r \in rvReplies, voteReplyCounted(r), role' = role PROVE Quiet(g) /\ Tame
    <2>1. ~becomeLeaderInternal(r.from, currentTerm[r.from])
      <3> SUFFICES ASSUME role' = [role EXCEPT ![r.from] = "LEADER"],
                          role[r.from] = "CANDIDATE"
                   PROVE  FALSE
        BY <1>7 DEF becomeLeaderInternal, voteReplyCounted, OutdatedVote
      <3> QED  BY <1>0, <1>7
    <2> QED  BY <1>1, <1>7, <2>1 DEF voteReplyCounted
  <1>8. \A c \in rvCalls : rejectRequestVote(c) => Quiet(g) /\ Tame
    BY <1>1 DEF rejectRequestVote
  <1>9. \A c \in parkedVotes : resumeRequestVote(c) => Quiet(g) /\ Tame
    BY <1>1 DEF resumeRequestVote
  <1>10. \A r \in rvReplies : voteReplyIgnored(r) => Quiet(g) /\ Tame
    BY <1>1 DEF voteReplyIgnored
  <1>11. /\ \A c \in rvCalls : LoseVoteCall(c) => Quiet(g) /\ Tame
         /\ \A r \in rvReplies : LoseVoteReply(r) => Quiet(g) /\ Tame
    BY <1>1 DEF LoseVoteCall, LoseVoteReply
  <1> QED  BY <1>3, <1>4, <1>5, <1>6, <1>7, <1>8, <1>9, <1>10, <1>11

\* The quiet actions of log replication.
LEMMA QuietAppends ==
    ASSUME TypeOK, TypeOK', NEW g \in Logs, LogInv(g)
    PROVE  /\ \A n \in Node : sendHeartbeatsInternal(n) => Quiet(g) /\ Tame
           /\ \A c \in aeCalls : rejectAppendEntries(c) => Quiet(g) /\ Tame
           /\ \A r \in aeReplies : appendReplyStepDown(r) => Quiet(g) /\ Tame
           /\ \A r \in aeReplies : appendReplyIgnored(r) => Quiet(g) /\ Tame
           /\ \A r \in aeReplies : appendReplyFailure(r) => Quiet(g) /\ Tame
           /\ \A c \in aeCalls : LoseAppendCall(c) => Quiet(g) /\ Tame
           /\ \A r \in aeReplies : LoseAppendReply(r) => Quiet(g) /\ Tame
           /\ UNCHANGED vars => Quiet(g) /\ Tame
  <1> USE DEF termVars, logVars, leaderVars, voteVars, aeVars, gapVars
  <1>1. ASSUME UNCHANGED <<termVars, log, matchIndex, leaders, parkedAppends>>,
               \A c \in aeCalls' : c \in aeCalls \/ Slice(c, g),
               \A r \in aeReplies' : r \in aeReplies \/ ~Confirms(r)
        PROVE  Quiet(g) /\ Tame
    BY <1>1, LogTypes DEF Quiet, Tame
  <1>2. ASSUME NEW n \in Node, sendHeartbeatsInternal(n) PROVE Quiet(g) /\ Tame
    <2>1. /\ log[n] = g[currentTerm[n]] /\ currentTerm[n] \in Term /\ log[n] \in Seq(Entry)
          /\ nextIndex[n] \in [Node -> Nat \ {0}]
      BY <1>2 DEF sendHeartbeatsInternal, LogInv, TypeOK
    <2>2. \A c \in AppendCalls(n, currentTerm[n], log[n], nextIndex[n]) : Slice(c, g)
      BY <2>1, NewCalls
    <2>3. \A c \in aeCalls' : c \in aeCalls \/ Slice(c, g)
      BY <1>2, <2>2 DEF sendHeartbeatsInternal, Connect
    <2> QED  BY <1>1, <1>2, <2>3 DEF sendHeartbeatsInternal
  <1>3. ASSUME NEW c \in aeCalls, rejectAppendEntries(c) PROVE Quiet(g) /\ Tame
    <2>1. \A r \in aeReplies' : r \in aeReplies \/ ~Confirms(r)
      BY <1>3 DEF rejectAppendEntries, AppendReply, Confirms
    <2> QED  BY <1>1, <1>3, <2>1 DEF rejectAppendEntries
  <1>4. ASSUME NEW r \in aeReplies, appendReplyStepDown(r) PROVE Quiet(g) /\ Tame
    <2>1. /\ r.from \in Node /\ r.respTerm \in Term /\ currentTerm[r.from] <= r.respTerm
          /\ becomeFollower(r.from, r.respTerm)
      <3>1. r.from \in Node /\ r.respTerm \in Term
        BY DEF TypeOK, AppendEntriesReply
      <3> QED  BY <1>4, <3>1, LogTypes DEF appendReplyStepDown
    <2>2. \A m \in Node : /\ currentTerm[m] <= currentTerm'[m]
                          /\ role[m] = "FOLLOWER" => role'[m] = "FOLLOWER"
                          /\ role'[m] = "LEADER" => /\ role[m] = "LEADER"
                                                    /\ currentTerm'[m] = currentTerm[m]
      BY <2>1, FollowerRoles
    <2> QED  BY <1>4, <2>2 DEF appendReplyStepDown, Quiet, Tame
  <1>5. /\ \A r \in aeReplies : appendReplyIgnored(r) => Quiet(g) /\ Tame
        /\ \A r \in aeReplies : appendReplyFailure(r) => Quiet(g) /\ Tame
        /\ \A c \in aeCalls : LoseAppendCall(c) => Quiet(g) /\ Tame
        /\ \A r \in aeReplies : LoseAppendReply(r) => Quiet(g) /\ Tame
    BY <1>1 DEF appendReplyIgnored, appendReplyFailure, LoseAppendCall, LoseAppendReply
  <1>6. UNCHANGED vars => Quiet(g) /\ Tame
    BY <1>1 DEF vars
  <1> QED  BY <1>2, <1>3, <1>4, <1>5, <1>6

-----------------------------------------------------------------------------
(***************************************************************************)
(* The actions that add to the logs or to what is known of them.           *)
(***************************************************************************)

\* onAppendEntries() of a leader, up to the gap.
LEMMA ParkLog ==
    ASSUME TypeOK, TypeOK', GapInv, NEW g \in Logs, LogInv(g), NEW c \in aeCalls,
           parkAppendEntries(c)
    PROVE  GapInv' /\ LogInv(g)'
  <1>1. /\ ServerFree(c.to) /\ ~RejectsAppend(c.to, c) /\ becomeFollower(c.to, c.term)
        /\ aeCalls' = aeCalls \ {c}
        /\ parkedAppends' = parkedAppends \cup {[call |-> c, respTerm |-> currentTerm[c.to]]}
        /\ log' = log /\ matchIndex' = matchIndex /\ leaders' = leaders /\ aeReplies' = aeReplies
    BY DEF parkAppendEntries, logVars, leaderVars
  <1>2. /\ c.to \in Node /\ c.term \in Term /\ c.term \in Int /\ currentTerm[c.to] \in Int
        /\ currentTerm[c.to] <= c.term
    BY <1>1, LogTypes DEF RejectsAppend
  <1>3. \A m \in Node : /\ currentTerm[m] <= currentTerm'[m]
                        /\ role[m] = "FOLLOWER" => role'[m] = "FOLLOWER"
                        /\ role'[m] = "LEADER" => /\ role[m] = "LEADER"
                                                  /\ currentTerm'[m] = currentTerm[m]
    BY <1>1, <1>2, FollowerRoles
  <1>4. role'[c.to] = "FOLLOWER" /\ currentTerm'[c.to] = c.term
    BY <1>1, <1>2 DEF becomeFollower, TypeOK
  <1>5. PICK new : new = [call |-> c, respTerm |-> currentTerm[c.to]]
    OBVIOUS
  <1>6. new.call = c /\ parkedAppends' = parkedAppends \cup {new}
    BY <1>1, <1>5
  <1>7. \A a \in parkedAppends : /\ a.call.to \in Node /\ a.call.to # c.to
                                 /\ a.call.term \in Int /\ currentTerm[a.call.to] \in Int
                                 /\ currentTerm'[a.call.to] \in Int
    <2>1. \A a \in parkedAppends : /\ a.call.to \in Node /\ a.call.term \in Int
                                   /\ currentTerm[a.call.to] \in Int
      BY LogTypes
    <2>2. \A m \in Node : currentTerm'[m] \in Int
      BY BoundAssumption DEF TypeOK, Term
    <2> QED  BY <1>1, <2>1, <2>2 DEF ServerFree
  <1>8. GapInv'
    <2>1. ASSUME NEW a \in parkedAppends'
          PROVE  role'[a.call.to] = "FOLLOWER" /\ a.call.term <= currentTerm'[a.call.to]
      <3>1. CASE a = new
        BY <1>2, <1>4, <1>6, <3>1
      <3>2. CASE a \in parkedAppends
        BY <1>3, <1>7, <3>2 DEF GapInv
      <3> QED  BY <1>6, <3>1, <3>2
    <2>2. \A a, b \in parkedAppends' : a.call.to = b.call.to => a = b
      BY <1>6, <1>7 DEF GapInv
    <2> QED  BY <2>1, <2>2 DEF GapInv
  <1>9. \A a \in parkedAppends' :
           \/ a \in parkedAppends
           \/ a.call \in aeCalls /\ a.call.term = currentTerm'[a.call.to]
    BY <1>4, <1>6
  <1>10. Grows(g, g) /\ \A n \in Node : Extends(log[n], log'[n])
    BY <1>1, ExtendsSelf, LogTypes
  <1>11. \A n \in Node : \A p \in Peers(n) : role'[n] = "LEADER" /\ matchIndex'[n][p] > 0 =>
            currentTerm'[n] = currentTerm[n] /\ Confirmed(p, currentTerm[n], matchIndex'[n][p], g)
    BY <1>1, <1>3 DEF LogInv
  <1>12. \A n \in Node : role'[n] = "LEADER" => log'[n] = g[currentTerm'[n]]
    BY <1>1, <1>3 DEF LogInv
  <1>13. LogGrows(g, g)
    BY <1>1, <1>3, <1>9, <1>10, <1>11, <1>12 DEF LogGrows, LogInv
  <1> QED  BY <1>8, <1>13, LogGrowsKeeps

\* becomeLeaderInternal() in a term without a leader: the log of the new leader
\* is the term's from now on.
LEMMA WinLog ==
    ASSUME TypeOK, TypeOK', ElectionInv, ElectionInv', NEW g \in Logs, LogInv(g),
           NEW n \in Node, NEW t \in Term, n \notin leaders[t], currentTerm[n] <= t,
           currentTerm' = [currentTerm EXCEPT ![n] = t],
           becomeLeaderInternal(n, t),
           log' = log, aeReplies' = aeReplies, parkedAppends' = parkedAppends
    PROVE  /\ leaders[t] = {}
           /\ \E h \in Logs : h = [g EXCEPT ![t] = log[n]] /\ Grows(g, h) /\ LogInv(h)'
  <1>1. /\ role' = [role EXCEPT ![n] = "LEADER"]
        /\ matchIndex' = [matchIndex EXCEPT ![n] = [p \in Node |-> 0]]
        /\ leaders' = [leaders EXCEPT ![t] = @ \cup {n}]
        /\ \E S \in Connect(AppendCalls(n, t, log[n], [p \in Node |-> Len(log[n]) + 1])) :
              aeCalls' = aeCalls \cup S
    BY DEF becomeLeaderInternal
  <1>2. /\ leaders \in [Term -> SUBSET Node] /\ role \in [Node -> Role]
        /\ currentTerm \in [Node -> Term] /\ matchIndex \in [Node -> [Node -> Nat]]
        /\ log[n] \in Seq(Entry) /\ g \in [Term -> Seq(Entry)]
        /\ \A m \in Node : currentTerm[m] \in Int
    BY LogTypes DEF TypeOK, Logs
  <1>3. leaders[t] = {}
    <2>1. \A m \in leaders[t] : m \in leaders'[t] /\ n \in leaders'[t]
      BY <1>1, <1>2
    <2> QED  BY <2>1 DEF ElectionInv, ElectionSafety
  <1>4. g[t] = <<>>
    BY <1>3 DEF LogInv
  <1>5. PICK h : h = [g EXCEPT ![t] = log[n]]
    OBVIOUS
  <1>6. h \in Logs /\ h[t] = log[n] /\ \A u \in Term : u # t => h[u] = g[u]
    BY <1>2, <1>5 DEF Logs
  <1>7. Grows(g, h)
    <2>1. Extends(g[t], h[t])
      BY <1>2, <1>4, <1>6 DEF Extends
    <2>2. \A u \in Term : u # t => Extends(g[u], h[u])
      BY <1>2, <1>6 DEF Extends
    <2> QED  BY <2>1, <2>2 DEF Grows
  <1>8. \A m \in Node : Extends(log[m], log'[m]) /\ currentTerm[m] <= currentTerm'[m]
    BY <1>2, ExtendsSelf, LogTypes
  <1>9. ASSUME NEW m \in Node, role'[m] = "LEADER" PROVE log'[m] = h[currentTerm'[m]]
    <2>1. CASE m = n
      BY <1>2, <1>6, <2>1
    <2>2. CASE m # n
      <3>1. role[m] = "LEADER" /\ currentTerm'[m] = currentTerm[m]
        BY <1>1, <1>2, <1>9, <2>2
      <3>2. m \in leaders[currentTerm[m]]
        BY <3>1 DEF ElectionInv, RolesInv
      <3>3. currentTerm[m] # t /\ currentTerm[m] \in Term
        BY <1>2, <1>3, <3>2
      <3> QED  BY <1>6, <3>1, <3>3 DEF LogInv
    <2> QED  BY <2>1, <2>2
  <1>10. \A u \in Term : leaders'[u] = {} => h[u] = <<>>
    BY <1>1, <1>2, <1>6 DEF LogInv
  <1>11. \A m \in Node : Grounded(log'[m], h)
    BY <1>6, <1>7, GroundedGrows, LogTypes DEF LogInv
  <1>12. ASSUME NEW u \in Term PROVE Grounded(h[u], h)
    <2>1. CASE u = t
      BY <1>6, <1>11, <2>1
    <2>2. CASE u # t
      BY <1>2, <1>6, <1>7, <2>2, GroundedGrows DEF LogInv
    <2> QED  BY <2>1, <2>2
  <1>13. \A c \in aeCalls' : c \in aeCalls \/ Slice(c, h)
    <2>1. [p \in Node |-> Len(log[n]) + 1] \in [Node -> Nat \ {0}]
      BY <1>2
    <2>2. \A c \in AppendCalls(n, t, log[n], [p \in Node |-> Len(log[n]) + 1]) : Slice(c, h)
      BY <1>2, <1>6, <2>1, NewCalls
    <2> QED  BY <1>1, <2>2 DEF Connect
  <1>14. ASSUME NEW m \in Node, NEW p \in Peers(m), role'[m] = "LEADER", matchIndex'[m][p] > 0
         PROVE  /\ currentTerm'[m] = currentTerm[m]
                /\ Confirmed(p, currentTerm[m], matchIndex'[m][p], g)
    <2>1. m # n
      BY <1>1, <1>2, <1>14 DEF Peers
    <2>2. role[m] = "LEADER" /\ currentTerm'[m] = currentTerm[m] /\ matchIndex'[m] = matchIndex[m]
      BY <1>1, <1>2, <1>14, <2>1
    <2> QED  BY <1>14, <2>2 DEF LogInv
  <1>15. LogGrows(g, h)
    BY <1>7, <1>8, <1>9, <1>10, <1>11, <1>12, <1>13, <1>14 DEF LogGrows
  <1>16. LogInv(h)'
    BY <1>6, <1>15, LogGrowsKeeps
  <1> QED  BY <1>3, <1>5, <1>6, <1>7, <1>16

\* submitCommand() appends to the leader's log and to nobody else's.
LEMMA SubmitLog ==
    ASSUME TypeOK, TypeOK', ElectionInv, NEW g \in Logs, LogInv(g),
           NEW n \in Node, NEW cmd \in Command, submitCommand(n, cmd)
    PROVE  \E h \in Logs : /\ h = [g EXCEPT ![currentTerm[n]] = log'[n]]
                          /\ Grows(g, h) /\ LogInv(h)'
  <1>1. PICK t \in Term : t = currentTerm[n]
    BY LogTypes
  <1>2. PICK e \in Entry : e = [term |-> t, command |-> cmd]
    BY DEF Entry
  <1>3. PICK l \in Seq(Entry) : l = Append(log[n], e)
    <2>1. log[n] \in Seq(Entry)
      BY LogTypes
    <2>2. Append(log[n], e) \in Seq(Entry)
      BY <2>1
    <2> QED  BY <2>2
  <1>4. /\ role[n] = "LEADER" /\ log' = [log EXCEPT ![n] = l]
        /\ \E S \in Connect(AppendCalls(n, t, l, nextIndex[n])) : aeCalls' = aeCalls \cup S
        /\ UNCHANGED <<currentTerm, role, matchIndex, leaders, aeReplies, parkedAppends>>
    BY <1>1, <1>2, <1>3 DEF submitCommand, termVars, leaderVars, voteVars, gapVars
  <1>5. /\ log \in [Node -> Seq(Entry)] /\ log[n] \in Seq(Entry) /\ g \in [Term -> Seq(Entry)]
        /\ \A m \in Node : currentTerm[m] \in Int /\ currentTerm[m] \in Term
        /\ nextIndex[n] \in [Node -> Nat \ {0}]
    BY LogTypes DEF TypeOK, Logs
  <1>6. g[t] = log[n] /\ n \in leaders[t]
    BY <1>1, <1>4 DEF LogInv, ElectionInv, RolesInv
  <1>7. PICK h : h = [g EXCEPT ![t] = l]
    OBVIOUS
  <1>8. h \in Logs /\ h[t] = l /\ \A u \in Term : u # t => h[u] = g[u]
    BY <1>5, <1>7 DEF Logs
  <1>9. Extends(log[n], l) /\ Len(l) = Len(log[n]) + 1 /\ l[Len(l)] = e
    BY <1>3, <1>5 DEF Extends
  <1>10. Grows(g, h)
    BY <1>5, <1>6, <1>8, <1>9, ExtendsSelf DEF Grows
  <1>11. \A m \in Node : /\ log'[m] = (IF m = n THEN l ELSE log[m])
                         /\ Extends(log[m], log'[m]) /\ currentTerm[m] <= currentTerm'[m]
    BY <1>4, <1>5, <1>9, ExtendsSelf
  <1>12. ASSUME NEW m \in Node, role'[m] = "LEADER" PROVE log'[m] = h[currentTerm'[m]]
    <2>1. CASE m = n
      BY <1>1, <1>4, <1>8, <1>11, <2>1
    <2>2. CASE m # n
      <3>1. role[m] = "LEADER" /\ currentTerm'[m] = currentTerm[m] /\ m \in leaders[currentTerm[m]]
        BY <1>4, <1>12 DEF ElectionInv, RolesInv
      <3>2. currentTerm[m] # t
        BY <1>6, <2>2, <3>1 DEF ElectionInv, ElectionSafety
      <3> QED  BY <1>5, <1>8, <1>11, <2>2, <3>1, <3>2 DEF LogInv
    <2> QED  BY <2>1, <2>2
  <1>13. \A u \in Term : leaders'[u] = {} => h[u] = <<>>
    BY <1>4, <1>6, <1>8 DEF LogInv
  <1>14. Grounded(l, h)
    <2> SUFFICES ASSUME NEW i \in 1..Len(l)
                 PROVE  i <= Len(h[l[i].term]) /\ \A j \in 1..i : l[j] = h[l[i].term][j]
      BY DEF Grounded
    <2>1. CASE i = Len(l)
      BY <1>2, <1>8, <1>9, <2>1
    <2>2. CASE i # Len(l)
      <3>1. i \in 1..Len(log[n]) /\ \A j \in 1..i : l[j] = log[n][j]
        BY <1>5, <1>9, <2>2 DEF Extends
      <3>2. Grounded(log[n], h)
        BY <1>5, <1>8, <1>10, GroundedGrows DEF LogInv
      <3> QED  BY <3>1, <3>2 DEF Grounded
    <2> QED  BY <2>1, <2>2
  <1>15. \A m \in Node : Grounded(log'[m], h)
    BY <1>5, <1>8, <1>10, <1>11, <1>14, GroundedGrows DEF LogInv
  <1>16. \A u \in Term : Grounded(h[u], h)
    BY <1>5, <1>8, <1>10, <1>14, GroundedGrows DEF LogInv
  <1>17. \A c \in aeCalls' : c \in aeCalls \/ Slice(c, h)
    <2>1. \A c \in AppendCalls(n, t, l, nextIndex[n]) : Slice(c, h)
      BY <1>5, <1>8, NewCalls
    <2> QED  BY <1>4, <2>1 DEF Connect
  <1>18. \A m \in Node : \A p \in Peers(m) : role'[m] = "LEADER" /\ matchIndex'[m][p] > 0 =>
            currentTerm'[m] = currentTerm[m] /\ Confirmed(p, currentTerm[m], matchIndex'[m][p], g)
    BY <1>4 DEF LogInv
  <1>19. LogGrows(g, h)
    BY <1>4, <1>10, <1>11, <1>12, <1>13, <1>15, <1>16, <1>17, <1>18 DEF LogGrows
  <1>20. LogInv(h)'
    BY <1>8, <1>19, LogGrowsKeeps
  <1>21. log'[n] = l
    BY <1>11
  <1> QED  BY <1>1, <1>7, <1>8, <1>10, <1>20, <1>21

\* A confirmed batch: matchIndex is set to what the answer confirms.
LEMMA SuccessLog ==
    ASSUME TypeOK, TypeOK', NEW g \in Logs, LogInv(g), NEW r \in aeReplies,
           appendReplySuccess(r)
    PROVE  LogInv(g)'
  <1>1. /\ role[r.from] = "LEADER" /\ currentTerm[r.from] = r.term /\ Confirms(r)
        /\ matchIndex' = [matchIndex EXCEPT ![r.from] =
                            [matchIndex[r.from] EXCEPT ![r.to] = r.nextIdx + r.entriesCount - 1]]
        /\ aeReplies' = aeReplies \ {r}
        /\ UNCHANGED <<currentTerm, role, log, leaders, aeCalls, parkedAppends>>
    BY DEF appendReplySuccess, OutdatedAppend, Confirms, termVars, voteVars, gapVars
  <1>2. r.from \in Node /\ r.to \in Node /\ matchIndex \in [Node -> [Node -> Nat]]
    BY LogTypes DEF TypeOK
  <1>3. ASSUME NEW n \in Node, NEW p \in Peers(n), role'[n] = "LEADER", matchIndex'[n][p] > 0
        PROVE  /\ currentTerm'[n] = currentTerm[n]
               /\ Confirmed(p, currentTerm[n], matchIndex'[n][p], g)
    <2>1. p \in Node
      BY DEF Peers
    <2>2. CASE n = r.from /\ p = r.to
      <3>1. matchIndex'[n][p] = r.nextIdx + r.entriesCount - 1
        BY <1>1, <1>2, <2>2
      <3> QED  BY <1>1, <2>2, <3>1 DEF LogInv
    <2>3. CASE ~(n = r.from /\ p = r.to)
      <3>1. matchIndex'[n][p] = matchIndex[n][p]
        BY <1>1, <1>2, <2>1, <2>3
      <3> QED  BY <1>1, <1>3, <3>1 DEF LogInv
    <2> QED  BY <2>2, <2>3
  <1>4. Grows(g, g) /\ \A n \in Node : Extends(log[n], log'[n]) /\ currentTerm[n] <= currentTerm'[n]
    BY <1>1, ExtendsSelf, LogTypes
  <1>5. LogGrows(g, g)
    BY <1>1, <1>3, <1>4 DEF LogGrows, LogInv
  <1> QED  BY <1>5, LogGrowsKeeps

-----------------------------------------------------------------------------
(***************************************************************************)
(* The log part of onAppendEntries(), which may truncate the log.          *)
(***************************************************************************)

\* The handler's node is no leader and has no other handler in the gap; and if
\* the node has confirmed entries of its current term to somebody, the call is
\* one of the same term, so that nothing confirmed is truncated.
LEMMA ReplicateLog ==
    ASSUME TypeOK, TypeOK', NEW g \in Logs, LogInv(g),
           NEW c \in AppendEntries, NEW n \in Node, c.to = n, Slice(c, g),
           NEW term, NEW entryTerm, ReplicateEntries(n, c, term, entryTerm),
           matchIndex' = matchIndex, leaders' = leaders, aeCalls' \subseteq aeCalls,
           parkedAppends' \subseteq parkedAppends, \A a \in parkedAppends' : a.call.to # n,
           \A m \in Node :
               /\ currentTerm[m] <= currentTerm'[m]
               /\ role'[m] = "LEADER" => role[m] = "LEADER" /\ currentTerm'[m] = currentTerm[m],
           role'[n] # "LEADER", c.term <= currentTerm'[n],
           \A t \in Term, k \in Nat :
               Confirmed(n, t, k, g) /\ t = currentTerm'[n] => c.term = t
    PROVE  LogInv(g)'
  <1>1. /\ c.term \in Term /\ c.prevLogIndex \in Nat /\ c.entries \in Seq(Entry)
        /\ Len(c.entries) \in Nat /\ log[n] \in Seq(Entry) /\ log \in [Node -> Seq(Entry)]
        /\ g \in [Term -> Seq(Entry)]
    <2>1. /\ c.term \in Term /\ c.prevLogIndex \in Nat /\ c.entries \in Seq(Entry)
          /\ Len(c.entries) \in Nat
      BY DEF AppendEntries
    <2> QED  BY <2>1 DEF TypeOK, Logs
  <1>2. ASSUME log' = log, \A r \in aeReplies' : r \in aeReplies \/ ~Confirms(r)
        PROVE  LogInv(g)'
    <2>1. Quiet(g)
      BY <1>2 DEF Quiet
    <2> QED  BY <2>1, QuietLog
  <1>3. CASE ~LogMatches(log[n], c)
    <2>1. log' = log /\ \A r \in aeReplies' : r \in aeReplies \/ ~r.success
      BY <1>3 DEF ReplicateEntries, AppendReply, logVars
    <2> QED  BY <1>2, <2>1 DEF Confirms
  <1>4. CASE LogMatches(log[n], c) /\ c.entries = <<>>
    <2>1. MergeEntries(log[n], c) = log[n]
      BY <1>4 DEF MergeEntries, Agrees
    <2>2. log' = log
      <3>1. log' = [log EXCEPT ![n] = MergeEntries(log[n], c)]
        BY <1>4 DEF ReplicateEntries
      <3>2. log' = [log EXCEPT ![n] = log[n]]
        BY <2>1, <3>1
      <3> QED  BY <1>1, <3>2
    <2>3. \A r \in aeReplies' : r \in aeReplies \/ r.entriesCount = 0
      BY <1>4 DEF ReplicateEntries, AppendReply
    <2> QED  BY <1>2, <2>2, <2>3 DEF Confirms
  <1>5. CASE LogMatches(log[n], c) /\ c.entries # <<>>
    <2>1. PICK q : q = MergeEntries(log[n], c)
      OBVIOUS
    <2>2. PICK reply : reply = AppendReply(c, term, TRUE, 0)
      OBVIOUS
    <2>3. log' = [log EXCEPT ![n] = q] /\ aeReplies' = aeReplies \cup {reply}
      BY <1>5, <2>1, <2>2 DEF ReplicateEntries
    <2>4. q \in Seq(Entry)
      BY <1>1, <1>5, <2>1, MergeEntriesType
    <2>5. /\ Grounded(q, g)
          /\ Share(q, g[c.term], c.prevLogIndex + Len(c.entries))
          /\ \A k \in Nat : Share(log[n], g[c.term], k) => Share(q, g[c.term], k)
      <3>1. Grounded(log[n], g) /\ Grounded(g[c.term], g) /\ g[c.term] \in Seq(Entry)
        BY <1>1 DEF LogInv
      <3>2. PieceOf(c, g[c.term])
        BY <1>5 DEF Slice
      <3> QED  BY <1>1, <1>5, <2>1, <3>1, <3>2, MergeFacts
    <2>6. log'[n] = q /\ \A m \in Node : m # n => log'[m] = log[m]
      BY <1>1, <2>3
    <2>7. ASSUME NEW p \in Node, NEW t \in Term, NEW k \in Nat, Confirmed(p, t, k, g)
          PROVE  Confirmed(p, t, k, g)'
      <3>1. CASE p # n
        <4>1. Extends(log[p], log'[p]) /\ Grows(g, g)
          BY <2>6, <3>1, ExtendsSelf, LogTypes
        <4> QED  BY <2>7, <4>1, ConfirmedKept
      <3>2. CASE p = n
        <4>1. t \in Int /\ currentTerm[n] \in Int /\ currentTerm'[n] \in Int
          BY BoundAssumption DEF TypeOK, Term
        <4>2. t <= currentTerm[n] /\ currentTerm[n] <= currentTerm'[n]
          BY <2>7, <3>2 DEF Confirmed
        <4>3. ASSUME t = currentTerm'[n] PROVE Share(log'[n], g[t], k)
          <5>1. t = currentTerm[n]
            BY <4>1, <4>2, <4>3
          <5>2. Share(log[n], g[t], k)
            BY <2>7, <3>2, <5>1 DEF Confirmed
          <5>3. c.term = t
            BY <2>7, <3>2, <4>3
          <5> QED  BY <2>5, <2>6, <5>2, <5>3
        <4> QED  BY <3>2, <4>1, <4>2, <4>3 DEF Confirmed
      <3> QED  BY <3>1, <3>2
    <2>8. ASSUME NEW r \in aeReplies', Confirms(r)
          PROVE  Confirmed(r.to, r.term, r.nextIdx + r.entriesCount - 1, g)'
      <3>1. CASE r \in aeReplies
        BY <2>7, <2>8, <3>1, LogTypes DEF LogInv
      <3>2. CASE r = reply
        <4>1. /\ r.to = n /\ r.term = c.term
              /\ r.nextIdx + r.entriesCount - 1 = c.prevLogIndex + Len(c.entries)
          BY <1>1, <2>2, <3>2 DEF AppendReply
        <4>2. Share(log'[n], g[c.term], c.prevLogIndex + Len(c.entries))
          BY <2>5, <2>6
        <4>3. Confirmed(n, c.term, c.prevLogIndex + Len(c.entries), g)'
          BY <4>2 DEF Confirmed
        <4> QED  BY <4>1, <4>3
      <3> QED  BY <2>3, <3>1, <3>2
    <2>9. ASSUME NEW m \in Node, NEW p \in Peers(m), role'[m] = "LEADER", matchIndex'[m][p] > 0
          PROVE  Confirmed(p, currentTerm[m], matchIndex[m][p], g)'
      <3>1. /\ role[m] = "LEADER" /\ currentTerm'[m] = currentTerm[m]
            /\ p \in Node /\ currentTerm[m] \in Term /\ matchIndex[m][p] \in Nat
        BY <2>9, LogTypes DEF Peers
      <3>2. Confirmed(p, currentTerm[m], matchIndex[m][p], g)
        BY <2>9, <3>1 DEF LogInv
      <3>3. PICK t \in Term : t = currentTerm[m]
        BY <3>1
      <3>4. PICK k \in Nat : k = matchIndex[m][p]
        BY <3>1
      <3>5. Confirmed(p, t, k, g)'
        BY <2>7, <3>1, <3>2, <3>3, <3>4
      <3> QED  BY <3>1, <3>3, <3>4, <3>5
    <2>10. \A m \in Node : role'[m] = "LEADER" => log'[m] = g[currentTerm'[m]]
      BY <2>6 DEF LogInv
    <2>11. \A m \in Node : Grounded(log'[m], g)
      BY <2>5, <2>6 DEF LogInv
    <2> QED  BY <2>8, <2>9, <2>10, <2>11 DEF LogInv
  <1> QED  BY <1>3, <1>4, <1>5

\* onAppendEntries() of a follower or a candidate.
LEMMA OnAppendLog ==
    ASSUME TypeOK, TypeOK', GapInv, NEW g \in Logs, LogInv(g), NEW c \in aeCalls,
           onAppendEntries(c)
    PROVE  GapInv' /\ LogInv(g)'
  <1>1. PICK n \in Node : n = c.to
    BY LogTypes
  <1>2. /\ ServerFree(n) /\ ~RejectsAppend(n, c) /\ role[n] # "LEADER"
        /\ ReplicateEntries(n, c, c.term, currentTerm[n])
        /\ aeCalls' = aeCalls \ {c}
        /\ matchIndex' = matchIndex /\ leaders' = leaders /\ parkedAppends' = parkedAppends
    BY <1>1 DEF onAppendEntries, leaderVars, gapVars
  <1>3. /\ c \in AppendEntries /\ c.term \in Term /\ c.term \in Int /\ currentTerm[n] \in Int
        /\ currentTerm[n] <= c.term
    BY <1>2, LogTypes DEF RejectsAppend
  <1>4. /\ currentTerm'[n] = c.term /\ role'[n] # "LEADER"
        /\ \A m \in Node : /\ currentTerm[m] <= currentTerm'[m]
                           /\ role[m] = "FOLLOWER" => role'[m] = "FOLLOWER"
                           /\ role'[m] = "LEADER" => /\ role[m] = "LEADER"
                                                     /\ currentTerm'[m] = currentTerm[m]
    <2>1. CASE c.term > currentTerm[n] \/ role[n] = "CANDIDATE"
      <3>1. becomeFollower(n, c.term)
        BY <1>1, <2>1 DEF onAppendEntries
      <3>2. currentTerm'[n] = c.term /\ role'[n] = "FOLLOWER"
        BY <3>1 DEF becomeFollower, TypeOK
      <3> QED  BY <1>3, <3>1, <3>2, FollowerRoles
    <2>2. CASE ~(c.term > currentTerm[n] \/ role[n] = "CANDIDATE")
      <3>1. currentTerm' = currentTerm /\ role' = role
        BY <1>1, <2>2 DEF onAppendEntries, termVars
      <3>2. currentTerm[n] = c.term
        BY <1>3, <2>2
      <3> QED  BY <1>2, <3>1, <3>2, LogTypes
    <2> QED  BY <2>1, <2>2
  <1>5. GapInv'
    <2>1. Tame
      BY <1>2, <1>4 DEF Tame
    <2> QED  BY <2>1, TameGap
  <1>6. \A a \in parkedAppends' : a.call.to # n
    BY <1>2 DEF ServerFree
  <1>7. Slice(c, g) /\ c.term <= currentTerm'[n]
    BY <1>3, <1>4 DEF LogInv
  <1>8. LogInv(g)'
    <2>1. aeCalls' \subseteq aeCalls /\ parkedAppends' \subseteq parkedAppends
      BY <1>2
    <2>2. \A t \in Term, k \in Nat :
             Confirmed(n, t, k, g) /\ t = currentTerm'[n] => c.term = t
      BY <1>4
    <2>3. PICK entryTerm : ReplicateEntries(n, c, c.term, entryTerm)
      BY <1>2
    <2>4. matchIndex' = matchIndex /\ leaders' = leaders
      BY <1>2
    <2> QED  BY <1>1, <1>3, <1>4, <1>6, <1>7, <2>1, <2>2, <2>3, <2>4, ReplicateLog
  <1> QED  BY <1>5, <1>8

\* The rest of onAppendEntries() after the gap: the node is still a follower,
\* because no election timer has fired in between.
LEMMA ResumeAppendLog ==
    ASSUME TypeOK, TypeOK', GapInv, NEW g \in Logs, LogInv(g), NEW a \in parkedAppends,
           resumeAppendEntries(a)
    PROVE  GapInv' /\ LogInv(g)'
  <1>1. PICK c, n : c = a.call /\ n = c.to
    OBVIOUS
  <1>2. /\ c \in AppendEntries /\ n \in Node /\ c.term \in Term /\ c.term \in Int
        /\ currentTerm[n] \in Int /\ currentTerm[n] \in Term
    BY <1>1, LogTypes
  <1>3. /\ ReplicateEntries(n, c, currentTerm[n], a.respTerm)
        /\ parkedAppends' = parkedAppends \ {a}
        /\ UNCHANGED <<currentTerm, role, matchIndex, leaders, aeCalls>>
    BY <1>1 DEF resumeAppendEntries, termVars, leaderVars, voteVars
  <1>4. role[n] = "FOLLOWER" /\ c.term <= currentTerm[n]
    BY <1>1 DEF GapInv
  <1>5. \A m \in Node : /\ currentTerm[m] <= currentTerm'[m]
                        /\ role[m] = "FOLLOWER" => role'[m] = "FOLLOWER"
                        /\ role'[m] = "LEADER" => /\ role[m] = "LEADER"
                                                  /\ currentTerm'[m] = currentTerm[m]
    BY <1>3, LogTypes
  <1>6. GapInv'
    <2>1. Tame
      BY <1>3, <1>5 DEF Tame
    <2> QED  BY <2>1, TameGap
  <1>7. parkedAppends' \subseteq parkedAppends /\ \A b \in parkedAppends' : b.call.to # n
    BY <1>1, <1>3 DEF GapInv
  <1>8. ASSUME NEW t \in Term, NEW k \in Nat, Confirmed(n, t, k, g), t = currentTerm'[n]
        PROVE  c.term = t
    BY <1>1, <1>3, <1>8 DEF Confirmed
  <1>9. /\ Slice(c, g) /\ role'[n] # "LEADER" /\ c.term <= currentTerm'[n]
        /\ aeCalls' \subseteq aeCalls /\ matchIndex' = matchIndex /\ leaders' = leaders
    BY <1>1, <1>3, <1>4 DEF LogInv
  <1>10. PICK term : term = currentTerm[n]
    OBVIOUS
  <1>11. ReplicateEntries(n, c, term, a.respTerm)
    BY <1>3, <1>10
  <1>12. LogInv(g)'
    BY <1>1, <1>2, <1>5, <1>7, <1>8, <1>9, <1>11, ReplicateLog
  <1> QED  BY <1>6, <1>12

-----------------------------------------------------------------------------
(***************************************************************************)
(* Elections that are won, and all steps together.                         *)
(***************************************************************************)

\* The vote that completes a majority.
LEMMA CountedLog ==
    ASSUME TypeOK, TypeOK', ElectionInv, ElectionInv', GapInv, NEW g \in Logs, LogInv(g),
           NEW r \in rvReplies, voteReplyCounted(r), role' # role
    PROVE  GapInv' /\ LogsInv'
  <1>1. PICK n : n = r.from
    OBVIOUS
  <1>2. n \in Node /\ currentTerm[n] \in Term /\ currentTerm[n] \in Int
    <2>1. n \in Node
      BY <1>1 DEF TypeOK, RequestVoteReply
    <2> QED  BY <2>1, LogTypes
  <1>3. PICK t \in Term : t = currentTerm[n]
    BY <1>2
  <1>4. /\ role[n] = "CANDIDATE" /\ becomeLeaderInternal(n, t)
        /\ UNCHANGED <<currentTerm, log, aeReplies, parkedAppends>>
    BY <1>1, <1>3 DEF voteReplyCounted, OutdatedVote, logVars, gapVars
  <1>5. n \notin leaders[t]
    BY <1>2, <1>3, <1>4 DEF ElectionInv, RolesInv
  <1>6. currentTerm' = [currentTerm EXCEPT ![n] = t] /\ currentTerm[n] <= t
    BY <1>2, <1>3, <1>4 DEF TypeOK
  <1>7. LogsInv'
    BY <1>2, <1>4, <1>5, <1>6, WinLog DEF LogsInv
  <1>8. Tame
    <2>1. role' = [role EXCEPT ![n] = "LEADER"] /\ role \in [Node -> Role]
      BY <1>4 DEF becomeLeaderInternal, TypeOK
    <2>2. \A m \in Node : currentTerm[m] <= currentTerm'[m]
      BY <1>4, LogTypes
    <2> QED  BY <1>4, <2>1, <2>2 DEF Tame
  <1> QED  BY <1>7, <1>8, TameGap

\* The election of a single node.
LEMMA AloneLog ==
    ASSUME TypeOK, TypeOK', ElectionInv, ElectionInv', QuietStep, GapInv,
           NEW g \in Logs, LogInv(g), NEW n \in Node, startElectionAlone(n)
    PROVE  GapInv' /\ LogsInv'
  <1>1. currentTerm[n] \in Nat /\ currentTerm[n] + 1 \in Term
    BY BoundAssumption DEF startElectionAlone, startElection, leadAlone, TypeOK, Term
  <1>2. PICK t \in Term : t = currentTerm[n] + 1
    BY <1>1
  <1>3. /\ ServerFree(n) /\ currentTerm' = [currentTerm EXCEPT ![n] = t]
        /\ becomeLeaderInternal(n, t) /\ UNCHANGED <<log, aeReplies, parkedAppends>>
    BY <1>2 DEF startElectionAlone, startElection, leadAlone, gapVars, QuietStep
  <1>4. n \notin leaders[t] /\ currentTerm[n] <= t
    BY <1>1, <1>2 DEF ElectionInv, RolesInv
  <1>5. LogsInv'
    BY <1>3, <1>4, WinLog DEF LogsInv
  <1>6. Tame
    <2>1. /\ role' = [role EXCEPT ![n] = "LEADER"] /\ role \in [Node -> Role]
          /\ currentTerm \in [Node -> Term]
      BY <1>3 DEF becomeLeaderInternal, TypeOK
    <2>2. \A m \in Node : currentTerm[m] <= currentTerm'[m]
      BY <1>3, <1>4, <2>1, LogTypes
    <2> QED  BY <1>3, <2>1, <2>2 DEF Tame
  <1> QED  BY <1>5, <1>6, TameGap

\* Every step of the cluster keeps the invariants on the gap and on the logs.
LEMMA LogsInvStep ==
    ASSUME QuietStep, TypeOK, TypeOK', ElectionInv, ElectionInv', GapInv, LogsInv, Next
    PROVE  GapInv' /\ LogsInv'
  <1>1. PICK g \in Logs : LogInv(g)
    BY DEF LogsInv
  <1>2. ASSUME Quiet(g), Tame PROVE GapInv' /\ LogsInv'
    BY <1>1, <1>2, TameGap, QuietLog DEF LogsInv
  <1>3. CASE \E n \in Node : NodeStep(n)
    <2>1. PICK n \in Node : NodeStep(n)
      BY <1>3
    <2>2. CASE startElectionAmong(n)
      BY <1>2, <2>2, QuietVotes
    <2>3. CASE startElectionAlone(n)
      BY <1>1, <2>3, AloneLog
    <2>4. CASE sendHeartbeatsInternal(n)
      BY <1>1, <1>2, <2>4, QuietAppends
    <2>5. ASSUME NEW cmd \in Command, submitCommand(n, cmd) PROVE GapInv' /\ LogsInv'
      <3>1. LogsInv'
        BY <1>1, <2>5, SubmitLog DEF LogsInv
      <3>2. Tame
        BY <2>5, LogTypes DEF submitCommand, Tame, termVars, gapVars
      <3> QED  BY <3>1, <3>2, TameGap
    <2> QED  BY <2>1, <2>2, <2>3, <2>4, <2>5 DEF NodeStep, startElectionAmong, startElectionAlone
  <1>4. CASE VoteStep
    <2>1. ASSUME NEW r \in rvReplies, voteReplyCounted(r) PROVE GapInv' /\ LogsInv'
      <3>1. CASE role' = role
        BY <1>2, <2>1, <3>1, QuietVotes
      <3>2. CASE role' # role
        BY <1>1, <2>1, <3>2, CountedLog
      <3> QED  BY <3>1, <3>2
    <2> QED  BY <1>2, <1>4, <2>1, QuietVotes DEF VoteStep
  <1>5. CASE AppendStep
    <2>1. ASSUME NEW c \in aeCalls, parkAppendEntries(c) PROVE GapInv' /\ LogsInv'
      BY <1>1, <2>1, ParkLog DEF LogsInv
    <2>2. ASSUME NEW c \in aeCalls, onAppendEntries(c) PROVE GapInv' /\ LogsInv'
      BY <1>1, <2>2, OnAppendLog DEF LogsInv
    <2>3. ASSUME NEW a \in parkedAppends, resumeAppendEntries(a) PROVE GapInv' /\ LogsInv'
      BY <1>1, <2>3, ResumeAppendLog DEF LogsInv
    <2>4. ASSUME NEW r \in aeReplies, appendReplySuccess(r) PROVE GapInv' /\ LogsInv'
      <3>1. LogsInv'
        BY <1>1, <2>4, SuccessLog DEF LogsInv
      <3>2. Tame
        BY <2>4, LogTypes DEF appendReplySuccess, Tame, termVars, gapVars
      <3> QED  BY <3>1, <3>2, TameGap
    <2> QED  BY <1>1, <1>2, <1>5, <2>1, <2>2, <2>3, <2>4, QuietAppends DEF AppendStep
  <1> QED  BY <1>3, <1>4, <1>5 DEF Next

\* Nothing changes, and so the invariants on the gap and the logs hold on.
LEMMA LogsInvStutter ==
    ASSUME TypeOK, TypeOK', GapInv, LogsInv, UNCHANGED vars
    PROVE  GapInv' /\ LogsInv'
  <1>1. PICK g \in Logs : LogInv(g)
    BY DEF LogsInv
  <1>2. Quiet(g) /\ Tame
    BY <1>1, QuietAppends
  <1> QED  BY <1>1, <1>2, TameGap, QuietLog DEF LogsInv

\* At the start all logs are empty.
LEMMA LogsInvInit == Init => GapInv /\ LogsInv
  <1> SUFFICES ASSUME Init PROVE GapInv /\ LogsInv
    OBVIOUS
  <1>1. GapInv
    BY DEF Init, GapInv
  <1>2. PICK g : g = [t \in Term |-> <<>>]
    OBVIOUS
  <1>3. g \in Logs /\ \A t \in Term : g[t] = <<>>
    BY <1>2 DEF Logs
  <1>4. Grounded(<<>>, g)
    BY DEF Grounded
  <1>5. LogInv(g)
    BY <1>3, <1>4 DEF Init, LogInv
  <1> QED  BY <1>1, <1>3, <1>5 DEF LogsInv

-----------------------------------------------------------------------------
(***************************************************************************)
(* The theorems.  QuietGap is an assumption on the timing of the code: no  *)
(* election of a node starts while a handler of that node is inside        *)
(* stopDiscoveryService(), between the unlock and the lock.                *)
(***************************************************************************)

\* Every log, every call in flight and every answer to be counted comes from
\* the logs of the leaders, in every reachable state.
THEOREM LogsFitTogether == QuietGap /\ Spec => [](GapInv /\ LogsInv)
  <1>1. TypeOK /\ TypeOK' /\ ElectionInv /\ ElectionInv' /\ GapInv /\ LogsInv
          /\ [QuietStep]_vars /\ [Next]_vars
          => GapInv' /\ LogsInv'
    BY LogsInvStep, LogsInvStutter
  <1> QED  BY <1>1, LogsInvInit, TypeCorrect, VotesFitTogether, PTL DEF Spec, QuietGap

\* Two logs that hold an entry of the same term at the same position are
\* identical up to it, in a cluster of any size: the prevLogTerm check and the
\* truncation in the append loop of onAppendEntries() do their work whatever is
\* lost, delayed or reordered, also for a handler that was in the gap.
THEOREM LogsMatch == QuietGap /\ Spec => []LogMatching
  <1>1. TypeOK /\ LogsInv => LogMatching
    <2> SUFFICES ASSUME TypeOK, LogsInv, NEW n \in Node, NEW m \in Node,
                        NEW i \in 1..Smaller(Len(log[n]), Len(log[m])),
                        log[n][i].term = log[m][i].term
                 PROVE  SubSeq(log[n], 1, i) = SubSeq(log[m], 1, i)
      BY DEF LogMatching
    <2>1. log[n] \in Seq(Entry) /\ log[m] \in Seq(Entry)
      BY DEF TypeOK
    <2>2. i \in Nat /\ i > 0 /\ i <= Len(log[n]) /\ i <= Len(log[m])
      BY <2>1 DEF Smaller
    <2>3. PICK g \in Logs : Grounded(log[n], g) /\ Grounded(log[m], g)
      BY DEF LogsInv, LogInv
    <2>4. Share(log[n], log[m], i)
      BY <2>1, <2>2, <2>3, SameTermSamePrefix
    <2> QED  BY <2>1, <2>2, <2>4 DEF Share
  <1> QED  BY <1>1, LogsFitTogether, TypeCorrect, PTL

\* A leader's matchIndex is backed by the peer's log, in a cluster of any size,
\* as long as the peer has not moved to a later term.
THEOREM MatchIndexBacked == QuietGap /\ Spec => []MatchIndexSound
  <1>1. TypeOK /\ LogsInv => MatchIndexSound
    <2> SUFFICES ASSUME TypeOK, LogsInv, NEW n \in Node, NEW p \in Peers(n),
                        role[n] = "LEADER", currentTerm[p] <= currentTerm[n]
                 PROVE  /\ matchIndex[n][p] <= Len(log[p])
                        /\ SubSeq(log[p], 1, matchIndex[n][p])
                             = SubSeq(log[n], 1, matchIndex[n][p])
      BY DEF MatchIndexSound
    <2>1. /\ p \in Node /\ log[n] \in Seq(Entry) /\ log[p] \in Seq(Entry)
          /\ matchIndex[n][p] \in Nat /\ currentTerm[n] \in Int /\ currentTerm[p] \in Int
      BY LogTypes DEF Peers
    <2>2. PICK g \in Logs : LogInv(g)
      BY DEF LogsInv
    <2>3. CASE matchIndex[n][p] = 0
      BY <2>1, <2>3
    <2>4. CASE matchIndex[n][p] > 0
      <3>1. log[n] = g[currentTerm[n]] /\ Confirmed(p, currentTerm[n], matchIndex[n][p], g)
        BY <2>2, <2>4 DEF LogInv
      <3>2. currentTerm[n] = currentTerm[p]
        BY <2>1, <3>1 DEF Confirmed
      <3>3. Share(log[p], log[n], matchIndex[n][p])
        BY <3>1, <3>2 DEF Confirmed
      <3> QED  BY <2>1, <3>3 DEF Share
    <2> QED  BY <2>1, <2>3, <2>4
  <1> QED  BY <1>1, LogsFitTogether, TypeCorrect, PTL

-----------------------------------------------------------------------------
(***************************************************************************)
(* A cluster of one, whatever the timing.                                  *)
(***************************************************************************)

\* A node without peers has applied its log and exchanges no AppendEntries.
AloneInv ==
    \A n \in Node : Peers(n) = {} =>
        applied[n] = log[n] /\ parkedAppends = {} /\ aeReplies = {}

\* Who has no peers is its own majority, and nobody calls it.
LEMMA NoPeers ==
    ASSUME TypeOK, ElectionInv, NEW n \in Node, Peers(n) = {}
    PROVE  Node = {n} /\ Majority = 1 /\ aeCalls = {}
  <1>1. Node = {n}
    BY DEF Peers
  <1>2. Cardinality({n}) = 1
    BY FS_Singleton
  <1>3. Majority = 1
    BY <1>1, <1>2 DEF Majority
  <1>4. \A c \in aeCalls : c.from \in Node /\ c.to \in Node /\ c.from # c.to
    BY LogTypes DEF ElectionInv, CallsInv
  <1> QED  BY <1>1, <1>3, <1>4

\* applyStateMachine() has nothing to do when the log is applied already.
LEMMA NothingToApply ==
    ASSUME TypeInv, NEW n \in Node, applied[n] = log[n], NEW term, NEW match,
           applyStateMachine(n, log[n], commitIndex[n], term, match)
    PROVE  applied' = applied
  <1>1. PICK c : c = AdvanceCommit(n, log[n], commitIndex[n], term, match)
    OBVIOUS
  <1>2. /\ log[n] \in Seq(Entry) /\ commitIndex[n] \in Nat /\ commitIndex[n] <= Len(log[n])
        /\ applied \in [Node -> Seq(Entry)]
    BY DEF TypeInv, TypeOK, AppliedCaughtUp
  <1>3. c = commitIndex[n] \/ (c \in Nat /\ commitIndex[n] < c /\ c <= Len(log[n]))
    BY <1>1, <1>2, AdvanceCommitRange
  <1>4. c <= Len(applied[n])
    BY <1>2, <1>3
  <1>5. applied' = [applied EXCEPT ![n] = applied[n]]
    BY <1>1, <1>4 DEF applyStateMachine, ApplyUpTo
  <1> QED  BY <1>2, <1>5

\* Without peers an entry of the current term is committed as soon as it is in
\* the log, and everything before it with it.
LEMMA AppliedAtOnce ==
    ASSUME TypeInv, TypeInv', ElectionInv, NEW n \in Node, Peers(n) = {}, applied[n] = log[n],
           NEW cmd \in Command, submitCommand(n, cmd)
    PROVE  applied'[n] = log'[n]
  <1>1. PICK e : e = [term |-> currentTerm[n], command |-> cmd]
    OBVIOUS
  <1>2. PICK l : l = Append(log[n], e)
    OBVIOUS
  <1>3. log[n] \in Seq(Entry) /\ e \in Entry /\ applied \in [Node -> Seq(Entry)]
    BY <1>1 DEF TypeInv, TypeOK, Entry
  <1>4. /\ l \in Seq(Entry) /\ Len(l) = Len(log[n]) + 1 /\ l[Len(l)] = e
        /\ \A i \in 1..Len(log[n]) : l[i] = log[n][i]
    BY <1>2, <1>3
  <1>5. /\ log'[n] = l
        /\ applyStateMachine(n, l, commitIndex[n], currentTerm[n], matchIndex[n])
    BY <1>1, <1>2 DEF submitCommand, TypeInv, TypeOK
  <1>6. commitIndex[n] \in Nat /\ commitIndex[n] < Len(l)
    BY <1>3, <1>4 DEF TypeInv, TypeOK, AppliedCaughtUp
  <1> DEFINE S == Committable(n, l, commitIndex[n], currentTerm[n], matchIndex[n])
  <1>7. Len(l) \in S
    <2>1. 1 + Cardinality({p \in Peers(n) : matchIndex[n][p] >= Len(l)}) >= Majority
      <3>1. {p \in Peers(n) : matchIndex[n][p] >= Len(l)} = {} /\ Cardinality({}) = 0
        BY FS_EmptySet
      <3>2. Majority = 1
        BY NoPeers DEF TypeInv
      <3> QED  BY <3>1, <3>2
    <2>2. Len(l) \in (commitIndex[n] + 1)..Len(l) /\ l[Len(l)].term = currentTerm[n]
      BY <1>1, <1>3, <1>4, <1>6
    <2> QED  BY <2>1, <2>2 DEF Committable
  <1>8. \A k \in S : k \in Nat /\ k <= Len(l)
    BY <1>3, <1>4, <1>6 DEF Committable
  <1> HIDE DEF S
  <1>9. AdvanceCommit(n, l, commitIndex[n], currentTerm[n], matchIndex[n]) = Len(l)
    <2>1. PICK last : last = CHOOSE k \in S : \A j \in S : j <= k
      OBVIOUS
    <2>2. last \in S /\ Len(l) <= last
      BY <1>4, <1>7, <1>8, <2>1
    <2>3. last = Len(l)
      BY <1>4, <1>8, <2>2
    <2> QED  BY <1>7, <2>1, <2>3 DEF AdvanceCommit, S
  <1>10. applied'[n] = ApplyUpTo(log[n], l, Len(l))
    BY <1>3, <1>5, <1>9 DEF applyStateMachine
  <1>11. ApplyUpTo(log[n], l, Len(l)) = [i \in 1..Len(l) |-> l[i]]
    <2>1. ~(Len(l) <= Len(log[n]))
      BY <1>3, <1>4
    <2>2. \A i \in 1..Len(l) : (IF i <= Len(log[n]) THEN log[n][i] ELSE l[i]) = l[i]
      BY <1>3, <1>4
    <2> QED  BY <2>1, <2>2 DEF ApplyUpTo
  <1>12. [i \in 1..Len(l) |-> l[i]] = l
    BY <1>4
  <1> QED  BY <1>5, <1>10, <1>11, <1>12

\* Every step keeps the invariant on a cluster of one.
LEMMA AloneInvStep == TypeInv /\ TypeInv' /\ ElectionInv /\ AloneInv /\ [Next]_vars => AloneInv'
  <1> SUFFICES ASSUME TypeInv, TypeInv', ElectionInv, AloneInv, [Next]_vars,
                      NEW n \in Node, Peers(n) = {}
               PROVE  applied'[n] = log'[n] /\ parkedAppends' = {} /\ aeReplies' = {}
    BY DEF AloneInv
  <1> USE DEF logVars, aeVars, gapVars
  <1>1. applied[n] = log[n] /\ parkedAppends = {} /\ aeReplies = {}
    BY DEF AloneInv
  <1>2. Node = {n} /\ aeCalls = {}
    BY NoPeers DEF TypeInv
  <1>3. CASE \E m \in Node : NodeStep(m)
    <2>1. NodeStep(n)
      BY <1>2, <1>3
    <2>2. CASE startElectionAmong(n)
      BY <1>1, <2>2 DEF startElectionAmong, startElection, requestVotes
    <2>3. CASE startElectionAlone(n)
      <3>1. /\ applyStateMachine(n, log[n], commitIndex[n], currentTerm[n] + 1, matchIndex[n])
            /\ UNCHANGED <<log, aeReplies, parkedAppends>>
        BY <2>3 DEF startElectionAlone, startElection, leadAlone
      <3>2. applied' = applied
        BY <1>1, <3>1, NothingToApply
      <3> QED  BY <1>1, <3>1, <3>2
    <2>4. CASE sendHeartbeatsInternal(n)
      <3>1. /\ applyStateMachine(n, log[n], commitIndex[n], currentTerm[n], matchIndex[n])
            /\ UNCHANGED <<log, aeReplies, parkedAppends>>
        BY <2>4 DEF sendHeartbeatsInternal
      <3>2. applied' = applied
        BY <1>1, <3>1, NothingToApply
      <3> QED  BY <1>1, <3>1, <3>2
    <2>5. ASSUME NEW cmd \in Command, submitCommand(n, cmd)
          PROVE  applied'[n] = log'[n] /\ parkedAppends' = {} /\ aeReplies' = {}
      <3>1. applied'[n] = log'[n]
        BY <1>1, <2>5, AppliedAtOnce
      <3> QED  BY <1>1, <2>5, <3>1 DEF submitCommand
    <2> QED  BY <2>1, <2>2, <2>3, <2>4, <2>5 DEF NodeStep, startElectionAmong, startElectionAlone
  <1>4. CASE VoteStep
    BY <1>1, <1>4 DEF VoteStep, rejectRequestVote, parkRequestVote, onRequestVote,
         resumeRequestVote, voteReplyStepDown, voteReplyIgnored, voteReplyCounted,
         LoseVoteCall, LoseVoteReply
  <1>5. CASE AppendStep
    BY <1>1, <1>2, <1>5 DEF AppendStep
  <1>6. CASE UNCHANGED vars
    BY <1>1, <1>6 DEF vars
  <1> QED  BY <1>3, <1>4, <1>5, <1>6 DEF Next

\* A manager without peers has applied everything submitted to it whenever the
\* mutex is free: submitCommand() commits its entry itself, since the count of
\* applyStateMachine() needs nobody else.
THEOREM AloneApplied == Spec => []AloneAppliesAll
  <1>1. Init => AloneInv
    BY DEF Init, AloneInv
  <1>2. AloneInv => AloneAppliesAll
    BY DEF AloneInv, AloneAppliesAll
  <1>3. Spec => []TypeInv
    BY TypeInvInit, TypeInvStep, PTL DEF Spec
  <1> QED  BY <1>1, <1>2, <1>3, AloneInvStep, VotesFitTogether, PTL DEF Spec

=============================================================================
