-------------------------- MODULE RaftCommitProofs --------------------------
(***************************************************************************)
(* What is committed, in a cluster of at most three managers in which      *)
(* nobody stands for election while a handler of its own is in the gap     *)
(* (QuietGap): managers apply the same submissions, elections lose         *)
(* nothing that was applied, and the managers implement ReplicatedLog.     *)
(*                                                                         *)
(* Besides the logs of the leaders, g, the invariant speaks of what each   *)
(* node has acknowledged to each leader: k is in A[p][t] if p had the      *)
(* first k entries of the leader of t at some time in term t.  Both exist  *)
(* in every reachable state; neither is a variable of the specification.   *)
(***************************************************************************)
EXTENDS RaftNodeProofs, RaftLog

Acks == [Node -> [Term -> SUBSET Nat]]

\* No handler of a leader before term t waits in the gap at p.
Clear(p, t) == \A a \in parkedAppends : a.call.to = p => t <= a.call.term

\* The k-th entry of the leader of t is one it appended itself.
Own(t, k, g) == k \in 1..Len(g[t]) /\ g[t][k].term = t

\* The leaders after t and before u have the first k entries of the leader of t.
Passed(t, u, k, g) ==
    \A v \in Term : t < v /\ v < u /\ leaders[v] # {} => Share(g[v], g[t], k)

\* l has what p acknowledged before term u, unless a leader in between lacks it.
Carries(l, p, u, g, A) ==
    \A t \in Term : \A k \in A[p][t] :
        t < u /\ Own(t, k, g) /\ Passed(t, u, k, g) => Share(l, g[t], k)

\* A majority has acknowledged the leader's own k-th entry in its term.
Fixed(t, k, g, A) ==
    /\ Own(t, k, g)
    /\ \E Q \in SUBSET Node : Cardinality(Q) >= Majority /\ \A p \in Q : k \in A[p][t]

\* Entries are not of a later term than the log they are in.
TermInv(g) ==
    /\ \A t \in Term : \A i \in 1..Len(g[t]) : g[t][i].term <= t
    /\ \A n \in Node : \A i \in 1..Len(log[n]) : log[n][i].term <= currentTerm[n]
    /\ \A a \in parkedAppends :
          \A i \in 1..Len(log[a.call.to]) : log[a.call.to][i].term <= a.call.term

\* What p has acknowledged is in its log unless a later leader lacks it; what
\* it shares with the leader of its term it has acknowledged.
AckInv(g, A) ==
    /\ \A p \in Node, t \in Term : \A k \in A[p][t] :
          /\ k \in 1..Len(g[t]) /\ t <= currentTerm[p] /\ Clear(p, t)
          /\ \A j \in 1..k : j \in A[p][t]
    /\ \A p \in Node : \A k \in 1..Len(log[p]) :
          Clear(p, currentTerm[p]) /\ Share(log[p], g[currentTerm[p]], k)
              => k \in A[p][currentTerm[p]]
    /\ \A p \in Node : Carries(log[p], p, currentTerm[p] + 1, g, A)
    /\ \A t \in Term : \A n \in leaders[t] : \A k \in 1..Len(g[t]) : k \in A[n][t]

\* Behind every leader stands a majority that had acknowledged nothing, in
\* earlier terms, that the leader lacks.
VotersInv(g, A) ==
    \A u \in Term : leaders[u] # {} =>
        \E Q \in SUBSET Node :
            /\ Cardinality(Q) >= Majority
            /\ \A p \in Q : u <= currentTerm[p] /\ Carries(g[u], p, u, g, A)

-----------------------------------------------------------------------------
(***************************************************************************)
(* Consequences in one state.                                              *)
(***************************************************************************)

\* The terms of a log do not fall.
LEMMA TermsRise ==
    ASSUME NEW g \in Logs, TermInv(g), NEW l \in Seq(Entry), Grounded(l, g),
           NEW i \in 1..Len(l), NEW j \in 1..Len(l), i <= j
    PROVE  l[i].term <= l[j].term
  <1>1. l[j].term \in Term
    BY EntryTerm
  <1>2. j <= Len(g[l[j].term]) /\ \A m \in 1..j : l[m] = g[l[j].term][m]
    BY DEF Grounded
  <1>3. i \in 1..j /\ g[l[j].term] \in Seq(Entry)
    BY <1>1 DEF Logs
  <1>4. i \in 1..Len(g[l[j].term])
    BY <1>2, <1>3
  <1>5. g[l[j].term][i].term <= l[j].term
    BY <1>1, <1>4 DEF TermInv
  <1> QED  BY <1>2, <1>3, <1>5

\* A log without later terms that has an entry of term u is a part of the log
\* of the leader of u.
LEMMA OwnTermPrefix ==
    ASSUME NEW g \in Logs, TermInv(g), NEW l \in Seq(Entry), Grounded(l, g), NEW u \in Term,
           \A i \in 1..Len(l) : l[i].term <= u, NEW i \in 1..Len(l), l[i].term = u
    PROVE  Extends(l, g[u])
  <1>1. Len(l) \in 1..Len(l) /\ i <= Len(l)
    OBVIOUS
  <1>2. u <= l[Len(l)].term /\ l[Len(l)].term <= u
    BY <1>1, TermsRise
  <1>3. l[Len(l)].term \in Int /\ u \in Int
    BY <1>1, EntryTerm, BoundAssumption DEF Term
  <1>4. l[Len(l)].term = u
    BY <1>2, <1>3
  <1> QED  BY <1>1, <1>4 DEF Grounded, Extends

\* The comparison of logs in onRequestVote(): a log that is as up to date as one
\* with an acknowledged entry has that entry, if the leaders in between have it.
LEMMA UpToDate ==
    ASSUME NEW g \in Logs, TermInv(g), \A t \in Term : leaders[t] = {} => g[t] = <<>>,
           NEW l \in Seq(Entry), NEW q \in Seq(Entry), Grounded(l, g), Grounded(q, g),
           NEW u \in Term, \A i \in 1..Len(q) : q[i].term < u,
           NEW t \in Term, NEW k \in Nat, Own(t, k, g), Passed(t, u, k, g), Share(l, g[t], k),
           \/ LastTerm(q) > LastTerm(l)
           \/ LastTerm(q) = LastTerm(l) /\ Len(q) >= Len(l)
    PROVE  Share(q, g[t], k)
  <1>1. /\ k \in 1..Len(l) /\ Len(l) \in 1..Len(l) /\ l[k].term = t /\ g[t] \in Seq(Entry)
        /\ t \in Int
    BY BoundAssumption DEF Own, Share, Logs, Term
  <1>2. LastTerm(l) = l[Len(l)].term /\ LastTerm(l) \in Int /\ t <= LastTerm(l)
    <2>1. LastTerm(l) = l[Len(l)].term
      BY <1>1 DEF LastTerm
    <2>2. l[Len(l)].term \in Int
      BY <1>1, EntryTerm, BoundAssumption DEF Term
    <2> QED  BY <1>1, <2>1, <2>2, TermsRise
  <1>3. q # <<>>
    <2> SUFFICES ASSUME q = <<>> PROVE FALSE
      OBVIOUS
    <2>1. LastTerm(q) = 0 /\ Len(q) = 0
      BY DEF LastTerm
    <2> QED  BY <1>1, <1>2, <2>1, BoundAssumption DEF Term
  <1>4. PICK w \in Term : /\ Len(q) \in 1..Len(q) /\ w = q[Len(q)].term /\ w = LastTerm(q)
                          /\ w \in Int /\ w < u
    <2>1. Len(q) \in 1..Len(q)
      BY <1>3
    <2>2. LastTerm(q) = q[Len(q)].term /\ q[Len(q)].term \in Term
      BY <1>3, <2>1, EntryTerm DEF LastTerm
    <2> QED  BY <2>1, <2>2, BoundAssumption DEF Term
  <1>5. /\ g[w] \in Seq(Entry) /\ Len(q) <= Len(g[w])
        /\ \A j \in 1..Len(q) : q[j] = g[w][j]
    BY <1>4 DEF Grounded, Logs
  <1>6. CASE w = LastTerm(l)
    <2>1. Len(l) <= Len(g[w]) /\ \A j \in 1..Len(l) : l[j] = g[w][j]
      BY <1>1, <1>2, <1>6 DEF Grounded
    <2>2. Len(l) <= Len(q)
      BY <1>2, <1>4, <1>6
    <2>3. \A j \in 1..k : j \in 1..Len(l) /\ j \in 1..Len(q)
      BY <1>1, <2>2
    <2> QED  BY <1>1, <1>5, <2>1, <2>2, <2>3 DEF Share
  <1>7. CASE w > LastTerm(l)
    <2>1. t < w /\ g[w] # <<>>
      BY <1>1, <1>2, <1>4, <1>5, <1>7
    <2>2. Share(g[w], g[t], k)
      BY <1>4, <2>1 DEF Passed
    <2>3. k <= Len(q)
      <3> SUFFICES ASSUME k > Len(q) PROVE FALSE
        BY <1>1
      <3>1. Len(q) \in 1..Len(g[w]) /\ k \in 1..Len(g[w]) /\ Len(q) <= k
        BY <1>1, <1>4, <1>5, <2>2 DEF Share
      <3>2. Len(q) \in 1..Len(l) /\ Len(q) <= k /\ g[w][Len(q)] = l[Len(q)]
        BY <1>1, <1>4, <2>2, <3>1 DEF Share
      <3>3. l[Len(q)].term <= l[k].term
        BY <1>1, <3>2, TermsRise
      <3>4. w <= t
        BY <1>1, <1>4, <1>5, <3>2, <3>3
      <3> QED  BY <1>1, <1>4, <2>1, <3>4
    <2> QED  BY <1>1, <1>5, <2>2, <2>3 DEF Share
  <1> QED  BY <1>2, <1>4, <1>6, <1>7

\* Every later leader has what is fixed: the first one without it would have
\* been elected by a majority, and one of that majority had acknowledged it.
LEMMA FixedCarried ==
    ASSUME TypeOK, NEW g \in Logs, NEW A \in Acks, AckInv(g, A), VotersInv(g, A),
           NEW t \in Term, NEW k \in Nat, Fixed(t, k, g, A)
    PROVE  \A u \in Term : t <= u /\ leaders[u] # {} => Share(g[u], g[t], k)
  <1>0. \A u \in Term : u \in Nat
    BY BoundAssumption DEF Term
  <1>1. Share(g[t], g[t], k)
    BY DEF Fixed, Own, Share
  <1> DEFINE S == {u \in Term : t < u /\ leaders[u] # {} /\ ~Share(g[u], g[t], k)}
  <1>2. S = {}
    <2> SUFFICES ASSUME S # {} PROVE FALSE
      OBVIOUS
    <2>1. S \subseteq Nat
      BY <1>0
    <2>2. \A u \in S : u \in Term /\ t < u /\ leaders[u] # {} /\ ~Share(g[u], g[t], k)
      OBVIOUS
    <2>3. \A u \in Term : t < u /\ leaders[u] # {} /\ ~Share(g[u], g[t], k) => u \in S
      OBVIOUS
    <2> HIDE DEF S
    <2>4. PICK u \in S : \A v \in S : ~(<<v, u>> \in OpToRel(<, Nat))
      BY <2>1, NatLessThanWellFounded, WFMin
    <2>5. \A v \in S : ~(v < u)
      BY <2>1, <2>4 DEF OpToRel
    <2>6. Passed(t, u, k, g)
      BY <2>3, <2>5 DEF Passed
    <2>7. PICK Q \in SUBSET Node :
             Cardinality(Q) >= Majority /\ \A p \in Q : Carries(g[u], p, u, g, A)
      BY <2>2 DEF VotersInv
    <2>8. PICK R \in SUBSET Node : Cardinality(R) >= Majority /\ \A p \in R : k \in A[p][t]
      BY DEF Fixed
    <2>9. PICK p \in Node : p \in Q /\ p \in R
      BY <2>7, <2>8, MajoritiesMeet
    <2>10. Share(g[u], g[t], k)
      BY <2>2, <2>6, <2>7, <2>8, <2>9 DEF Carries, Fixed
    <2> QED  BY <2>2, <2>10
  <1>3. ASSUME NEW u \in Term, t <= u, leaders[u] # {} PROVE Share(g[u], g[t], k)
    <2>1. CASE u = t
      BY <1>1, <2>1
    <2>2. CASE u # t
      <3>1. t < u
        BY <1>0, <1>3, <2>2
      <3> QED  BY <1>2, <1>3, <3>1
    <2> QED  BY <2>1, <2>2
  <1> QED  BY <1>3

-----------------------------------------------------------------------------
(***************************************************************************)
(* How a step may change the logs and what is acknowledged.                *)
(***************************************************************************)

\* p's log becomes a part of the log of the leader of v, and p gives up nothing
\* that the two shared before.
Merged(p, v, g, h) ==
    /\ leaders[v] # {} /\ v <= currentTerm'[p]
    /\ \A t \in Term : t <= currentTerm[p] /\ Clear(p, t) => t <= v
    /\ Extends(log'[p], h[v])
    /\ \A k \in Nat : Share(log[p], g[v], k) => Share(log'[p], h[v], k)

\* A leader appends entries of its own term, a new leader brings its log, and
\* everybody else's log is left alone or merged with a leader's.
Evolves(g, h) ==
    /\ Grows(g, h)
    /\ \A t \in Term : leaders[t] \subseteq leaders'[t]
    /\ \A t \in Term : leaders[t] # {} =>
          \A i \in 1..Len(h[t]) : i > Len(g[t]) => h[t][i].term = t
    /\ \A t \in Term : h[t] # g[t] \/ leaders'[t] # leaders[t] =>
          \E m \in Node : role'[m] = "LEADER" /\ currentTerm'[m] = t
    /\ \A p \in Node : currentTerm[p] <= currentTerm'[p]
    /\ \A a \in parkedAppends' :
          /\ log'[a.call.to] = log[a.call.to]
          /\ a \in parkedAppends \/ a.call.term = currentTerm'[a.call.to]
    /\ \A p \in Node : log'[p] = log[p] \/ \E v \in Term : Merged(p, v, g, h)

\* The step acknowledges what its nodes share with the leader of their term.
Acked(A, B, h) ==
    \A p \in Node, t \in Term, k \in Nat :
        k \in B[p][t] <=> \/ k \in A[p][t]
                          \/ /\ k > 0 /\ currentTerm'[p] = t /\ Clear(p, t)'
                             /\ Share(log'[p], h[t], k)

\* A step from a state with g and A to one with h and B.
Advances(g, h, A, B) ==
    /\ TypeOK /\ TypeOK' /\ ElectionInv /\ ElectionInv' /\ GapInv /\ GapInv'
    /\ LogInv(g) /\ LogInv(h)' /\ TermInv(g) /\ AckInv(g, A)
    /\ Evolves(g, h) /\ Acked(A, B, h)

\* What is acknowledged after a step.
LEMMA NewAcks ==
    ASSUME NEW h \in Logs, NEW A \in Acks
    PROVE  \E B \in Acks : Acked(A, B, h)
  <1> DEFINE N(p, t) == {k \in Nat : /\ k > 0 /\ currentTerm'[p] = t /\ Clear(p, t)'
                                     /\ Share(log'[p], h[t], k)}
  <1>1. PICK B : B = [p \in Node |-> [t \in Term |-> A[p][t] \cup N(p, t)]]
    OBVIOUS
  <1>2. B \in Acks
    BY <1>1 DEF Acks
  <1>3. \A p \in Node, t \in Term : B[p][t] = A[p][t] \cup N(p, t)
    BY <1>1
  <1>4. ASSUME NEW p \in Node, NEW t \in Term, NEW k \in Nat
        PROVE  k \in N(p, t) <=> /\ k > 0 /\ currentTerm'[p] = t /\ Clear(p, t)'
                                 /\ Share(log'[p], h[t], k)
    OBVIOUS
  <1> HIDE DEF N
  <1>5. Acked(A, B, h)
    BY <1>3, <1>4 DEF Acked
  <1> QED  BY <1>2, <1>5

\* Types.
LEMMA StepTypes ==
    ASSUME TypeOK, TypeOK', NEW g \in Logs, NEW h \in Logs
    PROVE  /\ \A t \in Term : g[t] \in Seq(Entry) /\ h[t] \in Seq(Entry) /\ t \in Nat
           /\ \A p \in Node : /\ log[p] \in Seq(Entry) /\ log'[p] \in Seq(Entry)
                              /\ currentTerm[p] \in Term /\ currentTerm'[p] \in Term
                              /\ currentTerm[p] \in Nat /\ currentTerm'[p] \in Nat
           /\ \A a \in parkedAppends : a.call.to \in Node /\ a.call.term \in Nat
           /\ \A a \in parkedAppends' : a.call.to \in Node /\ a.call.term \in Nat
  <1>1. \A t \in Term : g[t] \in Seq(Entry) /\ h[t] \in Seq(Entry) /\ t \in Nat
    BY BoundAssumption DEF Logs, Term
  <1>2. \A p \in Node : /\ log[p] \in Seq(Entry) /\ log'[p] \in Seq(Entry)
                        /\ currentTerm[p] \in Term /\ currentTerm'[p] \in Term
    BY DEF TypeOK
  <1>3. \A a \in parkedAppends : a.call.to \in Node /\ a.call.term \in Term
    BY DEF TypeOK, ParkedAppend, AppendEntries
  <1>4. \A a \in parkedAppends' : a.call.to \in Node /\ a.call.term \in Term
    BY DEF TypeOK, ParkedAppend, AppendEntries
  <1> QED  BY <1>1, <1>2, <1>3, <1>4

\* Facts on prefixes.
LEMMA ShareTrans ==
    ASSUME NEW l \in Seq(Entry), NEW q \in Seq(Entry), NEW r \in Seq(Entry), NEW k \in Nat,
           Share(l, q, k), Share(q, r, k)
    PROVE  Share(l, r, k)
  BY DEF Share

\* Sharing is symmetric.
LEMMA ShareSym ==
    ASSUME NEW l \in Seq(Entry), NEW q \in Seq(Entry), NEW k \in Nat, Share(l, q, k)
    PROVE  Share(q, l, k)
  BY DEF Share

\* Sharing more is sharing less.
LEMMA ShareLess ==
    ASSUME NEW l \in Seq(Entry), NEW q \in Seq(Entry), NEW k \in Nat, NEW j \in Nat, j <= k,
           Share(l, q, k)
    PROVE  Share(l, q, j)
  BY DEF Share

\* The leader's own entries stay its own.
LEMMA OwnKept ==
    ASSUME NEW g \in Logs, NEW h \in Logs, Grows(g, h), NEW t \in Term, NEW k \in 1..Len(g[t])
    PROVE  Own(t, k, g) <=> Own(t, k, h)
  <1>1. g[t] \in Seq(Entry) /\ h[t] \in Seq(Entry) /\ Extends(g[t], h[t])
    BY DEF Logs, Grows
  <1>2. k \in 1..Len(h[t]) /\ h[t][k] = g[t][k]
    BY <1>1 DEF Extends
  <1> QED  BY <1>2 DEF Own

\* What the leader of v shares with an own entry of an earlier leader it shared
\* before, since it only appends entries of its own.
LEMMA ShareBack ==
    ASSUME TypeOK, TypeOK', NEW g \in Logs, NEW h \in Logs, Evolves(g, h),
           NEW t \in Term, NEW v \in Term, t < v, leaders[v] # {}, NEW k \in Nat,
           Own(t, k, g), Share(h[v], h[t], k)
    PROVE  Share(g[v], g[t], k)
  <1>1. /\ g[t] \in Seq(Entry) /\ h[t] \in Seq(Entry) /\ g[v] \in Seq(Entry) /\ h[v] \in Seq(Entry)
        /\ Extends(g[t], h[t]) /\ Extends(g[v], h[v]) /\ t \in Nat /\ v \in Nat
    BY StepTypes DEF Evolves, Grows
  <1>2. k \in 1..Len(g[t]) /\ g[t][k].term = t /\ h[t][k] = g[t][k]
    BY <1>1 DEF Own, Extends
  <1>3. k \in 1..Len(h[v]) /\ h[v][k] = h[t][k]
    BY <1>2 DEF Share
  <1>4. k <= Len(g[v])
    <2> SUFFICES ASSUME k > Len(g[v]) PROVE FALSE
      BY <1>1
    <2>1. h[v][k].term = v
      BY <1>3 DEF Evolves
    <2> QED  BY <1>1, <1>2, <1>3, <2>1
  <1> QED  BY <1>1, <1>2, <1>4 DEF Share, Extends

\* So if the leaders have passed an entry on after the step they had before.
LEMMA PassedBack ==
    ASSUME TypeOK, TypeOK', NEW g \in Logs, NEW h \in Logs, Evolves(g, h),
           NEW t \in Term, NEW u \in Nat, NEW w \in Nat, u <= w, NEW k \in Nat, Own(t, k, g),
           Passed(t, w, k, h)'
    PROVE  Passed(t, u, k, g)
  <1> SUFFICES ASSUME NEW v \in Term, t < v, v < u, leaders[v] # {}
               PROVE  Share(g[v], g[t], k)
    BY DEF Passed
  <1>1. leaders'[v] # {} /\ v \in Nat
    BY StepTypes DEF Evolves
  <1>2. Share(h[v], h[t], k)
    BY <1>1 DEF Passed
  <1> QED  BY <1>2, ShareBack

\* No handler of an earlier leader enters the gap.
LEMMA ClearKept ==
    ASSUME TypeOK, TypeOK', NEW g \in Logs, NEW h \in Logs, Evolves(g, h),
           NEW p \in Node, NEW t \in Term, t <= currentTerm[p], Clear(p, t)
    PROVE  t <= currentTerm'[p] /\ Clear(p, t)'
  <1>1. t \in Nat /\ currentTerm[p] \in Nat /\ currentTerm'[p] \in Nat
    BY StepTypes
  <1>2. t <= currentTerm'[p]
    BY <1>1 DEF Evolves
  <1> QED  BY <1>2 DEF Evolves, Clear

\* What a node acknowledges is fixed once it has left the term.
LEMMA CarriesKept ==
    ASSUME NEW g \in Logs, NEW h \in Logs, NEW A \in Acks, NEW B \in Acks, Advances(g, h, A, B),
           NEW p \in Node, NEW u \in Nat, u <= currentTerm'[p],
           NEW l \in Seq(Entry), NEW q \in Seq(Entry), Extends(l, q), Carries(l, p, u, g, A)
    PROVE  Carries(q, p, u, h, B)'
  <1>0. TypeOK /\ TypeOK' /\ Evolves(g, h) /\ AckInv(g, A) /\ Acked(A, B, h) /\ Grows(g, h)
    BY DEF Advances, Evolves
  <1> SUFFICES ASSUME NEW t \in Term, NEW k \in B[p][t], t < u, Own(t, k, h), Passed(t, u, k, h)'
               PROVE  Share(q, h[t], k)
    BY DEF Carries
  <1>1. k \in Nat /\ t \in Nat /\ currentTerm'[p] \in Nat
    BY <1>0, StepTypes DEF Acks
  <1>2. k \in A[p][t]
    BY <1>0, <1>1 DEF Acked
  <1>3. k \in 1..Len(g[t])
    BY <1>0, <1>2 DEF AckInv
  <1>4. Own(t, k, g)
    BY <1>0, <1>3, OwnKept
  <1>5. Passed(t, u, k, g)
    BY <1>0, <1>1, <1>4, PassedBack
  <1>6. Share(l, g[t], k)
    BY <1>2, <1>4, <1>5 DEF Carries
  <1>7. g[t] \in Seq(Entry) /\ h[t] \in Seq(Entry) /\ Extends(g[t], h[t])
    BY <1>0, StepTypes DEF Grows
  <1> QED  BY <1>1, <1>6, <1>7, ShareGrows

\* Entries keep to the terms of their logs.
LEMMA TermInvKept ==
    ASSUME NEW g \in Logs, NEW h \in Logs, NEW A \in Acks, NEW B \in Acks, Advances(g, h, A, B)
    PROVE  TermInv(h)'
  <1>0. TypeOK /\ TypeOK' /\ Evolves(g, h) /\ TermInv(g) /\ LogInv(h)' /\ Grows(g, h)
    BY DEF Advances, Evolves
  <1>1. /\ \A t \in Term : g[t] \in Seq(Entry) /\ h[t] \in Seq(Entry) /\ t \in Nat
        /\ \A p \in Node : /\ log[p] \in Seq(Entry) /\ log'[p] \in Seq(Entry)
                           /\ currentTerm[p] \in Term /\ currentTerm'[p] \in Term
                           /\ currentTerm[p] \in Nat /\ currentTerm'[p] \in Nat
        /\ \A a \in parkedAppends' : a.call.to \in Node /\ a.call.term \in Nat
    BY <1>0, StepTypes
  <1>2. ASSUME NEW t \in Term, leaders[t] # {}, NEW i \in 1..Len(h[t]) PROVE h[t][i].term <= t
    <2>1. CASE i > Len(g[t])
      <3>1. h[t][i].term = t
        BY <1>0, <1>2, <2>1 DEF Evolves
      <3> QED  BY <1>1, <3>1
    <2>2. CASE ~(i > Len(g[t]))
      <3>1. i \in 1..Len(g[t]) /\ h[t][i] = g[t][i]
        BY <1>0, <1>1, <2>2 DEF Grows, Extends
      <3> QED  BY <1>0, <3>1 DEF TermInv
    <2> QED  BY <2>1, <2>2
  <1>3. ASSUME NEW p \in Node, NEW i \in 1..Len(log'[p]) PROVE log'[p][i].term <= currentTerm'[p]
    <2>0. log'[p][i].term \in Nat
      BY <1>1, EntryTerm
    <2>1. CASE log'[p] = log[p]
      <3>1. log[p][i].term <= currentTerm[p] /\ currentTerm[p] <= currentTerm'[p]
        BY <1>0, <2>1 DEF TermInv, Evolves
      <3> QED  BY <1>1, <2>0, <2>1, <3>1
    <2>2. ASSUME NEW v \in Term, Merged(p, v, g, h) PROVE log'[p][i].term <= currentTerm'[p]
      <3>1. i \in 1..Len(h[v]) /\ log'[p][i] = h[v][i] /\ v <= currentTerm'[p] /\ leaders[v] # {}
        BY <1>1, <2>2 DEF Merged, Extends
      <3>2. h[v][i].term <= v
        BY <1>2, <3>1
      <3> QED  BY <1>1, <2>0, <3>1, <3>2
    <2> QED  BY <1>0, <2>1, <2>2 DEF Evolves
  <1>4. ASSUME NEW t \in Term, NEW i \in 1..Len(h[t]) PROVE h[t][i].term <= t
    <2>1. CASE h[t] = g[t]
      BY <1>0, <2>1 DEF TermInv
    <2>2. CASE h[t] # g[t]
      <3>1. PICK m \in Node : role'[m] = "LEADER" /\ currentTerm'[m] = t
        BY <1>0, <2>2 DEF Evolves
      <3>2. log'[m] = h[t]
        BY <1>0, <3>1 DEF LogInv
      <3> QED  BY <1>3, <3>1, <3>2
    <2> QED  BY <2>1, <2>2
  <1>5. ASSUME NEW a \in parkedAppends', NEW i \in 1..Len(log'[a.call.to])
        PROVE  log'[a.call.to][i].term <= a.call.term
    <2>1. CASE a.call.term = currentTerm'[a.call.to]
      BY <1>1, <1>3, <2>1
    <2>2. CASE a \in parkedAppends
      BY <1>0, <2>2 DEF Evolves, TermInv
    <2> QED  BY <1>0, <2>1, <2>2 DEF Evolves
  <1> QED  BY <1>3, <1>4, <1>5 DEF TermInv

\* Nothing acknowledged is lost, unless a later leader lacks it.
LEMMA AckInvKept ==
    ASSUME NEW g \in Logs, NEW h \in Logs, NEW A \in Acks, NEW B \in Acks, Advances(g, h, A, B)
    PROVE  AckInv(h, B)'
  <1>0. /\ TypeOK /\ TypeOK' /\ Evolves(g, h) /\ AckInv(g, A) /\ Acked(A, B, h) /\ Grows(g, h)
        /\ LogInv(h)' /\ GapInv' /\ ElectionInv'
    BY DEF Advances, Evolves
  <1>1. /\ \A t \in Term : /\ g[t] \in Seq(Entry) /\ h[t] \in Seq(Entry) /\ t \in Nat
                           /\ Extends(g[t], h[t])
        /\ \A p \in Node : /\ log[p] \in Seq(Entry) /\ log'[p] \in Seq(Entry)
                           /\ currentTerm[p] \in Term /\ currentTerm'[p] \in Term
                           /\ currentTerm[p] \in Nat /\ currentTerm'[p] \in Nat
        /\ \A p \in Node, t \in Term : A[p][t] \subseteq Nat /\ B[p][t] \subseteq Nat
    BY <1>0, StepTypes DEF Acks, Grows
  <1>2. ASSUME NEW p \in Node, NEW t \in Term, NEW k \in B[p][t]
        PROVE  /\ k \in 1..Len(h[t]) /\ t <= currentTerm'[p] /\ Clear(p, t)'
               /\ \A j \in 1..k : j \in B[p][t]
    <2>1. CASE k \in A[p][t]
      <3>1. k \in 1..Len(g[t]) /\ t <= currentTerm[p] /\ Clear(p, t) /\ \A j \in 1..k : j \in A[p][t]
        BY <1>0, <2>1 DEF AckInv
      <3>2. k \in 1..Len(h[t])
        BY <1>1, <3>1 DEF Extends
      <3>3. \A j \in 1..k : j \in B[p][t]
        BY <1>0, <1>1, <3>1 DEF Acked
      <3> QED  BY <1>0, <3>1, <3>2, <3>3, ClearKept
    <2>2. CASE k \notin A[p][t]
      <3>1. k \in Nat /\ k > 0 /\ currentTerm'[p] = t /\ Clear(p, t)' /\ Share(log'[p], h[t], k)
        BY <1>0, <1>1, <2>2 DEF Acked
      <3>2. k \in 1..Len(h[t]) /\ t <= currentTerm'[p]
        BY <1>1, <3>1 DEF Share
      <3>3. ASSUME NEW j \in 1..k PROVE j \in B[p][t]
        <4>1. j \in Nat /\ j > 0 /\ j <= k
          BY <3>1
        <4>2. Share(log'[p], h[t], j)
          BY <1>1, <3>1, <4>1, ShareLess
        <4> QED  BY <1>0, <3>1, <4>1, <4>2 DEF Acked
      <3> QED  BY <3>1, <3>2, <3>3
    <2> QED  BY <2>1, <2>2
  <1>3. ASSUME NEW p \in Node, NEW k \in 1..Len(log'[p]), Clear(p, currentTerm[p])',
               Share(log'[p], h[currentTerm'[p]], k)
        PROVE  k \in B[p][currentTerm'[p]]
    <2>1. PICK t \in Term : t = currentTerm'[p]
      BY <1>1
    <2>2. Clear(p, t)'
      BY <1>3, <2>1 DEF Clear
    <2> QED  BY <1>0, <1>1, <1>3, <2>1, <2>2 DEF Acked
  <1>4. ASSUME NEW p \in Node PROVE Carries(log[p], p, currentTerm[p] + 1, h, B)'
    <2> SUFFICES ASSUME NEW t \in Term, NEW k \in B[p][t], t < currentTerm'[p] + 1,
                        Own(t, k, h), Passed(t, currentTerm[p] + 1, k, h)'
                 PROVE  Share(log'[p], h[t], k)
      BY DEF Carries
    <2>1. CASE k \notin A[p][t]
      BY <1>0, <1>1, <2>1 DEF Acked
    <2>2. CASE k \in A[p][t]
      <3>1. k \in Nat /\ k \in 1..Len(g[t]) /\ t <= currentTerm[p] /\ Clear(p, t)
        BY <1>0, <1>1, <2>2 DEF AckInv
      <3>2. Own(t, k, g)
        BY <1>0, <3>1, OwnKept
      <3>3. PICK w \in Nat : w = currentTerm'[p] + 1
        BY <1>1
      <3>4. PICK u \in Nat : u = currentTerm[p] + 1
        BY <1>1
      <3>5. Passed(t, w, k, h)' /\ u <= w
        BY <1>0, <1>1, <3>3, <3>4 DEF Passed, Evolves
      <3>6. Passed(t, u, k, g)
        BY <1>0, <3>1, <3>2, <3>5, PassedBack
      <3>7. Share(log[p], g[t], k)
        BY <1>0, <1>1, <2>2, <3>1, <3>2, <3>4, <3>6 DEF AckInv, Carries
      <3>8. CASE log'[p] = log[p]
        <4>1. Extends(log[p], log[p]) /\ Extends(g[t], h[t])
          BY <1>1, ExtendsSelf
        <4> QED  BY <1>1, <3>1, <3>7, <3>8, <4>1, ShareGrows
      <3>9. ASSUME NEW v \in Term, Merged(p, v, g, h) PROVE Share(log'[p], h[t], k)
        <4>1. t <= v /\ leaders[v] # {} /\ leaders'[v] # {} /\ v <= currentTerm'[p]
          BY <1>0, <3>1, <3>9 DEF Merged, Evolves
        <4>2. CASE t = v
          BY <3>1, <3>7, <3>9, <4>2 DEF Merged
        <4>3. CASE t # v
          <5>1. t < v /\ v < w
            BY <1>1, <3>3, <4>1, <4>3
          <5>2. Share(h[v], h[t], k)
            BY <3>5, <4>1, <5>1 DEF Passed
          <5>3. Share(g[v], g[t], k)
            BY <1>0, <3>1, <3>2, <4>1, <5>1, <5>2, ShareBack
          <5>4. Share(log[p], g[v], k)
            BY <1>1, <3>1, <3>7, <5>3, ShareSym, ShareTrans
          <5>5. Share(log'[p], h[v], k)
            BY <3>1, <3>9, <5>4 DEF Merged
          <5> QED  BY <1>1, <3>1, <5>2, <5>5, ShareTrans
        <4> QED  BY <4>2, <4>3
      <3> QED  BY <1>0, <3>8, <3>9 DEF Evolves
    <2> QED  BY <2>1, <2>2
  <1>5. ASSUME NEW t \in Term, NEW n \in leaders'[t], NEW k \in 1..Len(h[t]) PROVE k \in B[n][t]
    <2>0. n \in Node
      BY <1>0 DEF TypeOK
    <2>1. CASE h[t] = g[t] /\ leaders'[t] = leaders[t]
      <3>1. k \in A[n][t]
        BY <1>0, <2>1 DEF AckInv
      <3> QED  BY <1>0, <2>0, <3>1 DEF Acked
    <2>2. CASE h[t] # g[t] \/ leaders'[t] # leaders[t]
      <3>1. PICK m \in Node : role'[m] = "LEADER" /\ currentTerm'[m] = t
        BY <1>0, <2>2 DEF Evolves
      <3>2. m = n
        BY <1>0, <3>1 DEF ElectionInv, RolesInv, ElectionSafety
      <3>3. log'[n] = h[t] /\ Clear(n, t)'
        BY <1>0, <3>1, <3>2 DEF LogInv, GapInv, Clear
      <3>4. Share(log'[n], h[t], k) /\ k \in Nat /\ k > 0
        BY <1>1, <3>3 DEF Share
      <3> QED  BY <1>0, <2>0, <3>1, <3>2, <3>3, <3>4 DEF Acked
    <2> QED  BY <2>1, <2>2
  <1> QED  BY <1>2, <1>3, <1>4, <1>5 DEF AckInv

\* The majorities behind the leaders there were.
LEMMA VotersKept ==
    ASSUME NEW g \in Logs, NEW h \in Logs, NEW A \in Acks, NEW B \in Acks, Advances(g, h, A, B),
           VotersInv(g, A), NEW u \in Term, leaders[u] # {}
    PROVE  \E Q \in SUBSET Node :
               /\ Cardinality(Q) >= Majority
               /\ \A p \in Q : u <= currentTerm'[p] /\ Carries(h[u], p, u, h, B)'
  <1>0. TypeOK /\ TypeOK' /\ Evolves(g, h) /\ Grows(g, h)
    BY DEF Advances, Evolves
  <1>1. PICK Q \in SUBSET Node :
            /\ Cardinality(Q) >= Majority
            /\ \A p \in Q : u <= currentTerm[p] /\ Carries(g[u], p, u, g, A)
    BY DEF VotersInv
  <1>2. ASSUME NEW p \in Q PROVE u <= currentTerm'[p] /\ Carries(h[u], p, u, h, B)'
    <2>1. p \in Node /\ u \in Nat /\ currentTerm[p] \in Nat /\ currentTerm'[p] \in Nat
      BY <1>0, <1>1, StepTypes
    <2>2. u <= currentTerm'[p]
      BY <1>0, <1>1, <2>1 DEF Evolves
    <2>3. g[u] \in Seq(Entry) /\ h[u] \in Seq(Entry) /\ Extends(g[u], h[u])
      BY <1>0, StepTypes DEF Grows
    <2> QED  BY <1>1, <2>1, <2>2, <2>3, CarriesKept
  <1> QED  BY <1>1, <1>2

-----------------------------------------------------------------------------
(***************************************************************************)
(* What is committed, and what the leaders know of their followers.        *)
(***************************************************************************)

\* The leader of u has appended everything after position x itself.
Past(u, x, g) == \A i \in 1..Len(g[u]) : i > x => g[u][i].term = u

\* p has nothing but entries of the leader of u, or has gone on.
Heard(p, u, g) ==
    \/ currentTerm[p] > u
    \/ currentTerm[p] = u /\ Clear(p, u) /\ Extends(log[p], g[u])

\* An entry after x that p has accepted from the leader of u, or that it finds
\* in its log, tells that p has nothing but entries of that leader: nextIndex
\* only comes back as far as the logs differ.
Behind(p, u, x, g) ==
    \/ Heard(p, u, g)
    \/ Past(u, x, g)
    \/ /\ currentTerm[p] = u /\ Clear(p, u)
       /\ \A j \in 1..Len(log[p]) : Share(log[p], g[u], j) => j <= x

\* Position x is not beyond what is fixed by term u.
Backed(x, u, g, A) ==
    x = 0 \/ \E t \in Term, k \in Nat : t <= u /\ x <= k /\ Fixed(t, k, g, A)

\* A call is a piece of its leader's log, and its leaderCommit is backed.
CallInv(c, g, A) ==
    /\ c.from \in leaders[c.term] /\ c.from # c.to
    /\ PieceOf(c, g[c.term])
    /\ c.entries = <<>> => c.leaderCommit <= c.prevLogIndex
    /\ Backed(c.leaderCommit, c.term, g, A)

\* What an answer tells of the one who gave it.
ReplyInv(r, g, A) ==
    /\ leaders[r.term] # {}
    /\ Confirms(r) =>
          /\ r.nextIdx + r.entriesCount - 1 <= Len(g[r.term])
          /\ Heard(r.to, r.term, g)
          /\ r.term <= r.respTerm
          /\ r.respTerm = r.term => r.nextIdx + r.entriesCount - 1 \in A[r.to][r.term]
    /\ ~r.success => /\ r.conflictIndex <= Len(g[r.term]) + 1
                     /\ Behind(r.to, r.term, r.conflictIndex - 1, g)

\* What leader n knows of p.
PeerInv(n, p, g, A) ==
    /\ nextIndex[n][p] <= Len(log[n]) + 1
    /\ Behind(p, currentTerm[n], nextIndex[n][p] - 1, g)
    /\ matchIndex[n][p] > 0 => matchIndex[n][p] \in A[p][currentTerm[n]]

SendInv(g, A) ==
    /\ \A c \in aeCalls : CallInv(c, g, A) /\ Behind(c.to, c.term, c.prevLogIndex, g)
    /\ \A a \in parkedAppends : CallInv(a.call, g, A) /\ Past(a.call.term, a.call.prevLogIndex, g)
    /\ \A r \in aeReplies : ReplyInv(r, g, A)
    /\ \A n \in Node : \A p \in Peers(n) : role[n] = "LEADER" => PeerInv(n, p, g, A)

\* The first x entries of n's log are fixed.
Done(n, x, g, A) ==
    x = 0 \/ \E t \in Term, k \in Nat : /\ Fixed(t, k, g, A) /\ x <= k /\ Share(log[n], g[t], x)
                                        /\ t <= currentTerm[n] /\ Clear(n, t)

\* What n has applied is the beginning of its log, and fixed.
DoneInv(g, A) ==
    \A n \in Node : /\ Done(n, Len(applied[n]), g, A)
                    /\ Share(log[n], applied[n], Len(applied[n]))

\* A candidate has what those who vote for it have acknowledged.
CandidateInv(g, A) ==
    /\ \A c \in rvCalls \cup parkedVotes :
          /\ c.term <= currentTerm[c.from]
          /\ role[c.from] = "CANDIDATE" /\ currentTerm[c.from] = c.term =>
                c.lastLogIndex = Len(log[c.from]) /\ c.lastLogTerm = LastTerm(log[c.from])
    /\ \A r \in rvReplies : r.term <= currentTerm[r.from]
    /\ \A c, p \in Node :
          role[c] = "CANDIDATE" /\ leaders[currentTerm[c]] = {} /\ Granted(p, c, currentTerm[c])
              => Carries(log[c], p, currentTerm[c], g, A)

CommitInv(g, A) ==
    /\ LogInv(g) /\ TermInv(g) /\ AckInv(g, A) /\ VotersInv(g, A)
    /\ CandidateInv(g, A) /\ SendInv(g, A) /\ DoneInv(g, A)

\* There are logs of the leaders and acknowledgements that everything fits.
CommitsInv == \E g \in Logs : \E A \in Acks : CommitInv(g, A)

-----------------------------------------------------------------------------
(***************************************************************************)
(* A step keeps what is known.                                             *)
(***************************************************************************)

\* What is fixed stays fixed.
LEMMA FixedKept ==
    ASSUME NEW g \in Logs, NEW h \in Logs, NEW A \in Acks, NEW B \in Acks, Advances(g, h, A, B),
           NEW t \in Term, NEW k \in Nat, Fixed(t, k, g, A)
    PROVE  Fixed(t, k, h, B)
  <1>0. Grows(g, h) /\ Acked(A, B, h)
    BY DEF Advances, Evolves
  <1>1. Own(t, k, h)
    BY <1>0, OwnKept DEF Fixed, Own
  <1>2. PICK Q \in SUBSET Node : Cardinality(Q) >= Majority /\ \A p \in Q : k \in A[p][t]
    BY DEF Fixed
  <1>3. \A p \in Q : k \in B[p][t]
    BY <1>0, <1>2 DEF Acked
  <1> QED  BY <1>1, <1>2, <1>3 DEF Fixed

\* Leaders append entries of their own term.
LEMMA PastKept ==
    ASSUME TypeOK, TypeOK', NEW g \in Logs, NEW h \in Logs, Evolves(g, h),
           NEW u \in Term, leaders[u] # {}, NEW x \in Int, Past(u, x, g)
    PROVE  Past(u, x, h)
  <1>1. g[u] \in Seq(Entry) /\ h[u] \in Seq(Entry) /\ Extends(g[u], h[u])
    BY StepTypes DEF Evolves, Grows
  <1>2. ASSUME NEW i \in 1..Len(h[u]), i > x PROVE h[u][i].term = u
    <2>1. CASE i > Len(g[u])
      BY <2>1 DEF Evolves
    <2>2. CASE ~(i > Len(g[u]))
      BY <1>1, <1>2, <2>2 DEF Past, Extends
    <2> QED  BY <2>1, <2>2
  <1> QED  BY <1>2 DEF Past

\* A node that has heard the leader of u merges its log with no earlier one's.
LEMMA HeardKept ==
    ASSUME TypeOK, TypeOK', NEW g \in Logs, NEW h \in Logs, Evolves(g, h),
           NEW p \in Node, NEW u \in Term, Heard(p, u, g)
    PROVE  Heard(p, u, h)'
  <1>1. /\ g[u] \in Seq(Entry) /\ h[u] \in Seq(Entry) /\ Extends(g[u], h[u]) /\ u \in Nat
        /\ currentTerm[p] \in Nat /\ currentTerm'[p] \in Nat
        /\ log[p] \in Seq(Entry) /\ log'[p] \in Seq(Entry)
        /\ currentTerm[p] <= currentTerm'[p]
    BY StepTypes DEF Evolves, Grows
  <1>2. CASE currentTerm'[p] > u
    BY <1>2 DEF Heard
  <1>3. CASE ~(currentTerm'[p] > u)
    <2>1. currentTerm[p] = u /\ currentTerm'[p] = u /\ Clear(p, u) /\ Extends(log[p], g[u])
      BY <1>1, <1>3 DEF Heard
    <2>2. Clear(p, u)'
      BY <1>1, <2>1, ClearKept
    <2>3. CASE log'[p] = log[p]
      <3>1. Extends(log'[p], h[u])
        BY <1>1, <2>1, <2>3 DEF Extends
      <3> QED  BY <2>1, <2>2, <3>1 DEF Heard
    <2>4. ASSUME NEW v \in Term, Merged(p, v, g, h) PROVE Heard(p, u, h)'
      <3>1. u <= v /\ v <= u /\ v \in Nat
        BY <1>1, <2>1, <2>4, StepTypes DEF Merged
      <3>2. v = u
        BY <1>1, <3>1
      <3> QED  BY <2>1, <2>2, <2>4, <3>2 DEF Merged, Heard
    <2> QED  BY <2>3, <2>4 DEF Evolves
  <1> QED  BY <1>2, <1>3

\* The same for a node that is behind.
LEMMA BehindKept ==
    ASSUME TypeOK, TypeOK', NEW g \in Logs, NEW h \in Logs, LogInv(g), Evolves(g, h),
           NEW p \in Node, NEW u \in Term, leaders[u] # {}, NEW x \in Int, Behind(p, u, x, g)
    PROVE  Behind(p, u, x, h)'
  <1>1. /\ g[u] \in Seq(Entry) /\ h[u] \in Seq(Entry) /\ Extends(g[u], h[u]) /\ u \in Nat
        /\ currentTerm[p] \in Nat /\ currentTerm'[p] \in Nat
        /\ log[p] \in Seq(Entry) /\ log'[p] \in Seq(Entry)
        /\ currentTerm[p] <= currentTerm'[p]
    BY StepTypes DEF Evolves, Grows
  <1>2. CASE Heard(p, u, g)
    BY <1>2, HeardKept DEF Behind
  <1>3. CASE Past(u, x, g)
    <2>1. Past(u, x, h)
      BY <1>3, PastKept
    <2> QED  BY <2>1 DEF Behind, Past
  <1>4. CASE /\ currentTerm[p] = u /\ Clear(p, u)
             /\ \A j \in 1..Len(log[p]) : Share(log[p], g[u], j) => j <= x
    <2>1. CASE currentTerm'[p] # u
      <3>1. currentTerm'[p] > u
        BY <1>1, <1>4, <2>1
      <3> QED  BY <3>1 DEF Behind, Heard
    <2>2. CASE currentTerm'[p] = u /\ log'[p] = log[p]
      <3>1. Clear(p, u)'
        BY <1>1, <1>4, ClearKept
      <3>2. ASSUME NEW j \in 1..Len(log[p]), Share(log[p], h[u], j) PROVE j <= x
        <4>1. j \in 1..Len(h[u]) /\ log[p][j] = h[u][j]
          BY <1>1, <3>2 DEF Share
        <4>2. j <= Len(g[u])
          <5> SUFFICES ASSUME j > Len(g[u]) PROVE FALSE
            BY <1>1
          <5>1. log[p][j].term = u
            BY <4>1 DEF Evolves
          <5>2. j <= Len(g[u])
            BY <5>1 DEF LogInv, Grounded
          <5> QED  BY <1>1, <5>2
        <4>3. Share(log[p], g[u], j)
          BY <1>1, <3>2, <4>2 DEF Share, Extends
        <4> QED  BY <1>4, <4>3
      <3> QED  BY <2>2, <3>1, <3>2 DEF Behind
    <2>3. ASSUME NEW v \in Term, Merged(p, v, g, h), currentTerm'[p] = u PROVE Behind(p, u, x, h)'
      <3>1. u <= v /\ v <= u /\ v \in Nat
        BY <1>1, <1>4, <2>3, StepTypes DEF Merged
      <3>2. v = u
        BY <1>1, <3>1
      <3>3. Clear(p, u)'
        BY <1>1, <1>4, ClearKept
      <3>4. Extends(log'[p], h[u])
        BY <2>3, <3>2 DEF Merged
      <3> QED  BY <2>3, <3>3, <3>4 DEF Behind, Heard
    <2> QED  BY <2>1, <2>2, <2>3 DEF Evolves
  <1> QED  BY <1>2, <1>3, <1>4 DEF Behind

\* To be behind at one position is to be behind at every later one.
LEMMA BehindLater ==
    ASSUME NEW p, NEW u \in Term, NEW g \in Logs, NEW x \in Int, NEW y \in Int, x <= y,
           log[p] \in Seq(Entry), Behind(p, u, x, g)
    PROVE  Behind(p, u, y, g)
  <1>1. g[u] \in Seq(Entry)
    BY DEF Logs
  <1>2. CASE Heard(p, u, g)
    BY <1>2 DEF Behind
  <1>3. CASE Past(u, x, g)
    <2>1. Past(u, y, g)
      BY <1>1, <1>3 DEF Past
    <2> QED  BY <2>1 DEF Behind
  <1>4. CASE /\ currentTerm[p] = u /\ Clear(p, u)
             /\ \A j \in 1..Len(log[p]) : Share(log[p], g[u], j) => j <= x
    <2>1. \A j \in 1..Len(log[p]) : Share(log[p], g[u], j) => j <= y
      BY <1>4
    <2> QED  BY <1>4, <2>1 DEF Behind
  <1> QED  BY <1>2, <1>3, <1>4 DEF Behind

\* What backs a leaderCommit stays.
LEMMA BackedKept ==
    ASSUME NEW g \in Logs, NEW h \in Logs, NEW A \in Acks, NEW B \in Acks, Advances(g, h, A, B),
           NEW x \in Nat, NEW u \in Nat, NEW w \in Nat, u <= w, Backed(x, u, g, A)
    PROVE  Backed(x, w, h, B)
  <1>1. ASSUME NEW t \in Term, NEW k \in Nat, t <= u, x <= k, Fixed(t, k, g, A)
        PROVE  Backed(x, w, h, B)
    <2>1. Fixed(t, k, h, B)
      BY <1>1, FixedKept
    <2>2. t <= w
      BY <1>1, BoundAssumption DEF Term
    <2> QED  BY <1>1, <2>1, <2>2 DEF Backed
  <1> QED  BY <1>1 DEF Backed

\* Calls in flight.
LEMMA CallInvKept ==
    ASSUME NEW g \in Logs, NEW h \in Logs, NEW A \in Acks, NEW B \in Acks, Advances(g, h, A, B),
           NEW c \in AppendEntries, CallInv(c, g, A)
    PROVE  CallInv(c, h, B)'
  <1>0. Evolves(g, h) /\ Grows(g, h)
    BY DEF Advances, Evolves
  <1>1. /\ c.term \in Term /\ c.term \in Nat /\ c.prevLogIndex \in Nat /\ c.entries \in Seq(Entry)
        /\ Len(c.entries) \in Nat /\ c.leaderCommit \in Nat
    <2>1. /\ c.term \in Term /\ c.prevLogIndex \in Nat /\ c.entries \in Seq(Entry)
          /\ c.leaderCommit \in Nat
      BY DEF AppendEntries
    <2> QED  BY <2>1, BoundAssumption DEF Term
  <1>2. PICK G, H \in Seq(Entry) : G = g[c.term] /\ H = h[c.term] /\ Extends(G, H)
    BY <1>0, <1>1 DEF Logs, Grows
  <1>3. PieceOf(c, G)
    BY <1>2 DEF CallInv
  <1>4. PieceOf(c, H)
    <2>1. c.prevLogIndex + Len(c.entries) <= Len(G) /\ Len(G) <= Len(H)
      BY <1>2, <1>3 DEF PieceOf, Extends
    <2>2. c.prevLogIndex > 0 => c.prevLogTerm = H[c.prevLogIndex].term
      BY <1>1, <1>2, <1>3, <2>1 DEF PieceOf, Extends
    <2>3. ASSUME NEW j \in 1..Len(c.entries) PROVE c.entries[j] = H[c.prevLogIndex + j]
      <3>1. c.prevLogIndex + j \in 1..Len(G)
        BY <1>1, <1>2, <2>1
      <3> QED  BY <1>2, <1>3, <3>1 DEF PieceOf, Extends
    <2> QED  BY <1>1, <1>2, <2>1, <2>2, <2>3 DEF PieceOf
  <1>5. Backed(c.leaderCommit, c.term, h, B)
    BY <1>1, BackedKept DEF CallInv
  <1>6. c.from \in leaders'[c.term]
    BY <1>0, <1>1 DEF CallInv, Evolves
  <1> QED  BY <1>2, <1>4, <1>5, <1>6 DEF CallInv, PieceOf, Backed

\* Answers in flight.
LEMMA ReplyInvKept ==
    ASSUME NEW g \in Logs, NEW h \in Logs, NEW A \in Acks, NEW B \in Acks, Advances(g, h, A, B),
           NEW r \in AppendEntriesReply, ReplyInv(r, g, A)
    PROVE  ReplyInv(r, h, B)'
  <1>0. /\ TypeOK /\ TypeOK' /\ LogInv(g) /\ Evolves(g, h) /\ Grows(g, h) /\ Acked(A, B, h)
    BY DEF Advances, Evolves
  <1>1. /\ r.term \in Term /\ r.respTerm \in Term /\ r.to \in Node /\ r.conflictIndex \in Nat
        /\ r.nextIdx + r.entriesCount - 1 \in Nat
    BY DEF AppendEntriesReply
  <1>2. /\ g[r.term] \in Seq(Entry) /\ h[r.term] \in Seq(Entry)
        /\ Len(g[r.term]) <= Len(h[r.term])
    BY <1>0, <1>1 DEF Logs, Grows, Extends
  <1>3. leaders[r.term] # {} /\ leaders'[r.term] # {}
    BY <1>0, <1>1 DEF Evolves, ReplyInv
  <1>4. ASSUME Confirms(r)
        PROVE  /\ r.nextIdx + r.entriesCount - 1 <= Len(h[r.term])
               /\ Heard(r.to, r.term, h)' /\ r.term <= r.respTerm
               /\ r.respTerm = r.term => r.nextIdx + r.entriesCount - 1 \in B[r.to][r.term]
    <2>1. Heard(r.to, r.term, h)'
      BY <1>0, <1>1, <1>4, HeardKept DEF ReplyInv
    <2>2. r.respTerm = r.term => r.nextIdx + r.entriesCount - 1 \in B[r.to][r.term]
      BY <1>0, <1>1, <1>4 DEF ReplyInv, Acked
    <2>3. r.nextIdx + r.entriesCount - 1 <= Len(h[r.term])
      BY <1>1, <1>2, <1>4 DEF ReplyInv
    <2> QED  BY <1>4, <2>1, <2>2, <2>3 DEF ReplyInv
  <1>5. ASSUME ~r.success
        PROVE  /\ r.conflictIndex <= Len(h[r.term]) + 1
               /\ Behind(r.to, r.term, r.conflictIndex - 1, h)'
    <2>1. PICK x \in Int : x = r.conflictIndex - 1
      BY <1>1
    <2>2. Behind(r.to, r.term, x, g)
      BY <1>5, <2>1 DEF ReplyInv
    <2>3. Behind(r.to, r.term, x, h)'
      BY <1>0, <1>1, <1>3, <2>2, BehindKept
    <2>4. r.conflictIndex <= Len(h[r.term]) + 1
      BY <1>1, <1>2, <1>5 DEF ReplyInv
    <2> QED  BY <2>1, <2>3, <2>4
  <1> QED  BY <1>3, <1>4, <1>5 DEF ReplyInv

\* What a leader knows of a peer.
LEMMA PeerInvKept ==
    ASSUME NEW g \in Logs, NEW h \in Logs, NEW A \in Acks, NEW B \in Acks, Advances(g, h, A, B),
           NEW n \in Node, NEW p \in Peers(n), PeerInv(n, p, g, A),
           role[n] = "LEADER", role'[n] = "LEADER", currentTerm'[n] = currentTerm[n],
           nextIndex'[n][p] = nextIndex[n][p], matchIndex'[n][p] = matchIndex[n][p]
    PROVE  PeerInv(n, p, h, B)'
  <1>0. /\ TypeOK /\ TypeOK' /\ LogInv(g) /\ LogInv(h)' /\ Evolves(g, h) /\ Grows(g, h)
        /\ Acked(A, B, h) /\ ElectionInv
    BY DEF Advances, Evolves
  <1>1. PICK u \in Term : u = currentTerm[n] /\ u = currentTerm'[n]
    BY <1>0, StepTypes
  <1>2. /\ g[u] \in Seq(Entry) /\ h[u] \in Seq(Entry) /\ Len(g[u]) <= Len(h[u])
        /\ log[n] = g[u] /\ log'[n] = h[u] /\ leaders[u] # {}
    BY <1>0, <1>1 DEF Logs, Grows, Extends, LogInv, ElectionInv, RolesInv
  <1>3. p \in Node /\ nextIndex[n][p] \in Nat /\ matchIndex[n][p] \in Nat
    BY <1>0 DEF TypeOK, Peers
  <1>4. PICK x \in Int : x = nextIndex[n][p] - 1 /\ x = nextIndex'[n][p] - 1
    BY <1>3
  <1>5. Behind(p, u, x, g)
    BY <1>1, <1>4 DEF PeerInv
  <1>6. Behind(p, u, x, h)'
    BY <1>0, <1>2, <1>3, <1>5, BehindKept
  <1>7. nextIndex'[n][p] <= Len(log'[n]) + 1
    BY <1>2, <1>3 DEF PeerInv
  <1>8. matchIndex'[n][p] > 0 => matchIndex'[n][p] \in B[p][u]
    BY <1>0, <1>1, <1>3 DEF PeerInv, Acked
  <1> QED  BY <1>1, <1>4, <1>6, <1>7, <1>8 DEF PeerInv

\* Only what is new in a step has to be looked at.
LEMMA SendInvKept ==
    ASSUME NEW g \in Logs, NEW h \in Logs, NEW A \in Acks, NEW B \in Acks, Advances(g, h, A, B),
           SendInv(g, A),
           \A c \in aeCalls' :
               c \in aeCalls \/ (CallInv(c, h, B)' /\ Behind(c.to, c.term, c.prevLogIndex, h)'),
           \A a \in parkedAppends' :
               \/ a \in parkedAppends
               \/ CallInv(a.call, h, B)' /\ Past(a.call.term, a.call.prevLogIndex, h),
           \A r \in aeReplies' : r \in aeReplies \/ ReplyInv(r, h, B)',
           \A n \in Node : \A p \in Peers(n) : role'[n] = "LEADER" =>
               \/ PeerInv(n, p, h, B)'
               \/ /\ role[n] = "LEADER" /\ currentTerm'[n] = currentTerm[n]
                  /\ nextIndex'[n][p] = nextIndex[n][p] /\ matchIndex'[n][p] = matchIndex[n][p]
    PROVE  SendInv(h, B)'
  <1>0. TypeOK /\ TypeOK' /\ LogInv(g) /\ Evolves(g, h)
    BY DEF Advances
  <1>1. ASSUME NEW c \in aeCalls
        PROVE  CallInv(c, h, B)' /\ Behind(c.to, c.term, c.prevLogIndex, h)'
    <2>1. /\ c \in AppendEntries /\ c.to \in Node /\ c.term \in Term /\ c.prevLogIndex \in Int
      <3>1. c \in AppendEntries /\ c.to \in Node /\ c.term \in Term
        BY <1>0, LogTypes
      <3> QED  BY <3>1 DEF AppendEntries
    <2>2. CallInv(c, g, A) /\ Behind(c.to, c.term, c.prevLogIndex, g) /\ leaders[c.term] # {}
      BY DEF SendInv, CallInv
    <2> QED  BY <1>0, <2>1, <2>2, CallInvKept, BehindKept
  <1>2. ASSUME NEW a \in parkedAppends
        PROVE  CallInv(a.call, h, B)' /\ Past(a.call.term, a.call.prevLogIndex, h)
    <2>1. a.call \in AppendEntries /\ a.call.term \in Term /\ a.call.prevLogIndex \in Int
      <3>1. a.call \in AppendEntries /\ a.call.term \in Term
        BY <1>0, LogTypes
      <3> QED  BY <3>1 DEF AppendEntries
    <2>2. /\ CallInv(a.call, g, A) /\ Past(a.call.term, a.call.prevLogIndex, g)
          /\ leaders[a.call.term] # {}
      BY DEF SendInv, CallInv
    <2> QED  BY <1>0, <2>1, <2>2, CallInvKept, PastKept
  <1>3. ASSUME NEW r \in aeReplies PROVE ReplyInv(r, h, B)'
    <2>1. r \in AppendEntriesReply /\ ReplyInv(r, g, A)
      BY <1>0 DEF TypeOK, SendInv
    <2> QED  BY <2>1, ReplyInvKept
  <1>4. ASSUME NEW n \in Node, NEW p \in Peers(n), role'[n] = "LEADER" PROVE PeerInv(n, p, h, B)'
    <2>1. CASE /\ role[n] = "LEADER" /\ currentTerm'[n] = currentTerm[n]
               /\ nextIndex'[n][p] = nextIndex[n][p] /\ matchIndex'[n][p] = matchIndex[n][p]
      <3>1. PeerInv(n, p, g, A)
        BY <2>1 DEF SendInv
      <3> QED  BY <1>4, <2>1, <3>1, PeerInvKept
    <2> QED  BY <1>4, <2>1
  <1>5. \A c \in aeCalls' : CallInv(c, h, B)' /\ Behind(c.to, c.term, c.prevLogIndex, h)'
    BY <1>1
  <1>6. \A a \in parkedAppends' :
            CallInv(a.call, h, B)' /\ Past(a.call.term, a.call.prevLogIndex, h)
    BY <1>2
  <1>7. \A r \in aeReplies' : ReplyInv(r, h, B)'
    BY <1>3
  <1> QED  BY <1>4, <1>5, <1>6, <1>7 DEF SendInv, Past

\* A fixed prefix of a log survives every merge.
LEMMA DoneKept ==
    ASSUME NEW g \in Logs, NEW h \in Logs, NEW A \in Acks, NEW B \in Acks, Advances(g, h, A, B),
           VotersInv(g, A), NEW n \in Node, NEW x \in Nat, Done(n, x, g, A)
    PROVE  Done(n, x, h, B)' /\ Share(log[n], log'[n], x)
  <1>0. TypeOK /\ TypeOK' /\ Evolves(g, h) /\ Grows(g, h) /\ AckInv(g, A)
    BY DEF Advances, Evolves
  <1>1. log[n] \in Seq(Entry) /\ log'[n] \in Seq(Entry)
    BY <1>0, StepTypes
  <1>2. CASE x = 0
    BY <1>1, <1>2 DEF Done, Share
  <1>3. ASSUME NEW t \in Term, NEW k \in Nat, Fixed(t, k, g, A), x <= k, Share(log[n], g[t], x),
               t <= currentTerm[n], Clear(n, t)
        PROVE  Done(n, x, h, B)' /\ Share(log[n], log'[n], x)
    <2>1. Fixed(t, k, h, B)
      BY <1>3, FixedKept
    <2>2. t <= currentTerm'[n] /\ Clear(n, t)'
      BY <1>0, <1>3, ClearKept
    <2>3. g[t] \in Seq(Entry) /\ h[t] \in Seq(Entry) /\ Extends(g[t], h[t])
      BY <1>0 DEF Logs, Grows
    <2>4. Share(log[n], log'[n], x)
      <3>1. CASE log'[n] = log[n]
        BY <1>1, <1>3, <3>1 DEF Share
      <3>2. ASSUME NEW v \in Term, Merged(n, v, g, h) PROVE Share(log[n], log'[n], x)
        <4>1. t <= v /\ leaders[v] # {}
          BY <1>3, <3>2 DEF Merged
        <4>2. Share(g[v], g[t], k)
          BY <1>0, <1>3, <4>1, FixedCarried
        <4>3. g[v] \in Seq(Entry) /\ h[v] \in Seq(Entry) /\ Extends(g[v], h[v])
          BY <1>0 DEF Logs, Grows
        <4>4. Share(g[t], g[v], x)
          BY <1>3, <2>3, <4>2, <4>3, ShareLess, ShareSym
        <4>5. Share(log[n], g[v], x)
          BY <1>1, <1>3, <2>3, <4>3, <4>4, ShareTrans
        <4>6. Share(log'[n], h[v], x)
          BY <3>2, <4>5 DEF Merged
        <4>7. Share(log[n], h[v], x)
          BY <1>1, <4>3, <4>5, ExtendsSelf, ShareGrows
        <4> QED  BY <1>1, <4>3, <4>6, <4>7, ShareSym, ShareTrans
      <3> QED  BY <1>0, <3>1, <3>2 DEF Evolves
    <2>5. Share(log[n], h[t], x)
      BY <1>1, <1>3, <2>3, ExtendsSelf, ShareGrows
    <2>6. Share(log'[n], h[t], x)
      BY <1>1, <2>3, <2>4, <2>5, ShareSym, ShareTrans
    <2> QED  BY <1>3, <2>1, <2>2, <2>4, <2>6 DEF Done, Fixed
  <1> QED  BY <1>2, <1>3 DEF Done

\* Applying a fixed prefix of the log.
LEMMA DoneInvKept ==
    ASSUME NEW g \in Logs, NEW h \in Logs, NEW A \in Acks, NEW B \in Acks, Advances(g, h, A, B),
           VotersInv(g, A), DoneInv(g, A),
           \A n \in Node :
               \/ applied'[n] = applied[n]
               \/ \E x \in Nat : /\ applied'[n] = ApplyUpTo(applied[n], log'[n], x)
                                 /\ x <= Len(applied[n]) \/ Done(n, x, h, B)'
    PROVE  DoneInv(h, B)'
  <1>0. TypeOK /\ TypeOK'
    BY DEF Advances
  <1> SUFFICES ASSUME NEW n \in Node
               PROVE  /\ Done(n, Len(applied[n]), h, B)'
                      /\ Share(log'[n], applied'[n], Len(applied'[n]))
    BY DEF DoneInv
  <1>1. /\ applied[n] \in Seq(Entry) /\ applied'[n] \in Seq(Entry)
        /\ log[n] \in Seq(Entry) /\ log'[n] \in Seq(Entry)
    BY <1>0 DEF TypeOK
  <1>2. PICK d \in Nat : d = Len(applied[n])
    BY <1>1
  <1>3. Done(n, d, g, A) /\ Share(log[n], applied[n], d)
    BY <1>2 DEF DoneInv
  <1>4. Done(n, d, h, B)' /\ Share(log[n], log'[n], d)
    BY <1>3, DoneKept
  <1>5. Share(log'[n], applied[n], d)
    BY <1>1, <1>3, <1>4, ShareSym, ShareTrans
  <1>6. CASE applied'[n] = applied[n]
    BY <1>2, <1>4, <1>5, <1>6 DEF Done
  <1>7. ASSUME NEW x \in Nat, applied'[n] = ApplyUpTo(applied[n], log'[n], x),
               ~(x <= Len(applied[n])), Done(n, x, h, B)'
        PROVE  /\ Done(n, Len(applied[n]), h, B)'
               /\ Share(log'[n], applied'[n], Len(applied'[n]))
    <2>1. x > d
      BY <1>2, <1>7
    <2>2. applied'[n] = [i \in 1..x |-> IF i <= d THEN applied[n][i] ELSE log'[n][i]]
      BY <1>2, <1>7 DEF ApplyUpTo
    <2>3. Len(applied'[n]) = x
      BY <1>1, <2>2
    <2>4. x <= Len(log'[n])
      BY <1>7, <2>1 DEF Done, Share
    <2>5. \A i \in 1..x : applied'[n][i] = log'[n][i]
      BY <1>1, <1>5, <2>1, <2>2 DEF Share
    <2>6. Share(log'[n], applied'[n], x)
      BY <1>1, <2>3, <2>4, <2>5 DEF Share
    <2> QED  BY <1>7, <2>3, <2>6 DEF Done
  <1>8. ASSUME NEW x \in Nat, applied'[n] = ApplyUpTo(applied[n], log'[n], x), x <= Len(applied[n])
        PROVE  applied'[n] = applied[n]
    BY <1>8 DEF ApplyUpTo
  <1> QED  BY <1>6, <1>7, <1>8

\* The commit index that applyStateMachine() chooses is the old one or counted.
LEMMA AdvanceCases ==
    ASSUME NEW n, NEW l \in Seq(Entry), NEW ci \in Nat, NEW term, NEW match
    PROVE  LET c == AdvanceCommit(n, l, ci, term, match)
           IN  c = ci \/ c \in Committable(n, l, ci, term, match)
  <1> DEFINE S == Committable(n, l, ci, term, match)
  <1>1. S \subseteq 0..Len(l)
    BY DEF Committable
  <1>2. CASE S = {}
    BY <1>2 DEF AdvanceCommit
  <1>3. CASE S # {}
    <2>1. \E k \in S : \A j \in S : j <= k
      BY <1>1, <1>3, GreatestElement
    <2> QED  BY <1>3, <2>1 DEF AdvanceCommit
  <1> QED  BY <1>2, <1>3

\* applyStateMachine() applies what is fixed.
LEMMA ApplyKept ==
    ASSUME NEW g \in Logs, NEW h \in Logs, NEW A \in Acks, NEW B \in Acks, Advances(g, h, A, B),
           VotersInv(g, A), DoneInv(g, A), AppliedCaughtUp, NEW n \in Node, NEW ci \in Nat,
           NEW term, NEW match, applyStateMachine(n, log'[n], ci, term, match),
           ci <= commitIndex[n] \/ Done(n, ci, h, B)',
           \A x \in Committable(n, log'[n], ci, term, match) : Done(n, x, h, B)'
    PROVE  DoneInv(h, B)'
  <1>0. TypeOK /\ TypeOK'
    BY DEF Advances
  <1>1. /\ log'[n] \in Seq(Entry) /\ applied \in [Node -> Seq(Entry)] /\ commitIndex[n] \in Nat
        /\ commitIndex[n] <= Len(applied[n])
    BY <1>0 DEF TypeOK, AppliedCaughtUp
  <1>2. PICK x : x = AdvanceCommit(n, log'[n], ci, term, match)
    OBVIOUS
  <1>3. x = ci \/ x \in Committable(n, log'[n], ci, term, match)
    BY <1>1, <1>2, AdvanceCases
  <1>4. x \in Nat
    BY <1>1, <1>3 DEF Committable
  <1>5. applied' = [applied EXCEPT ![n] = ApplyUpTo(applied[n], log'[n], x)]
    BY <1>2 DEF applyStateMachine
  <1>6. x <= Len(applied[n]) \/ Done(n, x, h, B)'
    BY <1>1, <1>3
  <1>7. \A m \in Node : \/ applied'[m] = applied[m]
                        \/ m = n /\ applied'[m] = ApplyUpTo(applied[n], log'[n], x)
    BY <1>1, <1>5
  <1> QED  BY <1>4, <1>6, <1>7, DoneInvKept

\* A leader that counts a majority for an entry of its term has fixed it.
LEMMA LeaderCommits ==
    ASSUME NEW g \in Logs, NEW h \in Logs, NEW A \in Acks, NEW B \in Acks, Advances(g, h, A, B),
           NEW n \in Node, role'[n] = "LEADER", NEW match \in [Node -> Nat],
           \A p \in Peers(n) : match[p] > 0 => match[p] \in B[p][currentTerm'[n]],
           NEW ci \in Nat, NEW x \in Committable(n, log'[n], ci, currentTerm'[n], match)
    PROVE  Done(n, x, h, B)'
  <1>0. /\ TypeOK /\ TypeOK' /\ LogInv(h)' /\ GapInv' /\ ElectionInv' /\ AckInv(h, B)'
    BY AckInvKept DEF Advances
  <1>1. PICK t \in Term : t = currentTerm'[n]
    BY <1>0 DEF TypeOK
  <1>2. log'[n] = h[t] /\ h[t] \in Seq(Entry) /\ n \in leaders'[t] /\ t \in Nat
    BY <1>0, <1>1, BoundAssumption DEF LogInv, Logs, ElectionInv, RolesInv, Term
  <1> DEFINE S == {p \in Peers(n) : match[p] >= x}
  <1>3. x \in Nat /\ x \in 1..Len(h[t]) /\ h[t][x].term = t /\ 1 + Cardinality(S) >= Majority
    BY <1>1, <1>2 DEF Committable
  <1>4. Own(t, x, h)
    BY <1>3 DEF Own
  <1>5. x \in B[n][t]
    BY <1>0, <1>2, <1>3 DEF AckInv
  <1>6. ASSUME NEW p \in S PROVE x \in B[p][t]
    <2>1. p \in Node /\ p \in Peers(n) /\ match[p] \in Nat /\ match[p] >= x
      BY DEF Peers
    <2>2. match[p] \in B[p][t]
      BY <1>1, <1>3, <2>1
    <2>3. x \in 1..match[p]
      BY <1>3, <2>1
    <2> QED  BY <1>0, <2>1, <2>2, <2>3 DEF AckInv
  <1>7. PICK Q \in SUBSET Node : Cardinality(Q) >= Majority /\ \A p \in Q : x \in B[p][t]
    <2>1. S \in SUBSET Node /\ n \notin S
      BY DEF Peers
    <2> HIDE DEF S
    <2>2. IsFiniteSet(S)
      BY <2>1, NodeAssumption, FS_Subset
    <2>3. Cardinality(S) \in Nat /\ Cardinality(S \cup {n}) = Cardinality(S) + 1
      BY <2>1, <2>2, FS_CardinalityType, FS_AddElement
    <2>4. Cardinality(S \cup {n}) >= Majority
      BY <1>3, <2>3
    <2>5. S \cup {n} \in SUBSET Node /\ \A p \in S \cup {n} : x \in B[p][t]
      BY <1>5, <1>6, <2>1
    <2> QED  BY <2>4, <2>5
  <1>8. Fixed(t, x, h, B)
    BY <1>4, <1>7 DEF Fixed
  <1>9. Share(log'[n], h[t], x) /\ x <= x /\ t <= currentTerm'[n]
    BY <1>1, <1>2, <1>3 DEF Share
  <1>10. Clear(n, t)'
    BY <1>0 DEF GapInv, Clear
  <1> QED  BY <1>3, <1>8, <1>9, <1>10 DEF Done

\* applyStateMachine() of a follower counts too, with what matchIndex holds from
\* a term it led: with at most three nodes the follower and the leader are a
\* majority, so that an entry of the current term is fixed as soon as it has it.
LEMMA FollowerCommits ==
    ASSUME Cardinality(Node) <= 3,
           NEW g \in Logs, NEW h \in Logs, NEW A \in Acks, NEW B \in Acks, Advances(g, h, A, B),
           NEW n \in Node, \A a \in parkedAppends' : a.call.to # n,
           NEW m \in Node, m # n, m \in leaders'[currentTerm'[n]],
           NEW x \in 1..Len(log'[n]), log'[n][x].term = currentTerm'[n]
    PROVE  Done(n, x, h, B)'
  <1>0. /\ TypeOK /\ TypeOK' /\ LogInv(h)' /\ AckInv(h, B)'
    BY AckInvKept DEF Advances
  <1>1. PICK t \in Term : t = currentTerm'[n]
    BY <1>0 DEF TypeOK
  <1>2. log'[n] \in Seq(Entry) /\ h[t] \in Seq(Entry) /\ t \in Nat /\ x \in Nat
    BY <1>0, BoundAssumption DEF TypeOK, Logs, Term
  <1>3. x \in 1..Len(h[t]) /\ Share(log'[n], h[t], x) /\ h[t][x].term = t
    <2>1. x <= Len(h[t]) /\ \A j \in 1..x : log'[n][j] = h[t][j]
      BY <1>0, <1>1 DEF LogInv, Grounded
    <2> QED  BY <1>1, <1>2, <2>1 DEF Share
  <1>4. Clear(n, t)' /\ Clear(n, currentTerm[n])'
    BY DEF Clear
  <1>5. x \in B[n][t]
    BY <1>0, <1>1, <1>3, <1>4 DEF AckInv
  <1>6. x \in B[m][t]
    BY <1>0, <1>1, <1>3 DEF AckInv
  <1>7. Cardinality({n, m}) >= Majority
    <2>1. PICK S : S = {n} /\ Cardinality(S) = 1 /\ IsFiniteSet(S) /\ m \notin S
      BY FS_Singleton
    <2>2. Cardinality(S \cup {m}) = Cardinality(S) + 1
      BY <2>1, FS_AddElement
    <2>3. Cardinality(Node) \in Nat
      BY NodeAssumption, FS_CardinalityType
    <2>4. S \cup {m} = {n, m}
      BY <2>1
    <2>5. Cardinality(S \cup {m}) = 2
      BY <2>1, <2>2
    <2>6. PICK N \in Nat : N = Cardinality(Node) /\ N <= 3
      BY <2>3
    <2>7. Majority = N \div 2 + 1
      BY <2>6 DEF Majority
    <2>8. Majority \in Int /\ Majority <= 2
      BY <2>6, <2>7
    <2> QED  BY <2>4, <2>5, <2>8
  <1>8. Own(t, x, h)
    BY <1>3 DEF Own
  <1>9. Fixed(t, x, h, B)
    <2>1. {n, m} \in SUBSET Node /\ \A p \in {n, m} : x \in B[p][t]
      BY <1>5, <1>6
    <2> QED  BY <1>7, <1>8, <2>1 DEF Fixed
  <1>10. t <= currentTerm'[n] /\ x <= x
    BY <1>1, <1>2
  <1> QED  BY <1>2, <1>3, <1>4, <1>9, <1>10 DEF Done

\* A follower that accepts a batch has nothing but entries of the leader then,
\* although the append loop keeps what is behind the entries it agrees with.
LEMMA Accept ==
    ASSUME TypeOK, NEW g \in Logs, NEW A, LogInv(g), TermInv(g), NEW n \in Node,
           NEW c \in AppendEntries, CallInv(c, g, A), LogMatches(log[n], c),
           \A i \in 1..Len(log[n]) : log[n][i].term <= c.term,
           \/ Past(c.term, c.prevLogIndex, g)
           \/ Extends(log[n], g[c.term])
           \/ \A j \in 1..Len(log[n]) : Share(log[n], g[c.term], j) => j <= c.prevLogIndex
    PROVE  LET q == MergeEntries(log[n], c)
           IN  /\ Share(log[n], g[c.term], c.prevLogIndex)
               /\ c.entries = <<>> => q = log[n]
               /\ c.entries # <<>> =>
                     /\ Extends(q, g[c.term])
                     /\ Share(q, g[c.term], c.prevLogIndex + Len(c.entries))
                     /\ \A k \in Nat : Share(log[n], g[c.term], k) => Share(q, g[c.term], k)
  <1>1. /\ c.term \in Term /\ c.prevLogIndex \in Nat /\ c.entries \in Seq(Entry)
        /\ Len(c.entries) \in Nat
    BY DEF AppendEntries
  <1>2. PICK l, G \in Seq(Entry) : l = log[n] /\ G = g[c.term] /\ Grounded(l, g) /\ Grounded(G, g)
    BY <1>1 DEF TypeOK, Logs, LogInv
  <1>3. PieceOf(c, G)
    BY <1>2 DEF CallInv
  <1>4. Share(l, G, c.prevLogIndex)
    <2>1. c.prevLogIndex <= Len(l) /\ c.prevLogIndex <= Len(G)
      BY <1>1, <1>2, <1>3 DEF LogMatches, PieceOf
    <2>2. CASE c.prevLogIndex = 0
      BY <2>1, <2>2 DEF Share
    <2>3. CASE c.prevLogIndex > 0
      <3>1. l[c.prevLogIndex].term = G[c.prevLogIndex].term
        BY <1>2, <1>3, <2>3 DEF LogMatches, PieceOf
      <3> QED  BY <1>1, <1>2, <2>1, <2>3, <3>1, SameTermSamePrefix
    <2> QED  BY <1>1, <2>2, <2>3
  <1>5. PICK q : q = MergeEntries(l, c)
    OBVIOUS
  <1>6. CASE c.entries = <<>>
    <2>1. q = l
      BY <1>5, <1>6 DEF MergeEntries, Agrees
    <2> QED  BY <1>2, <1>4, <1>5, <1>6, <2>1
  <1>7. CASE c.entries # <<>>
    <2>1. LogMatches(l, c) /\ Len(c.entries) > 0
      BY <1>1, <1>2, <1>7
    <2>2. /\ Share(q, G, c.prevLogIndex + Len(c.entries))
          /\ \A k \in Nat : Share(l, G, k) => Share(q, G, k)
      BY <1>2, <1>3, <1>5, <1>7, <2>1, MergeFacts
    <2>3. q \in Seq(Entry)
      BY <1>2, <1>5, <2>1, MergeEntriesType
    <2>4. Extends(q, G)
      <3>1. CASE Agrees(l, c, Len(c.entries))
        <4>1. q = l
          BY <1>5, <3>1 DEF MergeEntries
        <4>2. PICK i \in Nat : i = c.prevLogIndex + 1
          BY <1>1
        <4>3. /\ i <= c.prevLogIndex + Len(c.entries) /\ i > c.prevLogIndex
              /\ c.prevLogIndex + Len(c.entries) \in Nat
          BY <1>1, <2>1, <4>2
        <4>4. Share(l, G, i)
          BY <1>2, <2>2, <4>1, <4>3, ShareLess
        <4>5. i \in 1..Len(l) /\ i \in 1..Len(G) /\ l[i] = G[i]
          BY <1>1, <1>2, <4>2, <4>4 DEF Share
        <4>6. CASE Past(c.term, c.prevLogIndex, g)
          <5>1. l[i].term = c.term
            BY <1>2, <4>3, <4>5, <4>6 DEF Past
          <5>2. \A j \in 1..Len(l) : l[j].term <= c.term
            BY <1>2
          <5> QED  BY <1>1, <1>2, <4>1, <4>5, <5>1, <5>2, OwnTermPrefix
        <4>7. CASE Extends(log[n], g[c.term])
          BY <1>2, <4>1, <4>7
        <4>8. CASE \A j \in 1..Len(log[n]) : Share(log[n], g[c.term], j) => j <= c.prevLogIndex
          BY <1>1, <1>2, <4>3, <4>4, <4>5, <4>8
        <4> QED  BY <4>6, <4>7, <4>8
      <3>2. CASE ~Agrees(l, c, Len(c.entries))
        <4>1. q = [i \in 1..(c.prevLogIndex + Len(c.entries)) |->
                     IF i <= c.prevLogIndex \/ Agrees(l, c, i - c.prevLogIndex)
                     THEN l[i] ELSE c.entries[i - c.prevLogIndex]]
          BY <1>5, <3>2 DEF MergeEntries
        <4>2. Len(q) = c.prevLogIndex + Len(c.entries)
          BY <1>1, <2>3, <4>1
        <4> QED  BY <2>2, <4>2 DEF Extends, Share
      <3> QED  BY <3>1, <3>2
    <2> QED  BY <1>2, <1>4, <1>5, <1>7, <2>2, <2>4
  <1> QED  BY <1>6, <1>7

\* A call that a leader makes.
LEMMA NewCallInv ==
    ASSUME NEW g \in Logs, NEW h \in Logs, NEW A \in Acks, NEW B \in Acks, Advances(g, h, A, B),
           AppliedCaughtUp, DoneInv(g, A), NEW n \in Node, role'[n] = "LEADER",
           Len(log[n]) <= Len(log'[n]),
           NEW next \in [Node -> Nat \ {0}],
           \A p \in Peers(n) : /\ next[p] <= Len(log'[n]) + 1
                               /\ Behind(p, currentTerm[n], next[p] - 1, h)',
           NEW c \in AppendCalls(n, currentTerm'[n], log'[n], next)
    PROVE  CallInv(c, h, B)' /\ Behind(c.to, c.term, c.prevLogIndex, h)'
  <1>0. /\ TypeOK /\ TypeOK' /\ LogInv(h)' /\ ElectionInv' /\ Evolves(g, h)
    BY DEF Advances
  <1>1. PICK u \in Term : u = currentTerm'[n]
    BY <1>0 DEF TypeOK
  <1>2. PICK l \in Seq(Entry) : l = log'[n] /\ l = h[u]
    BY <1>0, <1>1 DEF TypeOK, LogInv
  <1>3. PICK p \in Peers(n) : c = AppendCall(n, p, u, l, next[p])
    BY <1>1, <1>2 DEF AppendCalls
  <1>4. p \in Node /\ p # n
    BY DEF Peers
  <1>5. PICK k \in Nat : k = next[p] /\ k >= 1 /\ k <= Len(l) + 1
    BY <1>2, <1>4
  <1>6. PICK last \in Int : /\ last = Smaller(Len(l), k + MAX_ENTRIES_PER_RPC - 1)
                            /\ last <= Len(l) /\ (last < k => k > Len(l))
    <2>1. /\ Smaller(Len(l), k + MAX_ENTRIES_PER_RPC - 1) \in Int
          /\ Smaller(Len(l), k + MAX_ENTRIES_PER_RPC - 1) <= Len(l)
          /\ Smaller(Len(l), k + MAX_ENTRIES_PER_RPC - 1) < k => k > Len(l)
      BY <1>5, BatchAssumption DEF Smaller
    <2> QED  BY <2>1
  <1>7. /\ c.from = n /\ c.to = p /\ c.term = u /\ c.prevLogIndex = k - 1
        /\ c.prevLogTerm = (IF k - 1 \in 1..Len(l) THEN l[k - 1].term ELSE 0)
        /\ c.entries = SubSeq(l, k, last) /\ c.leaderCommit = commitIndex[n]
    BY <1>3, <1>5, <1>6 DEF AppendCall
  <1>8. Behind(c.to, c.term, c.prevLogIndex, h)'
    <2>1. PICK x : x = k - 1
      OBVIOUS
    <2>2. Behind(p, u, x, h)'
      BY <1>1, <1>5, <2>1 DEF Behind, Heard, Past, Clear
    <2> QED  BY <1>7, <2>1, <2>2
  <1>9. PieceOf(c, l)
    <2>1. c.prevLogIndex > 0 => c.prevLogTerm = l[c.prevLogIndex].term
      BY <1>5, <1>7
    <2>2. CASE k <= last
      <3>1. k \in 1..Len(l) /\ last \in k..Len(l)
        BY <1>5, <1>6, <2>2
      <3>2. /\ Len(c.entries) = last - k + 1
            /\ \A j \in 1..(last - k + 1) : c.entries[j] = l[k + j - 1]
        BY <1>7, <3>1
      <3>3. c.prevLogIndex + Len(c.entries) <= Len(l)
        BY <1>5, <1>6, <1>7, <3>2
      <3>4. ASSUME NEW j \in 1..Len(c.entries) PROVE c.entries[j] = l[c.prevLogIndex + j]
        <4>1. c.prevLogIndex + j = k + j - 1
          BY <1>5, <1>7, <3>2
        <4> QED  BY <3>2, <4>1
      <3> QED  BY <2>1, <3>3, <3>4 DEF PieceOf
    <2>3. CASE ~(k <= last)
      <3>1. c.entries = <<>>
        BY <1>5, <1>6, <1>7, <2>3
      <3> QED  BY <1>5, <1>7, <2>1, <3>1 DEF PieceOf
    <2> QED  BY <2>2, <2>3
  <1>10. /\ commitIndex[n] \in Nat /\ commitIndex[n] <= Len(applied[n]) /\ applied[n] \in Seq(Entry)
         /\ log[n] \in Seq(Entry)
    BY <1>0 DEF TypeOK, AppliedCaughtUp
  <1>11. ASSUME c.entries = <<>> PROVE c.leaderCommit <= c.prevLogIndex
    <2>1. ~(k <= last)
      <3> SUFFICES ASSUME k <= last PROVE FALSE
        OBVIOUS
      <3>1. k \in 1..Len(l) /\ last \in k..Len(l)
        BY <1>5, <1>6
      <3>2. Len(SubSeq(l, k, last)) = last - k + 1
        BY <3>1
      <3> QED  BY <1>7, <1>11, <3>1, <3>2
    <2>2. k > Len(l)
      BY <1>5, <1>6, <2>1
    <2>3. Len(applied[n]) <= Len(log[n])
      BY DEF DoneInv, Share
    <2>4. Len(applied[n]) \in Nat /\ Len(log[n]) \in Nat /\ commitIndex[n] <= Len(log[n])
      BY <1>10, <2>3
    <2> QED  BY <1>2, <1>5, <1>7, <1>10, <2>2, <2>4
  <1>12. Backed(commitIndex[n], u, h, B)
    <2>1. PICK w \in Nat : w = currentTerm[n] /\ w <= u /\ u \in Nat
      BY <1>0, <1>1, StepTypes DEF Evolves
    <2>2. Done(n, Len(applied[n]), g, A)
      BY DEF DoneInv
    <2>3. Backed(commitIndex[n], w, g, A)
      BY <1>10, <2>1, <2>2 DEF Done, Backed
    <2> QED  BY <1>10, <2>1, <2>3, BackedKept
  <1>13. n \in leaders'[u]
    BY <1>0, <1>1 DEF ElectionInv, RolesInv
  <1>14. CallInv(c, h, B)'
    BY <1>2, <1>4, <1>7, <1>9, <1>11, <1>12, <1>13 DEF CallInv, PieceOf, Backed
  <1> QED  BY <1>8, <1>14

-----------------------------------------------------------------------------
(***************************************************************************)
(* Candidates and their voters.                                            *)
(***************************************************************************)

\* Only new calls and new votes have to be looked at.
LEMMA CandidateInvKept ==
    ASSUME NEW g \in Logs, NEW h \in Logs, NEW A \in Acks, NEW B \in Acks, Advances(g, h, A, B),
           CandidateInv(g, A),
           \A c \in rvCalls' \cup parkedVotes' :
               \/ c \in rvCalls \cup parkedVotes
               \/ /\ c.term = currentTerm'[c.from] /\ c.lastLogIndex = Len(log'[c.from])
                  /\ c.lastLogTerm = LastTerm(log'[c.from]),
           \A r \in rvReplies' : r \in rvReplies \/ r.term <= currentTerm'[r.from],
           \A n \in Node : role'[n] = "CANDIDATE" =>
               /\ log'[n] = log[n]
               /\ \/ role[n] = "CANDIDATE" /\ currentTerm'[n] = currentTerm[n]
                  \/ currentTerm'[n] > currentTerm[n],
           \A n, p \in Node :
               role'[n] = "CANDIDATE" /\ leaders'[currentTerm'[n]] = {}
                   /\ Granted(p, n, currentTerm[n])'
                 => currentTerm'[n] <= currentTerm'[p] /\ Carries(log[n], p, currentTerm'[n], g, A)
    PROVE  CandidateInv(h, B)'
  <1>0. TypeOK /\ TypeOK' /\ Evolves(g, h)
    BY DEF Advances
  <1>1. /\ \A n \in Node : /\ currentTerm[n] \in Nat /\ currentTerm'[n] \in Nat
                           /\ log[n] \in Seq(Entry) /\ currentTerm[n] <= currentTerm'[n]
        /\ \A c \in rvCalls \cup parkedVotes : c.from \in Node /\ c.term \in Nat
        /\ \A r \in rvReplies : r.from \in Node /\ r.term \in Nat
        /\ \A c \in rvCalls' \cup parkedVotes' : c.from \in Node /\ c.term \in Nat
    <2>1. \A c \in rvCalls \cup parkedVotes : c.from \in Node /\ c.term \in Term
      BY <1>0 DEF TypeOK, RequestVote
    <2>2. \A r \in rvReplies : r.from \in Node /\ r.term \in Term
      BY <1>0 DEF TypeOK, RequestVoteReply
    <2>3. \A c \in rvCalls' \cup parkedVotes' : c.from \in Node /\ c.term \in Term
      BY <1>0 DEF TypeOK, RequestVote
    <2>4. \A t \in Term : t \in Nat
      BY BoundAssumption DEF Term
    <2>5. \A n \in Node : /\ currentTerm[n] \in Nat /\ currentTerm'[n] \in Nat
                          /\ log[n] \in Seq(Entry) /\ currentTerm[n] <= currentTerm'[n]
      BY <1>0, StepTypes DEF Evolves
    <2> QED  BY <2>1, <2>2, <2>3, <2>4, <2>5
  <1>2. ASSUME NEW c \in rvCalls' \cup parkedVotes'
        PROVE  /\ c.term <= currentTerm'[c.from]
               /\ role'[c.from] = "CANDIDATE" /\ currentTerm'[c.from] = c.term =>
                     /\ c.lastLogIndex = Len(log'[c.from])
                     /\ c.lastLogTerm = LastTerm(log'[c.from])
    <2>1. CASE c \in rvCalls \cup parkedVotes
      <3>1. /\ c.term <= currentTerm[c.from]
            /\ role[c.from] = "CANDIDATE" /\ currentTerm[c.from] = c.term =>
                  c.lastLogIndex = Len(log[c.from]) /\ c.lastLogTerm = LastTerm(log[c.from])
        BY <2>1 DEF CandidateInv
      <3>2. c.term <= currentTerm'[c.from]
        BY <1>1, <2>1, <3>1
      <3>3. ASSUME role'[c.from] = "CANDIDATE", currentTerm'[c.from] = c.term
            PROVE  /\ c.lastLogIndex = Len(log'[c.from])
                   /\ c.lastLogTerm = LastTerm(log'[c.from])
        <4>1. role[c.from] = "CANDIDATE" /\ currentTerm[c.from] = c.term
          BY <1>1, <2>1, <3>1, <3>3
        <4>2. log'[c.from] = log[c.from]
          BY <1>1, <3>3
        <4> QED  BY <3>1, <4>1, <4>2
      <3> QED  BY <3>2, <3>3
    <2>2. CASE c \notin rvCalls \cup parkedVotes
      BY <1>1, <2>2
    <2> QED  BY <2>1, <2>2
  <1>3. ASSUME NEW r \in rvReplies' PROVE r.term <= currentTerm'[r.from]
    <2>1. CASE r \in rvReplies
      BY <1>1, <2>1 DEF CandidateInv
    <2> QED  BY <2>1
  <1>4. ASSUME NEW n \in Node, NEW p \in Node, role'[n] = "CANDIDATE",
               leaders'[currentTerm'[n]] = {}, Granted(p, n, currentTerm[n])'
        PROVE  Carries(log[n], p, currentTerm[n], h, B)'
    <2>1. PICK u \in Nat : u = currentTerm'[n]
      BY <1>1
    <2>2. u <= currentTerm'[p] /\ Carries(log[n], p, u, g, A)
      BY <1>4, <2>1
    <2>3. log'[n] = log[n] /\ Extends(log[n], log[n])
      BY <1>1, <1>4, ExtendsSelf
    <2>4. Carries(log[n], p, u, h, B)'
      <3>1. PICK l \in Seq(Entry) : l = log[n]
        BY <1>1
      <3>2. Carries(l, p, u, h, B)'
        BY <2>2, <2>3, <3>1, CarriesKept
      <3> QED  BY <2>3, <3>1, <3>2
    <2> QED  BY <2>1, <2>4 DEF Carries, Passed
  <1> QED  BY <1>2, <1>3, <1>4 DEF CandidateInv

\* A vote given earlier.
LEMMA OldVote ==
    ASSUME NEW g \in Logs, NEW h \in Logs, NEW A \in Acks, NEW B \in Acks, Advances(g, h, A, B),
           CandidateInv(g, A), NEW n \in Node, NEW p \in Node, role[n] = "CANDIDATE",
           leaders[currentTerm[n]] = {}, Granted(p, n, currentTerm[n])
    PROVE  currentTerm[n] <= currentTerm'[p] /\ Carries(log[n], p, currentTerm[n], g, A)
  <1>0. TypeOK /\ TypeOK' /\ Evolves(g, h) /\ ElectionInv
    BY DEF Advances
  <1>1. /\ currentTerm[n] \in Term /\ currentTerm[n] \in Nat /\ currentTerm[p] \in Nat
        /\ currentTerm'[p] \in Nat /\ currentTerm[p] <= currentTerm'[p]
    BY <1>0, StepTypes DEF Evolves
  <1>2. LockedTo(p, n, currentTerm[n])
    BY <1>0, <1>1 DEF ElectionInv, VotesInv
  <1>3. currentTerm[n] <= currentTerm'[p]
    BY <1>1, <1>2 DEF LockedTo
  <1> QED  BY <1>3 DEF CandidateInv

\* The vote of onRequestVote(): the log comparison makes sure that the candidate
\* has what the voter has acknowledged.
LEMMA VoteCarried ==
    ASSUME TypeOK, NEW g \in Logs, NEW A \in Acks, LogInv(g), TermInv(g), AckInv(g, A),
           CandidateInv(g, A), NEW c \in rvCalls \cup parkedVotes, NEW n \in Node, NEW p \in Node,
           c.from = n, c.to = p, role[n] = "CANDIDATE", currentTerm[n] = c.term,
           leaders[c.term] = {}, currentTerm[p] <= c.term, LogUpToDate(log[p], c)
    PROVE  Carries(log[n], p, c.term, g, A)
  <1>0. currentTerm[n] \in Term /\ c.term \in Term
    BY DEF TypeOK, RequestVote
  <1>1. PICK u \in Term : u = c.term /\ u = currentTerm[n]
    BY <1>0
  <1>2. /\ log[n] \in Seq(Entry) /\ log[p] \in Seq(Entry) /\ Grounded(log[n], g)
        /\ Grounded(log[p], g) /\ currentTerm[p] \in Nat /\ u \in Nat
        /\ \A t \in Term : t \in Nat /\ (leaders[t] = {} => g[t] = <<>>)
    <2>1. /\ log[n] \in Seq(Entry) /\ log[p] \in Seq(Entry) /\ currentTerm[p] \in Term
      BY DEF TypeOK
    <2>2. \A t \in Term : t \in Nat
      BY BoundAssumption DEF Term
    <2>3. /\ Grounded(log[n], g) /\ Grounded(log[p], g)
          /\ \A t \in Term : leaders[t] = {} => g[t] = <<>>
      BY DEF LogInv
    <2> QED  BY <2>1, <2>2, <2>3
  <1>3. c.lastLogIndex = Len(log[n]) /\ c.lastLogTerm = LastTerm(log[n])
    BY DEF CandidateInv
  <1>4. \/ LastTerm(log[n]) > LastTerm(log[p])
        \/ LastTerm(log[n]) = LastTerm(log[p]) /\ Len(log[n]) >= Len(log[p])
    BY <1>3 DEF LogUpToDate
  <1>5. ASSUME NEW i \in 1..Len(log[n]) PROVE log[n][i].term < u
    <2>1. log[n][i].term <= u /\ log[n][i].term \in Nat
      BY <1>1, <1>2, EntryTerm DEF TermInv
    <2>2. log[n][i].term # u
      <3> SUFFICES ASSUME log[n][i].term = u PROVE FALSE
        OBVIOUS
      <3>1. i <= Len(g[u]) /\ g[u] = <<>>
        BY <1>1, <1>2 DEF Grounded
      <3> QED  BY <3>1
    <2> QED  BY <1>2, <2>1, <2>2
  <1>6. ASSUME NEW t \in Term, NEW k \in A[p][t], t < u, Own(t, k, g), Passed(t, u, k, g)
        PROVE  Share(log[n], g[t], k)
    <2>1. k \in Nat /\ t <= currentTerm[p] /\ t \in Nat
      BY <1>2, <1>6 DEF AckInv, Acks
    <2>2. Passed(t, currentTerm[p] + 1, k, g)
      <3> SUFFICES ASSUME NEW v \in Term, t < v, v < currentTerm[p] + 1, leaders[v] # {}
                   PROVE  Share(g[v], g[t], k)
        BY DEF Passed
      <3>1. v # u /\ v <= u
        BY <1>1, <1>2
      <3>2. v < u
        BY <1>2, <3>1
      <3> QED  BY <1>6, <3>2 DEF Passed
    <2>3. t < currentTerm[p] + 1
      BY <1>2, <2>1
    <2>4. Share(log[p], g[t], k)
      BY <1>6, <2>2, <2>3 DEF AckInv, Carries
    <2>5. PICK l, q \in Seq(Entry) : l = log[p] /\ q = log[n]
      BY <1>2
    <2>6. /\ Grounded(l, g) /\ Grounded(q, g) /\ Share(l, g[t], k)
          /\ \A i \in 1..Len(q) : q[i].term < u
          /\ \/ LastTerm(q) > LastTerm(l)
             \/ LastTerm(q) = LastTerm(l) /\ Len(q) >= Len(l)
      BY <1>2, <1>4, <1>5, <2>4, <2>5
    <2>7. \A v \in Term : leaders[v] = {} => g[v] = <<>>
      BY <1>2
    <2>8. Share(q, g[t], k)
      BY <1>6, <2>1, <2>6, <2>7, UpToDate
    <2> QED  BY <2>5, <2>8
  <1>7. Carries(log[n], p, u, g, A)
    BY <1>6 DEF Carries
  <1> QED  BY <1>1, <1>7

\* Nobody stands for election and nobody votes.
Calm ==
    /\ rvCalls' \cup parkedVotes' \subseteq rvCalls \cup parkedVotes
    /\ \A r \in rvReplies' : r \in rvReplies \/ (~r.voteGranted /\ r.term <= currentTerm'[r.from])
    /\ \A n \in Node : role'[n] = "CANDIDATE" =>
          /\ role[n] = "CANDIDATE" /\ currentTerm'[n] = currentTerm[n] /\ log'[n] = log[n]
          /\ \A p \in voters'[n] : Granted(p, n, currentTerm[n])

\* Then the candidates stay as good as they were.
LEMMA CalmCandidates ==
    ASSUME NEW g \in Logs, NEW h \in Logs, NEW A \in Acks, NEW B \in Acks, Advances(g, h, A, B),
           CandidateInv(g, A), Calm
    PROVE  CandidateInv(h, B)'
  <1>0. TypeOK /\ TypeOK' /\ Evolves(g, h)
    BY DEF Advances
  <1>1. ASSUME NEW n \in Node, NEW p \in Node, role'[n] = "CANDIDATE",
               leaders'[currentTerm'[n]] = {}, Granted(p, n, currentTerm[n])'
        PROVE  /\ currentTerm'[n] <= currentTerm'[p]
               /\ Carries(log[n], p, currentTerm'[n], g, A)
    <2>1. role[n] = "CANDIDATE" /\ currentTerm'[n] = currentTerm[n] /\ currentTerm[n] \in Term
      BY <1>0, <1>1 DEF Calm, TypeOK
    <2>2. leaders[currentTerm[n]] = {}
      BY <1>0, <1>1, <2>1 DEF Evolves
    <2>3. Granted(p, n, currentTerm[n])
      BY <1>1, <2>1 DEF Granted, Calm
    <2> QED  BY <2>1, <2>2, <2>3, OldVote
  <1> QED  BY <1>1, CandidateInvKept DEF Calm

-----------------------------------------------------------------------------
(***************************************************************************)
(* The log part of onAppendEntries().                                      *)
(***************************************************************************)

\* What holds when a handler of n gets to the log part, in the gap or not.
Handles(n, c, term, entryTerm, g, A) ==
    /\ c \in AppendEntries /\ c.to = n /\ CallInv(c, g, A)
    /\ ReplicateEntries(n, c, term, entryTerm)
    /\ \A i \in 1..Len(log[n]) : log[n][i].term <= c.term
    /\ \/ Past(c.term, c.prevLogIndex, g)
       \/ Extends(log[n], g[c.term])
       \/ \A j \in 1..Len(log[n]) : Share(log[n], g[c.term], j) => j <= c.prevLogIndex
    /\ leaders' = leaders /\ parkedAppends' \subseteq parkedAppends
    /\ \A a \in parkedAppends' : a.call.to # n
    /\ \A p \in Node : currentTerm[p] <= currentTerm'[p]
    /\ term = currentTerm'[n] /\ c.term <= currentTerm'[n]
    /\ \A t \in Term : t <= currentTerm[n] /\ Clear(n, t) => t <= c.term

\* The log is left alone or merged with the leader's, and then it has what the
\* call tells to be committed.
LEMMA ReplicateMerges ==
    ASSUME TypeOK, TypeOK', NEW g \in Logs, NEW A, LogInv(g), TermInv(g), NEW n \in Node, NEW c,
           NEW term, NEW entryTerm, Handles(n, c, term, entryTerm, g, A)
    PROVE  /\ Evolves(g, g)
           /\ ~LogMatches(log[n], c) => log' = log
           /\ LogMatches(log[n], c) =>
                 /\ log'[n] = MergeEntries(log[n], c)
                 /\ \A i \in 1..Len(log'[n]) : log'[n][i].term <= c.term
                 /\ Share(log'[n], g[c.term], Smaller(c.leaderCommit, Len(log'[n])))
                 /\ c.entries # <<>> => /\ Extends(log'[n], g[c.term])
                                        /\ Share(log'[n], g[c.term], c.prevLogIndex + Len(c.entries))
  <1>1. /\ c.term \in Term /\ c.prevLogIndex \in Nat /\ c.entries \in Seq(Entry)
        /\ Len(c.entries) \in Nat /\ c.leaderCommit \in Nat
    BY DEF AppendEntries, Handles
  <1>2. /\ log \in [Node -> Seq(Entry)] /\ log[n] \in Seq(Entry) /\ log'[n] \in Seq(Entry)
        /\ g[c.term] \in Seq(Entry)
    BY <1>1 DEF TypeOK, Logs
  <1>3. Grows(g, g)
    BY ExtendsSelf
  <1>4. ASSUME \A p \in Node : p # n => log'[p] = log[p],
               log'[n] = log[n] \/ Merged(n, c.term, g, g)
        PROVE  Evolves(g, g)
    <2>1. \A a \in parkedAppends' : log'[a.call.to] = log[a.call.to] /\ a \in parkedAppends
      BY <1>4, LogTypes DEF Handles
    <2>2. \A p \in Node : log'[p] = log[p] \/ \E v \in Term : Merged(p, v, g, g)
      BY <1>1, <1>4
    <2>3. \A t \in Term : \A i \in 1..Len(g[t]) : ~(i > Len(g[t]))
      BY DEF Logs
    <2> QED  BY <1>3, <2>1, <2>2, <2>3 DEF Evolves, Handles
  <1>5. CASE ~LogMatches(log[n], c)
    <2>1. log' = log
      BY <1>5 DEF Handles, ReplicateEntries, logVars
    <2> QED  BY <1>4, <1>5, <2>1
  <1>6. CASE LogMatches(log[n], c)
    <2>1. log' = [log EXCEPT ![n] = MergeEntries(log[n], c)]
      BY <1>6 DEF Handles, ReplicateEntries
    <2>2. log'[n] = MergeEntries(log[n], c) /\ \A p \in Node : p # n => log'[p] = log[p]
      BY <1>2, <2>1
    <2>3. /\ Share(log[n], g[c.term], c.prevLogIndex)
          /\ c.entries = <<>> => log'[n] = log[n]
          /\ c.entries # <<>> =>
                /\ Extends(log'[n], g[c.term])
                /\ Share(log'[n], g[c.term], c.prevLogIndex + Len(c.entries))
                /\ \A k \in Nat : Share(log[n], g[c.term], k) => Share(log'[n], g[c.term], k)
      BY <1>6, <2>2, Accept DEF Handles
    <2>4. CASE c.entries = <<>>
      <3>1. log'[n] = log[n]
        BY <2>3, <2>4
      <3>2. c.leaderCommit <= c.prevLogIndex
        BY <2>4 DEF Handles, CallInv
      <3>3. PICK x \in Nat : /\ x = Smaller(c.leaderCommit, Len(log'[n]))
                             /\ x <= c.prevLogIndex
        <4>1. Len(log'[n]) \in Nat
          BY <1>2
        <4> QED  BY <1>1, <3>2, <4>1 DEF Smaller
      <3>4. Share(log'[n], g[c.term], x)
        BY <1>1, <1>2, <2>3, <3>1, <3>3, ShareLess
      <3>5. \A i \in 1..Len(log'[n]) : log'[n][i].term <= c.term
        BY <3>1 DEF Handles
      <3> QED  BY <1>4, <1>6, <2>2, <2>4, <3>1, <3>3, <3>4, <3>5
    <2>5. CASE c.entries # <<>>
      <3>1. Extends(log'[n], g[c.term])
        BY <2>3, <2>5
      <3>2. Merged(n, c.term, g, g)
        BY <2>3, <2>5, <3>1 DEF Merged, Handles, CallInv
      <3>3. \A i \in 1..Len(log'[n]) : log'[n][i].term <= c.term
        <4> SUFFICES ASSUME NEW i \in 1..Len(log'[n]) PROVE log'[n][i].term <= c.term
          OBVIOUS
        <4>1. i \in 1..Len(g[c.term]) /\ log'[n][i] = g[c.term][i]
          BY <1>2, <3>1 DEF Extends
        <4>2. g[c.term][i].term <= c.term
          BY <1>1, <4>1 DEF TermInv
        <4> QED  BY <4>1, <4>2
      <3>4. Share(log'[n], g[c.term], Smaller(c.leaderCommit, Len(log'[n])))
        BY <1>1, <1>2, <3>1 DEF Share, Extends, Smaller
      <3> QED  BY <1>4, <1>6, <2>2, <2>3, <2>5, <3>2, <3>3, <3>4
    <2> QED  BY <2>4, <2>5
  <1> QED  BY <1>5, <1>6

\* The handler applies what is fixed: leaderCommit is backed, and what the node
\* counts itself is of the leader's term.
LEMMA ReplicateApplies ==
    ASSUME Cardinality(Node) <= 3,
           NEW g \in Logs, NEW A \in Acks, NEW B \in Acks, Advances(g, g, A, B),
           VotersInv(g, A), DoneInv(g, A), AppliedCaughtUp, NEW n \in Node, NEW c,
           NEW term, NEW entryTerm, Handles(n, c, term, entryTerm, g, A)
    PROVE  DoneInv(g, B)'
  <1>0. TypeOK /\ TypeOK' /\ LogInv(g) /\ TermInv(g) /\ AckInv(g, A)
    BY DEF Advances
  <1>1. CASE applied' = applied
    BY <1>1, DoneInvKept
  <1>2. CASE applied' # applied
    <2>1. /\ LogMatches(log[n], c)
          /\ applyStateMachine(n, MergeEntries(log[n], c),
               Smaller(c.leaderCommit, Len(MergeEntries(log[n], c))), term, matchIndex[n])
      BY <1>2 DEF Handles, ReplicateEntries, logVars
    <2>2. /\ log'[n] = MergeEntries(log[n], c)
          /\ \A i \in 1..Len(log'[n]) : log'[n][i].term <= c.term
          /\ Share(log'[n], g[c.term], Smaller(c.leaderCommit, Len(log'[n])))
      BY <1>0, <2>1, ReplicateMerges
    <2>3. /\ c.term \in Term /\ c.term \in Nat /\ c.leaderCommit \in Nat /\ c.from \in Node
          /\ log'[n] \in Seq(Entry) /\ g[c.term] \in Seq(Entry)
          /\ currentTerm'[n] \in Term /\ currentTerm'[n] \in Nat
      <3>1. c.term \in Term /\ c.leaderCommit \in Nat /\ c.from \in Node
        BY DEF AppendEntries, Handles
      <3> QED  BY <1>0, <3>1, StepTypes
    <2>4. PICK x \in Nat : x = Smaller(c.leaderCommit, Len(log'[n])) /\ x <= c.leaderCommit
      <3>1. Len(log'[n]) \in Nat
        BY <2>3
      <3> QED  BY <2>3, <3>1 DEF Smaller
    <2>5. applyStateMachine(n, log'[n], x, term, matchIndex[n])
      BY <2>1, <2>2, <2>4
    <2>6. Done(n, x, g, B)'
      <3>1. CASE c.leaderCommit = 0
        BY <2>4, <3>1 DEF Done
      <3>2. ASSUME NEW t \in Term, NEW k \in Nat, t <= c.term, c.leaderCommit <= k,
                   Fixed(t, k, g, A)
            PROVE  Done(n, x, g, B)'
        <4>1. leaders[c.term] # {}
          BY DEF Handles, CallInv
        <4>2. Share(g[c.term], g[t], k)
          BY <1>0, <2>3, <3>2, <4>1, FixedCarried
        <4>3. g[t] \in Seq(Entry) /\ x <= k /\ t \in Nat
          BY <1>0, <2>3, <2>4, <3>2, StepTypes
        <4>4. Share(g[c.term], g[t], x)
          BY <2>3, <4>2, <4>3, ShareLess
        <4>5. Share(log'[n], g[c.term], x)
          BY <2>2, <2>4
        <4>6. Share(log'[n], g[t], x)
          BY <2>3, <4>3, <4>4, <4>5, ShareTrans
        <4>7. Fixed(t, k, g, B)
          BY <3>2, FixedKept
        <4>8. t <= currentTerm'[n]
          BY <2>3, <3>2, <4>3 DEF Handles
        <4>9. Clear(n, t)'
          BY DEF Handles, Clear
        <4> QED  BY <4>3, <4>6, <4>7, <4>8, <4>9 DEF Done, Fixed
      <3> QED  BY <3>1, <3>2 DEF Handles, CallInv, Backed
    <2>7. ASSUME NEW y \in Committable(n, log'[n], x, term, matchIndex[n])
          PROVE  Done(n, y, g, B)'
      <3>1. y \in 1..Len(log'[n]) /\ log'[n][y].term = currentTerm'[n]
        BY <2>3, <2>4 DEF Committable, Handles
      <3>2. currentTerm'[n] = c.term
        <4>1. currentTerm'[n] <= c.term /\ c.term <= currentTerm'[n]
          BY <2>2, <3>1 DEF Handles
        <4> QED  BY <2>3, <4>1
      <3>3. c.from # n /\ c.from \in leaders'[currentTerm'[n]]
        BY <3>2 DEF Handles, CallInv
      <3>4. \A a \in parkedAppends' : a.call.to # n
        BY DEF Handles
      <3> QED  BY <2>3, <3>1, <3>3, <3>4, FollowerCommits
    <2> QED  BY <2>5, <2>6, <2>7, ApplyKept
  <1> QED  BY <1>1, <1>2

\* The handler's answer.
LEMMA ReplicateAnswers ==
    ASSUME NEW g \in Logs, NEW A \in Acks, NEW B \in Acks, Advances(g, g, A, B),
           NEW n \in Node, NEW c, NEW term, NEW entryTerm, Handles(n, c, term, entryTerm, g, A),
           NEW r \in aeReplies', r \notin aeReplies
    PROVE  ReplyInv(r, g, B)'
  <1>0. TypeOK /\ TypeOK' /\ LogInv(g) /\ TermInv(g) /\ Acked(A, B, g)
    BY DEF Advances
  <1>1. /\ c.term \in Term /\ c.term \in Nat /\ c.prevLogIndex \in Nat /\ c.entries \in Seq(Entry)
        /\ Len(c.entries) \in Nat /\ log[n] \in Seq(Entry) /\ log'[n] \in Seq(Entry)
        /\ g[c.term] \in Seq(Entry) /\ currentTerm'[n] \in Nat /\ c.term <= currentTerm'[n]
    <2>1. /\ c.term \in Term /\ c.prevLogIndex \in Nat /\ c.entries \in Seq(Entry)
          /\ Len(c.entries) \in Nat /\ c.term <= currentTerm'[n]
      BY DEF AppendEntries, Handles
    <2> QED  BY <1>0, <2>1, StepTypes
  <1>2. leaders'[c.term] # {} /\ PieceOf(c, g[c.term]) /\ c.to = n
    BY DEF Handles, CallInv
  <1>3. Clear(n, c.term)'
    BY DEF Handles, Clear
  <1>4. c.prevLogIndex + Len(c.entries) <= Len(g[c.term])
    BY <1>2 DEF PieceOf
  <1>5. CASE ~LogMatches(log[n], c)
    <2>1. PICK x : x = Smaller(c.prevLogIndex, Len(log[n]) + 1)
      OBVIOUS
    <2>2. r = AppendReply(c, entryTerm, FALSE, x) /\ log' = log
      BY <1>5, <2>1 DEF Handles, ReplicateEntries, logVars
    <2>3. r.term = c.term /\ r.to = n /\ ~r.success /\ r.conflictIndex = x
      BY <1>2, <2>2 DEF AppendReply
    <2>4. /\ c.prevLogIndex > 0
          /\ c.prevLogIndex > Len(log[n]) \/ log[n][c.prevLogIndex].term # c.prevLogTerm
      BY <1>1, <1>5 DEF LogMatches
    <2>5. x \in Nat /\ x <= c.prevLogIndex /\ (x = Len(log[n]) + 1 \/ x = c.prevLogIndex)
      BY <1>1, <2>1 DEF Smaller
    <2>6. ASSUME NEW j \in 1..Len(log[n]), Share(log[n], g[c.term], j) PROVE j <= x - 1
      <3>1. CASE x = Len(log[n]) + 1
        BY <1>1, <2>5, <3>1
      <3>2. CASE x = c.prevLogIndex
        <4> SUFFICES ASSUME c.prevLogIndex <= j PROVE FALSE
          BY <1>1, <2>5, <3>2
        <4>1. c.prevLogIndex \in 1..j /\ c.prevLogIndex <= Len(log[n])
          BY <1>1, <2>4
        <4>2. log[n][c.prevLogIndex] = g[c.term][c.prevLogIndex]
          BY <2>6, <4>1 DEF Share
        <4> QED  BY <1>1, <1>2, <2>4, <4>1, <4>2 DEF PieceOf
      <3> QED  BY <2>5, <3>1, <3>2
    <2>7. x <= Len(g[c.term]) + 1
      BY <1>1, <1>4, <2>5
    <2>8. Behind(n, c.term, x - 1, g)'
      <3>1. CASE currentTerm'[n] > c.term
        BY <3>1 DEF Behind, Heard
      <3>2. CASE currentTerm'[n] = c.term
        BY <1>3, <2>2, <2>6, <3>2 DEF Behind
      <3> QED  BY <1>1, <3>1, <3>2
    <2> QED  BY <1>2, <2>3, <2>7, <2>8 DEF ReplyInv, Confirms
  <1>6. CASE LogMatches(log[n], c)
    <2>1. r = AppendReply(c, term, TRUE, 0) /\ term = currentTerm'[n]
      BY <1>6 DEF Handles, ReplicateEntries
    <2>2. /\ r.term = c.term /\ r.to = n /\ r.success /\ r.respTerm = currentTerm'[n]
          /\ r.nextIdx = c.prevLogIndex + 1 /\ r.entriesCount = Len(c.entries)
      BY <1>2, <2>1 DEF AppendReply
    <2>3. CASE c.entries = <<>>
      BY <1>2, <2>2, <2>3 DEF ReplyInv, Confirms
    <2>4. CASE c.entries # <<>>
      <3>1. /\ Extends(log'[n], g[c.term])
            /\ Share(log'[n], g[c.term], c.prevLogIndex + Len(c.entries))
        BY <1>0, <1>6, <2>4, ReplicateMerges
      <3>2. Heard(n, c.term, g)'
        BY <1>1, <1>3, <3>1 DEF Heard
      <3>3. PICK k \in Nat : /\ k = c.prevLogIndex + Len(c.entries) /\ k > 0
                             /\ k = r.nextIdx + r.entriesCount - 1
        <4>1. Len(c.entries) > 0
          BY <1>1, <2>4
        <4>2. PICK i, j \in Nat : i = c.prevLogIndex /\ j = Len(c.entries) /\ j > 0
          BY <1>1, <4>1
        <4>3. (i + 1) + j - 1 = i + j /\ i + j > 0 /\ i + j \in Nat
          BY <4>2
        <4> QED  BY <2>2, <4>2, <4>3
      <3>4. currentTerm'[n] = c.term => k \in B[n][c.term]
        BY <1>0, <1>1, <1>3, <3>1, <3>3 DEF Acked
      <3> QED  BY <1>1, <1>2, <1>4, <2>2, <3>2, <3>3, <3>4 DEF ReplyInv
    <2> QED  BY <2>3, <2>4
  <1> QED  BY <1>5, <1>6

-----------------------------------------------------------------------------
(***************************************************************************)
(* The steps, one action at a time.                                        *)
(***************************************************************************)

\* What every step starts from.
Starts(g, A) ==
    /\ g \in Logs /\ A \in Acks
    /\ TypeInv /\ TypeInv' /\ ElectionInv /\ ElectionInv' /\ GapInv /\ CommitInv(g, A)

\* Once the leaders' logs after the step are known, so is what it acknowledges.
LEMMA StepAcks ==
    ASSUME NEW g, NEW A, Starts(g, A), NEW h \in Logs, GapInv', LogInv(h)', Evolves(g, h)
    PROVE  \E B \in Acks : Advances(g, h, A, B)
  <1>1. PICK B \in Acks : Acked(A, B, h)
    BY NewAcks DEF Starts
  <1>2. Advances(g, h, A, B)
    BY <1>1 DEF Starts, CommitInv, Advances, TypeInv
  <1> QED  BY <1>2

\* The parts of the invariant that are left for the actions to show.
LEMMA StepCommits ==
    ASSUME NEW g, NEW A, Starts(g, A), NEW h \in Logs, NEW B \in Acks, Advances(g, h, A, B),
           \A u \in Term : leaders[u] = {} /\ leaders'[u] # {} =>
               \E Q \in SUBSET Node :
                   /\ Cardinality(Q) >= Majority
                   /\ \A p \in Q : u <= currentTerm'[p] /\ Carries(h[u], p, u, h, B)',
           CandidateInv(h, B)', SendInv(h, B)', DoneInv(h, B)'
    PROVE  CommitsInv'
  <1>1. g \in Logs /\ A \in Acks /\ VotersInv(g, A)
    BY DEF Starts, CommitInv
  <1>2. LogInv(h)' /\ TermInv(h)' /\ AckInv(h, B)'
    BY <1>1, TermInvKept, AckInvKept DEF Advances
  <1>3. \A u \in Term : leaders'[u] # {} =>
            \E Q \in SUBSET Node :
                /\ Cardinality(Q) >= Majority
                /\ \A p \in Q : u <= currentTerm'[p] /\ Carries(h[u], p, u, h, B)'
    BY <1>1, VotersKept
  <1>4. VotersInv(h, B)'
    <2> SUFFICES ASSUME NEW u \in Term, leaders'[u] # {}
                 PROVE  \E Q \in SUBSET Node :
                            /\ Cardinality(Q) >= Majority
                            /\ \A p \in Q : (u <= currentTerm[p] /\ Carries(h[u], p, u, h, B))'
      BY DEF VotersInv
    <2>1. PICK Q \in SUBSET Node :
             /\ Cardinality(Q) >= Majority
             /\ \A p \in Q : u <= currentTerm'[p] /\ Carries(h[u], p, u, h, B)'
      BY <1>3
    <2>2. \A p \in Q : (u <= currentTerm[p] /\ Carries(h[u], p, u, h, B))'
      BY <2>1
    <2> QED  BY <2>1, <2>2
  <1>5. CommitInv(h, B)'
    BY <1>2, <1>4 DEF CommitInv
  <1> QED  BY <1>5 DEF CommitsInv

\* A quiet step leaves the leaders' logs as they are.
LEMMA QuietSteps ==
    ASSUME NEW g, NEW A, Starts(g, A), Quiet(g), Tame
    PROVE  \E B \in Acks : Advances(g, g, A, B)
  <1>0. TypeOK /\ TypeOK' /\ g \in Logs /\ LogInv(g) /\ GapInv
    BY DEF Starts, TypeInv, CommitInv
  <1>1. GapInv' /\ LogInv(g)'
    BY <1>0, TameGap, QuietLog
  <1>2. Grows(g, g) /\ \A t \in Term : \A i \in 1..Len(g[t]) : ~(i > Len(g[t]))
    BY <1>0, ExtendsSelf DEF Logs
  <1>3. Evolves(g, g)
    BY <1>2 DEF Evolves, Quiet
  <1> QED  BY <1>0, <1>1, <1>3, StepAcks

\* Nothing is sent to the followers, nothing is learnt of them, nothing applied.
Still ==
    /\ applied' = applied /\ nextIndex' = nextIndex
    /\ aeCalls' \subseteq aeCalls /\ aeReplies' \subseteq aeReplies

\* In such a step only the candidates are of interest.
LEMMA StillCommits ==
    ASSUME NEW g, NEW A, Starts(g, A), Quiet(g), Still, NEW B \in Acks, Advances(g, g, A, B),
           CandidateInv(g, B)'
    PROVE  CommitsInv'
  <1>0. g \in Logs /\ A \in Acks /\ VotersInv(g, A) /\ SendInv(g, A) /\ DoneInv(g, A)
    BY DEF Starts, CommitInv
  <1>1. SendInv(g, B)'
    <2>1. \A n \in Node : \A p \in Peers(n) : role'[n] = "LEADER" =>
             /\ role[n] = "LEADER" /\ currentTerm'[n] = currentTerm[n]
             /\ nextIndex'[n][p] = nextIndex[n][p] /\ matchIndex'[n][p] = matchIndex[n][p]
      BY DEF Quiet, Still
    <2>2. /\ \A c \in aeCalls' : c \in aeCalls
          /\ \A a \in parkedAppends' : a \in parkedAppends
          /\ \A r \in aeReplies' : r \in aeReplies
      BY DEF Quiet, Still
    <2>3. \A c \in aeCalls' :
             c \in aeCalls \/ (CallInv(c, g, B)' /\ Behind(c.to, c.term, c.prevLogIndex, g)')
      BY <2>2
    <2>4. \A a \in parkedAppends' :
             \/ a \in parkedAppends
             \/ CallInv(a.call, g, B)' /\ Past(a.call.term, a.call.prevLogIndex, g)
      BY <2>2
    <2>5. \A r \in aeReplies' : r \in aeReplies \/ ReplyInv(r, g, B)'
      BY <2>2
    <2>6. \A n \in Node : \A p \in Peers(n) : role'[n] = "LEADER" =>
             \/ PeerInv(n, p, g, B)'
             \/ /\ role[n] = "LEADER" /\ currentTerm'[n] = currentTerm[n]
                /\ nextIndex'[n][p] = nextIndex[n][p] /\ matchIndex'[n][p] = matchIndex[n][p]
      BY <2>1
    <2> QED  BY <1>0, <2>3, <2>4, <2>5, <2>6, SendInvKept
  <1>2. DoneInv(g, B)'
    BY <1>0, DoneInvKept DEF Still
  <1>3. leaders' = leaders
    BY DEF Quiet
  <1> QED  BY <1>0, <1>1, <1>2, <1>3, StepCommits

\* And if nobody votes, nothing is.
LEMMA CalmCommits ==
    ASSUME NEW g, NEW A, Starts(g, A), Quiet(g), Tame, Still, Calm
    PROVE  CommitsInv'
  <1>1. PICK B \in Acks : Advances(g, g, A, B)
    BY QuietSteps
  <1>2. CandidateInv(g, B)'
    BY <1>1, CalmCandidates DEF Starts, CommitInv
  <1> QED  BY <1>1, <1>2, StillCommits

\* Most actions are calm: who does not stand for election or vote.
LEMMA CalmActions ==
    ASSUME NEW g, NEW A, Starts(g, A)
    PROVE  /\ \A c \in rvCalls : rejectRequestVote(c) => Calm /\ Still
           /\ \A c \in rvCalls : parkRequestVote(c) => Calm /\ Still
           /\ \A r \in rvReplies : voteReplyStepDown(r) => Calm /\ Still
           /\ \A r \in rvReplies : voteReplyIgnored(r) => Calm /\ Still
           /\ \A r \in rvReplies : voteReplyCounted(r) /\ role' = role => Calm /\ Still
           /\ \A c \in rvCalls : LoseVoteCall(c) => Calm /\ Still
           /\ \A r \in rvReplies : LoseVoteReply(r) => Calm /\ Still
           /\ \A n \in Node : sendHeartbeatsInternal(n) => Calm
           /\ \A n \in Node, cmd \in Command : submitCommand(n, cmd) => Calm
           /\ \A c \in aeCalls : rejectAppendEntries(c) => Calm
           /\ \A c \in aeCalls : parkAppendEntries(c) => Calm
           /\ \A c \in aeCalls : onAppendEntries(c) => Calm
           /\ \A a \in parkedAppends : resumeAppendEntries(a) => Calm
           /\ \A r \in aeReplies : appendReplyStepDown(r) => Calm /\ Still
           /\ \A r \in aeReplies : appendReplyIgnored(r) => Calm /\ Still
           /\ \A r \in aeReplies : appendReplySuccess(r) => Calm
           /\ \A r \in aeReplies : appendReplyFailure(r) => Calm
           /\ \A c \in aeCalls : LoseAppendCall(c) => Calm /\ Still
           /\ \A r \in aeReplies : LoseAppendReply(r) => Calm /\ Still
           /\ UNCHANGED vars => Calm /\ Still
  <1> USE DEF termVars, logVars, leaderVars, voteVars, rvVars, aeVars, gapVars
  <1>0. TypeOK /\ TypeOK' /\ ElectionInv /\ GapInv /\ CandidateInv(g, A)
    BY DEF Starts, TypeInv, CommitInv
  <1>1. ASSUME currentTerm' = currentTerm, role' = role, voters' = voters,
               \A n \in Node : role[n] = "CANDIDATE" => log'[n] = log[n],
               rvCalls' \cup parkedVotes' \subseteq rvCalls \cup parkedVotes,
               rvReplies' \subseteq rvReplies
        PROVE  Calm
    BY <1>1 DEF Calm, Granted
  <1>2. ASSUME NEW n \in Node, NEW term, becomeFollower(n, term),
               \A m \in Node : m # n => log'[m] = log[m],
               rvCalls' \cup parkedVotes' \subseteq rvCalls \cup parkedVotes,
               rvReplies' \subseteq rvReplies
        PROVE  Calm
    <2>1. /\ currentTerm \in [Node -> Term] /\ role \in [Node -> Role]
          /\ voters \in [Node -> SUBSET Node]
      BY <1>0 DEF TypeOK
    <2>2. \A m \in Node : role'[m] = "CANDIDATE" =>
             /\ role[m] = "CANDIDATE" /\ currentTerm'[m] = currentTerm[m] /\ log'[m] = log[m]
             /\ voters'[m] = voters[m]
      BY <1>2, <2>1 DEF becomeFollower
    <2>3. \A m \in Node : role'[m] = "CANDIDATE" =>
             \A p \in voters'[m] : Granted(p, m, currentTerm[m])
      BY <2>2 DEF Granted
    <2> QED  BY <1>2, <2>2, <2>3 DEF Calm
  <1>3. /\ \A c \in rvCalls : c.to \in Node /\ c.from \in Node
        /\ \A r \in rvReplies : /\ r.from \in Node /\ r.to \in Node /\ r.term \in Int
                                /\ r.respTerm \in Int
        /\ \A c \in aeCalls : c.to \in Node
        /\ \A a \in parkedAppends : a.call.to \in Node
        /\ \A r \in aeReplies : r.from \in Node
        /\ log \in [Node -> Seq(Entry)]
    <2>1. \A r \in rvReplies : /\ r.from \in Node /\ r.to \in Node /\ r.term \in Term
                               /\ r.respTerm \in Term
      BY <1>0 DEF TypeOK, RequestVoteReply
    <2>2. \A c \in rvCalls : c.to \in Node /\ c.from \in Node
      BY <1>0 DEF TypeOK, RequestVote
    <2>3. \A t \in Term : t \in Int
      BY BoundAssumption DEF Term
    <2> QED  BY <1>0, <2>1, <2>2, <2>3, LogTypes DEF TypeOK
  <1>4. ASSUME NEW n \in Node, NEW c, NEW term, NEW entryTerm,
               ReplicateEntries(n, c, term, entryTerm)
        PROVE  \A m \in Node : m # n => log'[m] = log[m]
    BY <1>3, <1>4 DEF ReplicateEntries
  <1>5. ASSUME NEW c \in rvCalls, rejectRequestVote(c) PROVE Calm /\ Still
    <2>1. \A r \in rvReplies' : \/ r \in rvReplies
                                \/ ~r.voteGranted /\ r.term = c.term /\ r.from = c.from
      BY <1>5 DEF rejectRequestVote, VoteReply
    <2>2. c.term <= currentTerm'[c.from]
      BY <1>0, <1>5 DEF CandidateInv, rejectRequestVote
    <2>3. \A r \in rvReplies' : r \in rvReplies \/ (~r.voteGranted /\ r.term <= currentTerm'[r.from])
      BY <2>1, <2>2
    <2>4. /\ currentTerm' = currentTerm /\ role' = role /\ voters' = voters /\ log' = log
          /\ rvCalls' \cup parkedVotes' \subseteq rvCalls \cup parkedVotes
      BY <1>5 DEF rejectRequestVote
    <2>5. Calm
      BY <2>3, <2>4 DEF Calm, Granted
    <2> QED  BY <1>5, <2>5 DEF rejectRequestVote, Still
  <1>6. ASSUME NEW r \in rvReplies, voteReplyCounted(r), role' = role PROVE Calm /\ Still
    <2>1. PICK n \in Node : n = r.from
      BY <1>3
    <2>2. /\ r.respTerm <= currentTerm[n] /\ role[n] = "CANDIDATE" /\ currentTerm[n] = r.term
          /\ r.voteGranted
      BY <1>6, <2>1 DEF voteReplyCounted, OutdatedVote
    <2>3. ~becomeLeaderInternal(n, currentTerm[n])
      <3> SUFFICES ASSUME role' = [role EXCEPT ![n] = "LEADER"] PROVE FALSE
        BY DEF becomeLeaderInternal
      <3> QED  BY <1>0, <1>6, <2>2 DEF TypeOK
    <2>4. /\ voters' = [voters EXCEPT ![n] = @ \cup {r.to}]
          /\ UNCHANGED <<currentTerm, logVars, leaderVars, rvCalls, aeVars, gapVars>>
          /\ rvReplies' \subseteq rvReplies
      BY <1>6, <2>1, <2>3 DEF voteReplyCounted
    <2>5. Granted(r.to, n, currentTerm[n])
      <3>1. r.term <= r.respTerm
        BY <1>0, <2>2 DEF ElectionInv, CallsInv
      <3>2. r.respTerm = r.term
        BY <1>3, <2>2, <3>1
      <3> QED  BY <2>1, <2>2, <3>2 DEF Granted
    <2>6. ASSUME NEW m \in Node, role'[m] = "CANDIDATE", NEW p \in voters'[m]
          PROVE  Granted(p, m, currentTerm[m])
      <3>1. voters \in [Node -> SUBSET Node]
        BY <1>0 DEF TypeOK
      <3>2. p \in voters[m] \/ (m = n /\ p = r.to)
        BY <2>4, <2>6, <3>1
      <3> QED  BY <1>6, <2>5, <2>6, <3>2 DEF Granted
    <2>7. Calm
      BY <1>6, <2>4, <2>6 DEF Calm
    <2> QED  BY <2>4, <2>7 DEF Still
  <1>7. ASSUME NEW n \in Node, NEW cmd \in Command, submitCommand(n, cmd) PROVE Calm
    <2>1. \A m \in Node : role[m] = "CANDIDATE" => log'[m] = log[m]
      BY <1>3, <1>7 DEF submitCommand
    <2> QED  BY <1>1, <1>7, <2>1 DEF submitCommand
  <1>8. ASSUME NEW c \in aeCalls, onAppendEntries(c) PROVE Calm
    <2>1. /\ \A m \in Node : m # c.to => log'[m] = log[m]
          /\ rvCalls' \cup parkedVotes' \subseteq rvCalls \cup parkedVotes
          /\ rvReplies' \subseteq rvReplies
      BY <1>3, <1>4, <1>8 DEF onAppendEntries
    <2>2. CASE c.term > currentTerm[c.to] \/ role[c.to] = "CANDIDATE"
      <3>1. becomeFollower(c.to, c.term)
        BY <1>8, <2>2 DEF onAppendEntries
      <3> QED  BY <1>2, <1>3, <2>1, <3>1
    <2>3. CASE ~(c.term > currentTerm[c.to] \/ role[c.to] = "CANDIDATE")
      <3>1. currentTerm' = currentTerm /\ role' = role /\ voters' = voters
        BY <1>8, <2>3 DEF onAppendEntries
      <3>2. \A n \in Node : role[n] = "CANDIDATE" => log'[n] = log[n]
        BY <2>1, <2>3
      <3> QED  BY <1>1, <2>1, <3>1, <3>2
    <2> QED  BY <2>2, <2>3
  <1>9. ASSUME NEW a \in parkedAppends, resumeAppendEntries(a) PROVE Calm
    <2>1. \A m \in Node : m # a.call.to => log'[m] = log[m]
      BY <1>3, <1>4, <1>9 DEF resumeAppendEntries
    <2>2. role[a.call.to] = "FOLLOWER"
      BY <1>0 DEF GapInv
    <2>3. \A n \in Node : role[n] = "CANDIDATE" => log'[n] = log[n]
      BY <2>1, <2>2
    <2> QED  BY <1>1, <1>9, <2>3 DEF resumeAppendEntries
  <1>10. ASSUME NEW c \in rvCalls, parkRequestVote(c) PROVE Calm /\ Still
    <2>1. /\ becomeFollower(c.to, c.term) /\ log' = log /\ rvReplies' = rvReplies
          /\ rvCalls' \cup parkedVotes' \subseteq rvCalls \cup parkedVotes
      BY <1>10 DEF parkRequestVote
    <2>2. Calm
      BY <1>2, <1>3, <2>1
    <2> QED  BY <1>10, <2>2 DEF parkRequestVote, Still
  <1>11. ASSUME NEW r \in rvReplies, voteReplyStepDown(r) PROVE Calm /\ Still
    <2>1. Calm
      BY <1>2, <1>3, <1>11 DEF voteReplyStepDown
    <2> QED  BY <1>11, <2>1 DEF voteReplyStepDown, Still
  <1>12. ASSUME NEW c \in aeCalls, parkAppendEntries(c) PROVE Calm
    BY <1>2, <1>3, <1>12 DEF parkAppendEntries
  <1>13. ASSUME NEW r \in aeReplies, appendReplyStepDown(r) PROVE Calm /\ Still
    <2>1. Calm
      BY <1>2, <1>3, <1>13 DEF appendReplyStepDown
    <2> QED  BY <1>13, <2>1 DEF appendReplyStepDown, Still
  <1>14. /\ \A r \in rvReplies : voteReplyIgnored(r) => Calm /\ Still
         /\ \A c \in rvCalls : LoseVoteCall(c) => Calm /\ Still
         /\ \A r \in rvReplies : LoseVoteReply(r) => Calm /\ Still
    BY <1>1 DEF voteReplyIgnored, LoseVoteCall, LoseVoteReply, Still
  <1>15. /\ \A n \in Node : sendHeartbeatsInternal(n) => Calm
         /\ \A c \in aeCalls : rejectAppendEntries(c) => Calm
         /\ \A r \in aeReplies : appendReplySuccess(r) => Calm
         /\ \A r \in aeReplies : appendReplyFailure(r) => Calm
    BY <1>1 DEF sendHeartbeatsInternal, rejectAppendEntries, appendReplySuccess,
                appendReplyFailure
  <1>16. /\ \A r \in aeReplies : appendReplyIgnored(r) => Calm /\ Still
         /\ \A c \in aeCalls : LoseAppendCall(c) => Calm /\ Still
         /\ \A r \in aeReplies : LoseAppendReply(r) => Calm /\ Still
         /\ UNCHANGED vars => Calm /\ Still
    BY <1>1 DEF appendReplyIgnored, LoseAppendCall, LoseAppendReply, vars, Still
  <1> QED  BY <1>5, <1>6, <1>7, <1>8, <1>9, <1>10, <1>11, <1>12, <1>13, <1>14, <1>15, <1>16

\* startElection(): a node has what it has acknowledged itself.
LEMMA StandCommits ==
    ASSUME NEW g, NEW A, Starts(g, A), QuietStep, NEW n \in Node, startElectionAmong(n)
    PROVE  CommitsInv'
  <1>0. /\ TypeOK /\ TypeOK' /\ g \in Logs /\ A \in Acks /\ CandidateInv(g, A) /\ AckInv(g, A)
    BY DEF Starts, TypeInv, CommitInv
  <1>1. Quiet(g) /\ Tame
    BY <1>0, QuietVotes
  <1>2. PICK B \in Acks : Advances(g, g, A, B)
    BY <1>1, QuietSteps
  <1>3. /\ \A m \in Node : currentTerm[m] \in Nat
        /\ currentTerm \in [Node -> Term] /\ role \in [Node -> Role]
        /\ voters \in [Node -> SUBSET Node] /\ \A r \in rvReplies : r.term \in Nat
    <2>1. \A r \in rvReplies : r.term \in Term
      BY <1>0 DEF TypeOK, RequestVoteReply
    <2>2. \A t \in Term : t \in Nat
      BY BoundAssumption DEF Term
    <2> QED  BY <1>0, <2>1, <2>2 DEF TypeOK
  <1>4. PICK t \in Nat : t = currentTerm[n] + 1
    BY <1>3
  <1>5. /\ role' = [role EXCEPT ![n] = "CANDIDATE"]
        /\ currentTerm' = [currentTerm EXCEPT ![n] = t] /\ voters' = [voters EXCEPT ![n] = {n}]
        /\ \E S \in Connect(VoteCalls(n, t, log[n])) : rvCalls' = rvCalls \cup S
        /\ UNCHANGED <<log, applied, nextIndex, leaders, rvReplies, aeCalls, aeReplies, parkedVotes>>
    BY <1>4 DEF startElectionAmong, startElection, requestVotes, logVars, leaderVars, aeVars,
                gapVars
  <1>6. /\ role'[n] = "CANDIDATE" /\ currentTerm'[n] = t /\ voters'[n] = {n}
        /\ \A m \in Node : m # n => /\ role'[m] = role[m] /\ currentTerm'[m] = currentTerm[m]
                                    /\ voters'[m] = voters[m]
    BY <1>3, <1>5
  <1>7. \A c \in rvCalls' \cup parkedVotes' :
           \/ c \in rvCalls \cup parkedVotes
           \/ /\ c.term = currentTerm'[c.from] /\ c.lastLogIndex = Len(log'[c.from])
              /\ c.lastLogTerm = LastTerm(log'[c.from])
    BY <1>5, <1>6 DEF Connect, VoteCalls
  <1>8. \A m \in Node : role'[m] = "CANDIDATE" =>
           /\ log'[m] = log[m]
           /\ \/ role[m] = "CANDIDATE" /\ currentTerm'[m] = currentTerm[m]
              \/ currentTerm'[m] > currentTerm[m]
    BY <1>3, <1>4, <1>5, <1>6
  <1>9. ASSUME NEW m \in Node, NEW p \in Node, role'[m] = "CANDIDATE",
               leaders'[currentTerm'[m]] = {}, Granted(p, m, currentTerm[m])'
        PROVE  currentTerm'[m] <= currentTerm'[p] /\ Carries(log[m], p, currentTerm'[m], g, A)
    <2>1. CASE m # n
      <3>1. role[m] = "CANDIDATE" /\ currentTerm'[m] = currentTerm[m] /\ leaders[currentTerm[m]] = {}
        BY <1>5, <1>6, <1>9, <2>1
      <3>2. Granted(p, m, currentTerm[m])
        BY <1>5, <1>6, <1>9, <2>1, <3>1 DEF Granted
      <3> QED  BY <1>0, <1>2, <3>1, <3>2, OldVote
    <2>2. CASE m = n
      <3>1. \A r \in rvReplies' : r.from = n => r.term # t
        BY <1>0, <1>3, <1>4, <1>5 DEF CandidateInv
      <3>2. p = n
        BY <1>6, <1>9, <2>2, <3>1 DEF Granted
      <3>3. Carries(log[n], n, t, g, A)
        BY <1>0, <1>4 DEF AckInv
      <3> QED  BY <1>3, <1>6, <2>2, <3>2, <3>3
    <2> QED  BY <2>1, <2>2
  <1>10. \A r \in rvReplies' : r \in rvReplies \/ r.term <= currentTerm'[r.from]
    BY <1>5
  <1>11. CandidateInv(g, B)'
    BY <1>0, <1>2, <1>7, <1>8, <1>9, <1>10, CandidateInvKept
  <1>12. Still
    BY <1>5 DEF Still
  <1> QED  BY <1>1, <1>2, <1>11, <1>12, StillCommits

\* The answer of onRequestVote(), with or without the gap: a vote is given in the
\* term of the call, and only to a log that is up to date.
LEMMA VoteCommits ==
    ASSUME NEW g, NEW A, Starts(g, A), Quiet(g), Tame, Still,
           NEW c \in rvCalls \cup parkedVotes, NEW grant, c.from # c.to,
           rvCalls' \cup parkedVotes' \subseteq rvCalls \cup parkedVotes,
           rvReplies' = rvReplies \cup {VoteReply(c, currentTerm'[c.to], grant)},
           grant => LogUpToDate(log[c.to], c),
           \A n \in Node : role'[n] = "CANDIDATE" =>
               /\ role[n] = "CANDIDATE" /\ currentTerm'[n] = currentTerm[n]
               /\ voters'[n] \subseteq voters[n]
    PROVE  CommitsInv'
  <1>0. /\ TypeOK /\ TypeOK' /\ g \in Logs /\ A \in Acks /\ CandidateInv(g, A) /\ AckInv(g, A)
        /\ LogInv(g) /\ TermInv(g)
    BY DEF Starts, TypeInv, CommitInv
  <1>1. PICK B \in Acks : Advances(g, g, A, B)
    BY QuietSteps
  <1>2. /\ \A m \in Node : /\ currentTerm[m] \in Nat /\ currentTerm'[m] \in Nat
                           /\ currentTerm[m] <= currentTerm'[m]
        /\ c.from \in Node /\ c.to \in Node /\ c.term \in Nat
    <2>1. c.from \in Node /\ c.to \in Node /\ c.term \in Term
      BY <1>0 DEF TypeOK, RequestVote
    <2>2. \A t \in Term : t \in Nat
      BY BoundAssumption DEF Term
    <2>3. \A m \in Node : currentTerm[m] \in Term /\ currentTerm'[m] \in Term
      BY <1>0 DEF TypeOK
    <2> QED  BY <2>1, <2>2, <2>3 DEF Quiet
  <1>3. PICK new : /\ new = VoteReply(c, currentTerm'[c.to], grant)
                   /\ rvReplies' = rvReplies \cup {new}
    OBVIOUS
  <1>4. /\ new.from = c.from /\ new.to = c.to /\ new.term = c.term
        /\ new.respTerm = currentTerm'[c.to] /\ new.voteGranted = grant
    BY <1>3 DEF VoteReply
  <1>5. \A r \in rvReplies' : r \in rvReplies \/ r.term <= currentTerm'[r.from]
    <2>1. c.term <= currentTerm[c.from]
      BY <1>0 DEF CandidateInv
    <2>2. c.term <= currentTerm'[c.from]
      BY <1>2, <2>1
    <2> QED  BY <1>3, <1>4, <2>2
  <1>6. ASSUME NEW m \in Node, NEW p \in Node, role'[m] = "CANDIDATE",
               leaders'[currentTerm'[m]] = {}, Granted(p, m, currentTerm[m])'
        PROVE  currentTerm'[m] <= currentTerm'[p] /\ Carries(log[m], p, currentTerm'[m], g, A)
    <2>1. role[m] = "CANDIDATE" /\ currentTerm'[m] = currentTerm[m] /\ leaders[currentTerm[m]] = {}
      BY <1>6 DEF Quiet
    <2>2. CASE Granted(p, m, currentTerm[m])
      BY <1>0, <1>1, <2>1, <2>2, OldVote
    <2>3. CASE ~Granted(p, m, currentTerm[m])
      <3>1. /\ c.from = m /\ c.to = p /\ grant
            /\ c.term = currentTerm[m] /\ currentTerm'[p] = c.term
        BY <1>3, <1>4, <1>6, <2>1, <2>3 DEF Granted
      <3>2. currentTerm[p] <= c.term /\ leaders[c.term] = {} /\ LogUpToDate(log[p], c)
        BY <1>2, <2>1, <3>1
      <3>3. Carries(log[m], p, c.term, g, A)
        BY <1>0, <2>1, <3>1, <3>2, VoteCarried
      <3> QED  BY <1>2, <2>1, <3>1, <3>3
    <2> QED  BY <2>2, <2>3
  <1>7. /\ \A x \in rvCalls' \cup parkedVotes' :
              \/ x \in rvCalls \cup parkedVotes
              \/ /\ x.term = currentTerm'[x.from] /\ x.lastLogIndex = Len(log'[x.from])
                 /\ x.lastLogTerm = LastTerm(log'[x.from])
        /\ \A n \in Node : role'[n] = "CANDIDATE" =>
              /\ log'[n] = log[n]
              /\ \/ role[n] = "CANDIDATE" /\ currentTerm'[n] = currentTerm[n]
                 \/ currentTerm'[n] > currentTerm[n]
    BY DEF Quiet
  <1>8. CandidateInv(g, B)'
    BY <1>0, <1>1, <1>5, <1>6, <1>7, CandidateInvKept
  <1> QED  BY <1>1, <1>8, StillCommits

\* onRequestVote() without the gap.
LEMMA OnVoteCommits ==
    ASSUME NEW g, NEW A, Starts(g, A), QuietStep, NEW c \in rvCalls, onRequestVote(c)
    PROVE  CommitsInv'
  <1>0. TypeOK /\ TypeOK' /\ g \in Logs /\ ElectionInv
    BY DEF Starts, TypeInv
  <1>1. Quiet(g) /\ Tame
    BY <1>0, QuietVotes
  <1>2. PICK n \in Node : n = c.to
    BY <1>0 DEF TypeOK, RequestVote
  <1>3. PICK vote : vote = IF c.term > currentTerm[n] THEN Nil ELSE votedFor[n]
    OBVIOUS
  <1>4. PICK grant : grant = GrantsVote(log[n], vote, c)
    OBVIOUS
  <1>5. /\ currentTerm' = [currentTerm EXCEPT ![n] = c.term] /\ c.term >= currentTerm[n]
        /\ role' = [role EXCEPT ![n] = IF c.term > currentTerm[n] THEN "FOLLOWER" ELSE @]
        /\ voters' = [voters EXCEPT ![n] = IF c.term > currentTerm[n] THEN {} ELSE @]
        /\ rvCalls' = rvCalls \ {c}
        /\ rvReplies' = rvReplies \cup {VoteReply(c, c.term, grant)}
        /\ UNCHANGED <<applied, nextIndex, aeCalls, aeReplies, parkedVotes>>
    BY <1>2, <1>3, <1>4 DEF onRequestVote, logVars, leaderVars, aeVars, gapVars
  <1>6. /\ currentTerm \in [Node -> Term] /\ role \in [Node -> Role]
        /\ voters \in [Node -> SUBSET Node] /\ c.term \in Int /\ currentTerm[n] \in Int
    <2>1. c.term \in Term /\ currentTerm[n] \in Term
      BY <1>0 DEF TypeOK, RequestVote
    <2> QED  BY <1>0, <2>1, BoundAssumption DEF TypeOK, Term
  <1>7. \A m \in Node : role'[m] = "CANDIDATE" =>
           /\ role[m] = "CANDIDATE" /\ currentTerm'[m] = currentTerm[m]
           /\ voters'[m] \subseteq voters[m]
    BY <1>5, <1>6
  <1>8. /\ currentTerm'[c.to] = c.term /\ (grant => LogUpToDate(log[c.to], c))
        /\ rvCalls' \cup parkedVotes' \subseteq rvCalls \cup parkedVotes /\ Still /\ c.from # c.to
    BY <1>0, <1>2, <1>4, <1>5, <1>6 DEF GrantsVote, Still, ElectionInv, CallsInv
  <1>9. rvReplies' = rvReplies \cup {VoteReply(c, currentTerm'[c.to], grant)}
    BY <1>5, <1>8
  <1> QED  BY <1>1, <1>7, <1>8, <1>9, VoteCommits

\* onRequestVote() after the gap.
LEMMA ResumeVoteCommits ==
    ASSUME NEW g, NEW A, Starts(g, A), QuietStep, NEW c \in parkedVotes, resumeRequestVote(c)
    PROVE  CommitsInv'
  <1>0. TypeOK /\ TypeOK' /\ g \in Logs /\ ElectionInv
    BY DEF Starts, TypeInv
  <1>1. Quiet(g) /\ Tame
    BY <1>0, QuietVotes
  <1>2. PICK grant : grant = GrantsVote(log[c.to], votedFor[c.to], c)
    OBVIOUS
  <1>3. /\ parkedVotes' = parkedVotes \ {c}
        /\ rvReplies' = rvReplies \cup {VoteReply(c, currentTerm[c.to], grant)}
        /\ UNCHANGED <<currentTerm, role, voters, applied, nextIndex, aeCalls, aeReplies, rvCalls>>
    BY <1>2 DEF resumeRequestVote, logVars, leaderVars, voteVars, aeVars
  <1>4. \A m \in Node : role'[m] = "CANDIDATE" =>
           /\ role[m] = "CANDIDATE" /\ currentTerm'[m] = currentTerm[m]
           /\ voters'[m] \subseteq voters[m]
    BY <1>3
  <1>5. /\ grant => LogUpToDate(log[c.to], c)
        /\ rvCalls' \cup parkedVotes' \subseteq rvCalls \cup parkedVotes /\ Still /\ c.from # c.to
    BY <1>0, <1>2, <1>3 DEF GrantsVote, Still, ElectionInv, CallsInv
  <1>6. rvReplies' = rvReplies \cup {VoteReply(c, currentTerm'[c.to], grant)}
    BY <1>3
  <1> QED  BY <1>1, <1>4, <1>5, <1>6, VoteCommits

\* becomeLeaderInternal(): the new leader has what a majority has acknowledged.
LEMMA WinCommits ==
    ASSUME NEW g, NEW A, Starts(g, A), Tame, NEW n \in Node, NEW t \in Term,
           n \notin leaders[t], currentTerm[n] <= t, currentTerm' = [currentTerm EXCEPT ![n] = t],
           becomeLeaderInternal(n, t), log' = log, aeReplies' = aeReplies,
           parkedAppends' = parkedAppends, parkedVotes' = parkedVotes, rvCalls' = rvCalls,
           rvReplies' \subseteq rvReplies,
           leaders[t] = {} =>
               \E Q \in SUBSET Node :
                   /\ Cardinality(Q) >= Majority
                   /\ \A p \in Q : t <= currentTerm'[p] /\ Carries(log[n], p, t, g, A),
           \/ applied' = applied
           \/ Peers(n) = {} /\ applyStateMachine(n, log[n], commitIndex[n], t, matchIndex[n])
    PROVE  CommitsInv'
  <1>0. /\ TypeOK /\ TypeOK' /\ g \in Logs /\ A \in Acks /\ CandidateInv(g, A) /\ AckInv(g, A)
        /\ LogInv(g) /\ ElectionInv /\ ElectionInv' /\ GapInv /\ AppliedCaughtUp
        /\ VotersInv(g, A) /\ SendInv(g, A) /\ DoneInv(g, A)
    BY DEF Starts, TypeInv, CommitInv
  <1>1. PICK h \in Logs : h = [g EXCEPT ![t] = log[n]] /\ Grows(g, h) /\ LogInv(h)'
    BY <1>0, WinLog
  <1>2. leaders[t] = {} /\ GapInv'
    BY <1>0, WinLog, TameGap
  <1>3. /\ role' = [role EXCEPT ![n] = "LEADER"]
        /\ nextIndex' = [nextIndex EXCEPT ![n] = [p \in Node |-> Len(log[n]) + 1]]
        /\ matchIndex' = [matchIndex EXCEPT ![n] = [p \in Node |-> 0]]
        /\ voters' = [voters EXCEPT ![n] = {}]
        /\ leaders' = [leaders EXCEPT ![t] = @ \cup {n}]
    BY DEF becomeLeaderInternal
  <1>4. /\ role \in [Node -> Role] /\ currentTerm \in [Node -> Term]
        /\ voters \in [Node -> SUBSET Node] /\ leaders \in [Term -> SUBSET Node]
        /\ nextIndex \in [Node -> [Node -> Nat \ {0}]] /\ matchIndex \in [Node -> [Node -> Nat]]
        /\ log[n] \in Seq(Entry) /\ g \in [Term -> Seq(Entry)] /\ commitIndex[n] \in Nat
    BY <1>0 DEF TypeOK, Logs
  <1>5. /\ role'[n] = "LEADER" /\ currentTerm'[n] = t
        /\ nextIndex'[n] = [p \in Node |-> Len(log[n]) + 1]
        /\ matchIndex'[n] = [p \in Node |-> 0]
        /\ h[t] = log[n] /\ \A u \in Term : u # t => h[u] = g[u] /\ leaders'[u] = leaders[u]
        /\ \A m \in Node : m # n => /\ role'[m] = role[m] /\ currentTerm'[m] = currentTerm[m]
                                    /\ voters'[m] = voters[m] /\ nextIndex'[m] = nextIndex[m]
                                    /\ matchIndex'[m] = matchIndex[m]
    BY <1>1, <1>3, <1>4
  <1>6. \A m \in Node : currentTerm[m] <= currentTerm'[m]
    BY DEF Tame
  <1>7. Evolves(g, h)
    <2>1. \A u \in Term : leaders[u] \subseteq leaders'[u]
      BY <1>3, <1>4
    <2>2. \A u \in Term : leaders[u] # {} =>
             \A i \in 1..Len(h[u]) : i > Len(g[u]) => h[u][i].term = u
      <3> SUFFICES ASSUME NEW u \in Term, leaders[u] # {}, NEW i \in 1..Len(h[u]), i > Len(g[u])
                   PROVE  h[u][i].term = u
        OBVIOUS
      <3>1. u # t
        BY <1>2
      <3>2. h[u] = g[u] /\ Len(g[u]) \in Int
        BY <1>4, <1>5, <3>1
      <3>3. FALSE
        BY <3>2
      <3> QED  BY <3>3
    <2>3. \A u \in Term : h[u] # g[u] \/ leaders'[u] # leaders[u] =>
             \E m \in Node : role'[m] = "LEADER" /\ currentTerm'[m] = u
      BY <1>5
    <2> QED  BY <1>1, <1>6, <2>1, <2>2, <2>3 DEF Evolves
  <1>8. PICK B \in Acks : Advances(g, h, A, B)
    BY <1>1, <1>2, <1>7, StepAcks
  <1>9. ASSUME NEW u \in Term, leaders[u] = {}, leaders'[u] # {}
        PROVE  \E Q \in SUBSET Node :
                   /\ Cardinality(Q) >= Majority
                   /\ \A p \in Q : u <= currentTerm'[p] /\ Carries(h[u], p, u, h, B)'
    <2>1. u = t /\ t \in Nat
      BY <1>5, <1>9, BoundAssumption DEF Term
    <2>2. PICK Q \in SUBSET Node :
             /\ Cardinality(Q) >= Majority
             /\ \A p \in Q : t <= currentTerm'[p] /\ Carries(log[n], p, t, g, A)
      BY <1>2
    <2>3. PICK l \in Seq(Entry) : l = log[n] /\ l = h[t] /\ Extends(l, l)
      BY <1>4, <1>5, ExtendsSelf
    <2>4. ASSUME NEW p \in Q PROVE t <= currentTerm'[p] /\ Carries(h[t], p, t, h, B)'
      <3>1. p \in Node /\ t <= currentTerm'[p] /\ Carries(l, p, t, g, A)
        BY <2>2, <2>3
      <3>2. Carries(l, p, t, h, B)'
        BY <1>0, <1>8, <2>1, <2>3, <3>1, CarriesKept
      <3> QED  BY <2>3, <3>1, <3>2
    <2> QED  BY <2>1, <2>2, <2>4
  <1>10. CandidateInv(h, B)'
    <2>1. Calm
      <3>1. \A m \in Node : role'[m] = "CANDIDATE" =>
               \A p \in voters'[m] : Granted(p, m, currentTerm[m])
        BY <1>5 DEF Granted
      <3>2. rvCalls' \cup parkedVotes' \subseteq rvCalls \cup parkedVotes
        OBVIOUS
      <3> QED  BY <1>5, <3>1, <3>2 DEF Calm
    <2> QED  BY <1>0, <1>8, <2>1, CalmCandidates
  <1>11. ASSUME NEW x \in Int, x >= Len(log[n]), NEW p PROVE Behind(p, currentTerm[n], x, h)'
    <2>1. Past(t, x, h)
      BY <1>4, <1>5, <1>11 DEF Past
    <2> QED  BY <1>5, <2>1 DEF Behind, Past
  <1>12. \A p \in Peers(n) : PeerInv(n, p, h, B)'
    <2> SUFFICES ASSUME NEW p \in Peers(n) PROVE PeerInv(n, p, h, B)'
      OBVIOUS
    <2>1. p \in Node /\ nextIndex'[n][p] = Len(log[n]) + 1 /\ matchIndex'[n][p] = 0
      BY <1>5 DEF Peers
    <2>2. nextIndex'[n][p] - 1 \in Int /\ nextIndex'[n][p] - 1 >= Len(log[n])
      BY <1>4, <2>1
    <2>3. Behind(p, currentTerm[n], nextIndex[n][p] - 1, h)'
      BY <1>11, <2>2
    <2>4. nextIndex'[n][p] <= Len(log'[n]) + 1 /\ ~(matchIndex'[n][p] > 0)
      BY <1>4, <2>1
    <2> QED  BY <2>3, <2>4 DEF PeerInv
  <1>13. \A c \in aeCalls' :
            c \in aeCalls \/ (CallInv(c, h, B)' /\ Behind(c.to, c.term, c.prevLogIndex, h)')
    <2>0. Len(log[n]) \in Nat
      BY <1>4
    <2>1. PICK next \in [Node -> Nat \ {0}] : next = [p \in Node |-> Len(log[n]) + 1]
      <3>1. Len(log[n]) + 1 \in Nat \ {0}
        BY <2>0
      <3>2. [p \in Node |-> Len(log[n]) + 1] \in [Node -> Nat \ {0}]
        BY <3>1
      <3> QED  BY <3>2
    <2>2. \A c \in aeCalls' : c \in aeCalls \/ c \in AppendCalls(n, t, log[n], next)
      BY <2>1 DEF becomeLeaderInternal, Connect
    <2>3. \A p \in Peers(n) : next[p] <= Len(log'[n]) + 1 /\ Behind(p, currentTerm[n], next[p] - 1, h)'
      <3> SUFFICES ASSUME NEW p \in Peers(n)
                   PROVE  /\ next[p] <= Len(log'[n]) + 1
                          /\ Behind(p, currentTerm[n], next[p] - 1, h)'
        OBVIOUS
      <3>0. p \in Node /\ next[p] = Len(log[n]) + 1
        BY <2>1 DEF Peers
      <3>1. PICK x \in Int : x = next[p] - 1 /\ x = Len(log[n]) /\ next[p] = Len(log[n]) + 1
        BY <2>0, <3>0
      <3>2. Behind(p, currentTerm[n], x, h)'
        <4>1. x >= Len(log[n])
          BY <2>0, <3>1
        <4> QED  BY <1>11, <4>1
      <3> QED  BY <1>4, <3>1, <3>2
    <2>4. ASSUME NEW c \in AppendCalls(n, t, log[n], next)
          PROVE  CallInv(c, h, B)' /\ Behind(c.to, c.term, c.prevLogIndex, h)'
      <3>1. c \in AppendCalls(n, currentTerm'[n], log'[n], next) /\ Len(log[n]) <= Len(log'[n])
        BY <1>4, <1>5
      <3> QED  BY <1>0, <1>5, <1>8, <2>3, <3>1, NewCallInv
    <2> QED  BY <2>2, <2>4
  <1>14. SendInv(h, B)'
    <2>1. \A m \in Node : \A p \in Peers(m) : role'[m] = "LEADER" =>
             \/ PeerInv(m, p, h, B)'
             \/ /\ role[m] = "LEADER" /\ currentTerm'[m] = currentTerm[m]
                /\ nextIndex'[m][p] = nextIndex[m][p] /\ matchIndex'[m][p] = matchIndex[m][p]
      BY <1>5, <1>12
    <2>2. \A a \in parkedAppends' :
             \/ a \in parkedAppends
             \/ CallInv(a.call, h, B)' /\ Past(a.call.term, a.call.prevLogIndex, h)
      OBVIOUS
    <2>3. \A r \in aeReplies' : r \in aeReplies \/ ReplyInv(r, h, B)'
      OBVIOUS
    <2> QED  BY <1>0, <1>8, <1>13, <2>1, <2>2, <2>3, SendInvKept
  <1>15. DoneInv(h, B)'
    <2>1. CASE applied' = applied
      BY <1>0, <1>8, <2>1, DoneInvKept
    <2>2. CASE Peers(n) = {} /\ applyStateMachine(n, log[n], commitIndex[n], t, matchIndex[n])
      <3>1. PICK match \in [Node -> Nat] : match = matchIndex[n]
        BY <1>4
      <3>2. PICK ci \in Nat : ci = commitIndex[n]
        BY <1>4
      <3>3. applyStateMachine(n, log'[n], ci, currentTerm'[n], match) /\ ci <= commitIndex[n]
        BY <1>5, <2>2, <3>1, <3>2
      <3>4. \A x \in Committable(n, log'[n], ci, currentTerm'[n], match) : Done(n, x, h, B)'
        BY <1>0, <1>5, <1>8, <2>2, LeaderCommits
      <3>5. PICK term : term = currentTerm'[n]
        OBVIOUS
      <3>6. /\ applyStateMachine(n, log'[n], ci, term, match)
            /\ \A x \in Committable(n, log'[n], ci, term, match) : Done(n, x, h, B)'
        BY <3>3, <3>4, <3>5
      <3> QED  BY <1>0, <1>8, <3>3, <3>6, ApplyKept
    <2> QED  BY <2>1, <2>2
  <1> QED  BY <1>8, <1>9, <1>10, <1>14, <1>15, StepCommits

\* The vote that completes a majority.
LEMMA CountedCommits ==
    ASSUME NEW g, NEW A, Starts(g, A), NEW r \in rvReplies, voteReplyCounted(r), role' # role
    PROVE  CommitsInv'
  <1>0. /\ TypeOK /\ TypeOK' /\ g \in Logs /\ A \in Acks /\ CandidateInv(g, A) /\ ElectionInv
    BY DEF Starts, TypeInv, CommitInv
  <1>1. PICK n, v \in Node : n = r.from /\ v = r.to
    BY <1>0 DEF TypeOK, RequestVoteReply
  <1>2. PICK t \in Term : t = currentTerm[n] /\ t \in Int
    BY <1>0, LogTypes
  <1>3. /\ role[n] = "CANDIDATE" /\ r.term = t /\ r.voteGranted /\ r.respTerm <= t
        /\ becomeLeaderInternal(n, t) /\ Cardinality(voters[n] \cup {v}) >= Majority
        /\ rvReplies' \subseteq rvReplies
        /\ UNCHANGED <<currentTerm, log, applied, aeReplies, parkedAppends, parkedVotes, rvCalls>>
    BY <1>1, <1>2 DEF voteReplyCounted, OutdatedVote, logVars, gapVars
  <1>4. n \notin leaders[t]
    BY <1>0, <1>2, <1>3 DEF ElectionInv, RolesInv
  <1>5. currentTerm' = [currentTerm EXCEPT ![n] = t] /\ currentTerm[n] <= t
    BY <1>0, <1>2, <1>3 DEF TypeOK
  <1>6. Tame
    <2>1. role' = [role EXCEPT ![n] = "LEADER"] /\ role \in [Node -> Role]
      BY <1>0, <1>3 DEF becomeLeaderInternal, TypeOK
    <2>2. \A m \in Node : currentTerm[m] <= currentTerm'[m]
      BY <1>0, <1>3, LogTypes
    <2> QED  BY <1>3, <2>1, <2>2 DEF Tame
  <1>7. ASSUME leaders[t] = {}
        PROVE  \E Q \in SUBSET Node :
                   /\ Cardinality(Q) >= Majority
                   /\ \A p \in Q : t <= currentTerm'[p] /\ Carries(log[n], p, t, g, A)
    <2>1. r.respTerm = t
      <3>1. r.term <= r.respTerm /\ r.respTerm \in Term
        BY <1>0, <1>3 DEF ElectionInv, CallsInv, TypeOK, RequestVoteReply
      <3> QED  BY <1>2, <1>3, <3>1, BoundAssumption DEF Term
    <2>2. ASSUME NEW p \in voters[n] \cup {v} PROVE Granted(p, n, t)
      BY <1>1, <1>2, <1>3, <2>1 DEF Granted
    <2>3. voters[n] \cup {v} \in SUBSET Node
      BY <1>0 DEF TypeOK
    <2>4. ASSUME NEW p \in voters[n] \cup {v}
          PROVE  t <= currentTerm'[p] /\ Carries(log[n], p, t, g, A)
      <3>1. p \in Node /\ Granted(p, n, t) /\ currentTerm[p] \in Int
        BY <1>0, <2>2, <2>3, LogTypes
      <3>2. LockedTo(p, n, t)
        BY <1>0, <1>7, <3>1 DEF ElectionInv, VotesInv
      <3>3. t <= currentTerm'[p]
        BY <1>2, <1>3, <3>1, <3>2 DEF LockedTo
      <3>4. leaders[currentTerm[n]] = {} /\ Granted(p, n, currentTerm[n])
        BY <1>2, <1>7, <3>1
      <3>5. Carries(log[n], p, currentTerm[n], g, A)
        BY <1>0, <1>3, <3>1, <3>4 DEF CandidateInv
      <3> QED  BY <1>2, <3>3, <3>5
    <2> QED  BY <1>3, <2>3, <2>4
  <1>8. /\ becomeLeaderInternal(n, t) /\ log' = log /\ aeReplies' = aeReplies /\ applied' = applied
        /\ parkedAppends' = parkedAppends /\ parkedVotes' = parkedVotes /\ rvCalls' = rvCalls
        /\ rvReplies' \subseteq rvReplies
    BY <1>3
  <1> QED  BY <1>4, <1>5, <1>6, <1>7, <1>8, WinCommits

\* The election of a single node.
LEMMA AloneCommits ==
    ASSUME NEW g, NEW A, Starts(g, A), QuietStep, NEW n \in Node, startElectionAlone(n)
    PROVE  CommitsInv'
  <1>0. /\ TypeOK /\ TypeOK' /\ g \in Logs /\ A \in Acks /\ AckInv(g, A) /\ ElectionInv
    BY DEF Starts, TypeInv, CommitInv
  <1>1. currentTerm[n] \in Nat /\ currentTerm[n] + 1 \in Term
    BY <1>0, BoundAssumption DEF startElectionAlone, startElection, leadAlone, TypeOK, Term
  <1>2. PICK t \in Term : t = currentTerm[n] + 1
    BY <1>1
  <1>3. /\ ServerFree(n) /\ currentTerm' = [currentTerm EXCEPT ![n] = t]
        /\ becomeLeaderInternal(n, t) /\ Majority <= 1
        /\ applyStateMachine(n, log[n], commitIndex[n], t, matchIndex[n])
        /\ UNCHANGED <<log, aeReplies, parkedAppends, parkedVotes, rvCalls, rvReplies>>
    <2>1. Majority \in Int
      BY NodeAssumption, FS_CardinalityType DEF Majority
    <2>2. Majority <= 1
      BY <2>1 DEF startElectionAlone
    <2> QED  BY <1>2, <2>2
             DEF startElectionAlone, startElection, leadAlone, gapVars, rvVars, QuietStep
  <1>4. n \notin leaders[t] /\ currentTerm[n] <= t
    BY <1>0, <1>1, <1>2 DEF ElectionInv, RolesInv
  <1>5. Tame
    <2>1. /\ role' = [role EXCEPT ![n] = "LEADER"] /\ role \in [Node -> Role]
          /\ currentTerm \in [Node -> Term]
      BY <1>0, <1>3 DEF becomeLeaderInternal, TypeOK
    <2>2. \A m \in Node : currentTerm[m] <= currentTerm'[m]
      BY <1>0, <1>3, <1>4, <2>1, LogTypes
    <2> QED  BY <1>3, <2>1, <2>2 DEF Tame
  <1>6. Cardinality({n}) = 1 /\ IsFiniteSet({n})
    BY FS_Singleton
  <1>7. Peers(n) = {}
    <2> SUFFICES ASSUME NEW m \in Peers(n) PROVE FALSE
      OBVIOUS
    <2>1. m \notin {n} /\ {n} \cup {m} \subseteq Node
      BY DEF Peers
    <2>2. Cardinality({n} \cup {m}) = 2
      <3>1. Cardinality({n} \cup {m}) = IF m \in {n} THEN Cardinality({n}) ELSE Cardinality({n}) + 1
        BY <1>6, FS_AddElement
      <3> QED  BY <1>6, <2>1, <3>1
    <2>3. Cardinality({n} \cup {m}) <= Cardinality(Node) /\ Cardinality(Node) \in Nat
      BY <2>1, NodeAssumption, FS_Subset, FS_CardinalityType
    <2>4. PICK N \in Nat : N = Cardinality(Node) /\ N >= 2
      BY <2>2, <2>3
    <2>5. N \div 2 >= 1
      BY <2>4
    <2> QED  BY <1>3, <2>4, <2>5 DEF Majority
  <1>8. \E Q \in SUBSET Node :
           /\ Cardinality(Q) >= Majority
           /\ \A p \in Q : t <= currentTerm'[p] /\ Carries(log[n], p, t, g, A)
    <2>1. Carries(log[n], n, t, g, A)
      BY <1>0, <1>2 DEF AckInv
    <2>2. Majority \in Int
      BY NodeAssumption, FS_CardinalityType DEF Majority
    <2>3. Cardinality({n}) >= Majority
      BY <1>3, <1>6, <2>2
    <2>4. currentTerm'[n] = t /\ t <= t
      BY <1>0, <1>1, <1>2, <1>3 DEF TypeOK
    <2>5. {n} \in SUBSET Node /\ \A p \in {n} : t <= currentTerm'[p] /\ Carries(log[n], p, t, g, A)
      BY <2>1, <2>4
    <2> QED  BY <2>3, <2>5
  <1> QED  BY <1>3, <1>4, <1>5, <1>7, <1>8, WinCommits

\* A leader that sends AppendEntries, and applies what it can without peers.
LEMMA SendCommits ==
    ASSUME NEW g, NEW A, Starts(g, A), NEW h \in Logs, NEW B \in Acks, Advances(g, h, A, B), Calm,
           NEW n \in Node, role[n] = "LEADER", Len(log[n]) <= Len(log'[n]),
           UNCHANGED <<role, currentTerm, leaders, nextIndex, matchIndex, aeReplies, parkedAppends>>,
           \A c \in aeCalls' :
               c \in aeCalls \/ c \in AppendCalls(n, currentTerm[n], log'[n], nextIndex[n]),
           \/ applied' = applied
           \/ applyStateMachine(n, log'[n], commitIndex[n], currentTerm[n], matchIndex[n])
    PROVE  CommitsInv'
  <1>0. /\ TypeOK /\ TypeOK' /\ g \in Logs /\ A \in Acks /\ CandidateInv(g, A) /\ AppliedCaughtUp
        /\ VotersInv(g, A) /\ SendInv(g, A) /\ DoneInv(g, A)
    BY DEF Starts, TypeInv, CommitInv
  <1>1. CandidateInv(h, B)'
    BY <1>0, CalmCandidates
  <1>2. ASSUME NEW p \in Peers(n) PROVE PeerInv(n, p, h, B)'
    <2>1. /\ PeerInv(n, p, g, A) /\ role'[n] = "LEADER" /\ currentTerm'[n] = currentTerm[n]
          /\ nextIndex'[n][p] = nextIndex[n][p] /\ matchIndex'[n][p] = matchIndex[n][p]
      BY <1>0 DEF SendInv
    <2> QED  BY <1>0, <2>1, PeerInvKept
  <1>3. ASSUME NEW c \in AppendCalls(n, currentTerm[n], log'[n], nextIndex[n])
        PROVE  CallInv(c, h, B)' /\ Behind(c.to, c.term, c.prevLogIndex, h)'
    <2>1. PICK next \in [Node -> Nat \ {0}] : next = nextIndex[n] /\ next = nextIndex'[n]
      BY <1>0 DEF TypeOK
    <2>2. \A p \in Peers(n) : /\ next[p] <= Len(log'[n]) + 1
                              /\ Behind(p, currentTerm[n], nextIndex[n][p] - 1, h)'
      BY <1>2, <2>1 DEF PeerInv
    <2>3. \A p \in Peers(n) : Behind(p, currentTerm[n], next[p] - 1, h)'
      BY <2>1, <2>2
    <2>4. role'[n] = "LEADER" /\ c \in AppendCalls(n, currentTerm'[n], log'[n], next)
      BY <2>1
    <2> QED  BY <1>0, <2>2, <2>3, <2>4, NewCallInv
  <1>4. SendInv(h, B)'
    <2>1. \A m \in Node : \A p \in Peers(m) : role'[m] = "LEADER" =>
             \/ PeerInv(m, p, h, B)'
             \/ /\ role[m] = "LEADER" /\ currentTerm'[m] = currentTerm[m]
                /\ nextIndex'[m][p] = nextIndex[m][p] /\ matchIndex'[m][p] = matchIndex[m][p]
      OBVIOUS
    <2>2. /\ \A a \in parkedAppends' :
                \/ a \in parkedAppends
                \/ CallInv(a.call, h, B)' /\ Past(a.call.term, a.call.prevLogIndex, h)
          /\ \A r \in aeReplies' : r \in aeReplies \/ ReplyInv(r, h, B)'
      OBVIOUS
    <2>3. \A c \in aeCalls' :
             c \in aeCalls \/ (CallInv(c, h, B)' /\ Behind(c.to, c.term, c.prevLogIndex, h)')
      BY <1>3
    <2> QED  BY <1>0, <2>1, <2>2, <2>3, SendInvKept
  <1>5. DoneInv(h, B)'
    <2>1. CASE applied' = applied
      BY <1>0, <2>1, DoneInvKept
    <2>2. CASE applyStateMachine(n, log'[n], commitIndex[n], currentTerm[n], matchIndex[n])
      <3>1. PICK match \in [Node -> Nat] : match = matchIndex[n] /\ match = matchIndex'[n]
        BY <1>0 DEF TypeOK
      <3>2. PICK ci \in Nat : ci = commitIndex[n] /\ ci <= commitIndex[n]
        BY <1>0 DEF TypeOK
      <3>3. PICK term : term = currentTerm'[n] /\ term = currentTerm[n]
        OBVIOUS
      <3>4. role'[n] = "LEADER" /\ \A p \in Peers(n) : match[p] > 0 => match[p] \in B[p][currentTerm'[n]]
        BY <1>2, <3>1 DEF PeerInv
      <3>5. \A x \in Committable(n, log'[n], ci, currentTerm'[n], match) : Done(n, x, h, B)'
        BY <1>0, <3>4, LeaderCommits
      <3>6. /\ applyStateMachine(n, log'[n], ci, term, match)
            /\ \A x \in Committable(n, log'[n], ci, term, match) : Done(n, x, h, B)'
        BY <2>2, <3>1, <3>2, <3>3, <3>5
      <3> QED  BY <1>0, <3>2, <3>6, ApplyKept
    <2> QED  BY <2>1, <2>2
  <1> QED  BY <1>1, <1>4, <1>5, StepCommits

\* The heartbeat timer.
LEMMA HeartbeatCommits ==
    ASSUME NEW g, NEW A, Starts(g, A), NEW n \in Node, sendHeartbeatsInternal(n)
    PROVE  CommitsInv'
  <1>0. TypeOK /\ TypeOK' /\ g \in Logs /\ A \in Acks /\ LogInv(g)
    BY DEF Starts, TypeInv, CommitInv
  <1>1. Quiet(g) /\ Tame /\ Calm
    BY <1>0, QuietAppends, CalmActions
  <1>2. PICK B \in Acks : Advances(g, g, A, B)
    BY <1>1, QuietSteps
  <1>3. /\ role[n] = "LEADER" /\ log' = log
        /\ UNCHANGED <<role, currentTerm, leaders, nextIndex, matchIndex, aeReplies, parkedAppends>>
        /\ \E S \in Connect(AppendCalls(n, currentTerm[n], log[n], nextIndex[n])) :
              aeCalls' = aeCalls \cup S
        /\ \/ applied' = applied
           \/ applyStateMachine(n, log[n], commitIndex[n], currentTerm[n], matchIndex[n])
    BY DEF sendHeartbeatsInternal, termVars, leaderVars, voteVars, gapVars
  <1>4. /\ \A c \in aeCalls' :
              c \in aeCalls \/ c \in AppendCalls(n, currentTerm[n], log'[n], nextIndex[n])
        /\ Len(log[n]) <= Len(log'[n])
    <2>1. Len(log[n]) \in Int
      BY <1>0, LogTypes
    <2> QED  BY <1>3, <2>1 DEF Connect
  <1>5. \/ applied' = applied
        \/ applyStateMachine(n, log'[n], commitIndex[n], currentTerm[n], matchIndex[n])
    BY <1>3
  <1> QED  BY <1>0, <1>1, <1>2, <1>3, <1>4, <1>5, SendCommits

\* submitCommand(): the leader appends an entry of its own term.
LEMMA SubmitCommits ==
    ASSUME NEW g, NEW A, Starts(g, A), NEW n \in Node, NEW cmd \in Command, submitCommand(n, cmd)
    PROVE  CommitsInv'
  <1>0. /\ TypeOK /\ TypeOK' /\ g \in Logs /\ A \in Acks /\ LogInv(g) /\ GapInv
        /\ ElectionInv
    BY DEF Starts, TypeInv, CommitInv
  <1>1. PICK e : e = [term |-> currentTerm[n], command |-> cmd]
    OBVIOUS
  <1>2. PICK l : l = Append(log[n], e)
    OBVIOUS
  <1>3. /\ role[n] = "LEADER" /\ log' = [log EXCEPT ![n] = l]
        /\ UNCHANGED <<role, currentTerm, leaders, nextIndex, matchIndex, aeReplies, parkedAppends>>
        /\ \E S \in Connect(AppendCalls(n, currentTerm[n], l, nextIndex[n])) :
              aeCalls' = aeCalls \cup S
        /\ \/ applied' = applied
           \/ applyStateMachine(n, l, commitIndex[n], currentTerm[n], matchIndex[n])
    BY <1>1, <1>2 DEF submitCommand, termVars, leaderVars, voteVars, gapVars
  <1>4. PICK t \in Term : t = currentTerm[n] /\ t \in Int
    BY <1>0, LogTypes
  <1>5. /\ log[n] \in Seq(Entry) /\ e \in Entry /\ e.term = t /\ log \in [Node -> Seq(Entry)]
        /\ g \in [Term -> Seq(Entry)]
    BY <1>0, <1>1, <1>4 DEF TypeOK, Entry, Logs
  <1>6. /\ l \in Seq(Entry) /\ Len(l) = Len(log[n]) + 1 /\ l[Len(log[n]) + 1] = e
        /\ \A i \in 1..Len(log[n]) : l[i] = log[n][i]
    BY <1>2, <1>5
  <1>7. log'[n] = l /\ \A m \in Node : m # n => log'[m] = log[m]
    BY <1>3, <1>5
  <1>8. PICK h \in Logs : h = [g EXCEPT ![t] = l] /\ Grows(g, h) /\ LogInv(h)'
    BY <1>0, <1>4, <1>7, SubmitLog
  <1>9. h[t] = l /\ g[t] = log[n] /\ \A u \in Term : u # t => h[u] = g[u]
    BY <1>0, <1>3, <1>4, <1>5, <1>8 DEF LogInv
  <1>10. /\ \A m \in Node : currentTerm[m] \in Int
         /\ \A a \in parkedAppends : a.call.to \in Node /\ a.call.to # n
    BY <1>0, <1>3, LogTypes DEF GapInv
  <1>11. n \in leaders[t]
    BY <1>0, <1>3, <1>4 DEF ElectionInv, RolesInv
  <1>12. Merged(n, t, g, h)
    <2>1. leaders[t] # {} /\ t <= currentTerm'[n]
      BY <1>3, <1>4, <1>11
    <2>2. \A u \in Term : u <= currentTerm[n] /\ Clear(n, u) => u <= t
      BY <1>4
    <2>3. Extends(log'[n], h[t])
      BY <1>6, <1>7, <1>9, ExtendsSelf
    <2>4. ASSUME NEW k \in Nat, Share(log[n], g[t], k) PROVE Share(log'[n], h[t], k)
      <3>1. Extends(log[n], l) /\ Extends(g[t], h[t]) /\ g[t] \in Seq(Entry)
        BY <1>5, <1>6, <1>8, <1>9 DEF Extends
      <3> QED  BY <1>5, <1>6, <1>7, <1>9, <2>4, <3>1, ShareGrows
    <2> QED  BY <2>1, <2>2, <2>3, <2>4 DEF Merged
  <1>13. Evolves(g, h)
    <2>1. \A u \in Term : leaders[u] # {} =>
             \A i \in 1..Len(h[u]) : i > Len(g[u]) => h[u][i].term = u
      <3> SUFFICES ASSUME NEW u \in Term, NEW i \in 1..Len(h[u]), i > Len(g[u])
                   PROVE  h[u][i].term = u
        OBVIOUS
      <3>1. CASE u = t
        <4>1. i = Len(log[n]) + 1
          BY <1>5, <1>6, <1>9, <3>1
        <4> QED  BY <1>5, <1>6, <1>9, <3>1, <4>1
      <3>2. CASE u # t
        <4>1. h[u] = g[u] /\ Len(g[u]) \in Int
          BY <1>5, <1>9, <3>2
        <4>2. FALSE
          BY <4>1
        <4> QED  BY <4>2
      <3> QED  BY <3>1, <3>2
    <2>2. \A u \in Term : h[u] # g[u] \/ leaders'[u] # leaders[u] =>
             \E m \in Node : role'[m] = "LEADER" /\ currentTerm'[m] = u
      BY <1>3, <1>4, <1>9
    <2>3. \A p \in Node : currentTerm[p] <= currentTerm'[p]
      BY <1>3, <1>10
    <2>4. \A a \in parkedAppends' :
             /\ log'[a.call.to] = log[a.call.to]
             /\ a \in parkedAppends \/ a.call.term = currentTerm'[a.call.to]
      BY <1>3, <1>7, <1>10
    <2>5. \A p \in Node : log'[p] = log[p] \/ \E v \in Term : Merged(p, v, g, h)
      BY <1>7, <1>12
    <2> QED  BY <1>3, <1>8, <2>1, <2>2, <2>3, <2>4, <2>5 DEF Evolves
  <1>14. GapInv'
    <2>1. Tame
      BY <1>3, <1>10 DEF Tame
    <2> QED  BY <1>0, <2>1, TameGap
  <1>15. PICK B \in Acks : Advances(g, h, A, B)
    BY <1>8, <1>13, <1>14, StepAcks
  <1>16. Calm
    BY CalmActions
  <1>17. /\ \A c \in aeCalls' :
               c \in aeCalls \/ c \in AppendCalls(n, currentTerm[n], log'[n], nextIndex[n])
         /\ Len(log[n]) <= Len(log'[n])
    <2>1. Len(log[n]) \in Int
      BY <1>5
    <2> QED  BY <1>3, <1>6, <1>7, <2>1 DEF Connect
  <1>18. \/ applied' = applied
         \/ applyStateMachine(n, log'[n], commitIndex[n], currentTerm[n], matchIndex[n])
    BY <1>3, <1>7
  <1> QED  BY <1>3, <1>15, <1>16, <1>17, <1>18, SendCommits

\* A step that leaves the logs and the leaders alone.
LEMMA LogsStay ==
    ASSUME NEW g \in Logs, log' = log, leaders' = leaders,
           \A p \in Node : currentTerm[p] <= currentTerm'[p],
           \A a \in parkedAppends' :
               a \in parkedAppends \/ a.call.term = currentTerm'[a.call.to]
    PROVE  Evolves(g, g)
  <1>1. /\ \A t \in Term : leaders[t] # {} =>
              \A i \in 1..Len(g[t]) : i > Len(g[t]) => g[t][i].term = t
        /\ Grows(g, g)
    <2>1. \A t \in Term : Len(g[t]) \in Int
      BY DEF Logs
    <2> QED  BY <2>1, ExtendsSelf
  <1> QED  BY <1>1 DEF Evolves

\* An AppendEntries call that a leader receives comes from a later term.
LEMMA LeaderHears ==
    ASSUME TypeOK, ElectionInv, NEW c \in aeCalls, role[c.to] = "LEADER"
    PROVE  c.term # currentTerm[c.to]
  <1>1. c.to \in Node /\ currentTerm[c.to] \in Term
    BY LogTypes
  <1>2. c.to \in leaders[currentTerm[c.to]] /\ c.from \in leaders[c.term] /\ c.from # c.to
    BY <1>1 DEF ElectionInv, RolesInv, CallsInv
  <1> QED  BY <1>1, <1>2 DEF ElectionInv, ElectionSafety

\* onAppendEntries() of a stale call: the answer says that a later term began.
LEMMA RejectCommits ==
    ASSUME NEW g, NEW A, Starts(g, A), NEW c \in aeCalls, rejectAppendEntries(c)
    PROVE  CommitsInv'
  <1>0. /\ TypeOK /\ TypeOK' /\ g \in Logs /\ A \in Acks /\ LogInv(g) /\ ElectionInv
        /\ CandidateInv(g, A) /\ VotersInv(g, A) /\ SendInv(g, A) /\ DoneInv(g, A)
    BY DEF Starts, TypeInv, CommitInv
  <1>1. Quiet(g) /\ Tame /\ Calm
    BY <1>0, QuietAppends, CalmActions
  <1>2. PICK B \in Acks : Advances(g, g, A, B)
    BY <1>1, QuietSteps
  <1>3. PICK r : r = AppendReply(c, currentTerm[c.to], FALSE, 0)
    OBVIOUS
  <1>4. /\ aeCalls' \subseteq aeCalls /\ aeReplies' = aeReplies \cup {r} /\ RejectsAppend(c.to, c)
        /\ UNCHANGED <<role, currentTerm, applied, nextIndex, matchIndex, leaders, parkedAppends>>
    BY <1>3 DEF rejectAppendEntries, termVars, logVars, leaderVars, voteVars, gapVars
  <1>5. r.term = c.term /\ r.to = c.to /\ r.success = FALSE /\ r.conflictIndex = 0
    BY <1>3 DEF AppendReply
  <1>6. ReplyInv(r, g, B)'
    <2>1. c.term < currentTerm'[c.to]
      BY <1>0, <1>4, LeaderHears DEF RejectsAppend
    <2>2. c.term \in Term /\ c.to \in Node /\ c.term \in Int /\ currentTerm'[c.to] \in Int
      BY <1>0, <1>4, LogTypes
    <2>3. Behind(r.to, r.term, r.conflictIndex - 1, g)'
      BY <1>5, <2>1, <2>2 DEF Behind, Heard
    <2>4. leaders'[r.term] # {}
      BY <1>0, <1>4, <1>5 DEF SendInv, CallInv
    <2>5. r.conflictIndex <= Len(g[r.term]) + 1
      BY <1>5, <2>2 DEF Logs
    <2> QED  BY <1>5, <2>3, <2>4, <2>5 DEF ReplyInv, Confirms
  <1>7. CandidateInv(g, B)' /\ DoneInv(g, B)'
    BY <1>0, <1>1, <1>2, <1>4, CalmCandidates, DoneInvKept
  <1>8. SendInv(g, B)'
    <2>1. \A m \in Node : \A p \in Peers(m) : role'[m] = "LEADER" =>
             \/ PeerInv(m, p, g, B)'
             \/ /\ role[m] = "LEADER" /\ currentTerm'[m] = currentTerm[m]
                /\ nextIndex'[m][p] = nextIndex[m][p] /\ matchIndex'[m][p] = matchIndex[m][p]
      BY <1>4
    <2>2. /\ \A x \in aeCalls' :
                x \in aeCalls \/ (CallInv(x, g, B)' /\ Behind(x.to, x.term, x.prevLogIndex, g)')
          /\ \A a \in parkedAppends' :
                \/ a \in parkedAppends
                \/ CallInv(a.call, g, B)' /\ Past(a.call.term, a.call.prevLogIndex, g)
          /\ \A x \in aeReplies' : x \in aeReplies \/ ReplyInv(x, g, B)'
      BY <1>4, <1>6
    <2> QED  BY <1>0, <1>2, <2>1, <2>2, SendInvKept
  <1> QED  BY <1>0, <1>2, <1>4, <1>7, <1>8, StepCommits

\* onAppendEntries() of a leader, up to the gap: the call is the first of its
\* term that the node hears of, so it was prepared on entries of that term.
LEMMA ParkCommits ==
    ASSUME NEW g, NEW A, Starts(g, A), NEW c \in aeCalls, parkAppendEntries(c)
    PROVE  CommitsInv'
  <1>0. /\ TypeOK /\ TypeOK' /\ g \in Logs /\ A \in Acks /\ LogInv(g) /\ ElectionInv /\ GapInv
        /\ CandidateInv(g, A) /\ VotersInv(g, A) /\ SendInv(g, A) /\ DoneInv(g, A)
    BY DEF Starts, TypeInv, CommitInv
  <1>1. GapInv' /\ LogInv(g)'
    BY <1>0, ParkLog
  <1>2. PICK n \in Node : /\ n = c.to /\ c.term \in Term /\ c.term \in Int /\ currentTerm[n] \in Int
                          /\ c \in AppendEntries
    BY <1>0, LogTypes
  <1>3. PICK new : new = [call |-> c, respTerm |-> currentTerm[n]]
    OBVIOUS
  <1>4. /\ ~RejectsAppend(n, c) /\ role[n] = "LEADER" /\ becomeFollower(n, c.term)
        /\ aeCalls' \subseteq aeCalls /\ parkedAppends' = parkedAppends \cup {new} /\ new.call = c
        /\ UNCHANGED <<log, applied, nextIndex, matchIndex, leaders, aeReplies>>
    BY <1>2, <1>3 DEF parkAppendEntries, logVars, leaderVars
  <1>5. currentTerm[n] < c.term
    <2>1. c.term # currentTerm[n]
      BY <1>0, <1>2, <1>4, LeaderHears
    <2> QED  BY <1>2, <1>4, <2>1 DEF RejectsAppend
  <1>6. /\ \A m \in Node : /\ currentTerm[m] <= currentTerm'[m]
                           /\ role'[m] = "LEADER" => /\ role[m] = "LEADER"
                                                     /\ currentTerm'[m] = currentTerm[m]
        /\ currentTerm'[n] = c.term
    <2>1. currentTerm[n] <= c.term
      BY <1>2, <1>5
    <2> QED  BY <1>0, <1>2, <1>4, <2>1, FollowerRoles DEF becomeFollower, TypeOK
  <1>7. Evolves(g, g)
    <2>1. \A a \in parkedAppends' :
             a \in parkedAppends \/ a.call.term = currentTerm'[a.call.to]
      BY <1>2, <1>4, <1>6
    <2> QED  BY <1>0, <1>4, <1>6, <2>1, LogsStay
  <1>8. PICK B \in Acks : Advances(g, g, A, B)
    BY <1>0, <1>1, <1>7, StepAcks
  <1>9. CandidateInv(g, B)' /\ DoneInv(g, B)'
    BY <1>0, <1>4, <1>8, CalmActions, CalmCandidates, DoneInvKept
  <1>10. CallInv(c, g, B)' /\ Past(c.term, c.prevLogIndex, g)
    <2>1. CallInv(c, g, A) /\ Behind(n, c.term, c.prevLogIndex, g)
      BY <1>0, <1>2 DEF SendInv
    <2>2. Past(c.term, c.prevLogIndex, g)
      BY <1>2, <1>5, <2>1 DEF Behind, Heard
    <2> QED  BY <1>0, <1>2, <1>8, <2>1, <2>2, CallInvKept
  <1>11. SendInv(g, B)'
    <2>1. \A m \in Node : \A p \in Peers(m) : role'[m] = "LEADER" =>
             \/ PeerInv(m, p, g, B)'
             \/ /\ role[m] = "LEADER" /\ currentTerm'[m] = currentTerm[m]
                /\ nextIndex'[m][p] = nextIndex[m][p] /\ matchIndex'[m][p] = matchIndex[m][p]
      BY <1>4, <1>6
    <2>2. \A a \in parkedAppends' :
             \/ a \in parkedAppends
             \/ CallInv(a.call, g, B)' /\ Past(a.call.term, a.call.prevLogIndex, g)
      <3> SUFFICES ASSUME NEW a \in parkedAppends', a \notin parkedAppends
                   PROVE  CallInv(a.call, g, B)' /\ Past(a.call.term, a.call.prevLogIndex, g)
        OBVIOUS
      <3>1. a.call = c
        BY <1>4
      <3> QED  BY <1>10, <3>1
    <2>3. /\ \A x \in aeCalls' :
                x \in aeCalls \/ (CallInv(x, g, B)' /\ Behind(x.to, x.term, x.prevLogIndex, g)')
          /\ \A x \in aeReplies' : x \in aeReplies \/ ReplyInv(x, g, B)'
      BY <1>4
    <2> QED  BY <1>0, <1>8, <2>1, <2>2, <2>3, SendInvKept
  <1> QED  BY <1>0, <1>4, <1>8, <1>9, <1>11, StepCommits

\* The log part of onAppendEntries().
LEMMA HandleCommits ==
    ASSUME Cardinality(Node) <= 3, NEW g, NEW A, Starts(g, A), GapInv', LogInv(g)', Calm,
           NEW n \in Node, NEW c, NEW term, NEW entryTerm, Handles(n, c, term, entryTerm, g, A),
           aeCalls' \subseteq aeCalls, nextIndex' = nextIndex, matchIndex' = matchIndex,
           \A m \in Node :
               role'[m] = "LEADER" => role[m] = "LEADER" /\ currentTerm'[m] = currentTerm[m]
    PROVE  CommitsInv'
  <1>0. /\ TypeOK /\ TypeOK' /\ g \in Logs /\ A \in Acks /\ LogInv(g) /\ TermInv(g)
        /\ AppliedCaughtUp /\ CandidateInv(g, A) /\ VotersInv(g, A) /\ SendInv(g, A) /\ DoneInv(g, A)
    BY DEF Starts, TypeInv, CommitInv
  <1>1. Evolves(g, g)
    BY <1>0, ReplicateMerges
  <1>2. PICK B \in Acks : Advances(g, g, A, B)
    BY <1>0, <1>1, StepAcks
  <1>3. CandidateInv(g, B)'
    BY <1>0, <1>2, CalmCandidates
  <1>4. DoneInv(g, B)'
    BY <1>0, <1>2, ReplicateApplies
  <1>5. \A r \in aeReplies' : r \in aeReplies \/ ReplyInv(r, g, B)'
    BY <1>0, <1>2, ReplicateAnswers
  <1>6. leaders' = leaders /\ parkedAppends' \subseteq parkedAppends
    BY DEF Handles
  <1>7. SendInv(g, B)'
    <2>1. \A m \in Node : \A p \in Peers(m) : role'[m] = "LEADER" =>
             \/ PeerInv(m, p, g, B)'
             \/ /\ role[m] = "LEADER" /\ currentTerm'[m] = currentTerm[m]
                /\ nextIndex'[m][p] = nextIndex[m][p] /\ matchIndex'[m][p] = matchIndex[m][p]
      OBVIOUS
    <2>2. /\ \A x \in aeCalls' :
                x \in aeCalls \/ (CallInv(x, g, B)' /\ Behind(x.to, x.term, x.prevLogIndex, g)')
          /\ \A a \in parkedAppends' :
                \/ a \in parkedAppends
                \/ CallInv(a.call, g, B)' /\ Past(a.call.term, a.call.prevLogIndex, g)
      BY <1>6
    <2> QED  BY <1>0, <1>2, <1>5, <2>1, <2>2, SendInvKept
  <1> QED  BY <1>0, <1>2, <1>3, <1>4, <1>6, <1>7, StepCommits

\* onAppendEntries() of a follower or a candidate.
LEMMA OnAppendCommits ==
    ASSUME Cardinality(Node) <= 3, NEW g, NEW A, Starts(g, A), NEW c \in aeCalls, onAppendEntries(c)
    PROVE  CommitsInv'
  <1>0. /\ TypeOK /\ TypeOK' /\ g \in Logs /\ A \in Acks /\ LogInv(g) /\ TermInv(g) /\ GapInv
        /\ SendInv(g, A)
    BY DEF Starts, TypeInv, CommitInv
  <1>1. GapInv' /\ LogInv(g)' /\ Calm
    BY <1>0, OnAppendLog, CalmActions
  <1>2. PICK n \in Node : /\ n = c.to /\ c.term \in Term /\ c.term \in Int /\ currentTerm[n] \in Int
                          /\ c \in AppendEntries
    BY <1>0, LogTypes
  <1>3. PICK entryTerm : entryTerm = currentTerm[n]
    OBVIOUS
  <1>4. /\ ServerFree(n) /\ ~RejectsAppend(n, c) /\ role[n] # "LEADER"
        /\ IF c.term > currentTerm[n] \/ role[n] = "CANDIDATE"
           THEN becomeFollower(n, c.term) ELSE UNCHANGED <<termVars, voters>>
        /\ ReplicateEntries(n, c, c.term, entryTerm) /\ aeCalls' \subseteq aeCalls
        /\ UNCHANGED <<nextIndex, matchIndex, leaders, parkedAppends>>
    BY <1>2, <1>3 DEF onAppendEntries, leaderVars, gapVars
  <1>5. currentTerm[n] <= c.term
    BY <1>2, <1>4 DEF RejectsAppend
  <1>6. /\ \A m \in Node : /\ currentTerm[m] <= currentTerm'[m]
                           /\ role'[m] = "LEADER" => /\ role[m] = "LEADER"
                                                     /\ currentTerm'[m] = currentTerm[m]
        /\ currentTerm'[n] = c.term
    <2>1. CASE c.term > currentTerm[n] \/ role[n] = "CANDIDATE"
      <3>1. becomeFollower(n, c.term)
        BY <1>4, <2>1
      <3> QED  BY <1>0, <1>2, <1>5, <3>1, FollowerRoles DEF becomeFollower, TypeOK
    <2>2. CASE ~(c.term > currentTerm[n] \/ role[n] = "CANDIDATE")
      <3>1. currentTerm' = currentTerm /\ role' = role /\ currentTerm[n] = c.term
        BY <1>2, <1>4, <1>5, <2>2 DEF termVars
      <3>2. \A m \in Node : currentTerm[m] \in Int
        BY <1>0, LogTypes
      <3> QED  BY <3>1, <3>2
    <2> QED  BY <2>1, <2>2
  <1>7. CallInv(c, g, A) /\ Behind(n, c.term, c.prevLogIndex, g)
    BY <1>0, <1>2 DEF SendInv
  <1>8. \/ Past(c.term, c.prevLogIndex, g)
        \/ Extends(log[n], g[c.term])
        \/ \A j \in 1..Len(log[n]) : Share(log[n], g[c.term], j) => j <= c.prevLogIndex
    BY <1>2, <1>5, <1>7 DEF Behind, Heard
  <1>9. \A i \in 1..Len(log[n]) : log[n][i].term <= c.term
    <2> SUFFICES ASSUME NEW i \in 1..Len(log[n]) PROVE log[n][i].term <= c.term
      OBVIOUS
    <2>1. log[n] \in Seq(Entry)
      BY <1>0, LogTypes
    <2>2. log[n][i].term \in Int /\ log[n][i].term <= currentTerm[n]
      BY <1>0, <2>1, EntryTerm, BoundAssumption DEF TermInv, Term
    <2> QED  BY <1>2, <1>5, <2>2
  <1>10. /\ \A a \in parkedAppends' : a.call.to # n
         /\ \A t \in Term : t <= currentTerm[n] /\ Clear(n, t) => t <= c.term
         /\ c.term <= currentTerm'[n]
    <2>1. \A t \in Term : t \in Int
      BY BoundAssumption DEF Term
    <2> QED  BY <1>2, <1>4, <1>5, <1>6, <2>1 DEF ServerFree
  <1>11. Handles(n, c, c.term, entryTerm, g, A)
    BY <1>2, <1>4, <1>6, <1>7, <1>8, <1>9, <1>10 DEF Handles
  <1> QED  BY <1>1, <1>4, <1>6, <1>11, HandleCommits

\* onAppendEntries() after the gap.
LEMMA ResumeAppendCommits ==
    ASSUME Cardinality(Node) <= 3, NEW g, NEW A, Starts(g, A), NEW a \in parkedAppends,
           resumeAppendEntries(a)
    PROVE  CommitsInv'
  <1>0. /\ TypeOK /\ TypeOK' /\ g \in Logs /\ A \in Acks /\ LogInv(g) /\ TermInv(g) /\ GapInv
        /\ SendInv(g, A)
    BY DEF Starts, TypeInv, CommitInv
  <1>1. GapInv' /\ LogInv(g)' /\ Calm
    BY <1>0, ResumeAppendLog, CalmActions
  <1>2. PICK n \in Node, c \in AppendEntries, entryTerm \in Term :
           n = c.to /\ c = a.call /\ entryTerm = a.respTerm
    BY <1>0, LogTypes
  <1>3. PICK term : term = currentTerm[n] /\ term = currentTerm'[n]
    BY DEF resumeAppendEntries, termVars
  <1>4. /\ ReplicateEntries(n, c, term, entryTerm) /\ parkedAppends' = parkedAppends \ {a}
        /\ UNCHANGED <<role, currentTerm, nextIndex, matchIndex, leaders, aeCalls>>
    BY <1>2, <1>3 DEF resumeAppendEntries, termVars, leaderVars, voteVars
  <1>5. \A m \in Node : currentTerm[m] \in Int
    BY <1>0, LogTypes
  <1>6. CallInv(c, g, A) /\ Past(c.term, c.prevLogIndex, g)
    BY <1>0, <1>2 DEF SendInv
  <1>7. \A i \in 1..Len(log[n]) : log[n][i].term <= c.term
    BY <1>0, <1>2 DEF TermInv
  <1>8. /\ \A b \in parkedAppends' : b.call.to # n
        /\ \A t \in Term : t <= currentTerm[n] /\ Clear(n, t) => t <= c.term
        /\ c.term <= currentTerm'[n] /\ \A m \in Node : currentTerm[m] <= currentTerm'[m]
    BY <1>0, <1>2, <1>4, <1>5 DEF GapInv, Clear
  <1>9. Handles(n, c, term, entryTerm, g, A)
    BY <1>2, <1>3, <1>4, <1>6, <1>7, <1>8 DEF Handles
  <1> QED  BY <1>1, <1>4, <1>9, HandleCommits

\* The pool task on a confirmed batch: the follower has it in the leader's term.
LEMMA SuccessCommits ==
    ASSUME NEW g, NEW A, Starts(g, A), NEW r \in aeReplies, appendReplySuccess(r)
    PROVE  CommitsInv'
  <1>0. /\ TypeOK /\ TypeOK' /\ g \in Logs /\ A \in Acks /\ LogInv(g) /\ GapInv /\ AppliedCaughtUp
        /\ CandidateInv(g, A) /\ VotersInv(g, A) /\ SendInv(g, A) /\ DoneInv(g, A)
    BY DEF Starts, TypeInv, CommitInv
  <1>1. PICK n, p \in Node : n = r.from /\ p = r.to
    BY <1>0, LogTypes
  <1>2. PICK x \in Nat : x = r.nextIdx + r.entriesCount - 1 /\ r.nextIdx + r.entriesCount = x + 1
    <2>1. r.nextIdx \in Nat /\ r.entriesCount \in Nat /\ r.nextIdx # 0
      BY <1>0 DEF TypeOK, AppendEntriesReply
    <2> QED  BY <2>1
  <1>3. PICK t \in Term : t = currentTerm[n] /\ t \in Int
    BY <1>0, LogTypes
  <1>4. PICK match : match = [matchIndex[n] EXCEPT ![p] = x]
    OBVIOUS
  <1>5. /\ r.respTerm <= t /\ role[n] = "LEADER" /\ r.term = t /\ Confirms(r)
        /\ matchIndex' = [matchIndex EXCEPT ![n] = match]
        /\ nextIndex' = [nextIndex EXCEPT ![n][p] = x + 1]
        /\ applyStateMachine(n, log[n], commitIndex[n], t, match)
        /\ aeReplies' \subseteq aeReplies
        /\ UNCHANGED <<role, currentTerm, log, leaders, aeCalls, parkedAppends>>
    BY <1>1, <1>2, <1>3, <1>4
       DEF appendReplySuccess, OutdatedAppend, Confirms, termVars, voteVars, gapVars
  <1>6. /\ log[n] = g[t] /\ log[n] \in Seq(Entry) /\ commitIndex[n] \in Nat
        /\ \A m \in Node : currentTerm[m] \in Int
    BY <1>0, <1>3, <1>5, LogTypes DEF LogInv, TypeOK
  <1>7. x <= Len(g[t]) /\ Heard(p, t, g) /\ x \in A[p][t]
    <2>1. /\ x <= Len(g[t]) /\ Heard(p, t, g) /\ t <= r.respTerm
          /\ r.respTerm = t => x \in A[p][t]
      BY <1>0, <1>1, <1>2, <1>5 DEF SendInv, ReplyInv
    <2>2. r.respTerm = t
      BY <1>0, <1>3, <1>5, <2>1, LogTypes
    <2> QED  BY <2>1, <2>2
  <1>8. GapInv' /\ LogInv(g)' /\ Evolves(g, g)
    <2>1. /\ UNCHANGED <<role, log, leaders, parkedAppends>>
          /\ \A m \in Node : currentTerm[m] <= currentTerm'[m]
      <3>1. currentTerm' = currentTerm /\ UNCHANGED <<role, log, leaders, parkedAppends>>
        BY <1>5
      <3> QED  BY <1>6, <3>1
    <2>2. Tame
      BY <2>1 DEF Tame
    <2>3. GapInv' /\ LogInv(g)'
      BY <1>0, <2>2, TameGap, SuccessLog
    <2> QED  BY <1>0, <2>1, <2>3, LogsStay
  <1>9. PICK B \in Acks : Advances(g, g, A, B)
    BY <1>0, <1>8, StepAcks
  <1>10. /\ matchIndex'[n] = match /\ match \in [Node -> Nat] /\ match[p] = x
         /\ nextIndex'[n][p] = x + 1
         /\ \A m, q \in Node : m # n \/ q # p =>
               nextIndex'[m][q] = nextIndex[m][q] /\ matchIndex'[m][q] = matchIndex[m][q]
    <2>1. matchIndex \in [Node -> [Node -> Nat]] /\ nextIndex \in [Node -> [Node -> Nat \ {0}]]
      BY <1>0 DEF TypeOK
    <2> QED  BY <1>4, <1>5, <2>1
  <1>11. ASSUME NEW m \in Node, NEW q \in Peers(m), role'[m] = "LEADER" PROVE PeerInv(m, q, g, B)'
    <2>1. CASE m = n /\ q = p
      <3>1. Heard(p, t, g)'
        BY <1>0, <1>7, <1>8, HeardKept
      <3>2. Behind(p, currentTerm[n], nextIndex[n][p] - 1, g)'
        BY <1>3, <1>5, <3>1 DEF Behind, Heard
      <3>3. x \in B[p][t]
        BY <1>7, <1>9 DEF Advances, Acked
      <3>4. nextIndex'[n][p] <= Len(log'[n]) + 1
        <4>1. log' = log
          BY <1>5
        <4>2. log'[n] = g[t]
          BY <1>6, <4>1
        <4>3. Len(g[t]) \in Nat
          BY <1>0 DEF Logs
        <4> QED  BY <1>7, <1>10, <4>2, <4>3
      <3>5. matchIndex'[n][p] > 0 => matchIndex'[n][p] \in B[p][currentTerm'[n]]
        BY <1>3, <1>5, <1>10, <3>3
      <3> QED  BY <2>1, <3>2, <3>4, <3>5 DEF PeerInv
    <2>2. CASE ~(m = n /\ q = p)
      <3>1. /\ role[m] = "LEADER" /\ currentTerm'[m] = currentTerm[m] /\ PeerInv(m, q, g, A)
            /\ nextIndex'[m][q] = nextIndex[m][q] /\ matchIndex'[m][q] = matchIndex[m][q]
        BY <1>0, <1>5, <1>10, <1>11, <2>2 DEF SendInv, Peers
      <3> QED  BY <1>0, <1>9, <1>11, <3>1, PeerInvKept
    <2> QED  BY <2>1, <2>2
  <1>12. CandidateInv(g, B)'
    BY <1>0, <1>9, CalmActions, CalmCandidates
  <1>13. SendInv(g, B)'
    <2>1. /\ \A c \in aeCalls' :
                c \in aeCalls \/ (CallInv(c, g, B)' /\ Behind(c.to, c.term, c.prevLogIndex, g)')
          /\ \A a \in parkedAppends' :
                \/ a \in parkedAppends
                \/ CallInv(a.call, g, B)' /\ Past(a.call.term, a.call.prevLogIndex, g)
          /\ \A y \in aeReplies' : y \in aeReplies \/ ReplyInv(y, g, B)'
      BY <1>5
    <2> QED  BY <1>0, <1>9, <1>11, <2>1, SendInvKept
  <1>14. DoneInv(g, B)'
    <2>1. PICK ci \in Nat : ci = commitIndex[n] /\ ci <= commitIndex[n]
      BY <1>6
    <2>2. role'[n] = "LEADER" /\ \A q \in Peers(n) : match[q] > 0 => match[q] \in B[q][currentTerm'[n]]
      BY <1>5, <1>10, <1>11 DEF PeerInv
    <2>3. \A k \in Committable(n, log'[n], ci, currentTerm'[n], match) : Done(n, k, g, B)'
      BY <1>0, <1>9, <1>10, <2>2, LeaderCommits
    <2>4. /\ applyStateMachine(n, log'[n], ci, t, match)
          /\ \A k \in Committable(n, log'[n], ci, t, match) : Done(n, k, g, B)'
      BY <1>3, <1>5, <2>1, <2>3
    <2> QED  BY <1>0, <1>9, <2>1, <2>4, ApplyKept
  <1> QED  BY <1>0, <1>5, <1>9, <1>12, <1>13, <1>14, StepCommits

\* The pool task on a refused batch: nextIndex does not fall below what the
\* follower shares with the leader.
LEMMA FailureCommits ==
    ASSUME NEW g, NEW A, Starts(g, A), NEW r \in aeReplies, appendReplyFailure(r)
    PROVE  CommitsInv'
  <1>0. /\ TypeOK /\ TypeOK' /\ g \in Logs /\ A \in Acks /\ LogInv(g) /\ TypeInv'
        /\ CandidateInv(g, A) /\ VotersInv(g, A) /\ SendInv(g, A) /\ DoneInv(g, A)
    BY DEF Starts, TypeInv, CommitInv
  <1>1. PICK n, p \in Node : n = r.from /\ p = r.to
    BY <1>0, LogTypes
  <1>2. PICK t \in Term : t = currentTerm[n] /\ t \in Int
    BY <1>0, LogTypes
  <1>3. PICK x \in Nat \ {0} : x = nextIndex[n][p]
    <2>1. nextIndex \in [Node -> [Node -> Nat \ {0}]]
      BY <1>0 DEF TypeOK
    <2>2. nextIndex[n][p] \in Nat \ {0}
      BY <2>1
    <2> QED  BY <2>2
  <1>4. PICK k \in Nat : k = r.conflictIndex
    BY <1>0 DEF TypeOK, AppendEntriesReply
  <1>5. PICK y : y = Backtrack(x, k)
    OBVIOUS
  <1>6. /\ role[n] = "LEADER" /\ r.term = t /\ ~r.success
        /\ nextIndex' = [nextIndex EXCEPT ![n][p] = Backtrack(@, k)]
        /\ aeReplies' \subseteq aeReplies
        /\ UNCHANGED <<role, currentTerm, log, applied, matchIndex, leaders, aeCalls, parkedAppends>>
    BY <1>1, <1>2, <1>4
       DEF appendReplyFailure, OutdatedAppend, termVars, logVars, voteVars, gapVars
  <1>7. /\ log[n] = g[t] /\ log[n] \in Seq(Entry) /\ log[p] \in Seq(Entry)
        /\ nextIndex \in [Node -> [Node -> Nat \ {0}]]
    BY <1>0, <1>1, <1>2, <1>6, LogTypes DEF LogInv, TypeOK
  <1>8. /\ nextIndex'[n][p] = y
        /\ \A m, q \in Node : m # n \/ q # p => nextIndex'[m][q] = nextIndex[m][q]
    BY <1>3, <1>5, <1>6, <1>7
  <1>9. Quiet(g) /\ Tame
    BY <1>0, QuietAppends
  <1>10. PICK B \in Acks : Advances(g, g, A, B)
    BY <1>9, QuietSteps
  <1>11. ASSUME p \in Peers(n) PROVE PeerInv(n, p, g, A) /\ y <= Len(log[n]) + 1 /\ Behind(p, t, y - 1, g)
    <2>1. PeerInv(n, p, g, A) /\ x <= Len(log[n]) + 1 /\ Behind(p, t, x - 1, g)
      BY <1>0, <1>2, <1>3, <1>6, <1>11 DEF SendInv, PeerInv
    <2>2. k <= Len(log[n]) + 1 /\ Behind(p, t, k - 1, g)
      BY <1>0, <1>1, <1>4, <1>6, <1>7 DEF SendInv, ReplyInv
    <2>3. CASE x <= 1
      BY <1>5, <2>1, <2>3 DEF Backtrack
    <2>4. CASE x > 1 /\ k > 0
      <3>1. y = k
        BY <1>3, <1>5, <2>4 DEF Backtrack
      <3> QED  BY <2>1, <2>2, <3>1
    <2>5. CASE x > 1 /\ k = 0
      <3>1. y = x - 1 /\ y - 1 \in Int /\ k - 1 \in Int /\ k - 1 <= y - 1
        BY <1>3, <1>5, <2>5 DEF Backtrack
      <3>2. Behind(p, t, y - 1, g)
        BY <1>0, <1>7, <2>2, <3>1, BehindLater
      <3>3. y <= Len(log[n]) + 1
        BY <1>3, <1>7, <2>1, <3>1
      <3> QED  BY <2>1, <3>2, <3>3
    <2> QED  BY <1>3, <1>4, <2>3, <2>4, <2>5
  <1>12. ASSUME p \in Peers(n) PROVE PeerInv(n, p, g, B)'
    <2>1. leaders[t] # {} /\ LogInv(g) /\ Evolves(g, g) /\ y - 1 \in Int
      <3>1. leaders[t] # {} /\ Evolves(g, g)
        BY <1>0, <1>6, <1>10 DEF SendInv, ReplyInv, Advances
      <3>2. y \in Nat
        BY <1>3, <1>4, <1>5 DEF Backtrack
      <3> QED  BY <1>0, <3>1, <3>2
    <2>2. Behind(p, t, y - 1, g)'
      BY <1>0, <1>11, <1>12, <2>1, BehindKept
    <2>3. Behind(p, currentTerm[n], nextIndex[n][p] - 1, g)'
      BY <1>2, <1>6, <1>8, <2>2
    <2>4. \A z \in A[p][t] : z \in B[p][t]
      BY <1>0, <1>10 DEF Advances, Acked, Acks
    <2>5. matchIndex'[n][p] > 0 => matchIndex'[n][p] \in B[p][currentTerm'[n]]
      BY <1>2, <1>6, <1>11, <1>12, <2>4 DEF PeerInv
    <2>6. nextIndex'[n][p] <= Len(log'[n]) + 1
      BY <1>6, <1>8, <1>11, <1>12
    <2> QED  BY <2>3, <2>5, <2>6 DEF PeerInv
  <1>13. CandidateInv(g, B)' /\ DoneInv(g, B)'
    BY <1>0, <1>6, <1>10, CalmActions, CalmCandidates, DoneInvKept
  <1>14. SendInv(g, B)'
    <2>1. \A m \in Node : \A q \in Peers(m) : role'[m] = "LEADER" =>
             \/ PeerInv(m, q, g, B)'
             \/ /\ role[m] = "LEADER" /\ currentTerm'[m] = currentTerm[m]
                /\ nextIndex'[m][q] = nextIndex[m][q] /\ matchIndex'[m][q] = matchIndex[m][q]
      <3> SUFFICES ASSUME NEW m \in Node, NEW q \in Peers(m), role'[m] = "LEADER"
                   PROVE  \/ PeerInv(m, q, g, B)'
                          \/ /\ role[m] = "LEADER" /\ currentTerm'[m] = currentTerm[m]
                             /\ nextIndex'[m][q] = nextIndex[m][q]
                             /\ matchIndex'[m][q] = matchIndex[m][q]
        OBVIOUS
      <3>1. CASE m = n /\ q = p
        BY <1>12, <3>1
      <3>2. CASE ~(m = n /\ q = p)
        BY <1>6, <1>8, <3>2 DEF Peers
      <3> QED  BY <3>1, <3>2
    <2>2. /\ \A c \in aeCalls' :
                c \in aeCalls \/ (CallInv(c, g, B)' /\ Behind(c.to, c.term, c.prevLogIndex, g)')
          /\ \A a \in parkedAppends' :
                \/ a \in parkedAppends
                \/ CallInv(a.call, g, B)' /\ Past(a.call.term, a.call.prevLogIndex, g)
          /\ \A z \in aeReplies' : z \in aeReplies \/ ReplyInv(z, g, B)'
      BY <1>6
    <2> QED  BY <1>0, <1>10, <2>1, <2>2, SendInvKept
  <1> QED  BY <1>0, <1>6, <1>10, <1>13, <1>14, StepCommits

\* Every step keeps the invariant.
LEMMA CommitsInvStep ==
    ASSUME Cardinality(Node) <= 3, QuietStep, TypeInv, TypeInv', ElectionInv, ElectionInv',
           GapInv, CommitsInv, Next
    PROVE  CommitsInv'
  <1>1. PICK g, A : Starts(g, A)
    BY DEF CommitsInv, Starts
  <1>2. TypeOK /\ TypeOK' /\ g \in Logs /\ LogInv(g)
    BY <1>1 DEF Starts, TypeInv, CommitInv
  <1>3. ASSUME Quiet(g), Tame, Calm, Still PROVE CommitsInv'
    BY <1>1, <1>3, CalmCommits
  <1>4. CASE \E n \in Node : NodeStep(n)
    <2>1. PICK n \in Node : NodeStep(n)
      BY <1>4
    <2>2. CASE startElectionAmong(n)
      BY <1>1, <2>2, StandCommits
    <2>3. CASE startElectionAlone(n)
      BY <1>1, <2>3, AloneCommits
    <2>4. CASE sendHeartbeatsInternal(n)
      BY <1>1, <2>4, HeartbeatCommits
    <2>5. ASSUME NEW cmd \in Command, submitCommand(n, cmd) PROVE CommitsInv'
      BY <1>1, <2>5, SubmitCommits
    <2> QED  BY <2>1, <2>2, <2>3, <2>4, <2>5 DEF NodeStep, startElectionAmong, startElectionAlone
  <1>5. CASE VoteStep
    <2>1. ASSUME NEW c \in rvCalls, onRequestVote(c) PROVE CommitsInv'
      BY <1>1, <2>1, OnVoteCommits
    <2>2. ASSUME NEW c \in parkedVotes, resumeRequestVote(c) PROVE CommitsInv'
      BY <1>1, <2>2, ResumeVoteCommits
    <2>3. ASSUME NEW r \in rvReplies, voteReplyCounted(r) PROVE CommitsInv'
      <3>1. CASE role' = role
        BY <1>1, <1>2, <1>3, <2>3, <3>1, QuietVotes, CalmActions
      <3>2. CASE role' # role
        BY <1>1, <2>3, <3>2, CountedCommits
      <3> QED  BY <3>1, <3>2
    <2>4. /\ \A c \in rvCalls : rejectRequestVote(c) => Quiet(g) /\ Tame /\ Calm /\ Still
          /\ \A c \in rvCalls : parkRequestVote(c) => Quiet(g) /\ Tame /\ Calm /\ Still
          /\ \A r \in rvReplies : voteReplyStepDown(r) => Quiet(g) /\ Tame /\ Calm /\ Still
          /\ \A r \in rvReplies : voteReplyIgnored(r) => Quiet(g) /\ Tame /\ Calm /\ Still
          /\ \A c \in rvCalls : LoseVoteCall(c) => Quiet(g) /\ Tame /\ Calm /\ Still
          /\ \A r \in rvReplies : LoseVoteReply(r) => Quiet(g) /\ Tame /\ Calm /\ Still
      BY <1>1, <1>2, QuietVotes, CalmActions
    <2> QED  BY <1>3, <1>5, <2>1, <2>2, <2>3, <2>4 DEF VoteStep
  <1>6. CASE AppendStep
    <2>1. ASSUME NEW c \in aeCalls,
                 \/ rejectAppendEntries(c) \/ parkAppendEntries(c)
                 \/ onAppendEntries(c) \/ LoseAppendCall(c)
          PROVE  CommitsInv'
      <3>1. CASE LoseAppendCall(c)
        BY <1>1, <1>2, <1>3, <3>1, QuietAppends, CalmActions
      <3> QED  BY <1>1, <2>1, <3>1, RejectCommits, ParkCommits, OnAppendCommits
    <2>2. ASSUME NEW a \in parkedAppends, resumeAppendEntries(a) PROVE CommitsInv'
      BY <1>1, <2>2, ResumeAppendCommits
    <2>3. ASSUME NEW r \in aeReplies,
                 \/ appendReplyStepDown(r) \/ appendReplyIgnored(r)
                 \/ appendReplySuccess(r) \/ appendReplyFailure(r)
                 \/ LoseAppendReply(r)
          PROVE  CommitsInv'
      <3>1. CASE appendReplyStepDown(r) \/ appendReplyIgnored(r) \/ LoseAppendReply(r)
        <4>1. Quiet(g) /\ Tame /\ Calm /\ Still
          BY <1>1, <1>2, <3>1, QuietAppends, CalmActions
        <4> QED  BY <1>3, <4>1
      <3> QED  BY <1>1, <2>3, <3>1, SuccessCommits, FailureCommits
    <2> QED  BY <1>6, <2>1, <2>2, <2>3 DEF AppendStep
  <1> QED  BY <1>4, <1>5, <1>6 DEF Next

\* Nothing changes, and so the invariant holds on.
LEMMA CommitsInvStutter ==
    ASSUME Cardinality(Node) <= 3, TypeInv, TypeInv', ElectionInv, ElectionInv',
           GapInv, CommitsInv, UNCHANGED vars
    PROVE  CommitsInv'
  <1>1. PICK g, A : Starts(g, A)
    BY DEF CommitsInv, Starts
  <1>2. TypeOK /\ TypeOK' /\ g \in Logs /\ LogInv(g)
    BY <1>1 DEF Starts, TypeInv, CommitInv
  <1>3. Quiet(g) /\ Tame /\ Calm /\ Still
    BY <1>1, <1>2, QuietAppends, CalmActions
  <1> QED  BY <1>1, <1>3, CalmCommits

\* At the start nothing is acknowledged.
LEMMA CommitsInvInit == Init => CommitsInv
  <1> SUFFICES ASSUME Init PROVE CommitsInv
    OBVIOUS
  <1>1. PICK g : g = [t \in Term |-> <<>>]
    OBVIOUS
  <1>2. PICK A : A = [p \in Node |-> [t \in Term |-> {}]]
    OBVIOUS
  <1>3. /\ g \in Logs /\ A \in Acks /\ \A t \in Term : g[t] = <<>>
        /\ \A p \in Node, t \in Term : A[p][t] = {}
    BY <1>1, <1>2 DEF Logs, Acks
  <1>4. LogInv(g)
    BY <1>3 DEF Init, LogInv, Grounded
  <1>5. /\ \A n \in Node : log[n] = <<>> /\ applied[n] = <<>> /\ role[n] = "FOLLOWER"
        /\ \A t \in Term : leaders[t] = {}
        /\ rvCalls = {} /\ rvReplies = {} /\ parkedVotes = {}
        /\ aeCalls = {} /\ aeReplies = {} /\ parkedAppends = {}
    BY DEF Init
  <1>6. TermInv(g)
    BY <1>3, <1>5 DEF TermInv
  <1>7. AckInv(g, A)
    BY <1>3, <1>5 DEF AckInv, Carries
  <1>8. VotersInv(g, A) /\ CandidateInv(g, A) /\ SendInv(g, A)
    BY <1>5 DEF VotersInv, CandidateInv, SendInv
  <1>9. DoneInv(g, A)
    BY <1>5 DEF DoneInv, Done, Share
  <1> QED  BY <1>3, <1>4, <1>6, <1>7, <1>8, <1>9 DEF CommitsInv, CommitInv

-----------------------------------------------------------------------------
(***************************************************************************)
(* What is applied.                                                        *)
(***************************************************************************)

\* What a node has applied is what the leader of some term has in its log, and
\* what every later leader has.
LEMMA AppliedInLeaders ==
    ASSUME TypeOK, NEW g \in Logs, NEW A \in Acks, CommitInv(g, A), NEW n \in Node,
           applied[n] # <<>>
    PROVE  \E t \in Term, k \in Nat :
               /\ Fixed(t, k, g, A) /\ Len(applied[n]) <= k /\ leaders[t] # {}
               /\ t <= currentTerm[n]
               /\ \A u \in Term : t <= u /\ leaders[u] # {} =>
                     Share(g[u], applied[n], Len(applied[n]))
  <1>0. /\ LogInv(g) /\ AckInv(g, A) /\ VotersInv(g, A) /\ DoneInv(g, A)
        /\ applied[n] \in Seq(Entry) /\ log[n] \in Seq(Entry)
        /\ \A u \in Term : g[u] \in Seq(Entry) /\ u \in Nat
    BY BoundAssumption DEF CommitInv, TypeOK, Logs, Term
  <1>1. PICK x \in Nat : x = Len(applied[n]) /\ x # 0
    BY <1>0
  <1>2. PICK t \in Term, k \in Nat : /\ Fixed(t, k, g, A) /\ x <= k /\ Share(log[n], g[t], x)
                                     /\ t <= currentTerm[n]
    BY <1>0, <1>1 DEF DoneInv, Done
  <1>3. leaders[t] # {}
    <2>1. k \in 1..Len(g[t])
      BY <1>2 DEF Fixed, Own
    <2>2. g[t] # <<>>
      BY <2>1
    <2> QED  BY <1>0, <2>2 DEF LogInv
  <1>4. Share(g[t], applied[n], x)
    <2>1. Share(log[n], applied[n], x) /\ Share(g[t], log[n], x)
      BY <1>0, <1>1, <1>2, ShareSym DEF DoneInv
    <2> QED  BY <1>0, <2>1, ShareTrans
  <1>5. ASSUME NEW u \in Term, t <= u, leaders[u] # {} PROVE Share(g[u], applied[n], x)
    <2>1. Share(g[u], g[t], k)
      BY <1>0, <1>2, <1>5, FixedCarried
    <2>2. Share(g[u], g[t], x)
      BY <1>0, <1>2, <2>1, ShareLess
    <2> QED  BY <1>0, <1>4, <2>2, ShareTrans
  <1> QED  BY <1>1, <1>2, <1>3, <1>5

\* Two managers have applied the same entries, as far as both have come.
LEMMA AppliedAgree ==
    ASSUME TypeOK, CommitsInv
    PROVE  StateMachineSafety
  <1>1. PICK g \in Logs, A \in Acks : CommitInv(g, A)
    BY DEF CommitsInv
  <1>2. \A u \in Term : u \in Nat
    BY BoundAssumption DEF Term
  <1>3. ASSUME NEW n \in Node, NEW m \in Node, NEW i \in 1..Smaller(Len(applied[n]), Len(applied[m]))
        PROVE  applied[n][i] = applied[m][i]
    <2>1. applied[n] \in Seq(Entry) /\ applied[m] \in Seq(Entry)
      BY DEF TypeOK
    <2>2. i \in 1..Len(applied[n]) /\ i \in 1..Len(applied[m])
      BY <2>1 DEF Smaller
    <2>3. applied[n] # <<>> /\ applied[m] # <<>>
      BY <2>2
    <2>4. PICK t \in Term : leaders[t] # {} /\ \A u \in Term : t <= u /\ leaders[u] # {} =>
                               Share(g[u], applied[n], Len(applied[n]))
      BY <1>1, <2>3, AppliedInLeaders
    <2>5. PICK v \in Term : leaders[v] # {} /\ \A u \in Term : v <= u /\ leaders[u] # {} =>
                               Share(g[u], applied[m], Len(applied[m]))
      BY <1>1, <2>3, AppliedInLeaders
    <2>6. PICK u \in Term : leaders[u] # {} /\ t <= u /\ v <= u
      <3>1. CASE t <= v
        BY <1>2, <2>5, <3>1
      <3>2. CASE v <= t
        BY <1>2, <2>4, <3>2
      <3> QED  BY <1>2, <3>1, <3>2
    <2>7. Share(g[u], applied[n], Len(applied[n])) /\ Share(g[u], applied[m], Len(applied[m]))
      BY <2>4, <2>5, <2>6
    <2> QED  BY <2>2, <2>7 DEF Share
  <1> QED  BY <1>3 DEF StateMachineSafety

\* A leader has what managers of an older or the same term have applied.
LEMMA AppliedAtLeader ==
    ASSUME TypeOK, ElectionInv, CommitsInv
    PROVE  LeaderCompleteness
  <1>1. PICK g \in Logs, A \in Acks : CommitInv(g, A)
    BY DEF CommitsInv
  <1>2. ASSUME NEW n \in Node, NEW m \in Node, role[n] = "LEADER", currentTerm[m] <= currentTerm[n]
        PROVE  /\ Len(applied[m]) <= Len(log[n])
               /\ \A i \in 1..Len(applied[m]) : applied[m][i] = log[n][i]
    <2>0. applied[m] \in Seq(Entry) /\ log[n] \in Seq(Entry)
      BY DEF TypeOK
    <2>1. CASE applied[m] = <<>>
      BY <2>0, <2>1
    <2>2. CASE applied[m] # <<>>
      <3>1. PICK t \in Term : /\ t <= currentTerm[m]
                              /\ \A u \in Term : t <= u /\ leaders[u] # {} =>
                                    Share(g[u], applied[m], Len(applied[m]))
        BY <1>1, <2>2, AppliedInLeaders
      <3>2. PICK u \in Term : u = currentTerm[n] /\ t <= u
        BY <1>2, <3>1, LogTypes, BoundAssumption DEF Term
      <3>3. leaders[u] # {} /\ log[n] = g[u]
        BY <1>1, <1>2, <3>2 DEF ElectionInv, RolesInv, CommitInv, LogInv
      <3>4. Share(log[n], applied[m], Len(applied[m]))
        BY <3>1, <3>2, <3>3
      <3> QED  BY <3>4 DEF Share
    <2> QED  BY <2>1, <2>2
  <1> QED  BY <1>2 DEF LeaderCompleteness

\* What is applied is in the logs of a majority.
LEMMA AppliedAtMajority ==
    ASSUME TypeOK, CommitsInv
    PROVE  AppliedByMajority
  <1>1. PICK g \in Logs, A \in Acks : CommitInv(g, A)
    BY DEF CommitsInv
  <1>2. /\ AckInv(g, A) /\ VotersInv(g, A)
        /\ \A u \in Term : g[u] \in Seq(Entry) /\ u \in Nat
        /\ \A p \in Node : log[p] \in Seq(Entry) /\ applied[p] \in Seq(Entry)
    BY <1>1, BoundAssumption DEF CommitInv, TypeOK, Logs, Term
  <1>3. ASSUME NEW n \in Node, NEW i \in 1..Len(applied[n])
        PROVE  Cardinality({m \in Node : Len(log[m]) >= i /\ log[m][i] = applied[n][i]}) >= Majority
    <2>1. applied[n] # <<>>
      BY <1>2
    <2>2. PICK t \in Term, k \in Nat :
             /\ Fixed(t, k, g, A) /\ Len(applied[n]) <= k /\ leaders[t] # {}
             /\ \A u \in Term : t <= u /\ leaders[u] # {} =>
                   Share(g[u], applied[n], Len(applied[n]))
      BY <1>1, <2>1, AppliedInLeaders
    <2>3. PICK Q \in SUBSET Node : Cardinality(Q) >= Majority /\ \A p \in Q : k \in A[p][t]
      BY <2>2 DEF Fixed
    <2>4. Share(g[t], applied[n], Len(applied[n])) /\ Own(t, k, g)
      BY <1>2, <2>2 DEF Fixed
    <2>5. ASSUME NEW p \in Q PROVE Len(log[p]) >= i /\ log[p][i] = applied[n][i]
      <3>1. p \in Node /\ k \in A[p][t]
        BY <2>3
      <3>2. t <= currentTerm[p] /\ currentTerm[p] \in Nat
        BY <1>2, <3>1 DEF AckInv, TypeOK
      <3>3. Passed(t, currentTerm[p] + 1, k, g)
        <4>1. ASSUME NEW v \in Term, t < v, leaders[v] # {} PROVE Share(g[v], g[t], k)
          BY <1>1, <1>2, <2>2, <4>1, FixedCarried
        <4> QED  BY <4>1 DEF Passed
      <3>4. Share(log[p], g[t], k)
        <4>1. Carries(log[p], p, currentTerm[p] + 1, g, A) /\ t < currentTerm[p] + 1
          BY <1>2, <3>1, <3>2 DEF AckInv
        <4> QED  BY <2>4, <3>1, <3>3, <4>1 DEF Carries
      <3>5. i \in 1..k /\ k \in Nat /\ Len(log[p]) \in Nat /\ k <= Len(log[p])
        BY <1>2, <2>2, <3>1, <3>4 DEF Share
      <3>6. log[p][i] = g[t][i] /\ g[t][i] = applied[n][i]
        BY <2>4, <3>4, <3>5 DEF Share
      <3> QED  BY <3>5, <3>6
    <2>6. PICK S \in SUBSET Node :
             S = {m \in Node : Len(log[m]) >= i /\ log[m][i] = applied[n][i]} /\ Q \subseteq S
      BY <2>5
    <2>7. Cardinality(Q) <= Cardinality(S) /\ Cardinality(S) \in Nat /\ Cardinality(Q) \in Nat
      BY <2>6, NodeAssumption, FS_Subset, FS_CardinalityType
    <2>8. Majority \in Int
      BY NodeAssumption, FS_CardinalityType DEF Majority
    <2> QED  BY <2>3, <2>6, <2>7, <2>8
  <1> QED  BY <1>3 DEF AppliedByMajority

\* n's commitIndex becomes c and n applies its log up to there.
Advanced(n, c) ==
    /\ commitIndex' = [commitIndex EXCEPT ![n] = c]
    /\ applied' = [applied EXCEPT ![n] = ApplyUpTo(@, log'[n], c)]
    /\ c >= commitIndex[n] \/ c >= Len(log'[n])

\* applyStateMachine() on the log the step leaves.
LEMMA ApplyAdvances ==
    ASSUME TypeOK, TypeOK', NEW n \in Node, NEW l \in Seq(Entry), l = log'[n], NEW ci \in Nat,
           ci >= commitIndex[n] \/ ci >= Len(l), NEW term, NEW match,
           applyStateMachine(n, l, ci, term, match)
    PROVE  \E c \in Nat : Advanced(n, c)
  <1>1. PICK c : c = AdvanceCommit(n, l, ci, term, match)
    OBVIOUS
  <1>2. c \in Nat /\ c >= ci
    BY <1>1, AdvanceCommitRange
  <1>3. commitIndex[n] \in Nat /\ Len(l) \in Nat
    BY DEF TypeOK
  <1>4. c >= commitIndex[n] \/ c >= Len(log'[n])
    BY <1>2, <1>3
  <1> QED  BY <1>1, <1>2, <1>4 DEF Advanced, applyStateMachine

\* The log part of onAppendEntries().
LEMMA ReplicateAdvances ==
    ASSUME TypeOK, TypeOK', NEW n \in Node, NEW c \in AppendEntries, NEW term, NEW entryTerm,
           ReplicateEntries(n, c, term, entryTerm)
    PROVE  UNCHANGED <<commitIndex, applied>> \/ \E k \in Nat : Advanced(n, k)
  <1>1. PICK l : l = MergeEntries(log[n], c)
    OBVIOUS
  <1>2. CASE UNCHANGED <<commitIndex, applied>>
    BY <1>2
  <1>3. CASE ~UNCHANGED <<commitIndex, applied>>
    <2>1. /\ log' = [log EXCEPT ![n] = l] /\ c.leaderCommit > commitIndex[n]
          /\ applyStateMachine(n, l, Smaller(c.leaderCommit, Len(l)), term, matchIndex[n])
      BY <1>1, <1>3 DEF ReplicateEntries, logVars
    <2>2. l = log'[n] /\ l \in Seq(Entry) /\ commitIndex[n] \in Nat /\ c.leaderCommit \in Nat
      BY <2>1 DEF TypeOK, AppendEntries
    <2>3. PICK ci \in Nat : /\ ci = Smaller(c.leaderCommit, Len(l))
                            /\ ci >= commitIndex[n] \/ ci >= Len(l)
      BY <2>1, <2>2 DEF Smaller
    <2>4. PICK match : match = matchIndex[n]
      OBVIOUS
    <2> QED  BY <2>1, <2>2, <2>3, <2>4, ApplyAdvances
  <1> QED  BY <1>2, <1>3

\* Every step leaves commitIndex and what is applied alone, or advances it at
\* one node.
LEMMA StepAdvances ==
    ASSUME TypeOK, TypeOK', [Next]_vars
    PROVE  UNCHANGED <<commitIndex, applied>> \/ \E n \in Node, c \in Nat : Advanced(n, c)
  <1> USE DEF logVars
  <1>0. /\ \A n \in Node : /\ log[n] \in Seq(Entry) /\ log'[n] \in Seq(Entry)
                           /\ commitIndex[n] \in Nat /\ commitIndex[n] >= commitIndex[n]
        /\ log \in [Node -> Seq(Entry)]
    BY DEF TypeOK
  <1>1. ASSUME NEW n \in Node, NEW l, l = log'[n], NEW term, NEW match,
               applyStateMachine(n, l, commitIndex[n], term, match)
        PROVE  \E c \in Nat : Advanced(n, c)
    <2>1. PICK ci \in Nat : ci = commitIndex[n] /\ ci >= commitIndex[n]
      BY <1>0
    <2> QED  BY <1>0, <1>1, <2>1, ApplyAdvances
  <1>2. ASSUME NEW n \in Node, NodeStep(n)
        PROVE  UNCHANGED <<commitIndex, applied>> \/ \E c \in Nat : Advanced(n, c)
    <2>1. CASE startElectionAmong(n)
      BY <2>1 DEF startElectionAmong, startElection, requestVotes
    <2>2. CASE startElectionAlone(n)
      <3>1. PICK term : applyStateMachine(n, log[n], commitIndex[n], term, matchIndex[n])
        BY <2>2 DEF startElectionAlone, startElection, leadAlone
      <3>2. PICK l : l = log[n] /\ l = log'[n]
        BY <2>2 DEF startElectionAlone, startElection, leadAlone
      <3>3. PICK match : match = matchIndex[n]
        OBVIOUS
      <3>4. applyStateMachine(n, l, commitIndex[n], term, match)
        BY <3>1, <3>2, <3>3
      <3> QED  BY <1>1, <3>2, <3>4
    <2>3. CASE sendHeartbeatsInternal(n)
      <3>1. PICK l, term, match :
               l = log[n] /\ l = log'[n] /\ term = currentTerm[n] /\ match = matchIndex[n]
        BY <2>3 DEF sendHeartbeatsInternal
      <3>2. \/ UNCHANGED <<commitIndex, applied>>
            \/ applyStateMachine(n, l, commitIndex[n], term, match)
        BY <2>3, <3>1 DEF sendHeartbeatsInternal
      <3> QED  BY <1>1, <3>1, <3>2
    <2>4. ASSUME NEW cmd \in Command, submitCommand(n, cmd)
          PROVE  UNCHANGED <<commitIndex, applied>> \/ \E c \in Nat : Advanced(n, c)
      <3>1. PICK l, term, match :
               /\ l = Append(log[n], [term |-> currentTerm[n], command |-> cmd])
               /\ term = currentTerm[n] /\ match = matchIndex[n]
        OBVIOUS
      <3>2. /\ log' = [log EXCEPT ![n] = l]
            /\ \/ UNCHANGED <<commitIndex, applied>>
               \/ applyStateMachine(n, l, commitIndex[n], term, match)
        BY <2>4, <3>1 DEF submitCommand
      <3>3. l = log'[n]
        BY <1>0, <3>2
      <3> QED  BY <1>1, <3>2, <3>3
    <2> QED  BY <1>2, <2>1, <2>2, <2>3, <2>4 DEF NodeStep, startElectionAmong, startElectionAlone
  <1>3. ASSUME VoteStep PROVE UNCHANGED <<commitIndex, applied>>
    BY <1>3 DEF VoteStep, rejectRequestVote, parkRequestVote, onRequestVote, LoseVoteCall,
                resumeRequestVote, voteReplyStepDown, voteReplyIgnored, voteReplyCounted,
                LoseVoteReply
  <1>4. ASSUME AppendStep
        PROVE  UNCHANGED <<commitIndex, applied>> \/ \E n \in Node, c \in Nat : Advanced(n, c)
    <2>1. ASSUME NEW c \in aeCalls, onAppendEntries(c)
          PROVE  UNCHANGED <<commitIndex, applied>> \/ \E n \in Node, k \in Nat : Advanced(n, k)
      <3>1. PICK n, entryTerm : n = c.to /\ entryTerm = currentTerm[n]
        OBVIOUS
      <3>2. n \in Node /\ c \in AppendEntries /\ ReplicateEntries(n, c, c.term, entryTerm)
        BY <2>1, <3>1, LogTypes DEF onAppendEntries
      <3> QED  BY <3>2, ReplicateAdvances
    <2>2. ASSUME NEW a \in parkedAppends, resumeAppendEntries(a)
          PROVE  UNCHANGED <<commitIndex, applied>> \/ \E n \in Node, k \in Nat : Advanced(n, k)
      <3>1. PICK n, c, term : n = a.call.to /\ c = a.call /\ term = currentTerm[n]
        OBVIOUS
      <3>2. n \in Node /\ c \in AppendEntries /\ ReplicateEntries(n, c, term, a.respTerm)
        BY <2>2, <3>1, LogTypes DEF resumeAppendEntries
      <3> QED  BY <3>2, ReplicateAdvances
    <2>3. ASSUME NEW r \in aeReplies, appendReplySuccess(r)
          PROVE  \E n \in Node, c \in Nat : Advanced(n, c)
      <3>1. PICK n \in Node : n = r.from
        BY LogTypes
      <3>2. PICK l, term, match :
               /\ l = log[n] /\ l = log'[n] /\ term = currentTerm[n]
               /\ match = [matchIndex[n] EXCEPT ![r.to] = r.nextIdx + r.entriesCount - 1]
        BY <2>3 DEF appendReplySuccess
      <3>3. applyStateMachine(n, l, commitIndex[n], term, match)
        BY <2>3, <3>1, <3>2 DEF appendReplySuccess
      <3> QED  BY <1>1, <3>2, <3>3
    <2>4. ASSUME NEW c \in aeCalls,
                 rejectAppendEntries(c) \/ parkAppendEntries(c) \/ LoseAppendCall(c)
          PROVE  UNCHANGED <<commitIndex, applied>>
      BY <2>4 DEF rejectAppendEntries, parkAppendEntries, LoseAppendCall
    <2>5. ASSUME NEW r \in aeReplies,
                 \/ appendReplyStepDown(r) \/ appendReplyIgnored(r)
                 \/ appendReplyFailure(r) \/ LoseAppendReply(r)
          PROVE  UNCHANGED <<commitIndex, applied>>
      BY <2>5 DEF appendReplyStepDown, appendReplyIgnored, appendReplyFailure, LoseAppendReply
    <2> QED  BY <1>4, <2>1, <2>2, <2>3, <2>4, <2>5 DEF AppendStep
  <1>5. ASSUME UNCHANGED vars PROVE UNCHANGED <<commitIndex, applied>>
    BY <1>5 DEF vars
  <1> QED  BY <1>2, <1>3, <1>4, <1>5 DEF Next

\* No node takes back what it has applied, and what it has applied is in its log.
LEMMA AppliedForward ==
    ASSUME TypeInv, TypeInv', CommitsInv', [Next]_vars, NEW n \in Node
    PROVE  /\ Extends(applied[n], applied'[n]) /\ commitIndex[n] <= commitIndex'[n]
           /\ Share(log'[n], applied'[n], Len(applied'[n]))
  <1>0. /\ TypeOK /\ TypeOK' /\ commitIndex[n] <= Len(applied[n])
        /\ applied[n] \in Seq(Entry) /\ applied'[n] \in Seq(Entry) /\ log'[n] \in Seq(Entry)
        /\ commitIndex[n] \in Nat
        /\ applied \in [Node -> Seq(Entry)] /\ commitIndex \in [Node -> Nat]
    BY DEF TypeInv, AppliedCaughtUp, TypeOK
  <1>1. Share(log'[n], applied'[n], Len(applied'[n]))
    BY DEF CommitsInv, CommitInv, DoneInv
  <1>2. CASE applied'[n] = applied[n] /\ commitIndex'[n] = commitIndex[n]
    BY <1>0, <1>1, <1>2, ExtendsSelf
  <1>3. CASE ~(applied'[n] = applied[n] /\ commitIndex'[n] = commitIndex[n])
    <2>1. PICK m \in Node, c \in Nat : Advanced(m, c)
      BY <1>0, <1>3, StepAdvances
    <2>2. m = n
      BY <1>0, <1>3, <2>1 DEF Advanced
    <2>3. /\ commitIndex'[n] = c /\ applied'[n] = ApplyUpTo(applied[n], log'[n], c)
          /\ c >= commitIndex[n] \/ c >= Len(log'[n])
      BY <1>0, <2>1, <2>2 DEF Advanced
    <2>4. CASE c <= Len(applied[n])
      <3>1. applied'[n] = applied[n]
        BY <2>3, <2>4 DEF ApplyUpTo
      <3>2. Len(applied[n]) <= Len(log'[n])
        BY <1>0, <1>1, <3>1 DEF Share
      <3>3. commitIndex[n] <= c
        BY <1>0, <2>3, <3>2
      <3> QED  BY <1>0, <1>1, <2>3, <3>1, <3>3, ExtendsSelf
    <2>5. CASE c > Len(applied[n])
      <3>1. PICK f : f = [i \in 1..c |-> IF i <= Len(applied[n]) THEN applied[n][i] ELSE log'[n][i]]
        OBVIOUS
      <3>2. applied'[n] = f
        BY <1>0, <2>3, <2>5, <3>1 DEF ApplyUpTo
      <3>3. Len(applied'[n]) = c
        <4>1. DOMAIN f = 1..c /\ DOMAIN applied'[n] = 1..Len(applied'[n])
          BY <1>0, <3>1
        <4>2. Len(applied'[n]) \in Nat /\ 1..c = 1..Len(applied'[n])
          BY <1>0, <3>2, <4>1
        <4> QED  BY <4>2
      <3>4. \A i \in 1..Len(applied[n]) : applied'[n][i] = applied[n][i]
        BY <1>0, <2>5, <3>1, <3>2
      <3>5. Extends(applied[n], applied'[n])
        BY <1>0, <2>5, <3>3, <3>4 DEF Extends
      <3> QED  BY <1>0, <1>1, <2>3, <2>5, <3>5
    <2> QED  BY <1>0, <2>4, <2>5
  <1> QED  BY <1>2, <1>3

\* What is committed stays in the log.
LEMMA CommittedStep ==
    ASSUME TypeInv, TypeInv', CommitsInv, CommitsInv', [Next]_vars, NEW n \in Node
    PROVE  /\ commitIndex'[n] >= commitIndex[n] /\ Len(log'[n]) >= commitIndex[n]
           /\ SubSeq(log'[n], 1, commitIndex[n]) = SubSeq(log[n], 1, commitIndex[n])
  <1>0. /\ applied[n] \in Seq(Entry) /\ applied'[n] \in Seq(Entry) /\ log[n] \in Seq(Entry)
        /\ log'[n] \in Seq(Entry) /\ commitIndex[n] \in Nat /\ commitIndex'[n] \in Nat
        /\ commitIndex[n] <= Len(applied[n])
    BY DEF TypeInv, AppliedCaughtUp, TypeOK
  <1>1. /\ Extends(applied[n], applied'[n]) /\ commitIndex[n] <= commitIndex'[n]
        /\ Share(log'[n], applied'[n], Len(applied'[n]))
    BY AppliedForward
  <1>2. Share(log[n], applied[n], Len(applied[n]))
    BY DEF CommitsInv, CommitInv, DoneInv
  <1>3. PICK ci \in Nat : ci = commitIndex[n]
    BY <1>0
  <1>4. ci <= Len(log[n]) /\ ci <= Len(log'[n])
    BY <1>0, <1>1, <1>2, <1>3 DEF Share, Extends
  <1>5. \A i \in 1..ci : log'[n][i] = log[n][i]
    BY <1>0, <1>1, <1>2, <1>3 DEF Share, Extends
  <1>6. SubSeq(log'[n], 1, ci) = SubSeq(log[n], 1, ci)
    BY <1>0, <1>4, <1>5
  <1> QED  BY <1>0, <1>1, <1>3, <1>4, <1>6

-----------------------------------------------------------------------------
(***************************************************************************)
(* The theorems on what is committed.  A follower that takes over a new    *)
(* leaderCommit counts its own matchIndex once more (applyStateMachine());  *)
(* with more than three managers that count can be wrong, with three the   *)
(* follower and the leader are a majority.                                 *)
(***************************************************************************)

\* Every committed entry was acknowledged by a majority in the term of its
\* leader, and every later leader was elected by a majority that had kept it.
THEOREM CommitsFitTogether ==
    Cardinality(Node) <= 3 /\ QuietGap /\ Spec => []CommitsInv
  <1> SUFFICES ASSUME Cardinality(Node) <= 3 PROVE QuietGap /\ Spec => []CommitsInv
    OBVIOUS
  <1>1. TypeInv /\ TypeInv' /\ ElectionInv /\ ElectionInv' /\ GapInv /\ CommitsInv
          /\ [QuietStep]_vars /\ [Next]_vars
          => CommitsInv'
    BY CommitsInvStep, CommitsInvStutter
  <1>2. Spec => []TypeInv
    BY AppliedCaughtUpCorrect DEF TypeInv
  <1> QED  BY <1>1, <1>2, CommitsInvInit, LogsFitTogether, VotesFitTogether, PTL
           DEF Spec, QuietGap

\* Any two managers have given stateMachine.apply() the same submissions in
\* the same order, as far as both have come.
THEOREM SameSubmissionsApplied ==
    Cardinality(Node) <= 3 /\ QuietGap /\ Spec => []StateMachineSafety
  <1>1. TypeOK /\ CommitsInv => StateMachineSafety
    BY AppliedAgree
  <1> QED  BY <1>1, TypeCorrect, CommitsFitTogether, PTL

\* A leader's log holds everything that a manager of an older or the same term
\* has applied: what the log comparison in onRequestVote() is for.
THEOREM LeadersHaveApplied ==
    Cardinality(Node) <= 3 /\ QuietGap /\ Spec => []LeaderCompleteness
  <1>1. TypeOK /\ ElectionInv /\ CommitsInv => LeaderCompleteness
    BY AppliedAtLeader
  <1> QED  BY <1>1, TypeCorrect, VotesFitTogether, CommitsFitTogether, PTL

\* What some manager has applied stays in the logs of a majority.
THEOREM MajorityHasApplied ==
    Cardinality(Node) <= 3 /\ QuietGap /\ Spec => []AppliedByMajority
  <1>1. TypeOK /\ CommitsInv => AppliedByMajority
    BY AppliedAtMajority
  <1> QED  BY <1>1, TypeCorrect, CommitsFitTogether, PTL

\* A manager never moves its commitIndex back and never changes an entry below
\* it, although the truncation in onAppendEntries() does not look at it.
THEOREM CommittedIsKept ==
    Cardinality(Node) <= 3 /\ QuietGap /\ Spec => CommittedStays
  <1> SUFFICES ASSUME Cardinality(Node) <= 3 PROVE QuietGap /\ Spec => CommittedStays
    OBVIOUS
  <1> DEFINE Kept ==
        \A n \in Node : /\ commitIndex'[n] >= commitIndex[n]
                        /\ Len(log'[n]) >= commitIndex[n]
                        /\ SubSeq(log'[n], 1, commitIndex[n]) = SubSeq(log[n], 1, commitIndex[n])
  <1>1. TypeInv /\ TypeInv' /\ CommitsInv /\ CommitsInv' /\ [Next]_vars => [Kept]_vars
    BY CommittedStep
  <1>2. Spec => []TypeInv
    BY AppliedCaughtUpCorrect DEF TypeInv
  <1>3. QuietGap /\ Spec => []CommitsInv
    BY CommitsFitTogether
  <1> QED  BY <1>1, <1>2, <1>3, PTL DEF Spec, CommittedStays

-----------------------------------------------------------------------------
(***************************************************************************)
(* The managers implement ReplicatedLog.                                   *)
(***************************************************************************)

\* Some manager has applied the most.
LEMMA LongestExists ==
    ASSUME Node # {}, NEW f \in [Node -> Seq(Entry)]
    PROVE  \E n \in Node : \A m \in Node : Len(f[m]) <= Len(f[n])
  <1> DEFINE Above(n) == {m \in Node : Len(f[m]) >= Len(f[n])}
             S == {Cardinality(Above(n)) : n \in Node}
  <1>1. \A n \in Node : IsFiniteSet(Above(n)) /\ Cardinality(Above(n)) \in Nat /\ n \in Above(n)
    <2> SUFFICES ASSUME NEW n \in Node
                 PROVE  IsFiniteSet(Above(n)) /\ Cardinality(Above(n)) \in Nat /\ n \in Above(n)
      OBVIOUS
    <2>1. Above(n) \in SUBSET Node
      OBVIOUS
    <2>2. IsFiniteSet(Above(n))
      BY <2>1, NodeAssumption, FS_Subset
    <2>3. Len(f[n]) \in Nat
      OBVIOUS
    <2>4. n \in Above(n)
      BY <2>3
    <2> QED  BY <2>2, <2>4, FS_CardinalityType
  <1>2. S \subseteq Nat /\ S # {}
    BY <1>1
  <1>3. PICK c \in S : \A d \in S : ~(<<d, c>> \in OpToRel(<, Nat))
    BY <1>2, NatLessThanWellFounded, WFMin
  <1>4. PICK n \in Node : c = Cardinality(Above(n))
    BY <1>3
  <1>5. ASSUME NEW m \in Node, ~(Len(f[m]) <= Len(f[n])) PROVE FALSE
    <2>1. \A q \in Node : Len(f[q]) \in Nat
      OBVIOUS
    <2>2. Above(m) \in SUBSET Above(n) /\ n \notin Above(m)
      BY <1>5, <2>1
    <2>3. Above(m) # Above(n)
      BY <1>1, <2>2
    <2>4. /\ Cardinality(Above(m)) <= Cardinality(Above(n))
          /\ Cardinality(Above(n)) # Cardinality(Above(m))
      BY <1>1, <2>2, <2>3, FS_Subset
    <2>5. Cardinality(Above(m)) < c /\ Cardinality(Above(m)) \in Nat /\ c \in Nat
      BY <1>1, <1>4, <2>4
    <2>6. Cardinality(Above(m)) \in S
      OBVIOUS
    <2> QED  BY <1>3, <2>5, <2>6 DEF OpToRel
  <1> QED  BY <1>5

\* The abstract sequence is what that manager has applied.
LEMMA LongestIs ==
    ASSUME Node # {}, TypeOK, TypeOK'
    PROVE  /\ \E n \in Node : /\ Longest = applied[n]
                              /\ \A m \in Node : Len(applied[m]) <= Len(applied[n])
           /\ \E n \in Node : /\ Longest' = applied'[n]
                              /\ \A m \in Node : Len(applied'[m]) <= Len(applied'[n])
  <1>1. /\ \E n \in Node : \A m \in Node : Len(applied[m]) <= Len(applied[n])
        /\ \E n \in Node : \A m \in Node : Len(applied'[m]) <= Len(applied'[n])
    BY LongestExists DEF TypeOK
  <1> QED  BY <1>1 DEF Longest

\* Prefixes, in the words of the abstract specification.
LEMMA ExtendsIsPrefix ==
    ASSUME NEW l \in Seq(Entry), NEW q \in Seq(Entry), Extends(l, q)
    PROVE  Abstract!IsPrefix(l, q)
  <1>1. SubSeq(l, 1, Len(l)) = SubSeq(q, 1, Len(l))
    BY DEF Extends
  <1> QED  BY <1>1 DEF Extends, Abstract!IsPrefix

\* Every step of the managers is a step of the replicated log or none.
LEMMA AbstractStep ==
    ASSUME Node # {}, TypeInv, TypeInv', CommitsInv', StateMachineSafety', [Next]_vars
    PROVE  [Abstract!Next]_<<Longest, applied>>
  <1>0. /\ TypeOK /\ TypeOK' /\ applied \in [Node -> Seq(Entry)] /\ applied' \in [Node -> Seq(Entry)]
    BY DEF TypeInv, TypeOK
  <1>1. CASE applied' = applied
    BY <1>1 DEF Longest
  <1>2. CASE applied' # applied
    <2>1. PICK n \in Node, c \in Nat : Advanced(n, c)
      BY <1>0, <1>2, StepAdvances
    <2>2. \A m \in Node \ {n} : applied'[m] = applied[m]
      BY <1>0, <2>1 DEF Advanced
    <2>3. applied'[n] # applied[n]
      BY <1>0, <1>2, <2>2
    <2>4. PICK k \in Node : Longest = applied[k]
      BY <1>0, LongestIs
    <2>5. PICK j \in Node : /\ Longest' = applied'[j]
                            /\ \A m \in Node : Len(applied'[m]) <= Len(applied'[j])
      BY <1>0, LongestIs
    <2>6. ASSUME NEW m \in Node PROVE Extends(applied'[m], applied'[j])
      <3>1. Len(applied'[m]) \in Nat /\ Len(applied'[j]) \in Nat /\ Len(applied'[m]) <= Len(applied'[j])
        BY <1>0, <2>5
      <3>2. \A i \in 1..Len(applied'[m]) : i \in 1..Smaller(Len(applied'[m]), Len(applied'[j]))
        BY <3>1 DEF Smaller
      <3>3. \A i \in 1..Len(applied'[m]) : applied'[m][i] = applied'[j][i]
        BY <3>2 DEF StateMachineSafety
      <3> QED  BY <3>1, <3>3 DEF Extends
    <2>7. \A m \in Node : Extends(applied[m], applied'[m])
      BY AppliedForward
    <2>8. Extends(applied[k], applied'[j])
      <3>1. Extends(applied[k], applied'[k]) /\ Extends(applied'[k], applied'[j])
        BY <2>6, <2>7
      <3>2. /\ Len(applied[k]) \in Nat /\ Len(applied'[k]) \in Nat /\ Len(applied'[j]) \in Nat
            /\ Len(applied[k]) <= Len(applied'[k]) /\ Len(applied'[k]) <= Len(applied'[j])
        BY <1>0, <3>1 DEF Extends
      <3>3. \A i \in 1..Len(applied[k]) : i \in 1..Len(applied'[k])
        BY <3>2
      <3> QED  BY <3>1, <3>2, <3>3 DEF Extends
    <2>9. /\ Abstract!IsPrefix(applied[n], applied'[n])
          /\ Abstract!IsPrefix(Longest, Longest') /\ Abstract!IsPrefix(applied'[n], Longest')
      BY <1>0, <2>4, <2>5, <2>6, <2>7, <2>8, ExtendsIsPrefix
    <2>10. Abstract!Apply(n)
      BY <2>2, <2>3, <2>9 DEF Abstract!Apply, Abstract!IsStrictPrefix
    <2> QED  BY <2>10 DEF Abstract!Next
  <1> QED  BY <1>1, <1>2

\* The managers implement one replicated log: what applyStateMachine() hands
\* out is, at every manager and across changes of leader, a growing prefix of
\* one sequence.
THEOREM Refinement ==
    Node # {} /\ Cardinality(Node) <= 3 /\ QuietGap /\ Spec => ImplementsReplicatedLog
  <1> SUFFICES ASSUME Node # {}, Cardinality(Node) <= 3
               PROVE  QuietGap /\ Spec => ImplementsReplicatedLog
    OBVIOUS
  <1>1. Init => Abstract!Init
    <2> SUFFICES ASSUME Init PROVE Longest = <<>> /\ applied = [n \in Node |-> <<>>]
      BY DEF Abstract!Init
    <2>1. \E n \in Node : \A m \in Node : Len(applied[m]) <= Len(applied[n])
      BY DEF Init
    <2> QED  BY <2>1 DEF Init, Longest
  <1>2. TypeInv /\ TypeInv' /\ CommitsInv' /\ StateMachineSafety' /\ [Next]_vars
          => [Abstract!Next]_<<Longest, applied>>
    BY AbstractStep
  <1>3. Spec => []TypeInv
    BY AppliedCaughtUpCorrect DEF TypeInv
  <1>4. QuietGap /\ Spec => []CommitsInv /\ []StateMachineSafety
    BY CommitsFitTogether, SameSubmissionsApplied
  <1> QED  BY <1>1, <1>2, <1>3, <1>4, PTL DEF Spec, ImplementsReplicatedLog, Abstract!Spec
=============================================================================
