# Verification of the distributed cluster monitor

The program is a worker monitor made of *managers*, which replicate a table of
worker heartbeats with their own implementation of Raft, and *workers*, which
send heartbeats to the current leader.  This directory holds TLA+ models of it,
TLC configurations that check them on small instances, and TLAPS proofs.
`PROJECT.json` lists components, runs, mutants, findings, hazards, theorems and,
for every definition that models code, the source lines it stands for.

    tlc -workers 2 -config replication.cfg RaftLog      # a run
    tlapm RaftNodeProofs.tla                            # the proofs of a module

## 1. Inventory

| Component | State it keeps | Operations | Modelled by |
|---|---|---|---|
| Raft node (`server/raft_node.cpp`, `.hpp`) | `currentTerm`, `votedFor`, `role`, `log`, `commitIndex`, `lastApplied`, `nextIndex`, `matchIndex`, one `voteCount` per election | election and heartbeat timers, `onRequestVote`, `onAppendEntries`, pool tasks on the answers, `submitCommand`, `applyStateMachine` | `RaftNode`; `RaftLog` and `ReplicatedLog` for what it promises |
| Restart (`RaftNode::RaftNode`, `start`) | nothing is persistent | constructor | `RaftRestart` |
| JSON-RPC (`common/rpc.cpp`, `server/raft_rpc.cpp`) | one connection per call; a server mutex | `call`, the accept loop, `handleClient` | `RpcCall`, `LossyCall` |
| Leader discovery (`raft_node.cpp:57-234`) | `runningDiscoveryService`, `discoverySocket`, `discoveryThread`, `discoveryMutex` | start, stop, accept loop, one thread per worker connection | `Discovery` |
| Timer (`common/timer.hpp`) | a shared `running` flag per start | `start`, `cancel`, the sleeping thread | `NodeTimers` |
| Thread pool (`common/thread_pool.hpp`) | task queue | `enqueue`, eight workers | `ThreadPool`, `TaskQueue` |
| State machine (`server/state_machine.cpp`) | table of workers | `apply` (four actions and a legacy one) | `StateMachine` |
| Report (`server/main.cpp:8-59`) | `workers.json` | every 5 s, by every manager | `Monitor` |
| Worker (`worker/main.cpp`) | `failureCount` | heartbeat loop with back-off | `Monitor`, its connection in `Discovery` |
| Logger, `json.hpp`, `run_tests_auto.sh` | - | output, third-party library, test driver | not modelled |

**Interaction.** Timers, request handlers, pool tasks and discovery threads of a
manager all run under `RaftNode::mtx`.  A timer or a command makes the manager
queue one pool task per peer; the task makes a blocking JSON-RPC call and
handles the answer under `mtx`.  The peer's server runs one handler at a time
under a mutex of its own.  Becoming leader starts the discovery service,
stepping down stops it; both release `mtx` in the middle of the handler, since
discovery threads need it to submit.  Committed commands go to the state machine
in log order; the report reads its table every five seconds.

The modules meet at abstract specifications: `RpcCall` implements `LossyCall`,
the call that `RaftNode` builds on; `ThreadPool` implements `TaskQueue`;
`RaftNode` implements `ReplicatedLog` (three managers), whose sequence of
commands is the `history` of `StateMachine`; `NodeTimers` justifies that timers
fire for ever in `RaftLog!Fairness`; `Monitor` puts worker, table and report
together over a cluster that is only "who leads, and who is cut off".

**What is hard here.** Calls are lost, late and out of order (2 s client
time-outs, 50 ms heartbeats, eight pool threads).  The mutex is released inside
`becomeFollower()` and `becomeLeaderInternal()`, so handlers continue on a state
they did not check and starts and stops of the discovery service overtake each
other.  Cancelled timers may still fire.  `votedFor` is cleared on *every*
step-down, also within a term.  `applyStateMachine()` advances the commit index
on followers too.  Nothing is persisted.  Each hazard is in `PROJECT.json`, at
its line, with the properties that watch it or the reason why there is none.

**What makes each part correct.**
* Elections: at most one leader per term; votes of earlier elections do not count.
* Replication: managers apply prefixes of one sequence; logs match; leaders only
  append; committed entries stay; a new leader has everything that was applied;
  a leader that stays brings everybody up to date.
* Transport: a handler runs at most once, a response means it ran, `call` returns.
* Discovery: no socket is left behind; a service that runs accepts from its own
  socket; workers are answered; start and stop return and a node that leads no
  more stops serving (which the code does not achieve).
* Timers: one chain of each kind, and never none.  Pool: FIFO, no lost wake-up.
* State machine: the last writer wins, replicas agree.
* Worker and report: live workers are reported online, dead ones are not.

## 2. Modules

| Module | Contents |
|---|---|
| `RaftNode` | the managers and their calls; `Spec`; properties; the election invariant |
| `MCRaftNode` | `RaftNode` with the symmetry of nodes and the search bounds, for TLC |
| `ReplicatedLog` | abstract: one growing sequence, of which every manager applies prefixes |
| `RaftLog` | the refinement mapping to `ReplicatedLog`; fairness and the liveness of replication |
| `RaftRestart` | `RaftNode` with restarts of the process |
| `RaftScenario` | one long schedule of five managers |
| `Discovery` | the discovery service of one manager and its workers' connections |
| `NodeTimers` | both timers of one manager and their detached threads |
| `LossyCall`, `RpcCall` | a remote call, abstract and as `rpc.cpp` does it |
| `TaskQueue`, `ThreadPool` | a task queue, abstract and as `thread_pool.hpp` does it |
| `StateMachine`, `MCStateMachine` | the table of workers; commands for TLC |
| `Monitor` | workers, tables and reports, second by second |
| `RaftNodeProofs` | proofs about `RaftNode`: types, elections, logs |
| `RaftCommitProofs` | proofs about `RaftNode`: what is committed, and that it implements `ReplicatedLog` |
| `DiscoveryProofs`, `TimerProofs`, `PoolProofs`, `RpcProofs`, `StateMachineProofs`, `MonitorProofs` | proofs about the other components |

Operators marked *Mutant* are mistakes one could make in the code; they are not
used by any specification, only to test the properties (section 3).

### RaftNode

Variables carry the names of the members.  The differences:

* Log positions are 1-based; the code's -1 ("none") is 0.
* `applied` is the sequence of entries given to `stateMachine.apply`;
  `lastApplied` is its length.  It holds whole entries, so that two submissions
  of the same command are told apart as far as their terms differ.
* `voters[n]` are the nodes counted in `voteCount` of n's running election.  The
  code keeps one counter per election and ignores answers to others
  (`OutdatedVote`), so the set is emptied when the election is over.
* `rvCalls`, `aeCalls`, `rvReplies`, `aeReplies` are calls and answers on their
  way.  They are sets: two identical calls in flight count as one, and a second
  execution of a call is covered by the heartbeat that sends it again.
  A call that fails for any reason (no connection, time-out, cut message) is one
  that does not connect (`Connect`) or is lost (`Lose...`); the pool task does
  nothing then.  A crashed manager is one that takes no steps.
* `leaders` is a history variable, never read by an action.

One action is one critical section of `mtx`:

| Code | Actions |
|---|---|
| election timer, `startElection` | `startElection` (`requestVotes`, or `leadAlone` if the own vote suffices) |
| `onRequestVote` | `rejectRequestVote`, `onRequestVote`, and `parkRequestVote` / `resumeRequestVote` around the gap |
| pool task on a vote | `voteReplyStepDown`, `voteReplyIgnored`, `voteReplyCounted` (with `becomeLeaderInternal`) |
| `submitCommand`, heartbeat timer | `submitCommand`, `sendHeartbeatsInternal` |
| `onAppendEntries` | `rejectAppendEntries`, `onAppendEntries`, and `parkAppendEntries` / `resumeAppendEntries` around the gap |
| pool task on an AppendEntries answer | `appendReplyStepDown`, `appendReplyIgnored`, `appendReplySuccess`, `appendReplyFailure` |

`replicateLogInternal` and `sendHeartbeatsInternal` contain the same loop and the
same treatment of answers; both are `AppendCalls` and the `appendReply...`
actions.  `replicateLog`, `sendHeartbeats`, `becomeCandidate` and `becomeLeader`
are never called.  The first heartbeat of a new leader is sent inside
`becomeLeaderInternal`, hence inside the action.  A parked handler keeps the
server of its node busy (`ServerFree`), because `handleClient` holds the server's
mutex, but the node's timers, pool tasks and discovery threads run.

**The timing assumption.**  `becomeFollower()` arms the election timer (300 ms or
more) and then calls `stopDiscoveryService()` without the mutex.  In the model an
election may begin in that gap, as in the code.  `QuietGap` says that none does:
no `startElection()` of a node while a handler of it is inside
`stopDiscoveryService()`.  It is an assumption about behaviours, not part of the
model, and nothing in the code enforces it.  It fails when the call takes longer
than the timer (it waits for `discoveryMutex`, which `startDiscoveryService`
holds while it joins a thread), and at once when a timer callback that passed its
flag before the cancellation (`timer.hpp:42`) waits for `mtx` at that moment.
Elections and liveness of replication are checked, and elections proved, without
it.  The safety of the logs is checked and proved under it, and the run `gap` is
what happens without it: `LeaderAppendOnly` fails.

### RaftRestart, RaftScenario

`Restart(n)` resets every member, as the constructor does, and drops the
connections of the process.  `RaftScenario` takes only steps of `RaftNode`; its
schedule chooses timers, commands and reachable peers, and everything in flight
is handled before the next event.

### RaftLog

`chosen` of `ReplicatedLog` is the longest sequence any manager has applied.
*Fairness*: the heartbeat of a leader reaches each peer again and again
(`HeartbeatReaches`: the timer fires for ever, shown in `NodeTimers`, and a peer
is not unreachable for ever), calls and answers that keep coming are not all
lost (strong fairness), parked handlers resume, vote calls end.  Nobody has to
be elected and nothing has to be submitted; `StableLeaderCommits` is about a
leader that stays and has appended something itself, since an entry of an
earlier term is never committed alone (`raft_node.cpp:1028`).

### Discovery

A caller is a thread of the manager that has just changed the role (one atomic
step under `mtx`) and now runs start or stop.  Each step between two accesses to
shared state is an action: `startLocks`, `startListens`, `startRuns` (the flag is
set), `startSpawns` (joins the old accept thread), `stopLocks`, `stopCloses`; the
accept thread's `loadSocket`, `checkLoop`, `acceptConnection`, `acceptFails`,
`checkRunning`, `checkSocket`; the handler's `closeUnanswered`, `checkRole`,
`submitHeartbeat`.  Descriptors are reused, as the kernel does, so that a
remembered `serverSocket` may name another socket.  The role may change at any
moment, also while a start or a stop of an earlier role has not begun, and no
property assumes otherwise.
*Fairness*: threads run on, `discoveryMutex` is obtained by a thread that finds
it free again and again, `accept()` returns when its descriptor is closed and
does not fail for ever on an open one, workers keep connecting and not every
heartbeat of theirs is unreadable.  Nobody has to be elected or deposed.

### NodeTimers

A `Timer` keeps the flag of its newest thread; threads of earlier starts are
asleep, or past the flag and waiting for `mtx` ("pending").  One action is a
critical section of `mtx`, with the cancellations and starts it makes, or a
thread's look at its flag.  `parked` is the handler in the gap of
`becomeFollower()`.  *Fairness*: sleeps end and threads get the mutex.

### RpcCall

A connection is named by its call.  Of the bytes only "nothing, a part, the
whole" is kept: a proper part of a JSON object does not parse and `read()` is
called once, so a request that is cut or longer than 8191 bytes is an error.
The server's process may be killed at any step and started again; `accept()` may
fail, which ends the loop while the listening socket stays open.  *Fairness*:
clients and threads run on (both sides have socket time-outs), the server's mutex
is obtained; nothing has to be sent, to fail or to crash.  A handler may throw,
which is answered like a request that does not parse, though it has run.

### ThreadPool

A test of the predicate and going to sleep is one step under `queue_mutex`;
`notify_one()` is a separate step after the unlock; spurious wake-ups happen.
*Fairness*: threads run on and get the mutex; tasks end (`CallReturns`).

### StateMachine

A command is what `json::parse` makes of its text, with members that are
`Absent` or do not convert (`Bad`).  `UPDATE_NODE` assigns member after member
and a conversion that throws leaves the earlier ones assigned (`Reached`).
`cpu_usage` stands for `ip_address` and `memory_usage` too, which are treated
alike.  `LastWriterWins` compares the table with a definition over the history
that does not use the handlers' operators: how far a throwing update gets is
spelled out member by member there (`GetsTo`).

### Monitor

One `tick` is a second; what is due in a second happens before the next.  The
worker's attempt has one action per outcome (`ACK` and committed, `ACK` and not
committed because the leader is lost or reaches no majority, `ERROR`, refused or
timed out), each followed by its back-off.  `leader` is the manager that leads,
reaches a majority and serves port 6000: one whose start found no port
(`raft_node.cpp:92-97`) counts as none, and a leader there is answers within the
second.  `cutOff`/`catchUp` are a minority of managers that is unreachable and
then applies what it missed.

A heartbeat is stamped with the time of its application (`state_machine.cpp:55`),
and that may be late in three ways, all of which are in the model:
* `pending`: acknowledged, not committed, the leader lost.  The entry may be in
  the log of the next leader and is then committed with the first entry of that
  leader's own term (`raft_node.cpp:1028`), whoever's heartbeat that is
  (`CommitWith`); if it is not, that commit ends its chances.
* committed, the leader lost before it told the others: they apply it when a
  leader that knows tells them (`catchUp`), or with its own next commit if one
  of them is elected.
* cut off (`missed`, `catchUp`).

`Worker` are the workers that are followed; heartbeats of others only matter
because they commit what is pending, at any time (`otherCommitted`).  `steady` is
what the properties count from: for a dead worker the death, or a later
application of a heartbeat of it by any manager; for a live one the election, or
a manager's catching up.  A restart of a manager, after which it applies the
whole log again, is in `RaftRestart` only.

The periods and time-outs are constants (5, 30, 2, 10 and 5 s in the code) with
`TimesAssumption`; the theorems hold for all of them and TLC checks a scaled
instance.

## 3. Runs

Three managers (node1 to node3) is the deployment of `run_tests_auto.sh`.
Bounds of `RaftNode`: `MaxTerm`, `MaxLogLen`, `MaxCalls` (calls and answers in
flight in the whole cluster).  `MaxTerm` ends behaviours, hence `CHECK_DEADLOCK
FALSE`; deadlock is checked in `discovery`, `timers`, `pool` and `monitor`.  `IdLess` is empty: ids are compared only when a leader hears of a
second leader of its own term, which `ElectionSafety` excludes, so symmetry is
sound.  The election proof holds for any `IdLess`.

| Run | Instance | Shows |
|---|---|---|
| `replication` | 3 managers, `BoundedSpec` | `TypeOK`, `ElectionSafety`, `ElectionInv` (elections without a timing assumption); `StateMachineSafety`, `MatchIndexSound`, `LeaderCompleteness`, `LogMatching`, `AppliedByMajority`, `CommittedStays`, `ImplementsReplicatedLog` |
| `catchup` | 2 managers, 2 calls, 3 terms with 2 entries or 2 terms with 3 | `StableLeaderCommits`: a follower with another leader's entries is repaired step by step, without a timing assumption |
| `discovery` | 2 role-changing threads, 2 workers, 2 descriptors | `NoSocketLeak`, `AcceptsCurrent`, `WorkerHeard`, `TypeOK`; both threads can be inside start and stop at once, and a descriptor is given again |
| `timers` | 3 threads of each timer | `OneChain`, `TimersAlive`, `LeaderKeepsBeating`, `SilenceMeansElections`, `TypeOK`: one armed, one late and one cancelled thread at once |
| `rpc` | 3 calls, one oversize, crashes, accept errors | `ImplementsLossyCall`, `CallReturns`, `ConnectionsServed`, `TypeOK`: two calls compete for the server's mutex while a third fails to parse |
| `pool` | 3 threads, 2 producers, 4 tasks | `NoLostWakeup`, `ImplementsTaskQueue`: more tasks than threads, both producers between unlock and notify |
| `table` | 2 managers, 2 workers, 3 commands of 29 | `LastWriterWins`, `TablesAgreeUntimed`, `TypeOK`: update, removal or replacement, and update again |
| `monitor` | 3 managers, 1 followed worker, times 2, 6, 1, 4 and 2 | `LiveWorkerRecovers`, `DeadWorkerDetected`, `LeaderKnowsLive`, `TypeOK`; two failures reach the cap of the back-off, 11 s the longest recovery |

`replication` searches several shapes at once (`MCRaftNode!SearchBounds`; terms /
entries / calls in flight), with one entry per call, so that an accepted call need
not reach the end of the follower's log (`raft_node.cpp:631`).  Without entries,
and without a timing assumption: 3/0/2, a node leads, loses and contends again
while old votes arrive, and 2/0/3.  Under `QuietStep`: 1/2/2, overlapping calls of
one leader; 2/1/2, of two leaders; 3/2/1, logs of different lengths that diverge
and are repaired, which takes a leader elected with an entry others lack; 4/1/1,
the old entry on a majority that is replaced, which takes four terms.  One shape's
terms together with another's calls are not explored; the theorems of section 4
have no such bounds.  `catchup` states its fairness of the bounded steps; the bounds
never stop a call or an answer of a leader that stays, since its log is no longer
than they allow.  With two managers no leader is sent a call of another, so
`parkAppendEntries` happens in `replication` only; the branch of a manager without
peers (`leadAlone`) is covered by the theorem `AloneApplied` and by no run.
In `monitor` all managers report in the same second; the
worker's attempts, deaths and elections fall anywhere between, so every distance
of a report to a heartbeat occurs.  Its times keep the order of the code's: the
period is half of the time-out of the report, the longest back-off exceeds it.

Each property is tested by a mutant, a plausible mistake in the code under which
TLC finds the property violated (`PROJECT.json`, `mutants`).

### Findings (runs that end in a violation)

* `restart` - "Persistent state (on stable storage)" (`raft_node.hpp:91`) is not
  persistent: a restarted manager votes twice and a term has two leaders.
* `stale_match` - "Find highest N where majority of matchIndex[i] >= N"
  (`raft_node.cpp:1025`) is evaluated on followers too, with the `matchIndex` of
  a former leadership.  The schedule ends with two managers that applied
  entries of different terms at one position.  It takes five managers: of three,
  the follower that holds an entry of the current term and the leader that sent it
  are a majority already, and `replication` finds no violation.
* `gap` - "Reject if term is older" (`raft_node.cpp:521`) is decided before
  `becomeFollower` releases the mutex (lines 273-275) and not again after it.  n1
  leads term 1 and has an entry; an AppendEntries of n2, leader of term 2, makes
  it step down and its handler enters the gap; the election timer's callback gets
  the mutex, n1 is elected in term 3; the handler goes on with the call of term 2
  and replaces the entry of n1, which leads (14 states).
* `overlap` - "Stopping discovery service (no longer leader)"
  (`raft_node.cpp:132`) need not happen: `becomeLeaderInternal` starts the
  service "AFTER releasing lock" (line 413), `becomeFollower` stops it likewise,
  and nothing keeps the two in order.  A leader that is deposed at once finds
  nothing to stop (line 127); its start comes after that, and the manager serves
  port 6000 for good although it never leads again.  Since the socket has
  SO_REUSEPORT (line 84), the kernel gives it a share of the workers' connections,
  which it answers NOT_LEADER.
  `ServiceStops` fails in a second way with a worker that connects
  (`Worker = {w1}`): start sets the flag (line 107) before it joins the old accept
  thread (line 117); if stop and start follow each other before that thread has
  looked at the flag, it goes on accepting under the descriptor it remembers, the
  join never returns, and every later stop waits for `discoveryMutex`, with the
  request handler that called it.  A third order, a new leader's start that finds
  the service "already running" (line 62) before the late stop of its last
  leadership ends it, leaves a leader without the service: hence the premise of
  `WorkerHeard`.

### What the properties leave open

The premises of the properties mark behaviour of the code that a reader should
know of; each was seen as a counterexample of the property without the premise.

* *Votes.*  A candidate that hears the leader of its own term forgets its vote
  (line 261) and may vote again in that term; `OneLeaderPerTerm` proves this
  harmless.
* *Late timers.*  A timer thread that waits for `mtx` starts an election although
  a heartbeat has reset the timer since (`timer.hpp:42`); `OneChain` shows that
  it sets no second chain going.
* *`accept()` errors.*  The first error ends the accept loop of the RPC server
  (`rpc.cpp:77`) while the kernel goes on completing connections that nobody
  serves: hence "or the accept loop is over" in `ConnectionsServed`.
* *Times in the table.*  `HEARTBEAT` stores the clock of the manager that applies
  it, so replicas differ in `last_seen` (hence *Untimed*), and a manager that
  catches up, or a new leader that commits an old heartbeat, makes a worker that
  has long been dead look alive.  There is no bound on the time from a worker's
  death to its last appearance as online; `DeadWorkerDetected` counts from the
  last application.
* *Back-off against time-out.*  A worker that fails once waits 7 s, twice 9 s,
  and is reported offline after 10: an outage of a second can get a live worker
  reported offline.  `LiveWorkerRecovers` bounds how long.
* *Everybody writes.*  Followers, and managers that are cut off, overwrite the
  leader's report (`main.cpp:18`): hence "nobody is cut off" in
  `LiveWorkerRecovers`.

## 4. Proofs

The theorems hold for every value of the constants that the modules' ASSUMEs
allow: any number of managers, workers, threads, terms, entries and calls, and
any periods and time-outs.  There are two further hypotheses, in the theorems that
name them: `QuietGap`, for logs and commits, and at most three managers, for
commits.

### Elections (`RaftNodeProofs`)

**TypeCorrect, AppliedCaughtUpCorrect.**  `TypeOK` is not inductive alone: that
the application loop stays inside the log needs `commitIndex <= lastApplied`
between critical sections, so `TypeInv` is `TypeOK /\ AppliedCaughtUp`.  The
lemmas give the types and ranges of the helpers (`AdvanceCommit`,
`MergeEntries`, `ApplyUpTo`, the calls and answers); then there is one step per
action.

**VotesFitTogether, OneLeaderPerTerm.**  The usual argument, a node votes once
per term, is not available, since `becomeFollower()` clears `votedFor` within a
term.  `ElectionInv` replaces it:

* `Granted(n, c, t)`: n's vote of term t is in flight to c or counted by c.
  `LockedTo(n, c, t)`: n is past term t, or in it with a vote for c.
* `VotesInv`: as long as term t has no leader, every granted vote is locked and no
  node's vote is granted to two.
* `BackedInv`: a leader of term t has a majority that is locked to it, none of
  whose votes of t are with anyone else.
* `CallsInv`, `RolesInv`: AppendEntries calls come from a leader of their term;
  candidates hold their own vote; who led a term does not stand in it again.

A vote is forgotten within a term only on a call of that term's leader.  A node
of the leader's majority is then not a candidate of the term, so it forgets
nothing, and others may vote again but two majorities meet (`MajoritiesMeet`,
from the cardinality theorems).  `VotesKeptPreserves`, `StepDown`, `CastVote`,
`Win` and `WinAlone` are the five kinds of steps; the remaining lemmas sort the
actions into them.

### Logs (`RaftNodeProofs`)

**LogsFitTogether, LogsMatch, MatchIndexBacked** assume `QuietGap` and hold for any number of managers.  `LogMatching` is not
inductive: a call in flight, a parked handler or an answer may spoil it later.
What is inductive speaks of one sequence per term, g[t], the log its leader had
when it last led; `LogsInv` says that such a g exists, so the specification needs
no history variable for it.

* `GapInv`: a handler in the gap belongs to a follower, and is the only one of
  its node.  This is where `QuietGap` enters.
* `Grounded`: up to an entry of term t, every log is g[t]; so are the g[t]
  themselves.  `Slice`: the entries of a call are a piece of g of its term.
* `Confirmed`: what an answer confirms, or `matchIndex` holds, is shared by the
  peer's log and g while the peer stays in the term, and no handler of an earlier
  leader is parked there to undo it.

`MergeFacts` says what the append loop does: the log then shares the leader's up
to the end of the call and loses nothing it shared before, since the conflict at
which it truncates is behind all the two share.  `Quiet`, `LogGrows` and `Tame`
sort the actions; `ReplicateLog` is the one step that may truncate.

**AloneApplied** needs no timing assumption.  A manager without peers has its
majority alone, so `AdvanceCommit` goes to the last entry of the current term;
inductive (`AloneInv`) is that it has applied its log and exchanges no
AppendEntries.

### Commits and the refinement (`RaftCommitProofs`)

**CommitsFitTogether** assumes `QuietGap` and at most three managers, the
deployment of `run_tests_auto.sh`.  The second hypothesis is the code's:
`applyStateMachine()` counts `matchIndex` on followers too, left from a former
leadership, and for five managers the conclusion is false (`stale_match`).  A
follower counts only when it takes over a `leaderCommit` and its last entry is of
the current term; of at most three managers it and the leader that sent the
entry are a majority, so what the follower commits is replicated whatever its
`matchIndex` says (`FollowerCommits`, the only place where the hypothesis is
used).

The textbook argument, "a committed entry is on a majority", is about logs as
they are now, and is not inductive: followers truncate.  `CommitsInv` says that
besides the leaders' logs g there are *acknowledgements* A: k is in A[p][t] if p
had the first k entries of the leader of t at some time in term t.  A grows only;
like g it exists in every reachable state and is no variable of the
specification.

* `AckInv`: p still has what it acknowledged to the leader of t unless a leader
  after t lacks it (`Carries`); `VotersInv`: behind every leader stands a majority
  that acknowledged nothing in earlier terms that the leader lacks.
* `Fixed`: a majority acknowledged an entry in the term of the leader that
  appended it.  The two majorities meet, so later leaders have it
  (`FixedCarried`: consider the first leader without it), so nobody truncates it.
* `UpToDate`, `CandidateInv`: a vote is given to a candidate whose log is as up to
  date as the voter's, so the candidate has what the voter acknowledged.  A handler
  that waited in the gap compares the log the voter has by then; if the voter has
  moved to a later term meanwhile, its answer carries that term and does not count.
* `SendInv`: what calls, answers, `nextIndex` and `matchIndex` say of a peer.  An
  empty call accepted by a follower does not check the rest of its log, and the
  answer counts up to `nextIdx - 1`; `Behind` says why this is right all the same:
  `nextIndex` comes back no further than the logs differ.
* `DoneInv`: what a manager has applied is the beginning of its log, and fixed.

There is one lemma per action (`...Commits`), and lemmas for what a step that does
not concern a part leaves as it was (`...Kept`).

**SameSubmissionsApplied, LeadersHaveApplied, MajorityHasApplied,
CommittedIsKept** follow from it: what two managers have applied is the beginning
of one leader's log, the later of the two; what is fixed stays in the logs of the
majority that acknowledged it; `CommittedStays` compares a state with the next and
uses the invariant in both.

**Refinement** shows `ImplementsReplicatedLog`, for at least one manager: a step
changes `applied` at one node and only extends it (`StepAdvances`), and the
longest of the applied sequences grows or stays (`AbstractStep`).

### The other components

**SocketsReleased, AcceptsFromCurrent, TypeCorrect** (`DiscoveryProofs`).
`NoSocketLeak` speaks of the moments the mutex is free; inductive is what the
holder has left undone at each of its places (`Holder`), that the holder is the
one thread between its two ends (`Exclusive`), and that flag, socket and
descriptor agree at rest (`AtRest`).  Given these, `AcceptsCurrent` is inductive:
with the flag set at rest there is a socket, so the thread finds no reason to
leave its loop, and a start does not reach rest before `join()` has seen the last
thread exit.  `TypeOK` also says that the backlog holds exactly the connections
that wait, each once; the lemmas are about appending to it and taking its head.

**TypeCorrect, SingleChain, NeverSilent** (`TimerProofs`).  `OneChain` follows
from `Chained`: only the newest thread of a timer sleeps with its flag set,
because `start` cancels the one before.  `TimersAlive` needs it too: the thread
that is disarmed by a late callback is the one the callback replaces.  Lemmas
say what `cancel`, `start`, `wake` and the end of a thread do to the armed and
pending threads; then there is one step per action.

**WakeupsKept, StartsInOrder** (`PoolProofs`).  `NoLostWakeup` is not inductive:
when a thread takes one task, somebody else must be on the way to the next.
`Covered` counts: while anybody sleeps, there are at most as many tasks queued
as threads about to look and producers about to notify.  `StartsInOrder` is the
refinement of `TaskQueue` without its fairness: `Carries` says that a thread has
a task exactly while it is busy; with it every step maps to `Enqueue`, `Start`,
`Finish` or a stutter.

**TypeCorrect, Refinement** (`RpcProofs`).  `Progress` ties the stage of a
connection to whether the handler has run; with it every step of the transport
is `Issue`, `Run`, `Return` or a stutter of `LossyCall`, crashes included.

**TypeCorrect, TablesAgree, LastWriter** (`StateMachineProofs`).  `ApplyFacts`
reduces the five handlers to three cases: store a state for one worker, remove
it, change nothing.  For `TablesAgreeUntimed` the induction over the history is
done by the behaviour: `AgreeInv` says there is a sequence of tables, one per
prefix of the history, and every manager's table is the one of its prefix,
`last_seen` apart; a submission extends the sequence and an application moves
along it.  `WriterInv` does the same for each member of each worker with the
definition `LastWriterWins` uses.

**TypeCorrect, WorkerRecovers, DeathDetected, LeaderInformed**
(`MonitorProofs`), for all times that satisfy `TimesAssumption`: a heartbeat
period is no longer than the longest back-off and than the time-out of the report.
Each bound is a sum of times that run down together: `Fresh` (a manager has a
heartbeat whose age and the time to the next add up to a period, or the worker
still sleeps off the outage), `ReportDue` (the report is right or the next one is
not yet due), `Aged` and `ReportOld` for the dead.  Every tick keeps the sums, and
the other actions restart them; `CommitStep` is the step in which heartbeats, late
ones too, are applied.

### Only model-checked

* Liveness under fairness, which is outside the proof system:
  `StableLeaderCommits`, `WorkerHeard`, `LeaderKeepsBeating`,
  `SilenceMeansElections`, `CallReturns`, `ConnectionsServed`, and the fairness
  part of `ImplementsTaskQueue`.
* The four findings are schedules TLC finds, of properties that fail: with
  restarts, with five managers, without `QuietGap`, and with starts and stops of
  the service that overtake each other.

## 5. Not modelled

* `common/json.hpp` is third-party (nlohmann/json) and 25526 of the 27794 lines,
  so the lines the map covers are a small share of all and most of the program's
  own.  The models use of it only that a part of a JSON text does not parse and
  that a value of another type throws.
* Logger (pure output) and `run_tests_auto.sh` (test driver).
* Destructors (`ThreadPool`, `Timer`, `RaftNode`, `JsonRpcServer`): `main()` does
  not return.  Wrappers nothing calls: `replicateLog`, `sendHeartbeats`,
  `becomeCandidate`, `becomeLeader`, `RaftRpc::portOf`, `RaftRpc::cleanup`.
* Queries of the state machine (`state_machine.cpp:165-258`): they change nothing,
  and only `queryAll` is used, by the report.
* Command lines of manager and worker; the 150 ms wait of `RaftRpc::init`; a
  `bind` of the RPC server that fails and ends the process.
* Two managers that write `workers.json` at the same time (each report is one
  step here), and how long heartbeats wait in the pool behind calls to a peer
  that holds every call for two seconds (eight threads, one queue): both need a
  finer model of time or of the file than the properties here.

## 6. Plan

1. Times in the pool (heartbeats behind hung calls) and the writing of the report
   file.
2. Commits of larger clusters for a variant of `applyStateMachine()` that counts
   only on leaders, to confirm that the stale `matchIndex` is the one obstacle:
   only `FollowerCommits` uses the bound on their number.
