# Verification of oxigeo's distributed core

TLA+ modules for the parts of oxigeo that are concurrent or distributed and keep
state that must stay consistent: the two leader elections and the replicated log
(`oxigeo-cluster`, `oxigeo-ha`), the task graph and scheduler, the circuit
breaker and bulkhead, the offline queue with its sync engine, and two replicated
data types. TLC checks them on small instances; TLAPS proves for instances of any size
every safety property that a passing run checks, and that the replicated log
implements its specification; each theorem's assumptions are named with it. Liveness stays with TLC.

The repository holds more than 3000 source files, most of them geospatial
algorithms, format drivers and bindings. Model checking has something to say
about the small part that is concurrent or distributed, so this project starts
there and works outwards (see *Plan*).

## Inventory

Paths are under `src/crates/`.

| Component | State | Operations | Hard behaviours | Modelled by |
|---|---|---|---|---|
| cluster coordinator (`oxigeo-cluster/src/coordinator.rs`, `transport.rs`) | term, role, leader, election flag and timer under one lock; votes per term under another; member map; running flag | coordinator loop (elections, vote collection, heartbeats), vote and heartbeat handlers, start/stop, (un)register | split votes, late and repeated RPCs, lock sections that are not one transaction, two loops after stop/start | `Coordinator`, `CoordinatorProofs` |
| HA log replication (`oxigeo-ha/src/failover/log_replication.rs`) | log, term, commit index, last applied under one lock; next/match index per follower; an applier | AppendEntries handler, append_and_replicate, replicate_round, commit, application | conflicts, leader change in mid round, applies outside the lock, lost answers | `ReplicatedLog`, `StateMachineReplication`, `ReplicatedLogProofs`, `ReplicatedLogSafetyProofs` |
| HA leader election (`failover/election.rs`, `transport.rs`) | term, role and vote in three separate locks | start_election, handle_vote_request, handle_vote_response, step_down | check-then-act across locks, terms that move while votes are counted | `HaElection`, `HaElectionProofs` |
| HA failover (`detection.rs`, `promotion.rs`, `client_redirect.rs`) | health per node, roles | promote, demote, graceful_handover | failure between the steps of a handover | not modelled |
| HA active-active replication (`replication/`) | replicas, batch, vector clock | replicate, flush, sync | lost batches, guards held across calls | not modelled |
| HA write-ahead log, recovery, backup, DR, health checks | files, segment counters | write_entry, rotate, restore | split critical sections around file I/O | not modelled |
| cluster task graph, scheduler, worker pool | tasks, edges, states; ready queue, worker queues, permits, load counters | submit, schedule, complete, fail, cancel, steal, prune, (un)register | late completions, removed workers, counters that drift | `TaskGraph`, `Scheduler`, `SchedulerProofs` |
| cluster fault tolerance | breaker state and four atomics; bulkhead permits, queue size, forced permits | allow, record, transition, force; acquire, release | counters reset between load and update, calls dropped half way | `Calls`, `CircuitBreaker`, `Bulkhead`, `ProtectedCalls`, `ProtectedCallsProofs` |
| cluster data replication | replica sets, worker health | create, read/write quorum, re-replicate | quorum when workers fail | not modelled |
| cache coherency (cluster, cache-advanced) | local caches, directory, invalidations | put, get, invalidate | directory and caches updated apart | not modelled |
| offline storage, queue and sync engine (`oxigeo-offline`) | records with versions, queue of operations, remote | write, delete, sync, retry, eviction | store and queue updated apart, crashes, concurrent syncs | `OfflineSync`, `OfflineSyncProofs` |
| sync CRDTs (`oxigeo-sync/src/crdt`, `vector_clock.rs`) | replicas' values, tombstones and clocks | insert, remove, clear, set, merge | copies merged late, again and in any order; convergence | `OrSet`, `OrSetProofs`, `LwwRegister` |
| resources, autoscaling, monitoring, streaming, distributed query, workflow, ETL, edge, messaging | | | | not reached |
| algorithms, projections, drivers, GPU, ML, bindings, servers, cloud backends | | | | out of scope: numeric code, file formats, I/O |

Interactions. The coordinator calls its peers through `NodeTransport`, which
dispatches into their `handle_vote_request` and `handle_heartbeat`. Scheduler
and replication are separate services of the same node that read nothing of the
election. In `oxigeo-ha`, `LeaderReplicator` calls a follower's `ReplicatedLog`
through `LogTransport`, and an embedder connects an election to the log with
`set_current_term` and `LeaderReplicator::new`; the crate itself never does.

What makes each part correct is listed per hazard in `PROJECT.json`: the
properties there were chosen from the list of hazards, not the reverse.

## The cluster coordinator

`Coordinator.tla` has one action per atomic section of `coordinator.rs`: what
runs under one acquisition of `state` or of `voted_for`.

* **Loops.** `pc[n][l]` is where a spawned `run_coordinator_loop` stands. A tick
  either does nothing (`TickIdle`), begins an election (`BeginElection`), or
  sends heartbeats (`SendHeartbeats`). An election is `BeginElection` (the
  timer and `total_members` are read), `RefuseElection` or `BecomeCandidate`
  (term + 1), `RequestVotes` (the own vote is recorded, requests go out),
  `CountVotes` or `AbandonElection` (answers are in, or timed out),
  `BecomeLeader` or `LoseElection`.
* **Handlers.** A vote request is handled in two sections, under `state`
  (`RejectVoteRequest`, `AcceptVoteRequest`) and under `voted_for` (`CastVote`);
  `ballots` holds what is between them. Heartbeats are one section
  (`RejectHeartbeat`, `FollowLeader`).
* **Messages** are sets that only grow, so a request or an answer can arrive
  late, twice or never. Refusals in the candidate's own term and plain
  acknowledgements change nothing at the receiver and are left out.
* **Time** is one bit: `fresh[n]` says a leader heartbeat was heard less than
  `election_timeout` ago, and `ElectionTimeout` clears it.
* **Crashes.** A node that takes no more steps has crashed. A restarted process
  draws a new `NodeId` and is a new node.
* **Runtime.** With `MultiThreaded = FALSE` a task keeps its node's thread from
  one await to the next (`cpu`), as on tokio's current_thread runtime; with
  `TRUE` any two sections interleave.
* **Left out:** `check_member_health` and the member statuses (nothing in an
  election reads them), the configuration store, statistics.

| Run | Instance | Shows |
|---|---|---|
| `coordinator_election` | 3 nodes (2 stand for election), 2 terms, one loop each, fairness | one vote a term; a leader has a majority; leaders are known consistently; every candidacy ends; of two leaders the older gives way |
| `coordinator_lifecycle` | 2 nodes, 2 loops, 3 terms; one node is stopped and restarted, and each may or may not know of the other; `min_cluster_size` 2 | one leader a term while the nodes know different members; who becomes leader was a candidate of its term until then, although an old loop outlives its stop and both loops of a node are in elections at once |
| `coordinator_double_vote` | multi-thread runtime | **violated:** a node's vote is overwritten (finding) |

Bounds. Three nodes give every two majorities a node in common that is neither
candidate; two terms let an election race with the leader of the term before
and with late messages of it. Candidates stop at `MaxTerm`, which cuts runs
off and never enables anything. Two loops are what stop and start can overlap
before the first loop sees the flag again, and three terms let both of them be in
elections, one that the other has overtaken. Either node may be unaware of the
other: without the guard on `min_cluster_size` each would elect itself in the
same term. Members come and go at a node in its terms up to `ChurnTerm`, which is
1: before the first election, during it while the candidate awaits votes, and
between the first two; the proofs are for any `ChurnTerm`. `View` identifies
states that differ in what an ended election left in a loop's local variables.
All these runs check deadlock, and all but `coordinator_double_vote` are on one
thread, where the two sections of a vote handler are never separated by another
handler.

The embedder registers and unregisters peers only (`PeersOnly`):
`register_member` would also accept the node's own id and then count its own vote
twice. The code's comments and tests register peers, so this is an assumption of
the theorems and is not checked.

Fairness (`coordinator_election`). A loop's task goes on while it can (tokio polls
a woken task, sleeps and timeouts elapse); a ballot that waits between its two
sections is cast; and a leader's heartbeats are heard sooner or later by every
other node (`LeaderHeard`), which is what makes a stale leader find out. That
somebody is elected is *not* claimed: nothing randomises election timeouts, so
candidates may split the vote for ever.

### Proofs (`CoordinatorProofs.tla`)

For any sets of nodes and loops, any `MinClusterSize` and any `MaxTerm`:

* `TypeCorrect`: `Spec => []TypeOK`, on either runtime.
* Under `~MultiThreaded`, `SoundSizes` and `PeersOnly`: `OneVote` (`SingleVotePerTerm`),
  `Safety` (`ElectionSafety`), `Agreement` (`LeaderAgreement`), `Backed`
  (`LeaderBacked`), `Winners` (`LeadsAsCandidate`).

`SoundSizes` says that the views of the membership do not change, or that
`min_cluster_size` is a majority of the cluster. Without it two nodes that know
of different members could each win with what it takes for a majority.
`~MultiThreaded` is needed: the violation run is what happens without it, and
`LeadsAsCandidate` fails there too, because `start_election` checks that it is
still a candidate (452-457) before `become_leader` takes the lock (623).

The argument. `ElectionSafety` is not inductive. `IInv` adds

1. `LoopsKeepThread`: between two awaits a loop keeps its thread, so nothing
   comes between raising the term and recording the own vote;
2. `PeersAreOthers`: a node never counts itself twice (from `PeersOnly`);
3. `VotesAreForTermsReached`: nobody has voted in a term it has not reached,
   so a candidate that has raised its term finds its record for it empty;
4. `SingleVotePerTerm`: an answer that granted a vote agrees with the voter's
   record for ever;
5. `ElectionsAreSound`: an election asks for a real majority, and is won only
   with that majority on record;
6. `LeaderBacked`, `LeadersAreElected`: leaders, leaders that are known and
   senders of heartbeats all have a majority of the votes of their term.

Votes on record never change (`VotesFinal`), so majorities only grow
(`MajorityGrows`), and two majorities have a voter in common
(`MajoritiesMeet`), which has voted once. That `IInv` holds on the checked
instances is implied by the theorems; liveness stays with TLC.

## The replicated log

`ReplicatedLog.tla` has one action per section of `log_replication.rs` under
the log's `state` lock. `drv[n]` is the leader's task in `append_and_replicate`
or `replicate_round`: it sends to one follower after the other (`Send`), waits,
and deals with the answer (`AdoptTerm`, `FollowerAccepts`, `FollowerRefuses`)
or with a failed call (`CallFails`), then determines the new commit index
(`ChooseCommit`), commits (`LeaderCommit`), applies and ends the round
(`EndRound`), which may start a second one. `AppendEntries`, `RefuseStale` and
`RefuseMismatch` are the three outcomes of `handle_append_entries`; the entries
taken for application become a task that applies them one by one
(`ApplyEntry`, `ApplyFails`) outside the lock, after which the answer leaves.

Requests are kept for ever, so they may be handled late, repeatedly or never; an
answer reaches a leader that still waits for that request. The order in which a
round visits the followers is arbitrary (in the code it is the order of a `Vec`
the embedder passes). An entry's payload is the leader that appended it. The
two reads of the commit index before a round are taken with the append.

**External.** The crate has no election for the log. `TakeLead` and
`LoseElection` are an embedder that does everything right: a term is won once,
by a majority whose logs hold nothing newer; the voters pass the term to their
logs with `set_current_term` and drop the replicator they had; a leader appends
only while its log is in the term it won; one driver call runs at a time. Four
constants say what more is asked of it:

* `Handover`: a new leader starts only when the older ones have stopped;
* `Concurrent`: append handlers of one node may overlap;
* `ApplyErrors`: the applier may fail;
* `Eager`: `replicate_round` is called before the first append of a term.

`StateMachineReplication.tla` is what the log promises: commands are chosen in
one order for good, every node applies a prefix of them, one by one, and a
client is told of success only for a chosen command. `Refines` maps `chosen` to
the committed log of the node that has committed the most.

| Run | Instance | Shows |
|---|---|---|
| `replicated_log_safety` | 3 nodes, 2 terms, 2 entries, a heartbeat per leadership, `Handover` | committed logs agree and are on a majority; answered commands are kept; match indices are true; refines `StateMachineReplication`, so chosen commands stay chosen and are applied in order |
| `replicated_log_live` | 2 nodes, 2 terms, 2 entries, two heartbeats per leadership, overlapping handlers, failing applies, eager heartbeats, no `Handover`, fairness | every round ends; no index is applied twice |
| `replicated_log_stale_leader` | no `Handover` | **violated:** a stale leader goes on in a term it did not win (finding) |

So the log is a correct state machine replication under four conditions that
the code neither enforces nor documents. The violation run drops the first. With
the others dropped TLC finds as well:

* with `Concurrent`, `Refines` fails: `handle_append_entries` takes the committed
  entries under the lock (267-277) and applies them after releasing it (287), so
  a handler that came later may apply first, where the module's documentation
  (14-15) says "exactly once and in order". `NeverAppliedTwice` is what remains;
* with `Eager`, `MatchIsReplicated` fails: a success reply tells the follower's
  last index (282), whatever the request covered, and a heartbeat before the
  first append of a term makes a leader believe in a suffix it never sent;
* with `ApplyErrors`, entries that an applier refused are never applied on that
  node, because `last_applied` has moved by the time it is called.

Bounds. Two terms and two entries are the least in which a follower has a
stale suffix, a conflict is truncated, a back-off takes several steps and a
commit skips over an entry. Each append replicates in up to two rounds; one more
round of its own (`MaxBeats`) is a retry after lost calls, or carries a commit
index that was not told. Three terms, where an entry of an old term is
replicated by a second leader and overwritten by a third, do not fit the time a
run has; the proofs cover them. Nor do three nodes without `Handover`: with the
two of `replicated_log_live` every majority is both nodes, so a new leader has
always dropped the older one's replicator, and what is left of the older term are
late requests, handlers and applies, and a leader whose peer voted in a term
nobody won. The system stops when the terms and the log
are used up, so these runs do not check deadlock.

Fairness (`replicated_log_live`). An awaited call returns or fails, and so does
an applier, so the leader's and the appliers' tasks go on while they can.
Nothing is assumed of the network or of elections.

**Left out:** a log without an applier (entries are dropped with a warning),
persistence (the code has none: a restarted node starts empty), concurrent
calls on one `LeaderReplicator`.

### Proofs (`ReplicatedLogProofs.tla`, `ReplicatedLogSafetyProofs.tla`)

For any finite set of nodes and any number of terms, entries and heartbeats:

* in every mode, `TypeCorrect` (`TypeOK`) and `AppliedOnce`
  (`NeverAppliedTwice`), also with stale leaders, overlapping handlers and an
  applier that fails;
* under `Handover` and `~Eager`, `CommittedLogsAgree` (`CommittedAgree`),
  `CommittedIsOnMajority` (`CommittedOnMajority`), `AnsweredEntriesAreKept`
  (`AnsweredIsKept`), `MatchedIsReplicated` (`MatchIsReplicated`) and
  `CommittedEntriesStay`: no step removes or replaces an entry that its node has
  committed (an action property that no run checks separately, since `Refines`
  implies it for the chosen log);
* under these and `~Concurrent`, `~ApplyErrors` and `Node # {}`,
  `LogImplementsStateMachine` (`Refines`).

The assumptions are the conditions above; the violation run and the list under it
show what goes wrong without them. `NoCallAssumption` fixes the value
that stands for "no call" to be none of the others, so that a driver's stage is
told from its record. Model values satisfy it.

The argument for the safety of commits. No property is inductive, and neither is
any conjunction of facts about the present logs: an entry of an old term may be
on a majority and still be overwritten, and what makes a committed one safe is
what former leaders' logs were. `SafeInv` therefore says that a history exists:
`L[t]`, the log the winner of term `t` has had so far; `W`, the latest term that
was won; `K`, the longest log that was ever committed, in term `kt`. Then

1. every log, and the prefix that every request carries, is rooted in `L`: up to
   each of its entries it is the log of the leader of that entry's term
   (`Rooted`, log matching);
2. a majority holds `K` and has reached `kt`, and the logs of all leaders since
   then extend it (`ChosenOK`); so the winner of a later term, whose voters'
   logs hold nothing newer than its own, has `K` too (leader completeness);
3. what a leader counts is true: its match indices, the answers on their way to
   it, and the index it has decided to commit, whose entry is of its own term
   (`LeaderOK`, `RoundOK`, `AwaitOK`, `DecidedOK`);
4. every node's committed log is a prefix of `K` (`CommitOK`), and so is what
   was answered (`ToldOK`).

Each action gives the history after it: `TakeLead` sets `L` for its term and those
after it, an append extends the log of the leader's term, `LeaderCommit` may
extend `K`, the others leave it as it was. For the refinement, `ReplayInv` adds
that with one handler and one round at a time `last_applied` equals the commit
index, and that what is applied, followed by what the task under way still has to
apply, is the committed log. A step then maps to a choice, an application, an
answer, or nothing.

`RoundsEnd` is liveness and stays with TLC; `OnlyWinnersReplicate` is false
without `Handover`, which is the finding.

## The election of the high-availability crate

`HaElection.tla` follows `failover/election.rs` on a current_thread runtime,
where a task keeps its node from one await to the next (`Free`). A call of
`start_election` on node `n` in slot `c` is `StartElection` (term, role, own
vote, the votes of other calls are cleared, requests leave), `CollectAnswers`
(`join_all` is done: any answers to this term have come, at most one of each
peer), `CountAnswer` (`handle_vote_response`, one answer after the other) and
`EndElection`. A vote request is `Refuse` or `GrantVote`. `Abandon` is an embedder
that drops the future. Messages are sets that only grow. `won` remembers each
election that was won with the term it asked votes for and the term it reports.

`mode`, which `Init` chooses for good, says which nodes start elections, in how
many slots at once, and whether leaders step down.

| Run | Instance | Shows |
|---|---|---|
| `ha_election` | 3 nodes, 2 terms; all nodes start elections, or two of them two at once, or one that also steps down | no node votes twice in a term; a term has one leader that asked votes for it; a leader has its votes, whatever other calls do to them |

The first two are claimed while nobody steps down (`Calm`), and the second of
them for elections that end in the term they asked votes for. What is left out by
that goes wrong, on one thread and without failures:

* a candidate counts what it has and does not look at its term again. An answer
  of a newer term makes it adopt that term (334-339), the loop goes on (243-245),
  and with a majority it leads a term that gave it no vote (262-265):
  TLC finds `WinnersHaveQuorum` violated when it is added to `HaElection.cfg`;
* `step_down` (355) clears the vote and stays in the term, so a former leader
  votes a second time in it: add `VotesAreKept` to see it.

`election.rs` (8-11) tells embedders to compose this election with
`ReplicatedLog`: it does not give the log the one thing `ReplicatedLog.tla`
assumes of it, a winner per term. Nodes do not go on after `MaxTerm`, so the run
does not check deadlock.

**Left out:** a runtime of several threads, where every method is a series of
separate locks: two requests of one term may both read `voted_for` (313) before
either writes it (317), and another call may clear the votes (187) after they
were counted (255) and before the role is written (264). Also `become_leader`
(for tests and manual promotion), nodes without a transport, `election_state`, and
nodes that know different peers.

**Proved** (`HaElectionProofs.tla`), for any number of nodes, slots and terms:
`TypeCorrect` and `LeadersKeepVotes` in every mode (all of them on one thread);
`OneVote` and `OneLeader`, which say something while nobody steps down. The last
two rest on `VoteInv`, which adds to `VotesAreKept`: requests and granted votes
belong to no term the node has not reached, and those of its present term are on
its record (`RequestSound`, `GrantSound`); the votes a call counts in the term it
asked for were granted (`CallSound`); who won that term has a majority of voters
(`WonSound`). `VoterHasVoted` then says that a voter of the present term can vote
for nobody else, and `MajoritiesMeet` that two winners would share a voter.

## The task graph and the scheduler

`TaskGraph.tla` is `task_graph.rs`: tasks, edges, status, and the dependents that
become ready when the last dependency completes. `Scheduler.tla` EXTENDS it with
`scheduler/core.rs`: the queue, assignments, worker queues and load counters. A
call of the scheduler does not await while it changes state, so each is an
action: `SubmitTask`; an iteration of the loop, which drops an entry that is no
longer ready (`DropEntry`), assigns the task (`AssignTask`) or puts it back
(`SelectionFails`); `StealTask`; and the reports of workers and users. Which
worker a selection yields is free, since load, health, registrations and usage
reports may make it any.

| Run | Instance | Shows |
|---|---|---|
| `scheduler` | 5 tasks, 2 workers, steal threshold 2, in four modes: all stealing; 4 tasks with cancellation and pruning; 3 tasks with dependencies and every other call; 2 tasks that may be submitted again | no task runs before what it depends on; no cycles; whoever is told of a completion is in the graph; a task is in the queue of its worker and in no other; no ready task that was submitted as Ready and has no dependencies is lost |

Tasks are submitted with the status Ready or Pending, whatever their
dependencies: `submit_task` goes by the status in the caller's own copy, the
graph by the dependencies. An id is submitted again only as a retry, once it has
ended or was pruned, nobody works on it, and with the dependencies it had. (The
code would accept any, and overwrite a task that runs.) Retries do away with the
two properties about places and counts: a task that failed stays in the queue of
its worker, and is in two queues after the retry. They are stated for tasks
submitted once (`Once`), the one about counts (`CountsMatchAssignments`, which is
proved and in no run) also without stealing, since `perform_work_stealing` moves
ended tasks too and counts them.

Bounds. Five tasks let one worker have three more than another after one of its
own has ended, so a task that has ended is stolen. Two attempts of two tasks let
one be pruned and submitted again while the other depends on it. Load counters
wrap at `CountMax` = 7, more than there are tasks. The run ends when all tasks are
used, so it does not check deadlock.

**Where the code breaks what it says.** TLC finds these two violated when they are
added to `Scheduler.cfg`:

* `ReadyIsQueued`. "Add to queue if ready" (`core.rs` 289) looks at the status in
  the caller's copy, while `add_task` (229-232) sets the graph's by the
  dependencies. A task without dependencies that is submitted as `Pending`, which
  is how the crate's README (61-67, 122-140) writes it, is `Ready` ("ready to be
  scheduled", `task_graph.rs` 135) and in no queue; and so is a dependent that
  `update_dependents` (429) makes `Ready`, although `core.rs` 7 lists "task
  dependency resolution". `ClaimedIsQueued` is what holds.
* `EndedIsUnqueued`. "Remove from worker queue and assignment" (`core.rs` 615, 643)
  is done for the assignment and the count only; `cancel_task` alone (674-677)
  removes from the worker's queue. Stealing then moves ended tasks.

**What the code does besides.** A task whose dependencies have already completed when it is
added stays `Pending`; pruning strands dependents, for which a completed
dependency has to be in the graph; and tasks of a worker that is removed are not
rescheduled. On these no text of the repository promises otherwise: they are
notes.

**Left out:** backpressure permits (given back before the task is queued; with
`enable_backpressure = false` the constructor asks the semaphore for more
permits than tokio allows and panics), metrics, the shards of the DashMaps (see
the hazard at `core.rs:552`), and a multi-thread runtime.

**Proved** (`SchedulerProofs.tla`), for any tasks, workers, threshold and mode:
`TypeCorrect`; `QueuedWhereAssigned` (a task that waits or runs is in one queue
once, from an invariant about what submitted, assigned and queued tasks can be);
`CountsAreExact` (if the counter is wide enough); `AfterDependencies` (a task
waits for each dependency that has not completed); `NoneIsLost`
(`ClaimedIsQueued`); `AllAreTold` (`DependentsArePresent`, from the fact that the
two sides of the graph's records agree, which takes the assumption that a task in
the graph is submitted again with its own dependencies); `NoCycles`. The last is
about reachability, which is defined by closed sets of tasks instead of by
recursion: an edge closes a cycle only if its target reaches its source, and the
code's search finds that. What `VecDeque::retain` leaves of a queue is
defined by the ranks of the positions that stay, since a recursive definition
could not be proved about (`Ranked`, `Retained`).

## Fault tolerance

`CircuitBreaker.tla` has one action per atomic access of `circuit_breaker.rs`
(state lock, failure, success and half-open counters), `Bulkhead.tla` one per
access of `bulkhead.rs` (queue size, semaphore, timeouts). `Calls.tla` declares
what they share, the calls. `ProtectedCalls.tla` composes them: a bulkhead around
a breaker around a timeout around the operation. The crate documents the three
separately, so the composition is this project's assumption of how a service uses
them.

| Run | Instance | Shows |
|---|---|---|
| `protected_calls` | 3 callers, thresholds of 2, one trial, 2 permits, one place in the queue; in five modes | half-open trials are bounded; a half-open circuit has room for a trial; a closed circuit is below its threshold; the queue size is exact; the circuit recovers with the service |

The modes: three callers on one thread; callers that give up; an operator who
forces or resets the breaker, with and without operations that end before the
circuit resets (`drains`); and several threads. Each property names the modes it
is claimed for, because in the others it does not hold:

* with threads, `transition` may be entered twice on the same reading of the
  elapsed time (296-306), and the half-open counter wraps;
* without `drains`, a call from before the circuit opened ends after it is
  half-open, lowers a counter it never raised, and wraps it. The default timeout
  and `open_duration` are both 30 s, so `drains` is the default; an adaptive
  timeout of up to 300 s is not;
* with `cancels`, a dropped call keeps its half-open slot and its place in
  `queue_size`, since neither has a guard.

Fairness. Every call that can go on does so sooner or later; it is strong
fairness, because the thread is now free and now taken. Time passes, and callers
keep calling: the breaker moves only when it is called.

**Left out:** the failure window (the code stores it and never uses it for
opening), metrics, priorities, and `auto_reset = false`.

**Proved** (`ProtectedCallsProofs.tla`), for any number of calls, thresholds,
permits and interventions: `ProtectedTypesHold`, `QueueIsExact`,
`ConcurrencyStaysLimited` (no more calls hold a permit than there are, also when
a permit is handed to one that times out), `TrialsStayBounded`,
`BreakerNeverWedged` and `ClosedStaysBelow`. The mode is part of each property,
so the theorems hold in every mode and say something in those it names. The
inductive invariant `CallsInv` has a conjunct for each:

* `BulkheadInv`: permits and the calls that hold one add up; `queue_size` is at
  least the number of queued calls, and equal to it if nobody gives up; every
  waiter of the semaphore is a call that waits, once. Without the last, a permit
  could be handed to a call that is gone;
* on one thread, `SectionInv`: one call at most is between two awaits, and it
  decides on a state that is still the circuit's. A closed circuit has reached
  its threshold only while the call that raised the counter to it is about to
  open it;
* on one thread with `drains`, `TrialInv`: when the open time has passed no
  admitted call is left, so the circuit turns half-open with every slot free; from
  then on each call that runs was admitted to the half-open state and is counted
  in `half_open_requests`, which is exact if nobody gives up. So its decrement
  never wraps, and the read that precedes an increment is still true.

`Recovers` is liveness and stays with TLC.

## Offline queue and sync

`OfflineSync.tla` is `manager.rs`, `queue.rs`, `sync.rs`, `retry.rs` and the
SQLite back end of `oxigeo-offline`: writers (`Write`, `ReadForUpdate`, `Update`,
then `CheckSize` and `Enqueue`), syncs (`StartSync` reads a batch, `PushSucceeds`
or `PushFails`, then `Dequeue`, `Requeue` or `GiveUp`), age limits (`Prune`),
crashes that keep the tables and lose the calls, syncs that are cut short, and a
remote that fails and recovers.

| Run | Instance | Shows |
|---|---|---|
| `offline_sync` | one record key, 2 writers, 2 syncs, queue of 2, batches of 2, 1 retry, 3 operations, 1 crash, in four modes | nothing accepted is dropped early; the queue is bounded; the remote never goes back in the orderly case; the queue drains when the remote answers and `sync()` is called again and again |

The modes are one writer and one sync; the same with a failing remote and
operations created in one second; two syncs at once; two writers at once.

**Where the code breaks what it says.**

* `BackgroundSync`. `lib.rs` 13 and the crate's README 19 promise automatic sync
  when connectivity is restored, `config.rs` 34 an automatic sync interval.
  `auto_sync_interval_secs` is read by an accessor that nobody calls, and `sync()`
  is driven by its caller (`TODO.md` 18-34). With `SPECIFICATION FairSpec` and this
  property in `OfflineSync.cfg`, TLC shows operations that were queued while the
  remote was away and that nobody syncs when it is back.
* `QueueWithinLimit`. `config.rs` 10 calls `max_queue_size` the "maximum size of sync
  queue"; two writers that both look at the size (`queue.rs` 25) before either
  inserts (34) exceed it. TLC shows it when the invariant is added;
  `QueueIsBounded` says by how much at most.

**What the code does besides.** A delete never queues an operation,
and a write that finds the queue full returns an error and keeps the record,
although the crate's documentation leads deletes into the queue as well
(`README.md` 177-183) and says of writes that they are "automatically queued for
sync" (`lib.rs` 42); the first is plain to see in `manager.rs` (145) and the second
is an error the caller is told of, so no run was made of them. A failed operation
is requeued behind nothing, so later ones of its record overtake it and the remote
goes back when it is pushed again; concurrent syncs push old versions again; two
updates at once lose one of them and produce equal versions; sync uses neither the
conflict detector nor the merge engine.

Fairness. A sync under way goes on while it can: pushes and storage answer
(`FairSpec`). That is all the crate does. `offline_sync` adds that the program around
the crate calls `sync()` again and again while something is queued
(`CalledSpec`). The system stops when its operations are used up, so the run
does not check deadlock.

**Left out:** the IndexedDB back end of wasm, `clear_all`, priorities, storage
errors other than as a sync that is cut short, and a push that is in flight when
its caller crashes or is dropped and reaches the remote after later ones: here it
has arrived by then, or never does.

**Proved** (`OfflineSyncProofs.tla`), for any number of records, writers, syncs,
operations and crashes: `TypeCorrect`, `DroppedOnlyWhenDue`, `QueueStaysBounded`,
`RemoteNeverGoesBack`.
The first adds what a call under way knows of the operation it works on (`Sound`).
The second adds that a retry count, in the table or in a batch, is at most the
number of syncs in which the operation failed, that a sync about to dequeue has
pushed, and that one about to requeue has failed once more (`Owing`). The third
adds that the queue and the writers that have looked at its size are together
fewer than the limit and the writers (`Bounded`). The fourth is about steps: a
push never lowers a version (`NeverGoesBack`). In the orderly case, where there
is one writer and one sync, `OrderInv` says that a later version of a record is a
later operation (`VersionsGrow`), that the writer has read the latest
(`OneWriter`), and that a batch is in the order of creation, everything delivered
is no newer than all that is in the batch and the queue, and the remote has the
version of something delivered (`OneSync`). So what is pushed again after a crash
is what was pushed last. `Drains` is liveness and stays with TLC.

## Replicated data types

`OrSet.tla` is `crdt/or_set.rs`: a set on each device, with `Insert`, `Remove`,
`Clear` and `Merge`. An element's entry is the set of identifiers its insertions
drew; `{}` stands for no entry. Identifiers are numbers that are drawn in order,
which stands for UUIDs that never collide. `copies` keeps every value any replica
has had, and `Merge` takes any of them: the embedder moves copies between devices
and calls `SyncCoordinator::sync_crdt`, late, twice or never. Beside its code's
state a set carries `adds`, the insertions it has heard of, and `removed`, those
that a removal it has heard of had seen, from which the properties say what it
ought to hold.

`LwwRegister.tla` is `crdt/lww_register.rs` with `vector_clock.rs`: `Set` counts
for the owner of the clock, and `Merge` compares the clocks, adopts the other
register, breaks a tie by device or keeps its own value.

| Run | Instance | Shows |
|---|---|---|
| `or_set` | 3 devices, 2 elements, 2 insertions, fairness | a set holds what was inserted and not removed, as far as it has heard; merging each with each makes all alike for good |
| `lww_register` | 2 devices, 3 writes | **violated:** devices that all writes have reached keep different values (finding) |

Bounds. Two insertions are enough for one that a removal has seen beside one of
the same element that it has not; three devices let both reach a third in either
order, with old copies in between. Removals need no bound, since each takes
identifiers that are not drawn again. The register fails with the two devices
and three writes that the finding needs.

Fairness. The embedder merges each device's set, as it then is, into each other
one, again and again. Devices may go on to change their sets; what ends that is
the bound on insertions, so `EventuallyAlike` says that sets become alike after
the last change.

**Left out:** the two counters (a maximum per device), `dominated_by` and
`set_with_clock` (nothing but tests calls them), `set_device_id`, overflow
of a clock, Merkle trees, delta encoding, operational transformation and the
session records of the sync coordinator. `insert` is documented to return false
for an element that is present and returns true, as each insertion draws a new
identifier; nothing in the crate uses the result.

**Proved** (`OrSetProofs.tla`), for any devices, elements and number of
insertions: `TypeCorrect`, `RemovalsAreObserved` (`HoldsWhatWasSeen`) and, from
it, `SameNewsSameContents`: two sets that have heard of the same insertions and
removals show the same elements, the property in which the register fails. The
invariant speaks of every copy there ever was: its tombstones are the insertions
that were seen removed, an entry and the tombstones account for all insertions of
the element (`Sound`), and no identifier belongs to two elements (`Apart`), so
that a removal leaves the entries of the others alive. Each operation is a lemma
about the value it returns. Convergence under fairness stays with TLC.

## Hazards without a property

`PROJECT.json` lists them with the reason: the component is not modelled
(`graceful_handover`, active-active replication, the cache directory), the model
does not go down to where the hazard is (the shards of a map, several threads in
the election of `oxigeo-ha`), or the code plainly does what the hazard says.

## Not modelled

* **Handover, active-active replication, cluster data replication, the cache
  directory:** concurrent, small, and next in the plan.
* **Write-ahead log, backup and recovery:** critical sections around file I/O;
  worth modelling as far as rotation against writers goes.
* **Distributed query execution, streaming, workflow, ETL, edge, messaging:**
  larger services, mostly pipelines over external brokers, not read closely.
* **Algorithms, projections, drivers, GPU, machine learning, bindings, servers,
  cloud backends:** most of the repository. Floating point, byte formats and I/O
  are out of TLC's reach.

The finished part stands for well under one per cent of the repository's lines;
it covers what in them is a protocol.

## Plan

1. `Handover` (the steps of `graceful_handover` and a failure at each),
   `ActiveActive` (batches, failed replicas), `CacheDirectory`.
2. Adding the two replicated counters to the machinery of `OrSet`.
3. What of the replicated log's safety survives without each of its conditions,
   by proof: without `Eager` heartbeats excluded, for example, the agreement of
   committed logs may still hold where match indices are wrong.
4. An abstract specification of the bulkhead (a bounded set of callers inside)
   and of the offline queue (a log of operations), with refinements.

## Running

    tlc -config Coordinator_election.cfg MC_Coordinator
    tlapm CoordinatorProofs.tla

Each run of `PROJECT.json` names its module and configuration. A run takes
seconds up to two minutes, the proofs of a module about as long, those of
`ReplicatedLogSafetyProofs` some minutes more.
