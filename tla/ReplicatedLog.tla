--------------------------- MODULE ReplicatedLog ---------------------------
(***************************************************************************)
(* The replicated log of oxigeo-ha: followers (ReplicatedLog) and leaders  *)
(* (LeaderReplicator), crates/oxigeo-ha/src/failover/log_replication.rs.   *)
(*                                                                         *)
(* Every action is what runs under one acquisition of a log's `state` lock *)
(* (with the accesses to `progress` next to it): on tokio's multi-thread   *)
(* runtime the sections of a node's tasks interleave freely.  Requests may *)
(* be late, lost or repeated, calls may fail, and a node that takes no     *)
(* more steps has crashed.                                                 *)
(*                                                                         *)
(* The log has no election of its own: whoever embeds it tells the winner  *)
(* (set_current_term, LeaderReplicator::new).  TakeLead is that embedder,  *)
(* and it keeps Raft's rules: a term is won once, with a majority whose    *)
(* logs hold nothing newer and who stop listening to older terms.          *)
(***************************************************************************)
EXTENDS Integers, Sequences, FiniteSets, SequencesExt, FiniteSetsExt

CONSTANTS
    Node,           \* ids of the nodes, each with a log
    NoNode,         \* nobody
    NoCall,         \* no request or reply is pending
    MaxTerm,        \* bound on the terms won
    MaxLog,         \* bound on the length of a leader's log
    MaxBeats,       \* bound on the heartbeats of one leadership
    Handover,       \* a new leader starts only when the older ones have stopped
    Concurrent,     \* a node's append handlers overlap while they apply entries
    ApplyErrors,    \* the LogApplier may fail
    Eager           \* replicate_round is called before the first append of a term

ASSUME NodeAssumption  == IsFiniteSet(Node) /\ NoNode \notin Node
ASSUME BoundAssumption == {MaxTerm, MaxLog, MaxBeats} \subseteq Nat
ASSUME ModeAssumption  == {Handover, Concurrent, ApplyErrors, Eager} \subseteq BOOLEAN

VARIABLES
    log, term, commit, lastApplied,  \* LogState, under the state lock
    applied,       \* the entries the LogApplier was given, in order
    tasks,         \* per node: entries being applied outside the lock
    next, match,   \* per leader and follower: FollowerProgress
    drv,           \* per node: what its LeaderReplicator is doing
    reqs,          \* AppendEntries requests ever sent
    polls,         \* the latest term in which an election was held
    winner,        \* term -> the node that won it, if any
    answered       \* entries append_and_replicate returned Ok for

logVars    == <<log, term, commit, lastApplied>>
leaderVars == <<next, match, drv>>
vars == <<logVars, applied, tasks, leaderVars, reqs, polls, winner, answered>>

Term  == 0 .. MaxTerm
Index == 0 .. MaxLog
Entry == [term : Term, index : 1 .. MaxLog, data : Node]  \* data: whose command
Req   == [term : Term, leader : Node, to : Node, prevIndex : Index, prevTerm : Term,
          entries : Seq(Entry), commit : Index]
Resp  == [term : Term, success : BOOLEAN, match : Index]
Task  == [todo : Seq(Entry), call : Req \cup {NoCall}, resp : Resp \cup {NoCall}]

(* A request, a reply or a command is something.                            *)
ASSUME NoCallAssumption == NoCall \notin Req \cup Resp \cup Entry

Label == {"off", "idle", "send", "wait", "commit", "apply", "end"}
Off   == [pc |-> "off", todo |-> {}, peer |-> NoNode, call |-> NoCall, resp |-> NoCall,
          commit |-> 0, mine |-> NoCall, before |-> 0, round |-> 0, target |-> 0, beats |-> 0]

Progress(i) == [f \in Node |-> i]

Init ==
    /\ log = [n \in Node |-> <<>>]
    /\ term = [n \in Node |-> 0]
    /\ commit = [n \in Node |-> 0]
    /\ lastApplied = [n \in Node |-> 0]
    /\ applied = [n \in Node |-> <<>>]
    /\ tasks = [n \in Node |-> {}]
    /\ next = [n \in Node |-> Progress(1)]
    /\ match = [n \in Node |-> Progress(0)]
    /\ drv = [n \in Node |-> Off]
    /\ reqs = {}
    /\ polls = 0
    /\ winner = [t \in Term |-> NoNode]
    /\ answered = {}

Larger(a, b)  == IF a > b THEN a ELSE b
Smaller(a, b) == IF a < b THEN a ELSE b

(* The cluster is the leader and its followers.                             *)
Majority_Half == Cardinality(Node) \div 2
Majority == Cardinality(Node) \div 2 + 1

TermAt(l, i)   == IF i = 0 THEN 0 ELSE l[i].term
Knows(l, i)    == i <= Len(l)           \* term_at(i) is Some
LastTerm(l)    == TermAt(l, Len(l))

(* The entries that became committed on a node and were not applied yet.    *)
Unapplied_OnlyLast(l, from, to) == SubSeq(l, Larger(from + 1, to), to)
Unapplied(l, from, to) == SubSeq(l, from + 1, to)

(* They are taken under the lock: last_applied moves before they are applied. *)
Taken_Later(from, to) == from
Taken(from, to) == Larger(from, to)

-----------------------------------------------------------------------------
(* The embedder. *)

AsNewAs(l, k) ==
    \/ LastTerm(l) > LastTerm(k)
    \/ LastTerm(l) = LastTerm(k) /\ Len(l) >= Len(k)

(* An election is held in a new term.  The nodes of Q vote in it, drop the  *)
(* replicator they may have, and pass the term on to their log.             *)
Vote(Q, dropped) ==
    /\ polls < MaxTerm /\ polls' = polls + 1
    /\ \A m \in Q : term[m] < polls'
    /\ \A m \in dropped : drv[m].pc \in {"off", "idle", "wait"}
    /\ term' = [m \in Node |-> IF m \in Q THEN polls' ELSE term[m]]
    /\ UNCHANGED <<log, commit, lastApplied, applied, tasks, reqs, answered>>

(* What is left of the replicators when those of S are dropped.             *)
Without(replicator, S, none) == [m \in Node |-> IF m \in S THEN none ELSE replicator[m]]

(* n wins it with a majority and gets a fresh replicator; in a Handover the *)
(* older leaders have all stopped.                                          *)
TakeLead(n) ==
    \E Q \in SUBSET Node :
        LET dropped == IF Handover THEN Node ELSE Q IN
        /\ n \in Q /\ 2 * Cardinality(Q) > Cardinality(Node)
        /\ \A m \in Q : AsNewAs(log[n], log[m])
        /\ tasks[n] = {}
        /\ Vote(Q, dropped)
        /\ winner' = [winner EXCEPT ![polls'] = n]
        /\ drv' = [Without(drv, dropped, Off) EXCEPT ![n] = [Off EXCEPT !.pc = "idle"]]
        /\ next' = [Without(next, dropped, Progress(1)) EXCEPT ![n] = Progress(Len(log[n]) + 1)]
        /\ match' = Without(match, dropped, Progress(0))

(* Nobody wins it.                                                          *)
LoseElection ==
    \E Q \in SUBSET Node :
        /\ Q # {} /\ Vote(Q, Q)
        /\ drv' = Without(drv, Q, Off)
        /\ next' = Without(next, Q, Progress(1))
        /\ match' = Without(match, Q, Progress(0))
        /\ UNCHANGED winner

(* It appends to a log only while that log is in the term it won.           *)
Leads(n) == drv[n].pc = "idle" /\ winner[term[n]] = n

-----------------------------------------------------------------------------
(* The leader: append_and_replicate and replicate_round. *)

(* leader_append, then the first round begins: the commit index it compares *)
(* with and the one it sends are read at once.                              *)
LeaderAppend(n) ==
    /\ Leads(n) /\ Len(log[n]) < MaxLog
    /\ LET e == [term |-> term[n], index |-> Len(log[n]) + 1, data |-> n]
       IN  /\ log' = [log EXCEPT ![n] = Append(@, e)]
           /\ drv' = [drv EXCEPT ![n] = [@ EXCEPT !.pc = "send", !.todo = Node \ {n},
                        !.commit = commit[n], !.mine = e, !.before = commit[n], !.round = 1]]
    /\ UNCHANGED <<term, commit, lastApplied, applied, tasks, next, match, reqs,
                   polls, winner, answered>>

(* replicate_round on its own, as a heartbeat.                              *)
Heartbeat(n) ==
    /\ Leads(n) /\ (Eager \/ LastTerm(log[n]) = term[n])
    /\ drv[n].beats < MaxBeats
    /\ drv' = [drv EXCEPT ![n] = [@ EXCEPT !.pc = "send", !.todo = Node \ {n},
                 !.commit = commit[n], !.mine = NoCall, !.round = 2,
                 !.beats = drv[n].beats + 1]]
    /\ UNCHANGED <<logVars, applied, tasks, next, match, reqs, polls, winner, answered>>

(* build_request: the term is the log's, read when the request is built.    *)
Request(n, f) ==
    LET prev == next[n][f] - 1
    IN  [term |-> term[n], leader |-> n, to |-> f, prevIndex |-> prev,
         prevTerm |-> IF Knows(log[n], prev) THEN TermAt(log[n], prev) ELSE 0,
         entries |-> SubSeq(log[n], prev + 1, Len(log[n])), commit |-> drv[n].commit]

(* The next follower of the round, or the same one again after a back-off.  *)
Send(n, f) ==
    /\ drv[n].pc = "send"
    /\ IF drv[n].peer = NoNode THEN f \in drv[n].todo ELSE f = drv[n].peer
    /\ reqs' = reqs \cup {Request(n, f)}
    /\ drv' = [drv EXCEPT ![n] = [@ EXCEPT !.pc = "wait", !.peer = f,
                 !.call = Request(n, f), !.resp = NoCall]]
    /\ UNCHANGED <<logVars, applied, tasks, next, match, polls, winner, answered>>

(* replicate_to returns: on to the next follower.                           *)
NextFollower(n) ==
    drv' = [drv EXCEPT ![n] = [@ EXCEPT !.pc = "send", !.todo = drv[n].todo \ {drv[n].peer},
              !.peer = NoNode, !.call = NoCall, !.resp = NoCall]]

Waits(n)   == drv[n].pc = "wait"
Answers(n) == Waits(n) /\ drv[n].resp # NoCall

(* The call fails; an answer may still come, and is dropped.                *)
CallFails(n) ==
    /\ Waits(n)
    /\ NextFollower(n)
    /\ UNCHANGED <<logVars, applied, tasks, next, match, reqs, polls, winner, answered>>

(* "Stale leader - adopt the higher term and stop": only replicate_to does. *)
AdoptTerm(n) ==
    /\ Answers(n) /\ drv[n].resp.term > term[n]
    /\ term' = [term EXCEPT ![n] = drv[n].resp.term]
    /\ NextFollower(n)
    /\ UNCHANGED <<log, commit, lastApplied, applied, tasks, next, match, reqs,
                   polls, winner, answered>>

FollowerAccepts(n) ==
    LET f == drv[n].peer IN
    /\ Answers(n) /\ drv[n].resp.term <= term[n] /\ drv[n].resp.success
    /\ match' = [match EXCEPT ![n][f] = drv[n].resp.match]
    /\ next' = [next EXCEPT ![n][f] = drv[n].resp.match + 1]
    /\ NextFollower(n)
    /\ UNCHANGED <<logVars, applied, tasks, reqs, polls, winner, answered>>

BackOff_Stays(i) == i
BackOff_ByTwo(i) == i - 2
BackOff(i) == i - 1

(* Log mismatch: back off and try again, down to the first entry.           *)
FollowerRefuses(n) ==
    LET f == drv[n].peer IN
    /\ Answers(n) /\ drv[n].resp.term <= term[n] /\ ~drv[n].resp.success
    /\ IF next[n][f] > 1
         THEN /\ next' = [next EXCEPT ![n][f] = BackOff(@)]
              /\ drv' = [drv EXCEPT ![n] = [@ EXCEPT !.pc = "send", !.call = NoCall,
                                                     !.resp = NoCall]]
         ELSE UNCHANGED next /\ NextFollower(n)
    /\ UNCHANGED <<logVars, applied, tasks, match, reqs, polls, winner, answered>>

(* advance_commit_index: the highest index that a majority holds.           *)
Replicated(n) ==
    {i \in commit[n] + 1 .. Len(log[n]) :
        1 + Cardinality({f \in Node \ {n} : match[n][f] >= i}) >= Majority}

ChooseCommit(n) ==
    /\ drv[n].pc = "send" /\ drv[n].todo = {}
    /\ drv' = [drv EXCEPT ![n] =
                 IF Replicated(n) = {} THEN [@ EXCEPT !.pc = "end"]
                 ELSE [@ EXCEPT !.pc = "commit", !.target = Max(Replicated(n))]]
    /\ UNCHANGED <<logVars, applied, tasks, next, match, reqs, polls, winner, answered>>

(* "A leader only commits entries from its current term."                   *)
Committable(n, i) ==
    Knows(log[n], i) /\ TermAt(log[n], i) = term[n] /\ i > commit[n]

(* leader_commit_to: the new entries are taken for application.             *)
LeaderCommit(n) ==
    LET i == drv[n].target
        todo == Unapplied(log[n], lastApplied[n], i)
    IN
    /\ drv[n].pc = "commit"
    /\ IF Committable(n, i)
         THEN /\ commit' = [commit EXCEPT ![n] = i]
              /\ lastApplied' = [lastApplied EXCEPT ![n] = Taken(@, i)]
         ELSE UNCHANGED <<commit, lastApplied>>
    /\ IF Committable(n, i) /\ todo # <<>>
         THEN /\ tasks' = [tasks EXCEPT ![n] = @ \cup
                             {[todo |-> todo, call |-> NoCall, resp |-> NoCall]}]
              /\ drv' = [drv EXCEPT ![n].pc = "apply"]
         ELSE drv' = [drv EXCEPT ![n].pc = "end"] /\ UNCHANGED tasks
    /\ UNCHANGED <<log, term, applied, next, match, reqs, polls, winner, answered>>

EntryCommitted_OffByOne(n) == commit[n] + 1 >= drv[n].mine.index
EntryCommitted(n) == commit[n] >= drv[n].mine.index

(* The round is over.  A first round that advanced the commit index past    *)
(* the entry is followed by a second one, which tells the followers.        *)
EndRound(n) ==
    LET d == drv[n]
        done == d.round = 1 /\ EntryCommitted(n)
        more == done /\ commit[n] > d.before
    IN
    /\ d.pc = "end"
    /\ drv' = [drv EXCEPT ![n] =
                 IF more THEN [@ EXCEPT !.pc = "send", !.todo = Node \ {n},
                                        !.commit = commit[n], !.round = 2]
                 ELSE [Off EXCEPT !.pc = "idle", !.beats = d.beats]]
    /\ answered' = IF (done /\ ~more) \/ (d.round = 2 /\ d.mine # NoCall)
                     THEN answered \cup {d.mine} ELSE answered
    /\ UNCHANGED <<logVars, applied, tasks, next, match, reqs, polls, winner>>

-----------------------------------------------------------------------------
(* The follower: handle_append_entries. *)

(* The reply reaches the leader that still waits for it.                    *)
Reply(q, resp) ==
    drv' = IF drv[q.leader].pc = "wait" /\ drv[q.leader].call = q
             THEN [drv EXCEPT ![q.leader].resp = resp] ELSE drv

(* Requests are handled one at a time, unless handlers run concurrently.    *)
Busy(n) == ~Concurrent /\ tasks[n] # {}

PrevMatches(n, q) ==
    Knows(log[n], q.prevIndex) /\ TermAt(log[n], q.prevIndex) = q.prevTerm

RefuseStale(n, q) ==
    /\ q.to = n /\ ~Busy(n)
    /\ q.term < term[n]
    /\ Reply(q, [term |-> term[n], success |-> FALSE, match |-> Len(log[n])])
    /\ UNCHANGED <<logVars, applied, tasks, next, match, reqs, polls, winner, answered>>

RefuseMismatch(n, q) ==
    /\ q.to = n /\ ~Busy(n)
    /\ q.term >= term[n] /\ ~PrevMatches(n, q)
    /\ term' = [term EXCEPT ![n] = q.term]
    /\ Reply(q, [term |-> q.term, success |-> FALSE, match |-> 0])
    /\ UNCHANGED <<log, commit, lastApplied, applied, tasks, next, match, reqs,
                   polls, winner, answered>>

(* Entries already there are skipped; the first that conflicts takes with   *)
(* it everything behind it.  es begins at the index after prev.             *)
Splice_NeverTruncates(l, prev, es) == l \o SubSeq(es, Len(l) - prev + 1, Len(es))
Splice(l, prev, es) ==
    LET clash == {i \in prev + 1 .. Smaller(Len(l), prev + Len(es)) :
                     l[i].term # es[i - prev].term}
        keep  == IF clash = {} THEN Len(l) ELSE Min(clash) - 1
    IN  SubSeq(l, 1, keep) \o SubSeq(es, keep - prev + 1, Len(es))

AppendEntries(n, q) ==
    LET l    == Splice(log[n], q.prevIndex, q.entries)
        c    == IF q.commit > commit[n] THEN Smaller(q.commit, Len(l)) ELSE commit[n]
        todo == Unapplied(l, lastApplied[n], c)
        resp == [term |-> q.term, success |-> TRUE, match |-> Len(l)]
    IN
    /\ q.to = n /\ ~Busy(n)
    /\ q.term >= term[n] /\ PrevMatches(n, q)
    /\ term' = [term EXCEPT ![n] = q.term]
    /\ log' = [log EXCEPT ![n] = l]
    /\ commit' = [commit EXCEPT ![n] = c]
    /\ lastApplied' = [lastApplied EXCEPT ![n] = Taken(@, Smaller(c, Len(l)))]
    /\ IF todo = <<>>
         THEN UNCHANGED tasks /\ Reply(q, resp)
         ELSE /\ tasks' = [tasks EXCEPT ![n] = @ \cup
                             {[todo |-> todo, call |-> q, resp |-> resp]}]
              /\ UNCHANGED drv
    /\ UNCHANGED <<applied, next, match, reqs, polls, winner, answered>>

-----------------------------------------------------------------------------
(* apply_entries: one entry after the other, outside the lock. *)

(* A task is over: the handler replies, or the leader's round goes on.      *)
Finish(n, k) ==
    IF k.call = NoCall THEN drv' = [drv EXCEPT ![n].pc = "end"] ELSE Reply(k.call, k.resp)

ApplyEntry(n, k) ==
    LET rest == Tail(k.todo) IN
    /\ applied' = [applied EXCEPT ![n] = Append(@, Head(k.todo))]
    /\ tasks' = [tasks EXCEPT ![n] =
                   (@ \ {k}) \cup (IF rest = <<>> THEN {} ELSE {[k EXCEPT !.todo = rest]})]
    /\ IF rest = <<>> THEN Finish(n, k) ELSE UNCHANGED drv
    /\ UNCHANGED <<logVars, next, match, reqs, polls, winner, answered>>

(* An error drops the task with the entries it still had, and the caller    *)
(* gets the error: a handler sends no reply, append_and_replicate returns.  *)
ApplyFails(n, k) ==
    /\ ApplyErrors
    /\ tasks' = [tasks EXCEPT ![n] = @ \ {k}]
    /\ drv' = IF k.call = NoCall THEN [drv EXCEPT ![n] = [Off EXCEPT !.pc = "idle", !.beats = drv[n].beats]] ELSE drv
    /\ UNCHANGED <<logVars, applied, next, match, reqs, polls, winner, answered>>

-----------------------------------------------------------------------------
LeaderStep(n) ==
    \/ \E f \in Node \ {n} : Send(n, f)
    \/ CallFails(n) \/ AdoptTerm(n) \/ FollowerAccepts(n) \/ FollowerRefuses(n)
    \/ ChooseCommit(n) \/ LeaderCommit(n) \/ EndRound(n)

ApplyStep(n) == \E k \in tasks[n] : ApplyEntry(n, k) \/ ApplyFails(n, k)

Next ==
    \/ LoseElection
    \/ \E n \in Node : \/ TakeLead(n) \/ LeaderAppend(n) \/ Heartbeat(n)
                        \/ LeaderStep(n) \/ ApplyStep(n)
    \/ \E n \in Node, q \in reqs :
          RefuseStale(n, q) \/ RefuseMismatch(n, q) \/ AppendEntries(n, q)

Spec == Init /\ [][Next]_vars

(* A leader's task and an applier that was called go on for as long as they *)
(* can: an awaited call returns or fails.                                   *)
FairSpec == Spec /\ \A n \in Node : WF_vars(LeaderStep(n)) /\ WF_vars(ApplyStep(n))

-----------------------------------------------------------------------------
(* Properties. *)

TypeOK ==
    /\ log \in [Node -> Seq(Entry)]
    /\ term \in [Node -> Term]
    /\ commit \in [Node -> Index]
    /\ lastApplied \in [Node -> Index]
    /\ applied \in [Node -> Seq(Entry)]
    /\ \A n \in Node : tasks[n] \subseteq Task
    /\ next \in [Node -> [Node -> 1 .. MaxLog + 1]]
    /\ match \in [Node -> [Node -> Index]]
    /\ \A n \in Node : drv[n].pc \in Label /\ drv[n].todo \subseteq Node
    /\ reqs \subseteq Req
    /\ polls \in Term
    /\ winner \in [Term -> Node \cup {NoNode}]
    /\ answered \subseteq Entry

Committed(n) == SubSeq(log[n], 1, Smaller(commit[n], Len(log[n])))

(* State machine safety: no two nodes committed different entries at the    *)
(* same index.                                                              *)
CommittedAgree ==
    \A m, n \in Node : IsPrefix(Committed(m), Committed(n)) \/ IsPrefix(Committed(n), Committed(m))

(* "Majority-based commit advancement": what a node calls committed is held *)
(* by a majority, now and for ever.                                         *)
CommittedOnMajority ==
    \A n \in Node : \A i \in 1 .. commit[n] :
        /\ Knows(log[n], i)
        /\ 2 * Cardinality({m \in Node : Knows(log[m], i) /\ log[m][i] = log[n][i]})
             > Cardinality(Node)

(* No position of the log is applied twice, even when handlers overlap,     *)
(* applies fail and stale leaders go on.                                    *)
NeverAppliedTwice ==
    \A n \in Node : \A i, j \in 1 .. Len(applied[n]) :
        applied[n][i].index = applied[n][j].index => i = j

(* match_index is the "highest index known to be replicated on the          *)
(* follower": up to there it holds what its leader holds.                   *)
MatchIsReplicated ==
    \A n, f \in Node : drv[n].pc # "off" =>
        match[n][f] <= Len(log[n]) /\ IsPrefix(SubSeq(log[n], 1, match[n][f]), log[f])

(* "Returns the committed entry's index": an entry whose client was told so *)
(* is on a majority of the logs, at that index.                             *)
AnsweredIsKept ==
    \A e \in answered :
        2 * Cardinality({m \in Node : Knows(log[m], e.index) /\ log[m][e.index] = e})
            > Cardinality(Node)

(* Only the node that won a term sends requests in it.                      *)
OnlyWinnersReplicate == \A q \in reqs : winner[q.term] = q.leader

(* Every append_and_replicate and replicate_round returns: the back-off     *)
(* ends.                                                                    *)
RoundsEnd == \A n \in Node : drv[n].pc = "send" ~> drv[n].pc \in {"off", "idle"}

(* The log implements a replicated state machine: what the node that has    *)
(* committed the most holds is what is chosen.                              *)
Chosen == LET n == CHOOSE m \in Node : \A k \in Node : commit[k] <= commit[m]
          IN  Committed(n)
Abstract == INSTANCE StateMachineReplication WITH chosen <- Chosen
Refines == Abstract!Spec
=============================================================================
