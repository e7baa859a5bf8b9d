---------------------------- MODULE Coordinator ----------------------------
(***************************************************************************)
(* Leader election and membership of the cluster coordinator               *)
(* (crates/oxigeo-cluster/src/coordinator.rs, transport.rs).               *)
(*                                                                         *)
(* Every action is one atomic section of the code: what runs under one     *)
(* acquisition of the `state` lock (or of the `voted_for` lock), with the  *)
(* reads that commute with it.  A node runs coordinator loops and, beside  *)
(* them, the RPC handlers a transport dispatches.  MultiThreaded says how  *)
(* the sections of one node may interleave:                                *)
(*   FALSE  tokio's current_thread runtime: a task keeps the node's thread *)
(*          from one await to the next;                                    *)
(*   TRUE   tokio's default runtime: any section of any task may run next. *)
(* A crash needs no action: a node that takes no more steps has crashed,   *)
(* and a restarted process is a new node (with_transport draws a new id).  *)
(***************************************************************************)
EXTENDS Integers, FiniteSets

CONSTANTS
    Node,            \* node ids
    NoNode,          \* None, for leader and voted_for
    Loop,            \* slots for spawned run_coordinator_loop tasks of a node
    MinClusterSize,  \* config.min_cluster_size
    MaxTerm,         \* bound: no election is started in this term or later
    MultiThreaded,   \* which runtime polls a node's tasks
    Starters,        \* nodes whose coordinator is started (all answer RPCs)
    Churn,           \* <<n, m>>: (un)register_member is called on n for m
    ChurnTerm,       \* bound: in no later term than this one of n
    Stoppable        \* nodes on which stop is called

ASSUME NodeAssumption == IsFiniteSet(Node) /\ NoNode \notin Node
ASSUME LoopAssumption == Loop \cap {"free", "handler"} = {}
ASSUME SizeAssumption == MinClusterSize \in Nat /\ MaxTerm \in Nat /\ ChurnTerm \in Nat
ASSUME ModeAssumption == /\ MultiThreaded \in BOOLEAN
                         /\ Starters \subseteq Node /\ Stoppable \subseteq Node
                         /\ Churn \subseteq Node \X Node

VARIABLES
    term, role, leader, electing, fresh,  \* ClusterState, under the state lock;
                                          \* fresh: a leader heartbeat was heard
                                          \* less than election_timeout ago
    votedFor,      \* voted_for: term -> candidate
    members,       \* ids in the members map
    running,       \* the running flag
    pc,            \* where each coordinator loop stands
    round,         \* the term a loop's election or heartbeat round is for
    total,         \* total_members, read when an election begins
    ballots,       \* vote requests between the two sections of their handler
    cpu,           \* the task that keeps the node's thread, or "free"
    voteReqs, voteReps, beats, beatReps   \* RPCs ever sent

stateVars == <<term, role, leader, electing, fresh>>
loopVars  == <<pc, round, total>>
netVars   == <<voteReqs, voteReps, beats, beatReps>>
vars == <<stateVars, votedFor, members, running, loopVars, ballots, cpu, netVars>>

Term  == 0 .. MaxTerm
Role  == {"Follower", "Candidate", "Leader"}
Label == {"done", "spawned", "tick", "refuse", "elect", "vote", "collect",
          "win", "lose", "beat"}

VoteReq == [term : Term, from : Node, to : Node]
VoteRep == [req : Term, from : Node, to : Node, term : Term, granted : BOOLEAN]
Beat    == [term : Term, from : Node, to : Node]
BeatRep == [req : Term, from : Node, to : Node, term : Term]  \* a refusal
Ballot  == [candidate : Node, term : Term]

Larger_OffByOne(a, b) == IF a > b THEN a ELSE b + 1
Larger(a, b)  == IF a > b THEN a ELSE b
Smaller(a, b) == IF a < b THEN a ELSE b

(* The votes an election needs when it began with m known members. *)
Required(m) == Smaller(Larger(m \div 2 + 1, MinClusterSize), m)

(***************************************************************************)
(* Scheduling.  A task may run when no other task keeps the node's thread; *)
(* it keeps the thread until its next await (Yield).                       *)
(***************************************************************************)
CanRun(n, task) == cpu[n] \in {"free", task}
Keep(n, task)   == cpu' = IF MultiThreaded THEN cpu ELSE [cpu EXCEPT ![n] = task]
Yield(n)        == cpu' = [cpu EXCEPT ![n] = "free"]

(* role and election_in_progress whenever a node falls back to follower. *)
BecomeFollower_UnlessLeader(n) ==
    /\ role' = [role EXCEPT ![n] = IF @ = "Leader" THEN @ ELSE "Follower"]
    /\ electing' = [electing EXCEPT ![n] = FALSE]
BecomeFollower_UnlessCandidate(n) ==
    /\ role' = [role EXCEPT ![n] = IF @ = "Candidate" THEN @ ELSE "Follower"]
    /\ electing' = [electing EXCEPT ![n] = FALSE]
BecomeFollower(n) ==
    /\ role' = [role EXCEPT ![n] = "Follower"]
    /\ electing' = [electing EXCEPT ![n] = FALSE]

(* Where a loop goes at the end of its body: `while running`. *)
Again(n) == IF running[n] THEN "tick" ELSE "done"

Init ==
    /\ term = [n \in Node |-> 0]
    /\ role = [n \in Node |-> "Follower"]
    /\ leader = [n \in Node |-> NoNode]
    /\ electing = [n \in Node |-> FALSE]
    /\ fresh = [n \in Node |-> FALSE]
    /\ votedFor = [n \in Node |-> [t \in Term |-> NoNode]]
    /\ members = [n \in Node |-> Node \ {n}]
    /\ running = [n \in Node |-> FALSE]
    /\ pc = [n \in Node |-> [l \in Loop |-> "done"]]
    /\ round = [n \in Node |-> [l \in Loop |-> 0]]
    /\ total = [n \in Node |-> [l \in Loop |-> 0]]
    /\ ballots = [n \in Node |-> {}]
    /\ cpu = [n \in Node |-> "free"]
    /\ voteReqs = {} /\ voteReps = {} /\ beats = {} /\ beatReps = {}

-----------------------------------------------------------------------------
(* Lifecycle and membership. *)

Start(n) ==
    /\ n \in Starters /\ ~running[n]
    /\ \E l \in Loop : /\ pc[n][l] = "done"
                       /\ pc' = [pc EXCEPT ![n][l] = "spawned"]
    /\ running' = [running EXCEPT ![n] = TRUE]
    /\ UNCHANGED <<stateVars, votedFor, members, round, total, ballots, cpu, netVars>>

Stop(n) ==
    /\ n \in Stoppable
    /\ running' = [running EXCEPT ![n] = FALSE]
    /\ UNCHANGED <<stateVars, votedFor, members, loopVars, ballots, cpu, netVars>>

RegisterMember(n, m) ==
    /\ <<n, m>> \in Churn /\ term[n] <= ChurnTerm
    /\ members' = [members EXCEPT ![n] = @ \cup {m}]
    /\ UNCHANGED <<stateVars, votedFor, running, loopVars, ballots, cpu, netVars>>

UnregisterMember(n, m) ==
    /\ <<n, m>> \in Churn /\ term[n] <= ChurnTerm
    /\ members' = [members EXCEPT ![n] = @ \ {m}]
    /\ UNCHANGED <<stateVars, votedFor, running, loopVars, ballots, cpu, netVars>>

(* Time: election_timeout elapses since the last heartbeat heard. *)
ElectionTimeout(n) ==
    /\ fresh[n]
    /\ fresh' = [fresh EXCEPT ![n] = FALSE]
    /\ UNCHANGED <<term, role, leader, electing, votedFor, members, running,
                   loopVars, ballots, cpu, netVars>>

-----------------------------------------------------------------------------
(* The coordinator loop. *)

LoopEnter(n, l) ==
    /\ pc[n][l] = "spawned" /\ CanRun(n, l)
    /\ pc' = [pc EXCEPT ![n][l] = Again(n)]
    /\ UNCHANGED <<stateVars, votedFor, members, running, round, total, ballots, cpu, netVars>>

ShouldStartElection(n) == role[n] = "Follower" /\ ~electing[n] /\ ~fresh[n]

(* A tick with nothing to do: an election is in progress, or a leader is fresh *)
(* (or MaxTerm is reached).                                                    *)
TickIdle(n, l) ==
    /\ pc[n][l] = "tick" /\ CanRun(n, l)
    /\ role[n] # "Leader" /\ ~(ShouldStartElection(n) /\ term[n] < MaxTerm)
    /\ pc' = [pc EXCEPT ![n][l] = Again(n)]
    /\ UNCHANGED <<stateVars, votedFor, members, running, round, total, ballots, cpu, netVars>>

BeginElection_OfAnySize(n, l) ==
    /\ pc[n][l] = "tick" /\ CanRun(n, l)
    /\ ShouldStartElection(n) /\ term[n] < MaxTerm
    /\ total' = [total EXCEPT ![n][l] = Cardinality(members[n]) + 1]
    /\ pc' = [pc EXCEPT ![n][l] = "elect"]
    /\ Keep(n, l)
    /\ UNCHANGED <<stateVars, votedFor, members, running, round, ballots, netVars>>

(* The timer has run out: start_election up to its size guard. *)
BeginElection(n, l) ==
    /\ pc[n][l] = "tick" /\ CanRun(n, l)
    /\ ShouldStartElection(n) /\ term[n] < MaxTerm
    /\ LET known == Cardinality(members[n]) + 1
       IN  /\ total' = [total EXCEPT ![n][l] = known]
           /\ pc' = [pc EXCEPT ![n][l] =
                       IF known < MinClusterSize THEN "refuse" ELSE "elect"]
    /\ Keep(n, l)
    /\ UNCHANGED <<stateVars, votedFor, members, running, round, ballots, netVars>>

RefuseElection(n, l) ==
    /\ pc[n][l] = "refuse" /\ CanRun(n, l)
    /\ BecomeFollower(n)
    /\ pc' = [pc EXCEPT ![n][l] = Again(n)]
    /\ Yield(n)
    /\ UNCHANGED <<term, leader, fresh, votedFor, members, running, round, total,
                   ballots, netVars>>

BecomeCandidate(n, l) ==
    /\ pc[n][l] = "elect" /\ CanRun(n, l) /\ term[n] < MaxTerm
    /\ term' = [term EXCEPT ![n] = @ + 1]
    /\ role' = [role EXCEPT ![n] = "Candidate"]
    /\ electing' = [electing EXCEPT ![n] = TRUE]
    /\ leader' = [leader EXCEPT ![n] = NoNode]
    /\ round' = [round EXCEPT ![n][l] = term[n] + 1]
    /\ pc' = [pc EXCEPT ![n][l] = "vote"]
    /\ Keep(n, l)
    /\ UNCHANGED <<fresh, votedFor, members, running, total, ballots, netVars>>

(* The self-vote is inserted whatever the term's record holds, then the     *)
(* requests go out and request_votes awaits the answers.                    *)
RequestVotes(n, l) ==
    /\ pc[n][l] = "vote" /\ CanRun(n, l)
    /\ votedFor' = [votedFor EXCEPT ![n][round[n][l]] = n]
    /\ voteReqs' = voteReqs \cup
         {[term |-> round[n][l], from |-> n, to |-> m] : m \in members[n]}
    /\ pc' = [pc EXCEPT ![n][l] = "collect"]
    /\ Yield(n)
    /\ UNCHANGED <<stateVars, members, running, round, total, ballots,
                   voteReps, beats, beatReps>>

(* step_down(t): adopt t when it is newer, and follow in any case. *)
StepDown_KeepsLeader(n, t) ==
    /\ term' = [term EXCEPT ![n] = Larger(@, t)]
    /\ BecomeFollower(n)
    /\ UNCHANGED <<leader, fresh>>
StepDown(n, t) ==
    /\ term' = [term EXCEPT ![n] = Larger(@, t)]
    /\ BecomeFollower(n)
    /\ leader' = [leader EXCEPT ![n] = NoNode]
    /\ UNCHANGED fresh

(* join_all returns; one of the answers carries a newer term. *)
AbandonElection(n, l) ==
    /\ pc[n][l] = "collect" /\ CanRun(n, l)
    /\ \E r \in voteReps : /\ r.to = n /\ r.req = round[n][l]
                           /\ r.term > round[n][l]
                           /\ StepDown(n, r.term)
    /\ pc' = [pc EXCEPT ![n][l] = Again(n)]
    /\ UNCHANGED <<votedFor, members, running, round, total, ballots, cpu, netVars>>

(* Peers whose vote the candidate may count; the others failed or timed out. *)
Grants(n, t) ==
    {r.from : r \in {s \in voteReps : /\ s.to = n /\ s.req = t
                                      /\ s.granted /\ s.term <= t}}

StillCandidate_NotChecked(n, l) == TRUE
StillCandidate(n, l) == role[n] = "Candidate" /\ term[n] = round[n][l]

(* join_all returns with the votes of some peers and no newer term; the role *)
(* and the term are read again before the outcome is decided.                *)
CountVotes(n, l) ==
    /\ pc[n][l] = "collect" /\ CanRun(n, l)
    /\ \E peers \in SUBSET Grants(n, round[n][l]) :
         LET votes == Cardinality(peers) + 1
         IN  pc' = [pc EXCEPT ![n][l] =
                      CASE ~StillCandidate(n, l) -> Again(n)
                        [] StillCandidate(n, l) /\ votes >= Required(total[n][l]) -> "win"
                        [] OTHER -> "lose"]
    /\ IF StillCandidate(n, l) THEN Keep(n, l) ELSE UNCHANGED cpu
    /\ UNCHANGED <<stateVars, votedFor, members, running, round, total, ballots, netVars>>

LoseElection(n, l) ==
    /\ pc[n][l] = "lose" /\ CanRun(n, l)
    /\ BecomeFollower(n)
    /\ pc' = [pc EXCEPT ![n][l] = Again(n)]
    /\ Yield(n)
    /\ UNCHANGED <<term, leader, fresh, votedFor, members, running, round, total,
                   ballots, netVars>>

BecomeLeader(n, l) ==
    /\ pc[n][l] = "win" /\ CanRun(n, l)
    /\ role' = [role EXCEPT ![n] = "Leader"]
    /\ leader' = [leader EXCEPT ![n] = n]
    /\ electing' = [electing EXCEPT ![n] = FALSE]
    /\ pc' = [pc EXCEPT ![n][l] = Again(n)]
    /\ Yield(n)
    /\ UNCHANGED <<term, fresh, votedFor, members, running, round, total, ballots, netVars>>

(* A leader's tick: heartbeats go out to every member. *)
SendHeartbeats(n, l) ==
    /\ pc[n][l] = "tick" /\ CanRun(n, l)
    /\ role[n] = "Leader"
    /\ beats' = beats \cup {[term |-> term[n], from |-> n, to |-> m] : m \in members[n]}
    /\ round' = [round EXCEPT ![n][l] = term[n]]
    /\ pc' = [pc EXCEPT ![n][l] = "beat"]
    /\ UNCHANGED <<stateVars, votedFor, members, running, total, ballots, cpu,
                   voteReqs, voteReps, beatReps>>

(* The round ends: a newer term among the acknowledgements deposes the       *)
(* leader; otherwise only the leader's private follower records change.      *)
EndHeartbeats(n, l) ==
    /\ pc[n][l] = "beat" /\ CanRun(n, l)
    /\ \/ \E r \in beatReps : /\ r.to = n /\ r.req = round[n][l]
                              /\ r.term > round[n][l]
                              /\ StepDown(n, r.term)
       \/ UNCHANGED stateVars
    /\ pc' = [pc EXCEPT ![n][l] = Again(n)]
    /\ UNCHANGED <<votedFor, members, running, round, total, ballots, cpu, netVars>>

-----------------------------------------------------------------------------
(* RPC handlers.  A request stays deliverable for ever: it may be late,      *)
(* lost (never delivered) or repeated by the transport.                      *)

(* handle_vote_request, the section under the state lock, for a stale term. *)
RejectVoteRequest(n, q) ==
    /\ q.to = n /\ cpu[n] = "free" /\ q.term < term[n]
    /\ voteReps' = voteReps \cup
         {[req |-> q.term, from |-> n, to |-> q.from, term |-> term[n], granted |-> FALSE]}
    /\ UNCHANGED <<stateVars, votedFor, members, running, loopVars, ballots, cpu,
                   voteReqs, beats, beatReps>>

MayVote_Anyone(n, b) == TRUE
MayVote(n, b) == votedFor[n][b.term] \in {NoNode, b.candidate}
Grant(n, b)   == [req |-> b.term, from |-> n, to |-> b.candidate, term |-> b.term,
                  granted |-> TRUE]

(* The same section for a current or newer term: adopt it and go on to vote. *)
(* A request that would change nothing (a repeat of one already granted, or  *)
(* a rival of the recorded vote) is a stuttering step and is left out.       *)
AcceptVoteRequest(n, q) ==
    LET b == [candidate |-> q.from, term |-> q.term] IN
    /\ q.to = n /\ cpu[n] = "free" /\ q.term >= term[n]
    /\ q.term > term[n] \/ (MayVote(n, b) /\ Grant(n, b) \notin voteReps)
    /\ term' = [term EXCEPT ![n] = q.term]
    /\ IF q.term > term[n]
         THEN BecomeFollower(n) /\ leader' = [leader EXCEPT ![n] = NoNode]
         ELSE UNCHANGED <<role, leader, electing>>
    /\ ballots' = [ballots EXCEPT ![n] = @ \cup {b}]
    /\ Keep(n, "handler")
    /\ UNCHANGED <<fresh, votedFor, members, running, loopVars, netVars>>

(* The section under the voted_for lock: one candidate per term. *)
CastVote(n, b) ==
    /\ CanRun(n, "handler")
    /\ votedFor' = IF MayVote(n, b)
                     THEN [votedFor EXCEPT ![n][b.term] = b.candidate]
                     ELSE votedFor
    /\ voteReps' = IF MayVote(n, b) THEN voteReps \cup {Grant(n, b)} ELSE voteReps
    /\ ballots' = [ballots EXCEPT ![n] = @ \ {b}]
    /\ Yield(n)
    /\ UNCHANGED <<stateVars, members, running, loopVars, voteReqs, beats, beatReps>>

(* handle_heartbeat: a stale leader is told the newer term ...               *)
RejectHeartbeat(n, b) ==
    /\ b.to = n /\ cpu[n] = "free" /\ b.term < term[n]
    /\ beatReps' = beatReps \cup
         {[req |-> b.term, from |-> n, to |-> b.from, term |-> term[n]]}
    /\ UNCHANGED <<stateVars, votedFor, members, running, loopVars, ballots, cpu,
                   voteReqs, voteReps, beats>>

(* ... and any other is followed.                                            *)
FollowLeader(n, b) ==
    /\ b.to = n /\ cpu[n] = "free" /\ b.term >= term[n]
    /\ term' = [term EXCEPT ![n] = b.term]
    /\ BecomeFollower(n)
    /\ leader' = [leader EXCEPT ![n] = b.from]
    /\ fresh' = [fresh EXCEPT ![n] = TRUE]
    /\ UNCHANGED <<votedFor, members, running, loopVars, ballots, cpu, netVars>>

-----------------------------------------------------------------------------
LoopStep(n, l) ==
    \/ LoopEnter(n, l) \/ TickIdle(n, l)
    \/ BeginElection(n, l) \/ RefuseElection(n, l)
    \/ BecomeCandidate(n, l) \/ RequestVotes(n, l)
    \/ AbandonElection(n, l) \/ CountVotes(n, l)
    \/ LoseElection(n, l) \/ BecomeLeader(n, l)
    \/ SendHeartbeats(n, l) \/ EndHeartbeats(n, l)

Handler(n) ==
    \/ \E q \in voteReqs : RejectVoteRequest(n, q) \/ AcceptVoteRequest(n, q)
    \/ \E b \in ballots[n] : CastVote(n, b)
    \/ \E b \in beats : RejectHeartbeat(n, b) \/ FollowLeader(n, b)

Next ==
    \E n \in Node :
        \/ Start(n) \/ Stop(n) \/ ElectionTimeout(n)
        \/ \E m \in Node : RegisterMember(n, m) \/ UnregisterMember(n, m)
        \/ \E l \in Loop : LoopStep(n, l)
        \/ Handler(n)

Spec == Init /\ [][Next]_vars

(***************************************************************************)
(* Fairness.  tokio polls every woken task again and again, and each await *)
(* of a loop returns because request_vote and send_heartbeat run under a   *)
(* timeout: a loop (and the second half of a handler) that can step again  *)
(* and again does.  A leader repeats its heartbeats, and the network gets  *)
(* through to each member now and then: an assumption on the environment,  *)
(* needed only for what a leader must tell others.                         *)
(***************************************************************************)
LeaderHeard(n) ==
    \E b \in beats : role[b.from] = "Leader" /\ term[b.from] = b.term /\ FollowLeader(n, b)

LoopFairness    == \A n \in Starters, l \in Loop : WF_vars(LoopStep(n, l))
HandlerFairness == \A n \in Node : WF_vars(\E b \in ballots[n] : CastVote(n, b))
NetFairness     == \A n \in Starters : WF_vars(LeaderHeard(n))
FairSpec == Spec /\ LoopFairness /\ HandlerFairness /\ NetFairness

-----------------------------------------------------------------------------
(* Properties. *)

(* Every variable has the type its Rust field has. *)
TypeOK ==
    /\ term \in [Node -> Term]
    /\ role \in [Node -> Role]
    /\ leader \in [Node -> Node \cup {NoNode}]
    /\ electing \in [Node -> BOOLEAN]
    /\ fresh \in [Node -> BOOLEAN]
    /\ votedFor \in [Node -> [Term -> Node \cup {NoNode}]]
    /\ members \in [Node -> SUBSET Node]
    /\ running \in [Node -> BOOLEAN]
    /\ pc \in [Node -> [Loop -> Label]]
    /\ round \in [Node -> [Loop -> Term]]
    /\ total \in [Node -> [Loop -> Nat]]
    /\ ballots \in [Node -> SUBSET Ballot]
    /\ cpu \in [Node -> Loop \cup {"free", "handler"}]
    /\ voteReqs \subseteq VoteReq
    /\ voteReps \subseteq VoteRep
    /\ beats \subseteq Beat
    /\ beatReps \subseteq BeatRep

(* No split brain: a term has at most one leader.                           *)
ElectionSafety ==
    \A m, n \in Node :
        role[m] = "Leader" /\ role[n] = "Leader" /\ term[m] = term[n] => m = n

(* "At most one vote granted per term" (voted_for): a vote a candidate was  *)
(* told of is the vote on the voter's record, for ever.                     *)
SingleVotePerTerm ==
    \A r \in voteReps : r.granted => votedFor[r.from][r.req] = r.to

Majority(S) == 2 * Cardinality(S) > Cardinality(Node)

(* Nodes on whose record c has their vote in term t. *)
Voters(c, t) == {n \in Node : votedFor[n][t] = c}

(* A leader leads the term it won: a strict majority of the whole cluster   *)
(* has voted for it in that very term, whatever members it knows of.        *)
LeaderBacked == \A n \in Node : role[n] = "Leader" => Majority(Voters(n, term[n]))

(* Nodes that are in the same term and know a leader know the same one.     *)
LeaderAgreement ==
    \A m, n \in Node : term[m] = term[n] /\ NoNode \notin {leader[m], leader[n]}
                         => leader[m] = leader[n]

(* A node that takes the lead was a candidate until then: it saw no newer   *)
(* term and heard no leader since it was elected ("a higher term seen       *)
(* during vote collection makes us step down; abort").                      *)
LeadsAsCandidate ==
    [][\A n \in Node : role[n] # "Leader" /\ role'[n] = "Leader" => role[n] = "Candidate"]_vars

(* Every election ends: no node stays a candidate for ever.                 *)
ElectionResolves == \A n \in Starters : role[n] = "Candidate" ~> role[n] # "Candidate"

(* "A stale leader must not keep asserting authority": of two leaders the   *)
(* one with the older term steps down, unless the newer one goes first.     *)
StaleLeaderStepsDown ==
    \A m, n \in Starters :
        (role[m] = "Leader" /\ role[n] = "Leader" /\ term[m] < term[n])
            ~> (role[m] # "Leader" \/ role[n] # "Leader")

-----------------------------------------------------------------------------
(***************************************************************************)
(* What makes elections safe on a current_thread runtime, as an inductive  *)
(* invariant: SoundSizes and PeersOnly are what it asks of the embedder.   *)
(***************************************************************************)
(* Either no view of the membership ever changes (all nodes know all), or   *)
(* min_cluster_size is itself a majority of the cluster.                    *)
SoundSizes == Churn = {} \/ 2 * MinClusterSize > Cardinality(Node)

(* The embedder registers the peers of a node on it, never the node itself: *)
(* register_member takes any id, and start_election counts the node beside  *)
(* its members.                                                             *)
PeersOnly == \A n \in Node : <<n, n>> \notin Churn

(* Between two awaits a loop keeps its node's thread.                       *)
LoopsKeepThread ==
    \A n \in Node, l \in Loop :
        pc[n][l] \in {"refuse", "elect", "vote", "win", "lose"} => cpu[n] = l

(* No node counts itself among its peers, in any message either.            *)
PeersAreOthers ==
    /\ \A n \in Node : n \notin members[n] /\ (Churn = {} => members[n] = Node \ {n})
    /\ \A q \in voteReqs : q.from # q.to
    /\ \A n \in Node : \A b \in ballots[n] : b.candidate # n
    /\ \A r \in voteReps : r.from # r.to

(* Votes are for terms reached, and a candidate that has raised its term    *)
(* finds the record of the new term empty.                                  *)
VotesAreForTermsReached ==
    /\ \A n \in Node, t \in Term : votedFor[n][t] # NoNode => t <= term[n]
    /\ \A n \in Node : \A b \in ballots[n] : b.term <= term[n]
    /\ \A n \in Node, l \in Loop : pc[n][l] = "vote" =>
          role[n] = "Candidate" /\ round[n][l] = term[n] /\ votedFor[n][term[n]] = NoNode

(* An election counts the candidate's own vote, asks for a real majority,   *)
(* and is won only with the majority on record.                             *)
ElectionsAreSound ==
    \A n \in Node, l \in Loop :
        /\ pc[n][l] \in {"collect", "win"} => votedFor[n][round[n][l]] = n
        /\ pc[n][l] \in {"elect", "vote", "collect"} =>
              2 * Required(total[n][l]) > Cardinality(Node)
        /\ pc[n][l] = "win" => /\ role[n] = "Candidate" /\ round[n][l] = term[n]
                               /\ Majority(Voters(n, term[n]))

(* Whoever is called leader was elected: in heartbeats and in leader.       *)
LeadersAreElected ==
    /\ \A b \in beats : Majority(Voters(b.from, b.term))
    /\ \A n \in Node : leader[n] # NoNode => Majority(Voters(leader[n], term[n]))

IInv == /\ TypeOK /\ LoopsKeepThread /\ PeersAreOthers /\ VotesAreForTermsReached
        /\ SingleVotePerTerm /\ ElectionsAreSound /\ LeaderBacked /\ LeadersAreElected
=============================================================================
