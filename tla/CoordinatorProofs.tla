------------------------- MODULE CoordinatorProofs -------------------------
(* Theorems about Coordinator, for every set of nodes, number of loops,    *)
(* bound on the terms, membership view and schedule.                       *)
EXTENDS Coordinator, FiniteSetTheorems, TLAPS

(* A set of nodes is finite, and so has a natural number of members.       *)
LEMMA NodesFinite ==
    ASSUME NEW S \in SUBSET Node
    PROVE  IsFiniteSet(S) /\ Cardinality(S) \in Nat
BY FS_Subset, FS_CardinalityType, NodeAssumption

LEMMA LargerTerm ==
    ASSUME NEW s \in Term, NEW t \in Term
    PROVE  Larger(s, t) \in Term
BY SizeAssumption DEF Larger, Term

(* No step breaks a type.                                                  *)
LEMMA TypeStep == TypeOK /\ [Next]_vars => TypeOK'
<1> USE NodeAssumption, LoopAssumption, SizeAssumption, ModeAssumption
<1> SUFFICES ASSUME TypeOK, [Next]_vars PROVE TypeOK'
  OBVIOUS
<1> USE DEF TypeOK, stateVars, loopVars, netVars, Keep, Yield, Again
<1>1. ASSUME NEW n \in Node, Start(n) PROVE TypeOK'
  BY <1>1 DEF Start, Label
<1>2. ASSUME NEW n \in Node, Stop(n) PROVE TypeOK'
  BY <1>2 DEF Stop
<1>3. ASSUME NEW n \in Node, ElectionTimeout(n) PROVE TypeOK'
  BY <1>3 DEF ElectionTimeout
<1>4. ASSUME NEW n \in Node, NEW m \in Node, RegisterMember(n, m) PROVE TypeOK'
  BY <1>4 DEF RegisterMember
<1>5. ASSUME NEW n \in Node, NEW m \in Node, UnregisterMember(n, m) PROVE TypeOK'
  BY <1>5 DEF UnregisterMember
<1>6. ASSUME NEW n \in Node, NEW l \in Loop, LoopStep(n, l) PROVE TypeOK'
  <2>1. CASE LoopEnter(n, l)
    BY <2>1 DEF LoopEnter, Label
  <2>2. CASE TickIdle(n, l)
    BY <2>2 DEF TickIdle, Label
  <2>3. CASE BeginElection(n, l)
    <3> DEFINE known == members[n]
    <3>0. known \in SUBSET Node
      OBVIOUS
    <3> HIDE DEF known
    <3>1. Cardinality(known) \in Nat
      BY <3>0, NodesFinite
    <3> USE DEF known
    <3>2. total' \in [Node -> [Loop -> Nat]]
      BY <2>3, <3>1 DEF BeginElection
    <3>3. pc' \in [Node -> [Loop -> Label]]
      BY <2>3 DEF BeginElection, Label
    <3>4. cpu' \in [Node -> Loop \cup {"free", "handler"}]
      BY <2>3 DEF BeginElection
    <3>5. QED BY <2>3, <3>2, <3>3, <3>4 DEF BeginElection
  <2>4. CASE RefuseElection(n, l)
    BY <2>4 DEF RefuseElection, BecomeFollower, Label, Role
  <2>5. CASE BecomeCandidate(n, l)
    BY <2>5 DEF BecomeCandidate, Label, Role, Term
  <2>6. CASE RequestVotes(n, l)
    BY <2>6 DEF RequestVotes, Label, VoteReq
  <2>7. CASE AbandonElection(n, l)
    BY <2>7, LargerTerm DEF AbandonElection, StepDown, BecomeFollower, Label, Role, VoteRep
  <2>8. CASE CountVotes(n, l)
    BY <2>8, SMTT(30) DEF CountVotes, Label
  <2>9. CASE LoseElection(n, l)
    BY <2>9 DEF LoseElection, BecomeFollower, Label, Role
  <2>10. CASE BecomeLeader(n, l)
    BY <2>10 DEF BecomeLeader, Label, Role
  <2>11. CASE SendHeartbeats(n, l)
    BY <2>11 DEF SendHeartbeats, Label, Beat
  <2>12. CASE EndHeartbeats(n, l)
    <3>1. pc' \in [Node -> [Loop -> Label]]
      BY <2>12 DEF EndHeartbeats, Label
    <3>2. ASSUME NEW r \in beatReps, StepDown(n, r.term)
          PROVE  /\ term' \in [Node -> Term]
                 /\ role' \in [Node -> Role]
                 /\ leader' \in [Node -> Node \cup {NoNode}]
                 /\ electing' \in [Node -> BOOLEAN]
                 /\ fresh' \in [Node -> BOOLEAN]
      BY <3>2, LargerTerm DEF StepDown, BecomeFollower, Role, BeatRep
    <3>3. QED BY <2>12, <3>1, <3>2 DEF EndHeartbeats
  <2>13. QED
    BY <1>6, <2>1, <2>2, <2>3, <2>4, <2>5, <2>6, <2>7, <2>8, <2>9, <2>10, <2>11, <2>12
       DEF LoopStep
<1>7. ASSUME NEW n \in Node, NEW q \in voteReqs, RejectVoteRequest(n, q) PROVE TypeOK'
  <2>1. q.term \in Term /\ q.from \in Node
    BY DEF VoteReq
  <2>2. [req |-> q.term, from |-> n, to |-> q.from, term |-> term[n], granted |-> FALSE]
          \in VoteRep
    BY <2>1 DEF VoteRep
  <2>3. voteReps' \subseteq VoteRep
    BY <1>7, <2>2 DEF RejectVoteRequest
  <2>4. QED BY <1>7, <2>3 DEF RejectVoteRequest
<1>8. ASSUME NEW n \in Node, NEW q \in voteReqs, AcceptVoteRequest(n, q) PROVE TypeOK'
  <2>1. q.term \in Term /\ q.from \in Node
    BY DEF VoteReq
  <2>2. [candidate |-> q.from, term |-> q.term] \in Ballot
    BY <2>1 DEF Ballot
  <2>3. term' \in [Node -> Term] /\ ballots' \in [Node -> SUBSET Ballot]
    BY <1>8, <2>1, <2>2 DEF AcceptVoteRequest
  <2>4. /\ role' \in [Node -> Role]
        /\ leader' \in [Node -> Node \cup {NoNode}]
        /\ electing' \in [Node -> BOOLEAN]
    BY <1>8 DEF AcceptVoteRequest, BecomeFollower, Role
  <2>5. cpu' \in [Node -> Loop \cup {"free", "handler"}]
    BY <1>8 DEF AcceptVoteRequest
  <2>6. QED BY <1>8, <2>3, <2>4, <2>5 DEF AcceptVoteRequest
<1>9. ASSUME NEW n \in Node, NEW b \in ballots[n], CastVote(n, b) PROVE TypeOK'
  <2>1. b.term \in Term /\ b.candidate \in Node
    BY DEF Ballot
  <2>2. Grant(n, b) \in VoteRep
    BY <2>1 DEF Grant, VoteRep
  <2>3. voteReps' \subseteq VoteRep /\ votedFor' \in [Node -> [Term -> Node \cup {NoNode}]]
    BY <1>9, <2>1, <2>2 DEF CastVote
  <2>4. ballots' \in [Node -> SUBSET Ballot] /\ cpu' \in [Node -> Loop \cup {"free", "handler"}]
    BY <1>9 DEF CastVote
  <2>5. QED BY <1>9, <2>3, <2>4 DEF CastVote
<1>10. ASSUME NEW n \in Node, NEW b \in beats, RejectHeartbeat(n, b) PROVE TypeOK'
  <2>1. b.term \in Term /\ b.from \in Node
    BY DEF Beat
  <2>2. [req |-> b.term, from |-> n, to |-> b.from, term |-> term[n]] \in BeatRep
    BY <2>1 DEF BeatRep
  <2>3. beatReps' \subseteq BeatRep
    BY <1>10, <2>2 DEF RejectHeartbeat
  <2>4. QED BY <1>10, <2>3 DEF RejectHeartbeat
<1>11. ASSUME NEW n \in Node, NEW b \in beats, FollowLeader(n, b) PROVE TypeOK'
  BY <1>11 DEF FollowLeader, BecomeFollower, Beat, Role
<1>12. CASE UNCHANGED vars
  BY <1>12 DEF vars
<1>13. QED
  BY <1>1, <1>2, <1>3, <1>4, <1>5, <1>6, <1>7, <1>8, <1>9, <1>10, <1>11, <1>12
     DEF Next, Handler

(* Type correctness: every variable keeps the type of the Rust field it    *)
(* stands for, whatever the runtime and whatever the network delivers.     *)
THEOREM TypeCorrect == Spec => []TypeOK
<1>1. Init => TypeOK
  BY NodeAssumption, LoopAssumption, SizeAssumption DEF Init, TypeOK, Term, Role, Label
<1>2. QED
  BY <1>1, TypeStep, PTL DEF Spec

-----------------------------------------------------------------------------
(* Two majorities of the nodes have a node in common.                      *)
LEMMA MajoritiesMeet ==
    ASSUME NEW S \in SUBSET Node, NEW T \in SUBSET Node, Majority(S), Majority(T)
    PROVE  \E n \in Node : n \in S /\ n \in T
<1>1. /\ IsFiniteSet(S) /\ Cardinality(S) \in Nat
      /\ IsFiniteSet(T) /\ Cardinality(T) \in Nat
      /\ Cardinality(Node) \in Nat /\ Cardinality(S \cup T) \in Nat
  <2>1. S \cup T \in SUBSET Node /\ Node \in SUBSET Node
    OBVIOUS
  <2>2. QED BY <2>1, NodesFinite
<1>2. Cardinality(S \cup T) = Cardinality(S) + Cardinality(T) - Cardinality(S \cap T)
  BY <1>1, FS_Union
<1>3. Cardinality(S \cup T) <= Cardinality(Node)
  BY FS_Subset, NodeAssumption
<1>4. S \cap T # {}
  <2>1. SUFFICES ASSUME S \cap T = {} PROVE FALSE
    OBVIOUS
  <2>2. Cardinality(S \cap T) = 0
    BY <2>1, FS_EmptySet
  <2>3. QED BY <1>1, <1>2, <1>3, <2>2 DEF Majority
<1>5. QED BY <1>4

(* A set that contains a majority is one.                                  *)
LEMMA MajorityGrows ==
    ASSUME NEW T \in SUBSET Node, NEW S \in SUBSET T, Majority(S)
    PROVE  Majority(T)
<1>1. IsFiniteSet(T) /\ Cardinality(T) \in Nat /\ S \in SUBSET Node
  BY NodesFinite
<1>2. Cardinality(S) \in Nat /\ Cardinality(S) <= Cardinality(T)
  BY <1>1, NodesFinite, FS_Subset
<1>3. Cardinality(Node) \in Nat
  <2>1. Node \in SUBSET Node
    OBVIOUS
  <2>2. QED BY <2>1, NodesFinite
<1>4. QED BY <1>1, <1>2, <1>3 DEF Majority

(* On a current_thread runtime a vote, once recorded, is never replaced.   *)
LEMMA VotesFinal ==
    ASSUME IInv, [Next]_vars
    PROVE  \A n \in Node, t \in Term :
             votedFor[n][t] # NoNode => votedFor'[n][t] = votedFor[n][t]
<1> USE DEF IInv, TypeOK
<1>1. ASSUME NEW n \in Node, NEW l \in Loop, RequestVotes(n, l)
      PROVE  \A m \in Node, t \in Term :
               votedFor[m][t] # NoNode => votedFor'[m][t] = votedFor[m][t]
  BY <1>1 DEF RequestVotes, VotesAreForTermsReached
<1>2. ASSUME NEW n \in Node, NEW b \in ballots[n], CastVote(n, b)
      PROVE  \A m \in Node, t \in Term :
               votedFor[m][t] # NoNode => votedFor'[m][t] = votedFor[m][t]
  BY <1>2 DEF CastVote, MayVote, Ballot
<1>3. ASSUME NEW n \in Node, NEW l \in Loop, LoopStep(n, l), ~RequestVotes(n, l)
      PROVE  votedFor' = votedFor
  BY <1>3 DEF LoopStep, LoopEnter, TickIdle, BeginElection, RefuseElection, BecomeCandidate,
              AbandonElection, CountVotes, LoseElection, BecomeLeader, SendHeartbeats,
              EndHeartbeats
<1>4. ASSUME NEW n \in Node, Handler(n), \A b \in ballots[n] : ~CastVote(n, b)
      PROVE  votedFor' = votedFor
  BY <1>4 DEF Handler, RejectVoteRequest, AcceptVoteRequest, RejectHeartbeat, FollowLeader
<1>5. ASSUME NEW n \in Node, NEW m \in Node,
             \/ Start(n) \/ Stop(n) \/ ElectionTimeout(n)
             \/ RegisterMember(n, m) \/ UnregisterMember(n, m)
      PROVE  votedFor' = votedFor
  BY <1>5 DEF Start, Stop, ElectionTimeout, RegisterMember, UnregisterMember
<1>6. UNCHANGED vars => votedFor' = votedFor
  BY DEF vars
<1>7. QED
  BY <1>1, <1>2, <1>3, <1>4, <1>5, <1>6 DEF Next

-----------------------------------------------------------------------------
(* The conjuncts of IInv, one step at a time.                              *)

LEMMA ThreadStep ==
    ASSUME IInv, ~MultiThreaded, [Next]_vars
    PROVE  LoopsKeepThread'
<1> DEFINE Held == {"refuse", "elect", "vote", "win", "lose"}
<1> SUFFICES ASSUME NEW m \in Node, NEW k \in Loop, pc'[m][k] \in Held
             PROVE  cpu'[m] = k
  BY DEF LoopsKeepThread
<1>0. /\ pc \in [Node -> [Loop -> Label]] /\ cpu \in [Node -> Loop \cup {"free", "handler"}]
      /\ pc[m][k] \in Held => cpu[m] = k
      /\ k # "free" /\ k # "handler"
  BY LoopAssumption DEF IInv, TypeOK, LoopsKeepThread
<1> USE <1>0 DEF CanRun, Keep, Yield, Again
<1>1. ASSUME NEW n \in Node, NEW l \in Loop, LoopStep(n, l)
      PROVE  cpu'[m] = k
  <2>1. CASE LoopEnter(n, l) \/ TickIdle(n, l) \/ SendHeartbeats(n, l) \/ EndHeartbeats(n, l)
    <3>1. cpu' = cpu /\ (pc' = [pc EXCEPT ![n][l] = Again(n)] \/ pc' = [pc EXCEPT ![n][l] = "beat"])
      BY <2>1 DEF LoopEnter, TickIdle, SendHeartbeats, EndHeartbeats
    <3>2. QED BY <3>1
  <2>2. CASE BeginElection(n, l)
    BY <2>2 DEF BeginElection
  <2>3. CASE BecomeCandidate(n, l)
    BY <2>3 DEF BecomeCandidate
  <2>4. CASE RefuseElection(n, l) \/ LoseElection(n, l) \/ BecomeLeader(n, l) \/ RequestVotes(n, l)
    <3>1. /\ CanRun(n, l) /\ Yield(n)
          /\ pc' = [pc EXCEPT ![n][l] = Again(n)] \/ pc' = [pc EXCEPT ![n][l] = "collect"]
      BY <2>4 DEF RefuseElection, LoseElection, BecomeLeader, RequestVotes
    <3>2. QED BY <3>1
  <2>5. CASE AbandonElection(n, l)
    BY <2>5 DEF AbandonElection
  <2>6. CASE CountVotes(n, l)
    <3>1. /\ CanRun(n, l)
          /\ \/ StillCandidate(n, l) /\ Keep(n, l)
             \/ ~StillCandidate(n, l) /\ cpu' = cpu /\ pc' = [pc EXCEPT ![n][l] = Again(n)]
          /\ \E x \in Label : pc' = [pc EXCEPT ![n][l] = x]
      BY <2>6 DEF CountVotes, Label
    <3>2. QED BY <3>1
  <2>7. QED
    BY <1>1, <2>1, <2>2, <2>3, <2>4, <2>5, <2>6 DEF LoopStep
<1>2. ASSUME NEW n \in Node, Handler(n)
      PROVE  cpu'[m] = k
  <2>1. /\ pc' = pc
        /\ cpu[n] = "free" \/ CanRun(n, "handler")
        /\ cpu' = cpu \/ Keep(n, "handler") \/ Yield(n)
    BY <1>2 DEF Handler, RejectVoteRequest, AcceptVoteRequest, CastVote, RejectHeartbeat,
                FollowLeader, loopVars
  <2>2. QED BY <2>1
<1>3. ASSUME NEW n \in Node, Start(n)
      PROVE  cpu'[m] = k
  BY <1>3 DEF Start
<1>4. ASSUME NEW n \in Node, NEW o \in Node,
             \/ Stop(n) \/ ElectionTimeout(n)
             \/ RegisterMember(n, o) \/ UnregisterMember(n, o)
      PROVE  cpu'[m] = k
  BY <1>4 DEF Stop, ElectionTimeout, RegisterMember, UnregisterMember, loopVars
<1>5. CASE UNCHANGED vars
  BY <1>5 DEF vars, loopVars
<1>6. QED
  BY <1>1, <1>2, <1>3, <1>4, <1>5 DEF Next

LEMMA PeersStep ==
    ASSUME IInv, PeersOnly, [Next]_vars
    PROVE  PeersAreOthers'
<1> DEFINE Same == /\ members' = members /\ voteReqs' = voteReqs
                   /\ ballots' = ballots /\ voteReps' = voteReps
<1>0. /\ PeersAreOthers /\ TypeOK
  BY DEF IInv
<1>1. Same => PeersAreOthers'
  BY <1>0 DEF PeersAreOthers
<1>2. ASSUME NEW n \in Node, NEW l \in Loop, LoopStep(n, l)
      PROVE  PeersAreOthers'
  <2>1. CASE RequestVotes(n, l)
    BY <1>0, <2>1 DEF RequestVotes, PeersAreOthers
  <2>2. ~RequestVotes(n, l) => Same
    BY <1>2
       DEF LoopStep, LoopEnter, TickIdle, BeginElection, RefuseElection, BecomeCandidate,
           AbandonElection, CountVotes, LoseElection, BecomeLeader, SendHeartbeats,
           EndHeartbeats, netVars
  <2>3. QED BY <1>1, <2>1, <2>2
<1>3. ASSUME NEW n \in Node, NEW q \in voteReqs, RejectVoteRequest(n, q)
      PROVE  PeersAreOthers'
  BY <1>0, <1>3 DEF RejectVoteRequest, PeersAreOthers
<1>4. ASSUME NEW n \in Node, NEW q \in voteReqs, AcceptVoteRequest(n, q)
      PROVE  PeersAreOthers'
  <2>1. /\ members' = members /\ voteReqs' = voteReqs /\ voteReps' = voteReps
        /\ ballots' = [ballots EXCEPT ![n] = @ \cup {[candidate |-> q.from, term |-> q.term]}]
        /\ q.to = n
    BY <1>4 DEF AcceptVoteRequest, netVars
  <2>2. \A m \in Node : \A b \in ballots'[m] : b.candidate # m
    BY <1>0, <2>1 DEF PeersAreOthers, TypeOK
  <2>3. QED BY <1>0, <2>1, <2>2 DEF PeersAreOthers
<1>5. ASSUME NEW n \in Node, NEW b \in ballots[n], CastVote(n, b)
      PROVE  PeersAreOthers'
  <2>1. /\ members' = members /\ voteReqs' = voteReqs
        /\ ballots' = [ballots EXCEPT ![n] = @ \ {b}]
        /\ voteReps' \subseteq voteReps \cup {Grant(n, b)}
    BY <1>5 DEF CastVote
  <2>2. \A m \in Node : ballots'[m] \subseteq ballots[m]
    BY <1>0, <2>1 DEF TypeOK
  <2>3. \A r \in voteReps' : r.from # r.to
    BY <1>0, <2>1 DEF PeersAreOthers, Grant
  <2>4. QED BY <1>0, <2>1, <2>2, <2>3 DEF PeersAreOthers
<1>6. ASSUME NEW n \in Node, NEW b \in beats, RejectHeartbeat(n, b) \/ FollowLeader(n, b)
      PROVE  Same
  BY <1>6 DEF RejectHeartbeat, FollowLeader, netVars
<1>7. ASSUME NEW n \in Node, Start(n) \/ Stop(n) \/ ElectionTimeout(n)
      PROVE  Same
  BY <1>7 DEF Start, Stop, ElectionTimeout, netVars
<1>8. ASSUME NEW n \in Node, NEW m \in Node, RegisterMember(n, m) \/ UnregisterMember(n, m)
      PROVE  PeersAreOthers'
  <2>0. /\ voteReqs' = voteReqs /\ ballots' = ballots /\ voteReps' = voteReps
        /\ <<n, m>> \in Churn /\ m # n
        /\ \/ members' = [members EXCEPT ![n] = @ \cup {m}]
           \/ members' = [members EXCEPT ![n] = @ \ {m}]
    BY <1>8 DEF RegisterMember, UnregisterMember, netVars, PeersOnly
  <2>1. \A o \in Node : members'[o] \subseteq members[o] \cup ({m} \ {o})
    <3>1. members \in [Node -> SUBSET Node]
      BY <1>0 DEF TypeOK
    <3>2. QED BY <2>0, <3>1
  <2>2. QED BY <1>0, <2>0, <2>1 DEF PeersAreOthers
<1>9. CASE UNCHANGED vars
  BY <1>1, <1>9 DEF vars, netVars
<1>10. QED
  BY <1>1, <1>2, <1>3, <1>4, <1>5, <1>6, <1>7, <1>8, <1>9 DEF Next, Handler

(* Terms never go back.                                                    *)
LEMMA TermsGrow ==
    ASSUME TypeOK, [Next]_vars
    PROVE  \A m \in Node : term'[m] \in Nat /\ term[m] \in Nat /\ term'[m] >= term[m]
<1> DEFINE Grows == \A m \in Node : term'[m] >= term[m]
<1>0. /\ term \in [Node -> Term] /\ \A x \in Term : x \in Nat
      /\ term' \in [Node -> Term]
  BY TypeStep, SizeAssumption DEF TypeOK, Term
<1>1. ASSUME NEW n \in Node, NEW l \in Loop, LoopStep(n, l)
      PROVE  Grows
  <2>1. ASSUME NEW t \in Term, StepDown(n, t)
        PROVE  Grows
    BY <1>0, <2>1 DEF StepDown, Larger
  <2>2. CASE AbandonElection(n, l)
    BY <2>1, <2>2 DEF AbandonElection, TypeOK, VoteRep
  <2>3. CASE EndHeartbeats(n, l)
    <3>1. term' = term => Grows
      BY <1>0
    <3>2. QED BY <2>1, <2>3, <3>1 DEF EndHeartbeats, TypeOK, BeatRep, stateVars
  <2>4. CASE BecomeCandidate(n, l)
    BY <1>0, <2>4 DEF BecomeCandidate
  <2>5. CASE ~AbandonElection(n, l) /\ ~EndHeartbeats(n, l) /\ ~BecomeCandidate(n, l)
    <3>1. term' = term
      BY <1>1, <2>5
         DEF LoopStep, LoopEnter, TickIdle, BeginElection, RefuseElection, RequestVotes,
             CountVotes, LoseElection, BecomeLeader, SendHeartbeats, stateVars
    <3>2. QED BY <1>0, <3>1
  <2>6. QED BY <2>2, <2>3, <2>4, <2>5
<1>2. ASSUME NEW n \in Node, Handler(n)
      PROVE  Grows
  <2>1. term' = term \/ \E t \in Term : t >= term[n] /\ term' = [term EXCEPT ![n] = t]
    BY <1>2 DEF Handler, RejectVoteRequest, AcceptVoteRequest, CastVote, RejectHeartbeat,
                FollowLeader, stateVars, TypeOK, VoteReq, Beat
  <2>2. QED BY <1>0, <2>1
<1>3. ASSUME NEW n \in Node, NEW o \in Node,
             \/ Start(n) \/ Stop(n) \/ ElectionTimeout(n)
             \/ RegisterMember(n, o) \/ UnregisterMember(n, o)
      PROVE  Grows
  <2>1. term' = term
    BY <1>3 DEF Start, Stop, ElectionTimeout, RegisterMember, UnregisterMember, stateVars
  <2>2. QED BY <1>0, <2>1
<1>4. CASE UNCHANGED vars
  BY <1>0, <1>4 DEF vars, stateVars
<1>5. QED
  BY <1>0, <1>1, <1>2, <1>3, <1>4 DEF Next

(* A loop moves only by its own steps, and by being spawned.               *)
LEMMA LoopsMoveThemselves ==
    ASSUME TypeOK, [Next]_vars, NEW m \in Node, NEW k \in Loop, ~LoopStep(m, k)
    PROVE  \/ /\ pc'[m][k] = pc[m][k]
              /\ round'[m][k] = round[m][k]
              /\ total'[m][k] = total[m][k]
           \/ pc'[m][k] = "spawned"
<1>0. /\ pc \in [Node -> [Loop -> Label]]
      /\ round \in [Node -> [Loop -> Term]]
      /\ total \in [Node -> [Loop -> Nat]]
  BY DEF TypeOK
<1>1. ASSUME NEW n \in Node, NEW l \in Loop, LoopStep(n, l)
      PROVE  /\ pc'[m][k] = pc[m][k]
             /\ round'[m][k] = round[m][k]
             /\ total'[m][k] = total[m][k]
  <2>1. /\ \E x : pc' = [pc EXCEPT ![n][l] = x]
        /\ round' = round \/ \E x : round' = [round EXCEPT ![n][l] = x]
        /\ total' = total \/ \E x : total' = [total EXCEPT ![n][l] = x]
    BY <1>1
       DEF LoopStep, LoopEnter, TickIdle, BeginElection, RefuseElection, BecomeCandidate,
           RequestVotes, AbandonElection, CountVotes, LoseElection, BecomeLeader,
           SendHeartbeats, EndHeartbeats
  <2>2. n # m \/ l # k
    BY <1>1
  <2>3. QED BY <1>0, <2>1, <2>2
<1>2. ASSUME NEW n \in Node, Start(n)
      PROVE  \/ /\ pc'[m][k] = pc[m][k]
                /\ round'[m][k] = round[m][k]
                /\ total'[m][k] = total[m][k]
             \/ pc'[m][k] = "spawned"
  BY <1>0, <1>2 DEF Start
<1>3. ASSUME NEW n \in Node, NEW o \in Node,
             \/ Handler(n) \/ Stop(n) \/ ElectionTimeout(n)
             \/ RegisterMember(n, o) \/ UnregisterMember(n, o)
      PROVE  UNCHANGED loopVars
  BY <1>3 DEF Handler, RejectVoteRequest, AcceptVoteRequest, CastVote, RejectHeartbeat,
              FollowLeader, Stop, ElectionTimeout, RegisterMember, UnregisterMember
<1>4. CASE UNCHANGED vars
  BY <1>4 DEF vars, loopVars
<1>5. QED
  BY <1>1, <1>2, <1>3, <1>4 DEF Next, loopVars

(* A loop that keeps its thread is not disturbed: as long as it does not   *)
(* step, nothing it has read or written changes.                           *)
LEMMA Undisturbed ==
    ASSUME IInv, [Next]_vars, NEW m \in Node, NEW k \in Loop, ~LoopStep(m, k),
           pc[m][k] \in {"refuse", "elect", "vote", "win", "lose"}
    PROVE  term'[m] = term[m] /\ role'[m] = role[m] /\ votedFor'[m] = votedFor[m]
<1> DEFINE Quiet == term'[m] = term[m] /\ role'[m] = role[m] /\ votedFor'[m] = votedFor[m]
<1>0. /\ cpu[m] = k /\ k \notin {"free", "handler"} /\ TypeOK
  BY LoopAssumption DEF IInv, LoopsKeepThread
<1>1. ASSUME NEW n \in Node, NEW l \in Loop, LoopStep(n, l)
      PROVE  Quiet
  <2>1. n # m
    <3>1. CanRun(n, l)
      BY <1>1
         DEF LoopStep, LoopEnter, TickIdle, BeginElection, RefuseElection, BecomeCandidate,
             RequestVotes, AbandonElection, CountVotes, LoseElection, BecomeLeader,
             SendHeartbeats, EndHeartbeats
    <3>2. QED BY <1>0, <1>1, <3>1 DEF CanRun
  <2>2. /\ term' = term \/ \E x : term' = [term EXCEPT ![n] = x]
        /\ role' = role \/ \E x : role' = [role EXCEPT ![n] = x]
        /\ votedFor' = votedFor \/ \E t, x : votedFor' = [votedFor EXCEPT ![n][t] = x]
    BY <1>1
       DEF LoopStep, LoopEnter, TickIdle, BeginElection, RefuseElection, BecomeCandidate,
           RequestVotes, AbandonElection, CountVotes, LoseElection, BecomeLeader,
           SendHeartbeats, EndHeartbeats, BecomeFollower, StepDown, stateVars
  <2>3. QED BY <1>0, <2>1, <2>2 DEF TypeOK
<1>2. ASSUME NEW n \in Node, Handler(n)
      PROVE  Quiet
  <2>1. n # m
    <3>1. cpu[n] \in {"free", "handler"}
      BY <1>2 DEF Handler, RejectVoteRequest, AcceptVoteRequest, CastVote, RejectHeartbeat,
                  FollowLeader, CanRun
    <3>2. QED BY <1>0, <3>1
  <2>2. /\ term' = term \/ \E x : term' = [term EXCEPT ![n] = x]
        /\ role' = role \/ \E x : role' = [role EXCEPT ![n] = x]
        /\ votedFor' = votedFor \/ \E t, x : votedFor' = [votedFor EXCEPT ![n][t] = x]
    BY <1>2 DEF Handler, RejectVoteRequest, AcceptVoteRequest, CastVote, RejectHeartbeat,
                FollowLeader, BecomeFollower, stateVars
  <2>3. QED BY <1>0, <2>1, <2>2 DEF TypeOK
<1>3. ASSUME NEW n \in Node, NEW o \in Node,
             \/ Start(n) \/ Stop(n) \/ ElectionTimeout(n)
             \/ RegisterMember(n, o) \/ UnregisterMember(n, o)
      PROVE  Quiet
  BY <1>3 DEF Start, Stop, ElectionTimeout, RegisterMember, UnregisterMember, stateVars
<1>4. CASE UNCHANGED vars
  BY <1>4 DEF vars, stateVars
<1>5. QED
  BY <1>1, <1>2, <1>3, <1>4 DEF Next

LEMMA TermsReachedStep ==
    ASSUME IInv, [Next]_vars
    PROVE  VotesAreForTermsReached'
<1>0. TypeOK /\ TypeOK' /\ VotesAreForTermsReached
  BY TypeStep DEF IInv
<1>1. \A m \in Node : term'[m] \in Nat /\ term[m] \in Nat /\ term'[m] >= term[m]
  BY <1>0, TermsGrow
<1>2. \A m \in Node, t \in Term : votedFor'[m][t] # NoNode =>
         \/ votedFor[m][t] # NoNode
         \/ t <= term[m]
  <2>1. ASSUME NEW n \in Node, NEW l \in Loop, RequestVotes(n, l),
               NEW m \in Node, NEW t \in Term, votedFor'[m][t] # NoNode
        PROVE  votedFor[m][t] # NoNode \/ t <= term[m]
    BY <1>0, <1>1, <2>1 DEF RequestVotes, VotesAreForTermsReached, TypeOK
  <2>2. ASSUME NEW n \in Node, NEW b \in ballots[n], CastVote(n, b),
               NEW m \in Node, NEW t \in Term, votedFor'[m][t] # NoNode
        PROVE  votedFor[m][t] # NoNode \/ t <= term[m]
    BY <1>0, <2>2 DEF CastVote, VotesAreForTermsReached, TypeOK, Ballot
  <2>3. ASSUME NEW n \in Node, NEW l \in Loop, LoopStep(n, l), ~RequestVotes(n, l)
        PROVE  votedFor' = votedFor
    BY <2>3 DEF LoopStep, LoopEnter, TickIdle, BeginElection, RefuseElection, BecomeCandidate,
                AbandonElection, CountVotes, LoseElection, BecomeLeader, SendHeartbeats,
                EndHeartbeats
  <2>4. ASSUME NEW n \in Node, Handler(n), \A b \in ballots[n] : ~CastVote(n, b)
        PROVE  votedFor' = votedFor
    BY <2>4 DEF Handler, RejectVoteRequest, AcceptVoteRequest, RejectHeartbeat, FollowLeader
  <2>5. ASSUME NEW n \in Node, NEW o \in Node,
               \/ Start(n) \/ Stop(n) \/ ElectionTimeout(n)
               \/ RegisterMember(n, o) \/ UnregisterMember(n, o)
        PROVE  votedFor' = votedFor
    BY <2>5 DEF Start, Stop, ElectionTimeout, RegisterMember, UnregisterMember
  <2>6. UNCHANGED vars => votedFor' = votedFor
    BY DEF vars
  <2>7. QED
    BY <2>1, <2>2, <2>3, <2>4, <2>5, <2>6 DEF Next
<1>3. \A m \in Node, t \in Term : votedFor'[m][t] # NoNode => t <= term'[m]
  <2>1. \A t \in Term : t \in Nat
    BY SizeAssumption DEF Term
  <2>2. QED BY <1>0, <1>1, <1>2, <2>1 DEF VotesAreForTermsReached
<1>4. \A m \in Node : \A b \in ballots'[m] : b.term <= term'[m]
  <2>1. ASSUME NEW m \in Node, NEW b \in ballots'[m]
        PROVE  b \in ballots[m] \/ b.term = term'[m]
    <3>1. ASSUME NEW n \in Node, NEW q \in voteReqs, AcceptVoteRequest(n, q)
          PROVE  b \in ballots[m] \/ b.term = term'[m]
      BY <1>0, <2>1, <3>1 DEF AcceptVoteRequest, TypeOK
    <3>2. ASSUME NEW n \in Node, NEW c \in ballots[n], CastVote(n, c)
          PROVE  b \in ballots[m]
      BY <1>0, <2>1, <3>2 DEF CastVote, TypeOK
    <3>3. ASSUME NEW n \in Node, NEW l \in Loop, LoopStep(n, l)
          PROVE  ballots' = ballots
      BY <3>3 DEF LoopStep, LoopEnter, TickIdle, BeginElection, RefuseElection, BecomeCandidate,
                  RequestVotes, AbandonElection, CountVotes, LoseElection, BecomeLeader,
                  SendHeartbeats, EndHeartbeats
    <3>4. ASSUME NEW n \in Node, NEW o \in Node, NEW x,
                 \/ RejectVoteRequest(n, x) \/ RejectHeartbeat(n, x) \/ FollowLeader(n, x)
                 \/ Start(n) \/ Stop(n) \/ ElectionTimeout(n)
                 \/ RegisterMember(n, o) \/ UnregisterMember(n, o)
          PROVE  ballots' = ballots
      BY <3>4 DEF RejectVoteRequest, RejectHeartbeat, FollowLeader, Start, Stop,
                  ElectionTimeout, RegisterMember, UnregisterMember
    <3>5. UNCHANGED vars => ballots' = ballots
      BY DEF vars
    <3>6. QED
      BY <2>1, <3>1, <3>2, <3>3, <3>4, <3>5 DEF Next, Handler
  <2>2. \A m \in Node : \A b \in ballots[m] : b.term \in Nat
    BY <1>0, SizeAssumption DEF TypeOK, Ballot, Term
  <2>3. QED BY <1>0, <1>1, <2>1, <2>2 DEF VotesAreForTermsReached
<1>5. ASSUME NEW m \in Node, NEW k \in Loop, pc'[m][k] = "vote"
      PROVE  role'[m] = "Candidate" /\ round'[m][k] = term'[m] /\ votedFor'[m][term'[m]] = NoNode
  <2>1. CASE LoopStep(m, k)
    <3>1. BecomeCandidate(m, k)
      BY <1>0, <1>5, <2>1
         DEF LoopStep, LoopEnter, TickIdle, BeginElection, RefuseElection,
             RequestVotes, AbandonElection, CountVotes, LoseElection, BecomeLeader,
             SendHeartbeats, EndHeartbeats, Again, TypeOK
    <3>2. /\ role'[m] = "Candidate" /\ round'[m][k] = term[m] + 1 /\ term'[m] = term[m] + 1
          /\ votedFor' = votedFor /\ term[m] + 1 \in Term
      BY <1>0, <1>1, <3>1, SizeAssumption DEF BecomeCandidate, TypeOK, Term
    <3>3. QED BY <1>0, <1>1, <3>2 DEF VotesAreForTermsReached
  <2>2. CASE ~LoopStep(m, k)
    <3>1. pc[m][k] = "vote" /\ round'[m][k] = round[m][k]
      BY <1>0, <1>5, <2>2, LoopsMoveThemselves
    <3>2. term'[m] = term[m] /\ role'[m] = role[m] /\ votedFor'[m] = votedFor[m]
      BY <2>2, <3>1, Undisturbed
    <3>3. QED BY <1>0, <3>1, <3>2 DEF VotesAreForTermsReached
  <2>3. QED BY <2>1, <2>2
<1>6. QED BY <1>3, <1>4, <1>5 DEF VotesAreForTermsReached

LEMMA SingleVoteStep ==
    ASSUME IInv, [Next]_vars
    PROVE  SingleVotePerTerm'
<1>0. TypeOK /\ TypeOK' /\ SingleVotePerTerm
  BY TypeStep DEF IInv
<1>1. \A n \in Node, t \in Term : votedFor[n][t] # NoNode => votedFor'[n][t] = votedFor[n][t]
  BY VotesFinal
<1>2. ASSUME NEW r \in voteReps, r.granted
      PROVE  votedFor'[r.from][r.req] = r.to
  <2>1. r.from \in Node /\ r.req \in Term /\ r.to \in Node
    BY <1>0 DEF TypeOK, VoteRep
  <2>2. votedFor[r.from][r.req] = r.to /\ r.to # NoNode
    BY <1>0, <1>2, <2>1, NodeAssumption DEF SingleVotePerTerm
  <2>3. QED BY <1>1, <2>1, <2>2
<1>3. ASSUME NEW r \in voteReps', r \notin voteReps, r.granted
      PROVE  votedFor'[r.from][r.req] = r.to
  <2>1. ASSUME NEW n \in Node, NEW b \in ballots[n], CastVote(n, b)
        PROVE  votedFor'[r.from][r.req] = r.to
    <3>1. b.term \in Term /\ b.candidate \in Node
      BY <1>0 DEF TypeOK, Ballot
    <3>2. MayVote(n, b) /\ r = Grant(n, b) /\ votedFor' = [votedFor EXCEPT ![n][b.term] = b.candidate]
      BY <1>3, <2>1 DEF CastVote
    <3>3. QED BY <1>0, <3>1, <3>2 DEF Grant, TypeOK
  <2>2. ASSUME NEW n \in Node, NEW l \in Loop, LoopStep(n, l)
        PROVE  voteReps' = voteReps
    BY <2>2 DEF LoopStep, LoopEnter, TickIdle, BeginElection, RefuseElection, BecomeCandidate,
                RequestVotes, AbandonElection, CountVotes, LoseElection, BecomeLeader,
                SendHeartbeats, EndHeartbeats, netVars
  <2>3. ASSUME NEW n \in Node, NEW q, RejectVoteRequest(n, q)
        PROVE  FALSE
    BY <1>3, <2>3 DEF RejectVoteRequest
  <2>4. ASSUME NEW n \in Node, NEW o \in Node, NEW x,
               \/ AcceptVoteRequest(n, x) \/ RejectHeartbeat(n, x) \/ FollowLeader(n, x)
               \/ Start(n) \/ Stop(n) \/ ElectionTimeout(n)
               \/ RegisterMember(n, o) \/ UnregisterMember(n, o)
        PROVE  voteReps' = voteReps
    BY <2>4 DEF AcceptVoteRequest, RejectHeartbeat, FollowLeader, Start, Stop,
                ElectionTimeout, RegisterMember, UnregisterMember, netVars
  <2>5. UNCHANGED vars => voteReps' = voteReps
    BY DEF vars, netVars
  <2>6. QED
    BY <1>3, <2>1, <2>2, <2>3, <2>4, <2>5 DEF Next, Handler
<1>4. QED BY <1>2, <1>3 DEF SingleVotePerTerm

(* The votes start_election asks for are a majority of the whole cluster,  *)
(* in every view that passes the min_cluster_size guard.                   *)
LEMMA RequiredIsMajority ==
    ASSUME IInv, SoundSizes, NEW n \in Node, NEW m, m = Cardinality(members[n]) + 1,
           m >= MinClusterSize
    PROVE  2 * Required(m) > Cardinality(Node)
<1> DEFINE N == Cardinality(Node)
<1>1. N \in Nat /\ MinClusterSize \in Nat
  <2>1. Node \in SUBSET Node
    OBVIOUS
  <2>2. QED BY <2>1, NodesFinite, SizeAssumption
<1>2. m \in Nat
  <2>1. members[n] \in SUBSET Node
    BY DEF IInv, TypeOK
  <2>2. Cardinality(members[n]) \in Nat
    BY <2>1, NodesFinite
  <2>3. QED BY <2>2
<1>3. CASE Churn = {}
  <2>1. members[n] = Node \ {n}
    BY <1>3 DEF IInv, PeersAreOthers
  <2>2. Cardinality(Node \ {n}) = N - 1
    BY FS_RemoveElement, NodeAssumption
  <2>3. m = N
    BY <1>1, <2>1, <2>2
  <2> HIDE DEF N
  <2>4. N >= 1 /\ 2 * (N \div 2 + 1) > N /\ N \div 2 \in Nat
    BY <1>1, <1>2, <2>1, <2>2, <2>3, NodesFinite
  <2>5. QED BY <1>1, <2>3, <2>4 DEF Required, Larger, Smaller, N
<1>4. CASE 2 * MinClusterSize > N
  <2> HIDE DEF N
  <2>1. Larger(m \div 2 + 1, MinClusterSize) \in Nat /\ Larger(m \div 2 + 1, MinClusterSize) >= MinClusterSize
    BY <1>1, <1>2 DEF Larger
  <2>2. QED BY <1>1, <1>2, <1>4, <2>1 DEF Required, Smaller, N
<1>5. QED BY <1>3, <1>4 DEF SoundSizes

(* A candidate that counts enough votes has a majority on record.          *)
LEMMA CountedVotesAreOnRecord ==
    ASSUME IInv, NEW n \in Node, NEW l \in Loop, pc[n][l] = "collect",
           NEW peers \in SUBSET Grants(n, round[n][l]),
           Cardinality(peers) + 1 >= Required(total[n][l])
    PROVE  Majority(Voters(n, round[n][l]))
<1> DEFINE t == round[n][l]
<1>0. /\ t \in Term /\ total[n][l] \in Nat /\ votedFor[n][t] = n
      /\ 2 * Required(total[n][l]) > Cardinality(Node)
  BY DEF IInv, TypeOK, ElectionsAreSound
<1>1. peers \cup {n} \subseteq Voters(n, t) /\ n \notin peers /\ peers \in SUBSET Node
  BY <1>0 DEF Grants, Voters, IInv, TypeOK, VoteRep, SingleVotePerTerm, PeersAreOthers
<1>2. IsFiniteSet(peers) /\ Cardinality(peers) \in Nat
  BY <1>1, NodesFinite
<1>3. Cardinality(peers \cup {n}) = Cardinality(peers) + 1
  BY <1>1, <1>2, FS_AddElement
<1>4. Required(total[n][l]) \in Nat /\ Cardinality(Node) \in Nat
  <2>1. Node \in SUBSET Node
    OBVIOUS
  <2>2. Cardinality(Node) \in Nat
    BY <2>1, NodesFinite
  <2>3. QED BY <1>0, <2>2, SizeAssumption DEF Required, Larger, Smaller
<1>5. Majority(peers \cup {n})
  BY <1>0, <1>2, <1>3, <1>4 DEF Majority
<1>6. QED
  <2>1. Voters(n, t) \in SUBSET Node
    BY DEF Voters
  <2>2. QED BY <1>1, <1>5, <2>1, MajorityGrows

LEMMA ElectionsStep ==
    ASSUME IInv, SoundSizes, ~MultiThreaded, [Next]_vars
    PROVE  ElectionsAreSound'
<1>0. /\ TypeOK /\ TypeOK' /\ ElectionsAreSound /\ VotesAreForTermsReached
      /\ \A n \in Node, t \in Term :
           votedFor[n][t] # NoNode => votedFor'[n][t] = votedFor[n][t]
  BY TypeStep, VotesFinal DEF IInv
<1> DEFINE Sound(m, k) ==
      /\ pc[m][k] \in {"collect", "win"} => votedFor[m][round[m][k]] = m
      /\ pc[m][k] \in {"elect", "vote", "collect"} =>
            2 * Required(total[m][k]) > Cardinality(Node)
      /\ pc[m][k] = "win" => /\ role[m] = "Candidate" /\ round[m][k] = term[m]
                             /\ Majority(Voters(m, term[m]))
<1> SUFFICES ASSUME NEW m \in Node, NEW k \in Loop
             PROVE  Sound(m, k)'
  BY DEF ElectionsAreSound
<1>1. Sound(m, k)
  BY <1>0 DEF ElectionsAreSound
<1>3. CASE ~LoopStep(m, k)
  <2>1. \/ /\ pc'[m][k] = pc[m][k]
           /\ round'[m][k] = round[m][k]
           /\ total'[m][k] = total[m][k]
        \/ pc'[m][k] = "spawned"
    BY <1>0, <1>3, LoopsMoveThemselves
  <2>2. CASE pc'[m][k] = "win"
    <3>1. pc[m][k] = "win" /\ round'[m][k] = round[m][k]
      BY <2>1, <2>2
    <3>2. term'[m] = term[m] /\ role'[m] = role[m] /\ votedFor'[m] = votedFor[m]
      BY <1>3, <3>1, Undisturbed
    <3>3. Majority(Voters(m, term[m]))' /\ votedFor'[m][round'[m][k]] = m
      <4>1. term[m] \in Term /\ Majority(Voters(m, term[m]))
        BY <1>0, <1>1, <3>1 DEF TypeOK
      <4>2. Voters(m, term[m])' = {n \in Node : votedFor'[n][term'[m]] = m}
        BY DEF Voters
      <4>3. Majority({n \in Node : votedFor'[n][term[m]] = m})
        <5> DEFINE t == term[m]
        <5> HIDE DEF t
        <5>1. t \in Term /\ Majority(Voters(m, t))
          BY <4>1 DEF t
        <5>2. Majority(Voters(m, t)) => Majority({n \in Node : votedFor'[n][t] = m})
          <6>1. Voters(m, t) \subseteq {n \in Node : votedFor'[n][t] = m}
            BY <1>0, <5>1, NodeAssumption DEF Voters
          <6>2. QED BY <6>1, MajorityGrows
        <5>3. QED BY <5>1, <5>2 DEF t
      <4>4. QED BY <1>1, <3>1, <3>2, <4>2, <4>3 DEF Majority
    <3>4. QED BY <1>1, <2>2, <3>1, <3>2, <3>3
  <2>3. CASE pc'[m][k] = "collect"
    <3>1. /\ pc[m][k] = "collect" /\ round'[m][k] = round[m][k] /\ total'[m][k] = total[m][k]
          /\ round[m][k] \in Term
      BY <1>0, <2>1, <2>3 DEF TypeOK
    <3>2. votedFor'[m][round[m][k]] = m
      BY <1>0, <1>1, <3>1, NodeAssumption
    <3>3. QED BY <1>1, <2>3, <3>1, <3>2
  <2>4. CASE pc'[m][k] \notin {"win", "collect"}
    BY <1>1, <2>1, <2>4
  <2>5. QED BY <2>2, <2>3, <2>4
<1>4. CASE LoopStep(m, k)
  <2>0. pc \in [Node -> [Loop -> Label]] /\ round \in [Node -> [Loop -> Term]]
        /\ total \in [Node -> [Loop -> Nat]]
    BY <1>0 DEF TypeOK
  <2>1. CASE BeginElection(m, k)
    <3>1. ASSUME pc'[m][k] = "elect"
          PROVE  /\ total'[m][k] = Cardinality(members[m]) + 1
                 /\ Cardinality(members[m]) + 1 >= MinClusterSize
      <4> DEFINE known == Cardinality(members[m]) + 1
      <4>1. members[m] \in SUBSET Node
        BY <1>0 DEF TypeOK
      <4>2. known \in Nat
        BY <4>1, NodesFinite
      <4>3. total' = [total EXCEPT ![m][k] = known] /\ ~(known < MinClusterSize)
        BY <2>0, <2>1, <3>1 DEF BeginElection
      <4> HIDE DEF known
      <4>4. total'[m][k] = known /\ known >= MinClusterSize
        BY <2>0, <4>2, <4>3, SizeAssumption
      <4>5. QED BY <4>4 DEF known
    <3>2. pc'[m][k] = "elect" => 2 * Required(total'[m][k]) > Cardinality(Node)
      BY <3>1, RequiredIsMajority
    <3>3. pc'[m][k] \in {"elect", "refuse"}
      BY <2>0, <2>1 DEF BeginElection
    <3>4. QED BY <3>2, <3>3
  <2>2. CASE BecomeCandidate(m, k)
    BY <1>1, <2>0, <2>2 DEF BecomeCandidate
  <2>3. CASE RequestVotes(m, k)
    <3>1. /\ pc[m][k] = "vote" /\ pc'[m][k] = "collect" /\ round' = round /\ total' = total
      BY <2>0, <2>3 DEF RequestVotes
    <3>2. votedFor'[m][round[m][k]] = m
      BY <1>0, <2>3 DEF RequestVotes, TypeOK
    <3>3. QED BY <1>1, <3>1, <3>2
  <2>4. CASE CountVotes(m, k)
    <3>0. /\ pc[m][k] = "collect" /\ round' = round /\ total' = total /\ votedFor' = votedFor
          /\ term' = term /\ role' = role /\ pc'[m][k] \notin {"collect", "elect", "vote"}
      BY <2>0, <2>4 DEF CountVotes, stateVars, Again
    <3>1. CASE pc'[m][k] # "win"
      BY <3>0, <3>1
    <3>2. CASE pc'[m][k] = "win"
      <4>1. PICK peers \in SUBSET Grants(m, round[m][k]) :
              /\ StillCandidate(m, k)
              /\ Cardinality(peers) + 1 >= Required(total[m][k])
        BY <2>0, <2>4, <3>2 DEF CountVotes, Again
      <4>2. Majority(Voters(m, round[m][k]))
        BY <3>0, <4>1, CountedVotesAreOnRecord
      <4>3. role[m] = "Candidate" /\ term[m] = round[m][k]
        BY <4>1 DEF StillCandidate
      <4>4. Voters(m, term[m])' = Voters(m, round[m][k])
        BY <3>0, <4>3 DEF Voters
      <4>5. QED BY <1>1, <3>0, <3>2, <4>2, <4>3, <4>4 DEF Majority
    <3>3. QED BY <3>1, <3>2
  <2>5. CASE ~BeginElection(m, k) /\ ~BecomeCandidate(m, k) /\ ~RequestVotes(m, k) /\ ~CountVotes(m, k)
    <3>1. pc'[m][k] \notin {"elect", "vote", "collect", "win"}
      BY <1>4, <2>0, <2>5
         DEF LoopStep, LoopEnter, TickIdle, RefuseElection, AbandonElection,
             LoseElection, BecomeLeader, SendHeartbeats, EndHeartbeats, Again
    <3>2. QED BY <3>1
  <2>6. QED BY <2>1, <2>2, <2>3, <2>4, <2>5
<1>5. QED BY <1>3, <1>4

(* Who leads: a leader that stays in its term, or a candidate that wins.   *)
LEMMA WhoLeads ==
    ASSUME TypeOK, [Next]_vars, NEW m \in Node, role'[m] = "Leader"
    PROVE  \/ role[m] = "Leader" /\ term'[m] = term[m]
           \/ \E l \in Loop : BecomeLeader(m, l)
<1>0. TypeOK /\ TypeOK' /\ role'[m] = "Leader"
  BY TypeStep
<1>1. ASSUME NEW n \in Node, NEW l \in Loop, LoopStep(n, l), ~BecomeLeader(n, l)
      PROVE  role[m] = "Leader" /\ term'[m] = term[m]
  <2>1. \/ role' = role /\ term' = term
        \/ role' = [role EXCEPT ![n] = "Follower"] /\ \E t : term' = [term EXCEPT ![n] = t]
        \/ role' = [role EXCEPT ![n] = "Follower"] /\ term' = term
        \/ role' = [role EXCEPT ![n] = "Candidate"] /\ \E t : term' = [term EXCEPT ![n] = t]
    BY <1>1
       DEF LoopStep, LoopEnter, TickIdle, BeginElection, RefuseElection, BecomeCandidate,
           RequestVotes, AbandonElection, CountVotes, LoseElection,
           SendHeartbeats, EndHeartbeats, BecomeFollower, StepDown, stateVars
  <2>2. QED BY <1>0, <2>1 DEF TypeOK
<1>2. ASSUME NEW n \in Node, NEW l \in Loop, BecomeLeader(n, l), n # m
      PROVE  role[m] = "Leader" /\ term'[m] = term[m]
  BY <1>0, <1>2 DEF BecomeLeader, TypeOK
<1>3. ASSUME NEW n \in Node, Handler(n)
      PROVE  role[m] = "Leader" /\ term'[m] = term[m]
  <2>1. \/ role' = role /\ term' = term
        \/ role' = [role EXCEPT ![n] = "Follower"] /\ \E t : term' = [term EXCEPT ![n] = t]
        \/ role' = role /\ \E t \in Term : ~(t > term[n]) /\ t >= term[n] /\ term' = [term EXCEPT ![n] = t]
    BY <1>0, <1>3 DEF Handler, RejectVoteRequest, AcceptVoteRequest, CastVote, RejectHeartbeat,
                FollowLeader, BecomeFollower, stateVars, TypeOK, VoteReq
  <2>2. QED BY <1>0, <2>1, SizeAssumption DEF TypeOK, Term
<1>4. ASSUME NEW n \in Node, NEW o \in Node,
             \/ Start(n) \/ Stop(n) \/ ElectionTimeout(n)
             \/ RegisterMember(n, o) \/ UnregisterMember(n, o)
      PROVE  role[m] = "Leader" /\ term'[m] = term[m]
  BY <1>0, <1>4 DEF Start, Stop, ElectionTimeout, RegisterMember, UnregisterMember, stateVars
<1>5. CASE UNCHANGED vars
  BY <1>0, <1>5 DEF vars, stateVars
<1>6. QED BY <1>1, <1>2, <1>3, <1>4, <1>5 DEF Next

LEMMA LeadersStep ==
    ASSUME IInv, [Next]_vars
    PROVE  LeaderBacked' /\ LeadersAreElected'
<1>0. /\ TypeOK /\ TypeOK' /\ ElectionsAreSound /\ LeaderBacked /\ LeadersAreElected
      /\ \A n \in Node, t \in Term :
           votedFor[n][t] # NoNode => votedFor'[n][t] = votedFor[n][t]
  BY TypeStep, VotesFinal DEF IInv
<1> DEFINE Elected(c, t)  == 2 * Cardinality({n \in Node : votedFor[n][t] = c}) > Cardinality(Node)
           ElectedN(c, t) == 2 * Cardinality({n \in Node : votedFor'[n][t] = c}) > Cardinality(Node)
<1>1. ASSUME NEW c \in Node, NEW t \in Term, Elected(c, t)
      PROVE  ElectedN(c, t)
  <2>1. {n \in Node : votedFor[n][t] = c} \subseteq {n \in Node : votedFor'[n][t] = c}
    BY <1>0, NodeAssumption
  <2>2. QED BY <1>1, <2>1, MajorityGrows DEF Majority
<1>a. /\ \A n \in Node : leader[n] # NoNode => Elected(leader[n], term[n])
      /\ \A b \in beats : Elected(b.from, b.term)
  BY <1>0 DEF LeadersAreElected, Majority, Voters
<1>2. ASSUME NEW m \in Node, NEW l \in Loop, BecomeLeader(m, l)
      PROVE  /\ Elected(m, term[m]) /\ term' = term
             /\ leader' = [leader EXCEPT ![m] = m]
  BY <1>0, <1>2 DEF BecomeLeader, ElectionsAreSound, Majority, Voters
<1>4. LeaderBacked'
  <2>1. ASSUME NEW m \in Node, role'[m] = "Leader"
        PROVE  ElectedN(m, term'[m])
    <3>1. Elected(m, term[m]) /\ term'[m] = term[m]
      BY <1>0, <1>2, <2>1, WhoLeads DEF LeaderBacked, Majority, Voters
    <3>2. term[m] \in Term
      BY <1>0 DEF TypeOK
    <3>3. QED BY <1>1, <3>1, <3>2
  <2>2. QED BY <2>1 DEF LeaderBacked, Majority, Voters
(* Who is followed: the leader a node has, itself, or a heartbeat's sender. *)
<1>5. ASSUME NEW m \in Node, leader'[m] # NoNode
      PROVE  \/ leader'[m] = leader[m] /\ term'[m] = term[m]
             \/ \E l \in Loop : BecomeLeader(m, l)
             \/ \E b \in beats : FollowLeader(m, b)
  <2>1. ASSUME NEW n \in Node, NEW l \in Loop, LoopStep(n, l), ~BecomeLeader(n, l)
        PROVE  leader'[m] = leader[m] /\ term'[m] = term[m]
    <3>1. \/ leader' = leader /\ term' = term
          \/ leader' = [leader EXCEPT ![n] = NoNode] /\ \E t : term' = [term EXCEPT ![n] = t]
      BY <2>1
         DEF LoopStep, LoopEnter, TickIdle, BeginElection, RefuseElection, BecomeCandidate,
             RequestVotes, AbandonElection, CountVotes, LoseElection,
             SendHeartbeats, EndHeartbeats, BecomeFollower, StepDown, stateVars
    <3>2. QED BY <1>0, <1>5, <3>1 DEF TypeOK
  <2>2. ASSUME NEW n \in Node, NEW l \in Loop, BecomeLeader(n, l), n # m
        PROVE  leader'[m] = leader[m] /\ term'[m] = term[m]
    BY <1>0, <2>2 DEF BecomeLeader, TypeOK
  <2>3. ASSUME NEW n \in Node, Handler(n), n # m \/ \A b \in beats : ~FollowLeader(n, b)
        PROVE  leader'[m] = leader[m] /\ term'[m] = term[m]
    <3>1. ASSUME NEW q \in voteReqs, AcceptVoteRequest(n, q)
          PROVE  leader'[m] = leader[m] /\ term'[m] = term[m]
      <4>1. q.term \in Term /\ term[n] \in Nat /\ q.term \in Nat
        BY <1>0, SizeAssumption DEF TypeOK, VoteReq, Term
      <4>2. /\ term' = [term EXCEPT ![n] = q.term]
            /\ \/ leader' = [leader EXCEPT ![n] = NoNode]
               \/ leader' = leader /\ q.term = term[n]
        BY <3>1, <4>1 DEF AcceptVoteRequest
      <4>3. QED BY <1>0, <1>5, <4>2 DEF TypeOK
    <3>2. ASSUME NEW b \in beats, FollowLeader(n, b)
          PROVE  leader'[m] = leader[m] /\ term'[m] = term[m]
      BY <1>0, <2>3, <3>2 DEF FollowLeader, TypeOK
    <3>3. ASSUME NEW x, RejectVoteRequest(n, x) \/ CastVote(n, x) \/ RejectHeartbeat(n, x)
          PROVE  leader'[m] = leader[m] /\ term'[m] = term[m]
      BY <3>3 DEF RejectVoteRequest, CastVote, RejectHeartbeat, stateVars
    <3>4. QED BY <2>3, <3>1, <3>2, <3>3 DEF Handler
  <2>4. ASSUME NEW n \in Node, NEW o \in Node,
               \/ Start(n) \/ Stop(n) \/ ElectionTimeout(n)
               \/ RegisterMember(n, o) \/ UnregisterMember(n, o)
        PROVE  leader'[m] = leader[m] /\ term'[m] = term[m]
    BY <2>4 DEF Start, Stop, ElectionTimeout, RegisterMember, UnregisterMember, stateVars
  <2>5. CASE UNCHANGED vars
    BY <2>5 DEF vars, stateVars
  <2>6. QED BY <2>1, <2>2, <2>3, <2>4, <2>5 DEF Next
<1>6. ASSUME NEW m \in Node, leader'[m] # NoNode
      PROVE  ElectedN(leader'[m], term'[m])
  <2>1. leader'[m] \in Node /\ term[m] \in Term /\ term'[m] \in Term
    BY <1>0, <1>6 DEF TypeOK
  <2>2. Elected(leader'[m], term'[m])
    <3> HIDE DEF Elected, ElectedN
    <3>1. CASE leader'[m] = leader[m] /\ term'[m] = term[m]
      BY <1>a, <1>6, <3>1
    <3>2. ASSUME NEW l \in Loop, BecomeLeader(m, l)
          PROVE  Elected(leader'[m], term'[m])
      <4>1. leader'[m] = m /\ term'[m] = term[m] /\ Elected(m, term[m])
        BY <1>0, <1>2, <3>2 DEF TypeOK
      <4>2. QED BY <4>1
    <3>3. ASSUME NEW b \in beats, FollowLeader(m, b)
          PROVE  Elected(leader'[m], term'[m])
      <4>1. leader'[m] = b.from /\ term'[m] = b.term
        BY <1>0, <3>3 DEF FollowLeader, TypeOK
      <4>2. QED BY <1>a, <4>1
    <3>4. QED BY <1>5, <1>6, <3>1, <3>2, <3>3
  <2>3. QED
    <3> HIDE DEF Elected, ElectedN
    <3>1. QED BY <1>1, <2>1, <2>2
<1>7. ASSUME NEW b \in beats'
      PROVE  ElectedN(b.from, b.term)
  <2>1. b.from \in Node /\ b.term \in Term
    BY <1>0, <1>7 DEF TypeOK, Beat
  <2>2. ASSUME NEW n \in Node, NEW l \in Loop, SendHeartbeats(n, l), b \notin beats
        PROVE  Elected(b.from, b.term)
    <3>1. role[n] = "Leader" /\ b.from = n /\ b.term = term[n]
      BY <1>7, <2>2 DEF SendHeartbeats
    <3>2. QED BY <1>0, <3>1 DEF LeaderBacked, Majority, Voters
  <2>3. ASSUME NEW n \in Node, NEW l \in Loop, LoopStep(n, l), ~SendHeartbeats(n, l)
        PROVE  beats' = beats
    BY <2>3
       DEF LoopStep, LoopEnter, TickIdle, BeginElection, RefuseElection, BecomeCandidate,
           RequestVotes, AbandonElection, CountVotes, LoseElection, BecomeLeader,
           EndHeartbeats, netVars
  <2>4. ASSUME NEW n \in Node, NEW o \in Node,
               \/ Handler(n) \/ Start(n) \/ Stop(n) \/ ElectionTimeout(n)
               \/ RegisterMember(n, o) \/ UnregisterMember(n, o)
        PROVE  beats' = beats
    BY <2>4 DEF Handler, RejectVoteRequest, AcceptVoteRequest, CastVote, RejectHeartbeat,
                FollowLeader, Start, Stop, ElectionTimeout, RegisterMember,
                UnregisterMember, netVars
  <2>5. UNCHANGED vars => beats' = beats
    BY DEF vars, netVars
  <2>6. b \in beats => Elected(b.from, b.term)
    BY <1>0 DEF LeadersAreElected, Majority, Voters
  <2>7. Elected(b.from, b.term)
    BY <1>7, <2>2, <2>3, <2>4, <2>5, <2>6 DEF Next
  <2>8. QED BY <1>1, <2>1, <2>7
<1>8. LeadersAreElected'
  BY <1>6, <1>7 DEF LeadersAreElected, Majority, Voters
<1>9. QED BY <1>4, <1>8

-----------------------------------------------------------------------------
LEMMA InvariantHolds == ~MultiThreaded /\ SoundSizes /\ PeersOnly /\ Spec => []IInv
<1>1. Init => IInv
  <2> SUFFICES ASSUME Init PROVE IInv
    OBVIOUS
  <2>1. TypeOK
    BY NodeAssumption, LoopAssumption, SizeAssumption DEF Init, TypeOK, Term, Role, Label
  <2>2. LoopsKeepThread /\ SingleVotePerTerm /\ LeaderBacked /\ LeadersAreElected
    BY DEF Init, LoopsKeepThread, SingleVotePerTerm, LeaderBacked, LeadersAreElected
  <2>3. PeersAreOthers /\ VotesAreForTermsReached /\ ElectionsAreSound
    BY DEF Init, PeersAreOthers, VotesAreForTermsReached, ElectionsAreSound
  <2>4. QED BY <2>1, <2>2, <2>3 DEF IInv
<1>2. ~MultiThreaded /\ SoundSizes /\ PeersOnly /\ IInv /\ [Next]_vars => IInv'
  <2> SUFFICES ASSUME ~MultiThreaded, SoundSizes, PeersOnly, IInv, [Next]_vars PROVE IInv'
    OBVIOUS
  <2>1. TypeOK'
    BY TypeStep DEF IInv
  <2>2. QED BY <2>1, ThreadStep, PeersStep, TermsReachedStep, SingleVoteStep, ElectionsStep,
               LeadersStep DEF IInv
<1>3. QED
  <2>1. SUFFICES ASSUME ~MultiThreaded, SoundSizes, PeersOnly PROVE Spec => []IInv
    OBVIOUS
  <2>2. IInv /\ [Next]_vars => IInv'
    BY <1>2, <2>1
  <2>3. QED BY <1>1, <2>2, PTL DEF Spec

(* Two nodes elected in the same term are the same node: each voter of the *)
(* majorities they share has one vote.                                     *)
LEMMA ElectedOnce ==
    ASSUME NEW c \in Node, NEW d \in Node, NEW t,
           Majority(Voters(c, t)), Majority(Voters(d, t))
    PROVE  c = d
<1>1. Voters(c, t) \in SUBSET Node /\ Voters(d, t) \in SUBSET Node
  BY DEF Voters
<1>2. PICK n \in Node : n \in Voters(c, t) /\ n \in Voters(d, t)
  BY <1>1, MajoritiesMeet
<1>3. QED BY <1>2 DEF Voters

(* "At most one vote granted per term": on a current_thread runtime no     *)
(* vote a candidate was told of is ever overwritten on the voter's record. *)
THEOREM OneVote == ~MultiThreaded /\ SoundSizes /\ PeersOnly /\ Spec => []SingleVotePerTerm
<1>1. IInv => SingleVotePerTerm
  BY DEF IInv
<1>2. QED BY <1>1, InvariantHolds, PTL

(* No split brain: on a current_thread runtime no term has two leaders,    *)
(* for any number of nodes and terms, whatever messages are lost, late or  *)
(* repeated, with any number of loops per node, and under every change of  *)
(* the membership views when min_cluster_size is a majority and no node    *)
(* is registered on itself.                                                *)
THEOREM Safety == ~MultiThreaded /\ SoundSizes /\ PeersOnly /\ Spec => []ElectionSafety
<1>1. IInv => ElectionSafety
  BY ElectedOnce DEF IInv, LeaderBacked, ElectionSafety
<1>2. QED BY <1>1, InvariantHolds, PTL

(* Nodes that know a leader of the term they share know the same one.      *)
THEOREM Agreement == ~MultiThreaded /\ SoundSizes /\ PeersOnly /\ Spec => []LeaderAgreement
<1>1. IInv => LeaderAgreement
  BY ElectedOnce DEF IInv, TypeOK, LeadersAreElected, LeaderAgreement
<1>2. QED BY <1>1, InvariantHolds, PTL

(* Every leader has a strict majority of the cluster on record in the term *)
(* it leads.                                                               *)
THEOREM Backed == ~MultiThreaded /\ SoundSizes /\ PeersOnly /\ Spec => []LeaderBacked
<1>1. IInv => LeaderBacked
  BY DEF IInv
<1>2. QED BY <1>1, InvariantHolds, PTL

(* become_leader is reached only by a candidate: whoever saw a newer term  *)
(* or heard a leader while it collected votes gives its election up.       *)
THEOREM Winners == ~MultiThreaded /\ SoundSizes /\ PeersOnly /\ Spec => LeadsAsCandidate
<1>1. ASSUME IInv, [Next]_vars
      PROVE  \A n \in Node : role[n] # "Leader" /\ role'[n] = "Leader" => role[n] = "Candidate"
  <2>1. ASSUME NEW n \in Node, role[n] # "Leader", role'[n] = "Leader"
        PROVE  role[n] = "Candidate"
    <3>1. PICK l \in Loop : BecomeLeader(n, l)
      BY <1>1, <2>1, WhoLeads DEF IInv
    <3>2. QED BY <1>1, <3>1 DEF BecomeLeader, IInv, ElectionsAreSound
  <2>2. QED BY <2>1
<1>2. IInv /\ [Next]_vars
        => [\A n \in Node : role[n] # "Leader" /\ role'[n] = "Leader" => role[n] = "Candidate"]_vars
  BY <1>1
<1>3. QED BY <1>2, InvariantHolds, PTL DEF Spec, LeadsAsCandidate
=============================================================================
