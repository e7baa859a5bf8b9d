-------------------------- MODULE HaElectionProofs --------------------------
(* Theorems about HaElection, for every set of nodes, any number of calls,   *)
(* terms and modes.                                                          *)
EXTENDS HaElection, FiniteSetTheorems, TLAPS

(* A newer term, and no vote in it yet.                                      *)
Adopt(n, t) ==
    /\ term' = [term EXCEPT ![n] = t]
    /\ role' = [role EXCEPT ![n] = "Follower"]
    /\ votedFor' = [votedFor EXCEPT ![n] = NoNode]

Calls == [at: {"idle", "waiting", "counting"}, term: Term, answers: SUBSET Answer]

LEMMA ModeType ==
    ASSUME TypeOK
    PROVE  /\ mode.starters \subseteq Node /\ mode.calls \subseteq Call
           /\ mode.stepsDown \in BOOLEAN
<1>1. mode \in [starters: SUBSET Node, calls: SUBSET Call, stepsDown: BOOLEAN]
  BY ElectionAssumption DEF TypeOK
<1>2. QED BY <1>1

LEMMA CallsType ==
    ASSUME TypeOK
    PROVE  calls \in [Node -> [Call -> Calls]]
BY DEF TypeOK, Calls

(* One call changed.                                                         *)
LEMMA PutCall ==
    ASSUME NEW f \in [Node -> [Call -> Calls]], NEW n \in Node, NEW c \in Call,
           NEW x \in Calls
    PROVE  LET g == [f EXCEPT ![n][c] = x]
           IN /\ g \in [Node -> [Call -> Calls]]
              /\ g[n][c] = x
              /\ \A m \in Node, d \in Call : (m # n \/ d # c) => g[m][d] = f[m][d]
OBVIOUS

LEMMA IdleType == Idle \in Calls /\ Idle.at = "idle"
BY ElectionAssumption DEF Idle, Calls, Term

LEMMA VotersFinite ==
    ASSUME NEW S \in SUBSET Node
    PROVE  IsFiniteSet(S) /\ Cardinality(S) \in Nat
BY FS_Subset, FS_CardinalityType, ElectionAssumption

LEMMA Counting ==
    ASSUME NEW n \in Node, NEW c \in Call, NEW a, CountAnswer(n, c, a)
    PROVE  \/ Adopt(n, a.term) /\ UNCHANGED votes
           \/ /\ votes' = [votes EXCEPT ![n] = @ \cup {a.from}]
              /\ UNCHANGED <<term, role, votedFor>>
           \/ UNCHANGED <<term, role, votedFor, votes>>
BY Zenon DEF CountAnswer, Adopt

LEMMA TypeStep == TypeOK /\ [Next]_vars => TypeOK'
<1> SUFFICES ASSUME TypeOK, [Next]_vars PROVE TypeOK'
  OBVIOUS
<1>0. calls \in [Node -> [Call -> Calls]]
  BY CallsType
<1>t. MaxTerm \in Nat /\ Term = 0 .. MaxTerm
  BY ElectionAssumption DEF Term
<1>1. ASSUME NEW n \in Node, NEW c \in Call, StartElection(n, c) PROVE TypeOK'
  <2> DEFINE x == [at |-> "waiting", term |-> term[n] + 1, answers |-> {}]
  <2>1. term[n] + 1 \in Term
    BY <1>1, <1>t DEF StartElection, TypeOK
  <2>2. x \in Calls
    BY <2>1 DEF Calls
  <2>3. calls' = [calls EXCEPT ![n][c] = x]
    BY <1>1 DEF StartElection
  <2> HIDE DEF x
  <2>4. calls' \in [Node -> [Call -> Calls]]
    BY <1>0, <2>2, <2>3, PutCall
  <2>5. requests' \subseteq Request
    BY <1>1, <2>1 DEF StartElection, TypeOK, Request
  <2>6. /\ term' \in [Node -> Term] /\ votes' \in [Node -> SUBSET Node]
        /\ role' \in [Node -> {"Follower", "Candidate", "Leader"}]
        /\ votedFor' \in [Node -> Node \cup {NoNode}]
    BY <1>1, <2>1 DEF StartElection, BecomeCandidate, TypeOK
  <2>7. QED BY <1>1, <2>4, <2>5, <2>6 DEF StartElection, TypeOK, Calls
<1>2. ASSUME NEW n \in Node, NEW r \in requests, Refuse(n, r) PROVE TypeOK'
  <2>1. answers' \subseteq Answer
    <3> DEFINE x == [from |-> n, to |-> r.from, asked |-> r.term, term |-> term[n],
                     granted |-> FALSE]
    <3>1. r.from \in Node /\ r.term \in Term /\ term[n] \in Term
      BY DEF TypeOK, Request
    <3>2. x \in Answer
      BY <3>1 DEF Answer
    <3>3. answers' = answers \cup {x} /\ answers \subseteq Answer
      BY <1>2 DEF Refuse, TypeOK
    <3>4. QED BY <3>2, <3>3
  <2>2. QED BY <1>2, <2>1 DEF Refuse, nodeVars, TypeOK
<1>3. ASSUME NEW n \in Node, NEW r \in requests, GrantVote(n, r) PROVE TypeOK'
  <2>1. r.from \in Node /\ r.term \in Term
    BY DEF TypeOK, Request
  <2>2. /\ term' \in [Node -> Term] /\ votedFor' \in [Node -> Node \cup {NoNode}]
        /\ role' \in [Node -> {"Follower", "Candidate", "Leader"}]
    BY <1>3, <2>1 DEF GrantVote, TypeOK
  <2>3. answers' \subseteq Answer
    <3> DEFINE x == [from |-> n, to |-> r.from, asked |-> r.term, term |-> r.term,
                     granted |-> TRUE]
    <3>1. x \in Answer
      BY <2>1 DEF Answer
    <3>2. answers' = answers \cup {x} /\ answers \subseteq Answer
      BY <1>3 DEF GrantVote, TypeOK
    <3>3. QED BY <3>1, <3>2
  <2>4. QED BY <1>3, <2>2, <2>3 DEF GrantVote, TypeOK
<1>4. ASSUME NEW n \in Node, NEW c \in Call, CollectAnswers(n, c) PROVE TypeOK'
  <2>1. PICK S \in SUBSET answers :
            calls' = [calls EXCEPT ![n][c] =
                        [at |-> "counting", term |-> calls[n][c].term, answers |-> S]]
    BY <1>4 DEF CollectAnswers
  <2> DEFINE x == [at |-> "counting", term |-> calls[n][c].term, answers |-> S]
  <2>2. x \in Calls
    <3>1. calls[n][c].term \in Term
      BY <1>0 DEF Calls
    <3>2. S \subseteq Answer
      BY DEF TypeOK
    <3>3. QED BY <3>1, <3>2 DEF Calls
  <2>3. calls' = [calls EXCEPT ![n][c] = x]
    BY <2>1
  <2> HIDE DEF x
  <2>4. calls' \in [Node -> [Call -> Calls]]
    BY <1>0, <2>2, <2>3, PutCall
  <2>5. QED BY <1>4, <2>4 DEF CollectAnswers, nodeVars, TypeOK, Calls
<1>5. ASSUME NEW n \in Node, NEW c \in Call, NEW a \in calls[n][c].answers,
             CountAnswer(n, c, a)
      PROVE  TypeOK'
  <2> DEFINE x == [at |-> "counting", term |-> calls[n][c].term,
                   answers |-> calls[n][c].answers \ {a}]
  <2>1. calls[n][c] \in Calls
    BY <1>0
  <2>2. x \in Calls /\ a \in Answer
    BY <2>1 DEF Calls
  <2>3. calls' = [calls EXCEPT ![n][c] = x]
    BY <1>5 DEF CountAnswer
  <2> HIDE DEF x
  <2>4. calls' \in [Node -> [Call -> Calls]]
    BY <1>0, <2>2, <2>3, PutCall
  <2>5. /\ term' \in [Node -> Term] /\ votedFor' \in [Node -> Node \cup {NoNode}]
        /\ role' \in [Node -> {"Follower", "Candidate", "Leader"}]
        /\ votes' \in [Node -> SUBSET Node]
    <3>1. a.term \in Term /\ a.from \in Node
      BY <2>2 DEF Answer
    <3>2. CASE Adopt(n, a.term) /\ UNCHANGED votes
      BY <3>1, <3>2 DEF Adopt, TypeOK
    <3>3. CASE votes' = [votes EXCEPT ![n] = @ \cup {a.from}] /\ UNCHANGED <<term, role, votedFor>>
      BY <3>1, <3>3 DEF TypeOK
    <3>4. CASE UNCHANGED <<term, role, votedFor, votes>>
      BY <3>4 DEF TypeOK
    <3>5. QED BY <1>5, <3>2, <3>3, <3>4, Counting
  <2>6. QED BY <1>5, <2>4, <2>5 DEF CountAnswer, TypeOK, Calls
<1>6. ASSUME NEW n \in Node, NEW c \in Call, EndElection(n, c) PROVE TypeOK'
  <2>1. calls' \in [Node -> [Call -> Calls]]
    BY <1>0, <1>6, IdleType, PutCall DEF EndElection
  <2>2. /\ role' \in [Node -> {"Follower", "Candidate", "Leader"}]
        /\ leader' \in [Node -> Node \cup {NoNode}]
    <3>1. CASE role' = [role EXCEPT ![n] = "Leader"] /\ leader' = [leader EXCEPT ![n] = n]
      BY <3>1 DEF TypeOK
    <3>2. CASE role' = [role EXCEPT ![n] = "Follower"] /\ leader' = leader
      BY <3>2 DEF TypeOK
    <3>3. QED BY <1>6, <3>1, <3>2 DEF EndElection
  <2>3. won' \subseteq [node: Node, asked: Term, term: Term]
    <3>1. calls[n][c].term \in Term
      BY <1>0 DEF Calls
    <3>2. term[n] \in Term
      BY DEF TypeOK
    <3>3. QED BY <1>6, <3>1, <3>2 DEF EndElection, TypeOK
  <2>4. QED BY <1>6, <2>1, <2>2, <2>3 DEF EndElection, TypeOK, Calls
<1>7. ASSUME NEW n \in Node, NEW c \in Call, Abandon(n, c) PROVE TypeOK'
  <2>1. calls' \in [Node -> [Call -> Calls]]
    BY <1>0, <1>7, IdleType, PutCall DEF Abandon
  <2>2. QED BY <1>7, <2>1 DEF Abandon, nodeVars, TypeOK, Calls
<1>8. ASSUME NEW n \in Node, StepDown(n) PROVE TypeOK'
  BY <1>8 DEF StepDown, TypeOK
<1>9. CASE UNCHANGED vars
  BY <1>9 DEF vars, nodeVars, TypeOK
<1>10. QED
  BY <1>1, <1>2, <1>3, <1>4, <1>5, <1>6, <1>7, <1>8, <1>9 DEF Next

LEMMA TypeInit == Init => TypeOK
<1> SUFFICES ASSUME Init PROVE TypeOK
  OBVIOUS
<1>1. calls \in [Node -> [Call -> Calls]]
  BY IdleType DEF Init
<1>2. QED BY <1>1, ElectionAssumption DEF Init, TypeOK, Term, Calls

(* Every variable keeps its type.                                            *)
THEOREM TypeCorrect == Spec => []TypeOK
BY TypeInit, TypeStep, PTL DEF Spec

LEMMA LeaderStep == TypeOK /\ LeaderKeepsVotes /\ [Next]_vars => LeaderKeepsVotes'
<1> SUFFICES ASSUME TypeOK, LeaderKeepsVotes, [Next]_vars PROVE LeaderKeepsVotes'
  OBVIOUS
<1>1. ASSUME NEW n \in Node, NEW c \in Call, StartElection(n, c)
      PROVE  LeaderKeepsVotes'
  <2>1. \A m \in Node : m = n \/ (role'[m] = role[m] /\ votes'[m] = votes[m])
    BY <1>1 DEF StartElection, BecomeCandidate, TypeOK
  <2>2. role'[n] = "Candidate" /\ leader' = leader
    BY <1>1 DEF StartElection, BecomeCandidate, TypeOK
  <2>3. QED BY <2>1, <2>2 DEF LeaderKeepsVotes
<1>2. ASSUME NEW n \in Node, NEW r \in requests, Refuse(n, r) \/ GrantVote(n, r)
      PROVE  LeaderKeepsVotes'
  BY <1>2 DEF Refuse, GrantVote, nodeVars, TypeOK, LeaderKeepsVotes
<1>3. ASSUME NEW n \in Node, NEW c \in Call, CollectAnswers(n, c) \/ Abandon(n, c)
      PROVE  LeaderKeepsVotes'
  BY <1>3 DEF CollectAnswers, Abandon, nodeVars, LeaderKeepsVotes
<1>4. ASSUME NEW n \in Node, NEW c \in Call, NEW a \in calls[n][c].answers,
             CountAnswer(n, c, a)
      PROVE  LeaderKeepsVotes'
  <2>1. /\ \A m \in Node : votes[m] \subseteq votes'[m] /\ votes'[m] \in SUBSET Node
        /\ \A m \in Node : role'[m] = "Leader" => role[m] = "Leader"
        /\ leader' = leader
    <3>1. votes' \in [Node -> SUBSET Node]
      BY TypeStep DEF TypeOK
    <3>2. CASE Adopt(n, a.term) /\ UNCHANGED votes
      BY <1>4, <3>1, <3>2 DEF CountAnswer, Adopt, TypeOK
    <3>3. CASE votes' = [votes EXCEPT ![n] = @ \cup {a.from}] /\ UNCHANGED <<term, role, votedFor>>
      BY <1>4, <3>1, <3>3 DEF CountAnswer, TypeOK
    <3>4. CASE UNCHANGED <<term, role, votedFor, votes>>
      BY <1>4, <3>1, <3>4 DEF CountAnswer
    <3>5. QED BY <1>4, <3>2, <3>3, <3>4, Counting
  <2>2. \A m \in Node : Cardinality(votes[m]) <= Cardinality(votes'[m])
    BY <2>1, VotersFinite, FS_Subset
  <2>3. \A m \in Node : /\ Cardinality(votes[m]) \in Nat /\ Cardinality(votes'[m]) \in Nat
                        /\ Majority \in Nat
    <3>1. \A m \in Node : votes[m] \in SUBSET Node
      BY DEF TypeOK
    <3>2. Cardinality(Node) \in Nat
      BY VotersFinite
    <3>3. QED BY <2>1, <3>1, <3>2, VotersFinite DEF Majority
  <2>4. QED BY <2>1, <2>2, <2>3 DEF LeaderKeepsVotes
<1>5. ASSUME NEW n \in Node, NEW c \in Call, EndElection(n, c) PROVE LeaderKeepsVotes'
  BY <1>5 DEF EndElection, TypeOK, LeaderKeepsVotes
<1>6. ASSUME NEW n \in Node, StepDown(n) PROVE LeaderKeepsVotes'
  BY <1>6 DEF StepDown, TypeOK, LeaderKeepsVotes
<1>7. CASE UNCHANGED vars
  BY <1>7 DEF vars, nodeVars, LeaderKeepsVotes
<1>8. QED BY <1>1, <1>2, <1>3, <1>4, <1>5, <1>6, <1>7 DEF Next

(* A leader has the votes that made it one and knows that it leads, whatever *)
(* other calls of the node do and whoever steps down.                        *)
THEOREM LeadersKeepVotes == Spec => []LeaderKeepsVotes
<1>1. Init => LeaderKeepsVotes
  BY DEF Init, LeaderKeepsVotes
<1>2. QED BY <1>1, TypeInit, TypeStep, LeaderStep, PTL DEF Spec

(***************************************************************************)
(* While nobody steps down.                                                *)
(***************************************************************************)

(* Nothing is asked or granted for a term that is ahead of the node, and what *)
(* was done in its current term is on its record.                             *)
RequestSound(r) ==
    /\ r.from # r.to /\ r.term <= term[r.from]
    /\ r.term = term[r.from] => votedFor[r.from] = r.from

GrantSound(a) ==
    /\ a.from # a.to /\ a.asked = a.term /\ a.term <= term[a.from]
    /\ a.term = term[a.from] => votedFor[a.from] = a.to
    /\ [from |-> a.to, to |-> a.from, term |-> a.term] \in requests

(* While a node is in the term it asked votes for, it counts votes of it.     *)
CallSound(n, c) ==
    /\ calls[n][c].term <= term[n]
    /\ \A m \in Node \ {n} :
          [from |-> n, to |-> m, term |-> calls[n][c].term] \in requests
    /\ calls[n][c].term = term[n] => votes[n] \subseteq Voters(n, term[n])
    /\ \A a \in calls[n][c].answers :
          a \in answers /\ a.to = n /\ a.asked = calls[n][c].term

WonSound(w) ==
    /\ Cardinality(Voters(w.node, w.term)) >= Majority
    /\ \A m \in Node \ {w.node} : [from |-> w.node, to |-> m, term |-> w.term] \in requests

VoteInv ==
    /\ \A r \in requests : RequestSound(r)
    /\ \A a \in answers : a.granted => GrantSound(a)
    /\ \A n \in Node, c \in Call : calls[n][c].at # "idle" => CallSound(n, c)
    /\ \A w \in won : w.asked = w.term => WonSound(w)
    /\ VotesAreKept

(* A node's record in its term says whom it can have voted for.              *)
LEMMA VoterHasVoted ==
    ASSUME TypeOK, VoteInv, NEW n \in Node, NEW m \in Node, NEW t \in Term,
           m \in Elections(t), n \in Voters(m, t)
    PROVE  t <= term[n] /\ (t = term[n] => votedFor[n] = m)
<1>1. CASE n = m
  BY <1>1 DEF Elections, VoteInv, RequestSound
<1>2. CASE n # m
  <2>1. PICK a \in answers : a.from = n /\ a.to = m /\ a.asked = t /\ a.granted
    BY <1>2 DEF Voters
  <2>2. GrantSound(a)
    BY <2>1 DEF VoteInv
  <2>3. QED BY <2>1, <2>2 DEF GrantSound
<1>3. QED BY <1>1, <1>2

LEMMA VotersType == \A n \in Node : \A t : Voters(n, t) \in SUBSET Node
BY DEF Voters

LEMMA MajoritiesMeet ==
    ASSUME NEW S \in SUBSET Node, NEW T \in SUBSET Node,
           Cardinality(S) >= Majority, Cardinality(T) >= Majority
    PROVE  S \cap T # {}
<1>1. /\ IsFiniteSet(S) /\ Cardinality(S) \in Nat
      /\ IsFiniteSet(T) /\ Cardinality(T) \in Nat
      /\ Cardinality(Node) \in Nat /\ Cardinality(S \cup T) \in Nat
  <2>1. S \cup T \in SUBSET Node /\ Node \in SUBSET Node
    OBVIOUS
  <2>2. QED BY <2>1, VotersFinite
<1>2. Cardinality(S \cup T) <= Cardinality(Node)
  BY FS_Subset, ElectionAssumption
<1>3. ASSUME S \cap T = {} PROVE FALSE
  <2>1. Cardinality(S \cup T) = Cardinality(S) + Cardinality(T)
    <3>1. Cardinality(S \cap T) = 0
      BY <1>3, FS_EmptySet
    <3>2. Cardinality(S \cup T) = Cardinality(S) + Cardinality(T) - Cardinality(S \cap T)
      BY <1>1, FS_Union
    <3>3. QED BY <1>1, <3>1, <3>2
  <2>2. QED BY <1>1, <1>2, <2>1 DEF Majority
<1>4. QED BY <1>3

LEMMA OneWinner == TypeOK /\ VoteInv => OneLeaderPerTerm
<1> SUFFICES ASSUME TypeOK, VoteInv, NEW v \in won, NEW w \in won,
                    v.asked = v.term, w.asked = w.term, v.term = w.term, v.node # w.node
             PROVE  FALSE
  BY DEF OneLeaderPerTerm
<1>1. v.node \in Node /\ w.node \in Node /\ v.term \in Term
  BY DEF TypeOK
<1>2. WonSound(v) /\ WonSound(w)
  BY DEF VoteInv
<1>3. v.node \in Elections(v.term) /\ w.node \in Elections(v.term)
  <2> DEFINE r == [from |-> v.node, to |-> w.node, term |-> v.term]
             s == [from |-> w.node, to |-> v.node, term |-> v.term]
  <2>1. r \in requests /\ s \in requests
    BY <1>1, <1>2 DEF WonSound
  <2>2. r.from = v.node /\ r.term = v.term /\ s.from = w.node /\ s.term = v.term
    OBVIOUS
  <2> HIDE DEF r, s
  <2>3. QED BY <1>1, <2>1, <2>2 DEF Elections
<1>4. Voters(v.node, v.term) \cap Voters(w.node, v.term) # {}
  BY <1>1, <1>2, VotersType, MajoritiesMeet DEF WonSound
<1>5. QED BY <1>1, <1>3, <1>4 DEF VoteInv, VotesAreKept

(* A step that changes none of the terms, votes and records of a vote.       *)
LEMMA Untouched ==
    ASSUME TypeOK, VoteInv,
           UNCHANGED <<term, votedFor, votes, requests, won>>,
           answers \subseteq answers',
           \A a \in answers' \ answers : ~a.granted,
           \A n \in Node, c \in Call :
              calls'[n][c].at # "idle" =>
                 /\ calls[n][c].at # "idle" /\ calls'[n][c].term = calls[n][c].term
                 /\ \A a \in calls'[n][c].answers :
                       \/ a \in calls[n][c].answers
                       \/ a \in answers /\ a.to = n /\ a.asked = calls[n][c].term
    PROVE  VoteInv'
<1>1. \A n, t : Voters(n, t)' = Voters(n, t)
  BY DEF Voters
<1>2. \A t : Elections(t)' = Elections(t)
  BY DEF Elections
<1>3. VotesAreKept'
  BY <1>1, <1>2 DEF VoteInv, VotesAreKept
<1>5. \A r \in requests' : RequestSound(r)'
  BY DEF VoteInv, RequestSound
<1>6. \A a \in answers' : a.granted => GrantSound(a)'
  BY DEF VoteInv, GrantSound
<1>7. ASSUME NEW n \in Node, NEW c \in Call, calls'[n][c].at # "idle"
      PROVE  CallSound(n, c)'
  <2>1. CallSound(n, c)
    BY <1>7 DEF VoteInv
  <2>2. QED BY <1>1, <1>7, <2>1 DEF CallSound
<1>8. \A w \in won' : w.asked = w.term => WonSound(w)'
  BY <1>1 DEF VoteInv, WonSound
<1>9. QED BY <1>3, <1>5, <1>6, <1>7, <1>8 DEF VoteInv

LEMMA VoteStepQuiet ==
    ASSUME TypeOK, TypeOK', VoteInv,
           \/ UNCHANGED vars
           \/ \E n \in Node, c \in Call : CollectAnswers(n, c) \/ Abandon(n, c)
           \/ \E n \in Node, r \in requests : Refuse(n, r)
    PROVE  VoteInv'
<1>0. calls \in [Node -> [Call -> Calls]]
  BY CallsType
<1>1. CASE UNCHANGED vars
  BY <1>1, Untouched DEF vars, nodeVars
<1>2. ASSUME NEW n \in Node, NEW c \in Call, CollectAnswers(n, c) PROVE VoteInv'
  <2>1. PICK S \in SUBSET {a \in answers : a.to = n /\ a.asked = calls[n][c].term} :
            calls' = [calls EXCEPT ![n][c] =
                        [at |-> "counting", term |-> calls[n][c].term, answers |-> S]]
    BY <1>2 DEF CollectAnswers
  <2> DEFINE x == [at |-> "counting", term |-> calls[n][c].term, answers |-> S]
  <2>2. x \in Calls
    <3>1. calls[n][c].term \in Term
      BY <1>0 DEF Calls
    <3>2. S \subseteq Answer
      BY DEF TypeOK
    <3>3. QED BY <3>1, <3>2 DEF Calls
  <2>3. x.at = "counting" /\ x.term = calls[n][c].term /\ x.answers = S
    OBVIOUS
  <2>4. calls' = [calls EXCEPT ![n][c] = x]
    BY <2>1
  <2> HIDE DEF x
  <2>5. /\ calls'[n][c] = x
        /\ \A m \in Node, d \in Call : (m # n \/ d # c) => calls'[m][d] = calls[m][d]
    BY <1>0, <2>2, <2>4, PutCall
  <2>7. /\ UNCHANGED <<term, votedFor, votes, requests, won>> /\ answers' = answers
        /\ calls[n][c].at = "waiting"
    BY <1>2 DEF CollectAnswers, nodeVars
  <2>8. \A m \in Node, d \in Call :
           calls'[m][d].at # "idle" =>
              /\ calls[m][d].at # "idle" /\ calls'[m][d].term = calls[m][d].term
              /\ \A a \in calls'[m][d].answers :
                    \/ a \in calls[m][d].answers
                    \/ a \in answers /\ a.to = m /\ a.asked = calls[m][d].term
    BY <2>3, <2>5, <2>7
  <2>9. QED BY <2>7, <2>8, Untouched
<1>3. ASSUME NEW n \in Node, NEW c \in Call, Abandon(n, c) PROVE VoteInv'
  <2>1. /\ calls'[n][c].at = "idle"
        /\ \A m \in Node, d \in Call : (m # n \/ d # c) => calls'[m][d] = calls[m][d]
    BY <1>0, <1>3, IdleType, PutCall DEF Abandon
  <2>2. UNCHANGED <<term, votedFor, votes, requests, won>> /\ answers' = answers
    BY <1>3 DEF Abandon, nodeVars
  <2>3. \A m \in Node, d \in Call : calls'[m][d].at # "idle" => calls'[m][d] = calls[m][d]
    BY <2>1
  <2>4. QED BY <2>2, <2>3, Untouched
<1>4. ASSUME NEW n \in Node, NEW r \in requests, Refuse(n, r) PROVE VoteInv'
  <2> DEFINE x == [from |-> n, to |-> r.from, asked |-> r.term, term |-> term[n],
                   granted |-> FALSE]
  <2>1. /\ UNCHANGED <<term, votedFor, votes, requests, won, calls>>
        /\ answers' = answers \cup {x}
    BY <1>4 DEF Refuse, nodeVars
  <2>2. ~x.granted
    BY Zenon
  <2> HIDE DEF x
  <2>3. answers \subseteq answers' /\ \A a \in answers' \ answers : ~a.granted
    BY <2>1, <2>2
  <2>4. QED BY <2>1, <2>3, Untouched
<1>5. QED BY <1>1, <1>2, <1>3, <1>4

LEMMA VoteStepStart ==
    ASSUME TypeOK, TypeOK', VoteInv, NEW n \in Node, NEW c \in Call, StartElection(n, c)
    PROVE  VoteInv'
<1> DEFINE t0 == term[n] + 1
           x == [at |-> "waiting", term |-> t0, answers |-> {}]
<1>0. calls \in [Node -> [Call -> Calls]]
  BY CallsType
<1>t. /\ term \in [Node -> Nat] /\ t0 \in Term /\ t0 \in Nat /\ t0 > term[n]
      /\ votedFor \in [Node -> Node \cup {NoNode}] /\ votes \in [Node -> SUBSET Node]
  BY ElectionAssumption DEF TypeOK, Term, StartElection
<1>1. /\ x \in Calls /\ x.at = "waiting" /\ x.term = t0 /\ x.answers = {}
      /\ calls' = [calls EXCEPT ![n][c] = x]
  BY <1>t DEF Calls, StartElection
<1>2. /\ term' = [term EXCEPT ![n] = t0] /\ votedFor' = [votedFor EXCEPT ![n] = n]
      /\ votes' = [votes EXCEPT ![n] = {n}]
      /\ UNCHANGED <<answers, won>>
  BY DEF StartElection, BecomeCandidate
<1>3. /\ requests \subseteq requests'
      /\ \A m \in Node \ {n} : [from |-> n, to |-> m, term |-> t0] \in requests'
      /\ \A r \in requests' \ requests : r.from = n /\ r.to # n /\ r.term = t0
  BY DEF StartElection
<1> HIDE DEF x, t0
<1>5. /\ calls'[n][c] = x
      /\ \A m \in Node, d \in Call : (m # n \/ d # c) => calls'[m][d] = calls[m][d]
  BY <1>0, <1>1, PutCall
<1>6. /\ term'[n] = t0 /\ votedFor'[n] = n /\ votes'[n] = {n}
      /\ \A m \in Node : m # n => /\ term'[m] = term[m] /\ votedFor'[m] = votedFor[m]
                                  /\ votes'[m] = votes[m]
  BY <1>2, <1>t
<1>v. \A m, t : Voters(m, t)' = Voters(m, t)
  BY <1>2 DEF Voters
<1>8. \A r \in requests' : RequestSound(r)'
  <2> SUFFICES ASSUME NEW r \in requests' PROVE RequestSound(r)'
    OBVIOUS
  <2>1. CASE r \in requests
    <3>1. RequestSound(r) /\ r.from \in Node /\ r.term \in Nat
      BY <2>1, ElectionAssumption DEF VoteInv, TypeOK, Request, Term
    <3>2. QED BY <3>1, <1>6, <1>t DEF RequestSound
  <2>2. CASE r \notin requests
    BY <2>2, <1>3, <1>6, <1>t, ElectionAssumption DEF RequestSound, Term
  <2>3. QED BY <2>1, <2>2
<1>9. \A a \in answers' : a.granted => GrantSound(a)'
  <2> SUFFICES ASSUME NEW a \in answers, a.granted PROVE GrantSound(a)'
    BY <1>2
  <2>1. GrantSound(a) /\ a.from \in Node /\ a.term \in Nat
    BY ElectionAssumption DEF VoteInv, TypeOK, Answer, Term
  <2>2. QED BY <2>1, <1>3, <1>6, <1>t DEF GrantSound
<1>10. ASSUME NEW m \in Node, NEW d \in Call, calls'[m][d].at # "idle"
       PROVE  CallSound(m, d)'
  <2>1. CASE m = n /\ d = c
    <3>1. n \in Voters(n, t0)
      BY DEF Voters
    <3>2. QED BY <2>1, <3>1, <1>1, <1>3, <1>5, <1>6, <1>v, <1>t, ElectionAssumption
          DEF CallSound, Term
  <2>2. CASE m # n \/ d # c
    <3>1. CallSound(m, d) /\ calls'[m][d] = calls[m][d]
      BY <1>5, <1>10, <2>2 DEF VoteInv
    <3>2. calls[m][d].term \in Nat
      BY <1>0, ElectionAssumption DEF Calls, Term
    <3>3. calls'[m][d].term <= term'[m]
      BY <3>1, <3>2, <1>6, <1>t DEF CallSound
    <3>4. calls'[m][d].term = term'[m] => votes'[m] \subseteq Voters(m, term'[m])
      BY <3>1, <3>2, <1>6, <1>t DEF CallSound
    <3>5. QED BY <3>1, <3>3, <3>4, <1>2, <1>3, <1>v DEF CallSound
  <2>3. QED BY <2>1, <2>2
<1>11. \A w \in won' : w.asked = w.term => WonSound(w)'
  BY <1>2, <1>3, <1>v DEF VoteInv, WonSound
<1>12. VotesAreKept'
  <2> SUFFICES ASSUME NEW t \in Term, NEW k \in Node, NEW m \in Node, k # m,
                      k \in Elections(t)', m \in Elections(t)'
               PROVE  Voters(k, t) \cap Voters(m, t) = {}
    BY <1>v DEF VotesAreKept, Elections
  <2>1. \A j \in Node : j \in Elections(t)' => j \in Elections(t) \/ (j = n /\ t = t0)
    BY <1>3 DEF Elections
  <2>2. Voters(n, t0) = {n}
    <3>1. ASSUME NEW a \in answers, a.to = n, a.asked = t0, a.granted PROVE FALSE
      <4>1. GrantSound(a)
        BY <3>1 DEF VoteInv
      <4> DEFINE r == [from |-> n, to |-> a.from, term |-> t0]
      <4>2. r \in requests /\ r.from = n /\ r.term = t0
        BY <3>1, <4>1 DEF GrantSound
      <4> HIDE DEF r
      <4>3. QED BY <4>2, <1>t, ElectionAssumption DEF VoteInv, RequestSound, Term
    <3>2. QED BY <3>1 DEF Voters
  <2>3. \A j \in Node : j \in Elections(t0) => n \notin Voters(j, t0)
    BY <1>t, VoterHasVoted, ElectionAssumption DEF Term
  <2>4. CASE k \in Elections(t) /\ m \in Elections(t)
    BY <2>4 DEF VoteInv, VotesAreKept
  <2>5. CASE k \notin Elections(t) \/ m \notin Elections(t)
    BY <2>5, <2>1, <2>2, <2>3
  <2>6. QED BY <2>4, <2>5
<1>13. QED BY <1>8, <1>9, <1>10, <1>11, <1>12 DEF VoteInv

LEMMA VoteStepEnd ==
    ASSUME TypeOK, TypeOK', VoteInv, NEW n \in Node, NEW c \in Call, EndElection(n, c)
    PROVE  VoteInv'
<1>0. calls \in [Node -> [Call -> Calls]]
  BY CallsType
<1>1. /\ calls'[n][c].at = "idle"
      /\ \A m \in Node, d \in Call : (m # n \/ d # c) => calls'[m][d] = calls[m][d]
  BY <1>0, IdleType, PutCall DEF EndElection
<1>2. UNCHANGED <<term, votedFor, votes, requests, answers>>
  BY DEF EndElection
<1>v. \A m, t : Voters(m, t)' = Voters(m, t)
  BY <1>2 DEF Voters
<1>4. /\ \A r \in requests' : RequestSound(r)'
      /\ \A a \in answers' : a.granted => GrantSound(a)'
  BY <1>2 DEF VoteInv, RequestSound, GrantSound
<1>5. ASSUME NEW m \in Node, NEW d \in Call, calls'[m][d].at # "idle"
      PROVE  CallSound(m, d)'
  <2>1. CallSound(m, d) /\ calls'[m][d] = calls[m][d]
    BY <1>1, <1>5 DEF VoteInv
  <2>2. QED BY <2>1, <1>2, <1>v DEF CallSound
<1>6. \A w \in won' : w.asked = w.term => WonSound(w)'
  <2> DEFINE x == [node |-> n, asked |-> calls[n][c].term, term |-> term[n]]
  <2> SUFFICES ASSUME NEW w \in won', w.asked = w.term PROVE WonSound(w)
    BY <1>2, <1>v DEF WonSound
  <2>1. CASE w \in won
    BY <2>1 DEF VoteInv
  <2>2. CASE w \notin won
    <3>1. w = x /\ Cardinality(votes[n]) >= Majority
      BY <2>2 DEF EndElection
    <3>2. CallSound(n, c) /\ calls[n][c].term = term[n]
      BY <3>1 DEF EndElection, VoteInv
    <3>3. votes[n] \subseteq Voters(n, term[n])
      BY <3>2 DEF CallSound
    <3>4. votes[n] \in SUBSET Node /\ Voters(n, term[n]) \in SUBSET Node
      BY VotersType DEF TypeOK
    <3>5. Cardinality(votes[n]) <= Cardinality(Voters(n, term[n]))
      BY <3>3, <3>4, VotersFinite, FS_Subset
    <3>6. Cardinality(votes[n]) \in Nat /\ Cardinality(Voters(n, term[n])) \in Nat
      BY <3>4, VotersFinite
    <3>7. Majority \in Nat
      BY VotersFinite DEF Majority
    <3>8. Cardinality(Voters(n, term[n])) >= Majority
      BY <3>1, <3>5, <3>6, <3>7
    <3>9. \A m \in Node \ {n} : [from |-> n, to |-> m, term |-> term[n]] \in requests
      BY <3>2 DEF CallSound
    <3>10. QED BY <3>1, <3>8, <3>9 DEF WonSound
  <2>3. QED BY <2>1, <2>2
<1>7. VotesAreKept'
  BY <1>2, <1>v DEF VoteInv, VotesAreKept, Elections
<1>8. QED BY <1>4, <1>5, <1>6, <1>7 DEF VoteInv

(* A node adopts a newer term.                                               *)
LEMMA VoteStepAdopt ==
    ASSUME TypeOK, TypeOK', VoteInv,
           NEW n \in Node, NEW t \in Term, t > term[n], Adopt(n, t),
           UNCHANGED <<votes, requests, answers, won>>,
           \A m \in Node, d \in Call :
              /\ m # n => calls'[m][d] = calls[m][d]
              /\ calls'[m][d].at = calls[m][d].at /\ calls'[m][d].term = calls[m][d].term
              /\ calls'[m][d].answers \subseteq calls[m][d].answers
    PROVE  VoteInv'
<1>t. /\ term \in [Node -> Nat] /\ t \in Nat
      /\ votedFor \in [Node -> Node \cup {NoNode}] /\ votes \in [Node -> SUBSET Node]
  BY ElectionAssumption DEF TypeOK, Term
<1>1. /\ term'[n] = t /\ votedFor'[n] = NoNode
      /\ \A m \in Node : m # n => term'[m] = term[m] /\ votedFor'[m] = votedFor[m]
  BY <1>t DEF Adopt
<1>v. \A m, k : Voters(m, k)' = Voters(m, k)
  BY DEF Voters
<1>3. \A r \in requests' : RequestSound(r)'
  <2> SUFFICES ASSUME NEW r \in requests PROVE RequestSound(r)'
    OBVIOUS
  <2>1. RequestSound(r) /\ r.from \in Node /\ r.term \in Nat
    BY ElectionAssumption DEF VoteInv, TypeOK, Request, Term
  <2>2. QED BY <2>1, <1>1, <1>t DEF RequestSound
<1>4. \A a \in answers' : a.granted => GrantSound(a)'
  <2> SUFFICES ASSUME NEW a \in answers, a.granted PROVE GrantSound(a)'
    OBVIOUS
  <2>1. GrantSound(a) /\ a.from \in Node /\ a.term \in Nat
    BY ElectionAssumption DEF VoteInv, TypeOK, Answer, Term
  <2>2. QED BY <2>1, <1>1, <1>t DEF GrantSound
<1>5. ASSUME NEW m \in Node, NEW d \in Call, calls'[m][d].at # "idle"
      PROVE  CallSound(m, d)'
  <2>1. CallSound(m, d)
    BY <1>5 DEF VoteInv
  <2>2. calls[m][d].term \in Nat
    BY CallsType, ElectionAssumption DEF Calls, Term
  <2>3. calls'[m][d].term <= term'[m]
    BY <2>1, <2>2, <1>1, <1>t DEF CallSound
  <2>4. calls'[m][d].term = term'[m] => votes'[m] \subseteq Voters(m, term'[m])
    BY <2>1, <2>2, <1>1, <1>t DEF CallSound
  <2>5. QED BY <2>1, <2>3, <2>4, <1>v DEF CallSound
<1>6. \A w \in won' : w.asked = w.term => WonSound(w)'
  BY <1>v DEF VoteInv, WonSound
<1>7. VotesAreKept'
  BY <1>v DEF VoteInv, VotesAreKept, Elections
<1>8. QED BY <1>3, <1>4, <1>5, <1>6, <1>7 DEF VoteInv

LEMMA VoteStepCount ==
    ASSUME TypeOK, TypeOK', VoteInv, NEW n \in Node, NEW c \in Call,
           NEW a \in calls[n][c].answers, CountAnswer(n, c, a)
    PROVE  VoteInv'
<1> DEFINE x == [at |-> "counting", term |-> calls[n][c].term,
                 answers |-> calls[n][c].answers \ {a}]
<1>0. calls \in [Node -> [Call -> Calls]]
  BY CallsType
<1>1. /\ calls' = [calls EXCEPT ![n][c] = x] /\ calls[n][c].at = "counting"
      /\ UNCHANGED <<requests, answers, won>>
  BY DEF CountAnswer
<1>2. /\ a \in Answer /\ x \in Calls /\ x.at = calls[n][c].at /\ x.term = calls[n][c].term
      /\ x.answers \subseteq calls[n][c].answers
  <2>1. calls[n][c] \in Calls
    BY <1>0
  <2>2. QED BY <2>1, <1>1 DEF Calls
<1>3. CallSound(n, c) /\ a \in answers /\ a.to = n /\ a.asked = calls[n][c].term
  BY <1>1 DEF VoteInv, CallSound
<1> HIDE DEF x
<1>5. calls'[n][c] = x /\ \A m \in Node, d \in Call : (m # n \/ d # c) =>
                                calls'[m][d] = calls[m][d]
  BY <1>0, <1>1, <1>2, PutCall
<1>6. \A m \in Node, d \in Call :
         /\ m # n => calls'[m][d] = calls[m][d]
         /\ calls'[m][d].at = calls[m][d].at /\ calls'[m][d].term = calls[m][d].term
         /\ calls'[m][d].answers \subseteq calls[m][d].answers
  BY <1>2, <1>5
<1>7. CASE a.term > term[n] /\ Adopt(n, a.term) /\ UNCHANGED votes
  <2>1. a.term \in Term
    BY <1>2 DEF Answer
  <2>2. QED BY <1>1, <1>6, <1>7, <2>1, VoteStepAdopt
<1>8. CASE a.term = term[n] /\ a.granted /\ votes' = [votes EXCEPT ![n] = @ \cup {a.from}]
           /\ UNCHANGED <<term, role, votedFor>>
  <2>1. \A m, t : Voters(m, t)' = Voters(m, t)
    BY <1>1 DEF Voters
  <2>2. a.from \in Voters(n, term[n])
    <3>1. a.asked = term[n] /\ a.from \in Node
      BY <1>2, <1>3, <1>8 DEF VoteInv, GrantSound, Answer
    <3>2. QED BY <3>1, <1>3, <1>8 DEF Voters
  <2>3. votes'[n] = votes[n] \cup {a.from} /\ \A m \in Node : m # n => votes'[m] = votes[m]
    BY <1>8 DEF TypeOK
  <2>4. ASSUME NEW m \in Node, NEW d \in Call, calls'[m][d].at # "idle"
        PROVE  CallSound(m, d)'
    <3>1. CallSound(m, d)
      BY <1>6, <2>4 DEF VoteInv
    <3>2. calls'[m][d].term = term[m] => votes'[m] \subseteq Voters(m, term[m])
      BY <3>1, <1>6, <2>2, <2>3 DEF CallSound
    <3>3. QED BY <3>1, <3>2, <1>1, <1>6, <1>8, <2>1 DEF CallSound
  <2>6. /\ \A q \in requests' : RequestSound(q)'
        /\ \A g \in answers' : g.granted => GrantSound(g)'
    BY <1>1, <1>8 DEF VoteInv, RequestSound, GrantSound
  <2>7. \A w \in won' : w.asked = w.term => WonSound(w)'
    BY <1>1, <2>1 DEF VoteInv, WonSound
  <2>8. VotesAreKept'
    BY <1>1, <2>1 DEF VoteInv, VotesAreKept, Elections
  <2>9. QED BY <2>4, <2>6, <2>7, <2>8 DEF VoteInv
<1>9. CASE UNCHANGED <<term, role, votedFor, votes>>
  <2>1. \A m \in Node, d \in Call :
           calls'[m][d].at # "idle" =>
              /\ calls[m][d].at # "idle" /\ calls'[m][d].term = calls[m][d].term
              /\ \A g \in calls'[m][d].answers :
                    \/ g \in calls[m][d].answers
                    \/ g \in answers /\ g.to = m /\ g.asked = calls[m][d].term
    BY <1>6
  <2>2. QED BY <1>1, <1>9, <2>1, Untouched
<1>10. QED
  BY <1>7, <1>8, <1>9, Zenon DEF CountAnswer, Adopt

LEMMA VoteStepGrant ==
    ASSUME TypeOK, TypeOK', VoteInv, NEW n \in Node, NEW r \in requests, GrantVote(n, r)
    PROVE  VoteInv'
<1> DEFINE k == r.from
           t == r.term
           g == [from |-> n, to |-> k, asked |-> t, term |-> t, granted |-> TRUE]
<1>1. /\ k \in Node /\ t \in Term /\ k # n /\ t \in Nat /\ t >= term[n]
      /\ t = term[n] => votedFor[n] \in {NoNode, k}
      /\ [from |-> k, to |-> n, term |-> t] \in requests
      /\ votedFor \in [Node -> Node \cup {NoNode}] /\ NoNode \notin Node
      /\ term \in [Node -> Nat]
  <2>1. r \in Request /\ RequestSound(r) /\ r.to = n
    BY DEF VoteInv, TypeOK, GrantVote
  <2>2. r = [from |-> r.from, to |-> r.to, term |-> r.term]
    BY <2>1 DEF Request
  <2>3. QED
    BY <2>1, <2>2, ElectionAssumption DEF Request, RequestSound, GrantVote, TypeOK, Term
<1>2. UNCHANGED <<votes, calls, requests, won>>
  BY DEF GrantVote
<1>3. /\ votedFor'[n] = k /\ term'[n] = t
      /\ \A m \in Node : m # n => votedFor'[m] = votedFor[m] /\ term'[m] = term[m]
  BY <1>1 DEF GrantVote
<1>4. answers' = answers \cup {g}
  BY DEF GrantVote
<1>5. g.from = n /\ g.to = k /\ g.asked = t /\ g.term = t /\ g.granted
  BY Zenon
<1> HIDE DEF g, k, t
<1>6. \A m \in Node : \A u : (m # k \/ u # t) => Voters(m, u)' = Voters(m, u)
  BY <1>4, <1>5 DEF Voters
<1>7. Voters(k, t)' = Voters(k, t) \cup {n}
  BY <1>1, <1>4, <1>5 DEF Voters
<1>8. \A m \in Node : \A u : Voters(m, u) \subseteq Voters(m, u)'
  BY <1>6, <1>7
<1>9. \A q \in requests' : RequestSound(q)'
  <2> SUFFICES ASSUME NEW q \in requests PROVE RequestSound(q)'
    BY <1>2
  <2>1. RequestSound(q) /\ q.from \in Node /\ q.term \in Nat
    BY ElectionAssumption DEF VoteInv, TypeOK, Request, Term
  <2>2. CASE q.from = n
    <3>1. q.term <= term[n] /\ (q.term = term[n] => votedFor[n] = n)
      BY <2>1, <2>2 DEF RequestSound
    <3>2. q.term <= t /\ (q.term = t => q.term = term[n])
      BY <3>1, <2>1, <1>1
    <3>3. q.term # t
      BY <3>1, <3>2, <1>1
    <3>4. QED BY <2>1, <2>2, <3>2, <3>3, <1>3 DEF RequestSound
  <2>3. CASE q.from # n
    BY <2>1, <2>3, <1>3 DEF RequestSound
  <2>4. QED BY <2>2, <2>3
<1>10. \A a \in answers' : a.granted => GrantSound(a)'
  <2> SUFFICES ASSUME NEW a \in answers', a.granted PROVE GrantSound(a)'
    OBVIOUS
  <2>1. CASE a = g
    BY <2>1, <1>1, <1>2, <1>3, <1>5 DEF GrantSound
  <2>2. CASE a \in answers
    <3>1. GrantSound(a) /\ a.from \in Node /\ a.to \in Node /\ a.term \in Nat
      BY <2>2, ElectionAssumption DEF VoteInv, TypeOK, Answer, Term
    <3>2. a.from = n => a.term <= t /\ (a.term = t => a.term = term[n])
      BY <3>1, <1>1 DEF GrantSound
    <3>3. a.from = n /\ a.term = t => a.to = k
      BY <3>1, <3>2, <1>1 DEF GrantSound
    <3>4. QED BY <3>1, <3>2, <3>3, <1>2, <1>3 DEF GrantSound
  <2>3. QED BY <1>4, <2>1, <2>2
<1>11. ASSUME NEW m \in Node, NEW c \in Call, calls'[m][c].at # "idle"
       PROVE  CallSound(m, c)'
  <2>1. /\ CallSound(m, c) /\ votes' = votes /\ calls' = calls /\ requests' = requests
        /\ calls[m][c].term \in Nat
    BY <1>11, <1>2, CallsType, ElectionAssumption DEF VoteInv, Calls, Term
  <2>2. calls[m][c].term <= term'[m] /\ (calls[m][c].term = term'[m] => term'[m] = term[m])
    BY <2>1, <1>1, <1>3 DEF CallSound
  <2>3. PICK u \in Term : u = term'[m]
    BY DEF TypeOK
  <2>4. calls[m][c].term = u => votes[m] \subseteq Voters(m, u)'
    BY <2>1, <2>2, <2>3, <1>8 DEF CallSound
  <2>5. calls'[m][c].term = term'[m] => votes'[m] \subseteq Voters(m, term[m])'
    <3>1. Voters(m, term[m])' = Voters(m, u)'
      BY <2>3 DEF Voters
    <3>2. QED BY <2>1, <2>3, <2>4, <3>1
  <2>6. \A a \in calls'[m][c].answers :
           a \in answers' /\ a.to = m /\ a.asked = calls'[m][c].term
    BY <2>1, <1>4 DEF CallSound
  <2>7. QED BY <2>1, <2>2, <2>5, <2>6 DEF CallSound
<1>12. \A w \in won' : w.asked = w.term => WonSound(w)'
  <2> SUFFICES ASSUME NEW w \in won, w.asked = w.term PROVE WonSound(w)'
    BY <1>2
  <2>1. WonSound(w) /\ w.node \in Node
    BY DEF VoteInv, TypeOK
  <2>2. /\ Voters(w.node, w.term) \in SUBSET Node
        /\ Voters(w.node, w.term)' \in SUBSET Node
        /\ Voters(w.node, w.term) \subseteq Voters(w.node, w.term)'
    BY <2>1, <1>8, VotersType DEF Voters
  <2>3. /\ Cardinality(Voters(w.node, w.term)) \in Nat
        /\ Cardinality(Voters(w.node, w.term)') \in Nat
        /\ Cardinality(Voters(w.node, w.term)) <= Cardinality(Voters(w.node, w.term)')
        /\ Majority \in Nat
    BY <2>2, VotersFinite, FS_Subset DEF Majority
  <2>4. Cardinality(Voters(w.node, w.term)') >= Majority
    BY <2>1, <2>3 DEF WonSound
  <2>5. QED BY <2>1, <2>4, <1>2 DEF WonSound
<1>13. VotesAreKept'
  <2> SUFFICES ASSUME NEW u \in Term, NEW i \in Node, NEW j \in Node, i # j,
                      i \in Elections(u), j \in Elections(u)
               PROVE  Voters(i, u)' \cap Voters(j, u)' = {}
    BY <1>2 DEF VotesAreKept, Elections
  <2>1. Voters(i, u) \cap Voters(j, u) = {}
    BY DEF VoteInv, VotesAreKept
  <2>2. CASE u # t \/ (i # k /\ j # k)
    BY <2>1, <2>2, <1>6
  <2>3. CASE u = t /\ (i = k \/ j = k)
    <3>1. \A m \in Elections(t) : m # k => n \notin Voters(m, t)
      <4> SUFFICES ASSUME NEW m \in Elections(t), m # k, n \in Voters(m, t) PROVE FALSE
        OBVIOUS
      <4>1. m \in Node
        BY DEF Elections
      <4>2. t <= term[n] /\ (t = term[n] => votedFor[n] = m)
        BY <4>1, <1>1, VoterHasVoted
      <4>3. t = term[n]
        BY <4>2, <1>1
      <4>4. QED BY <4>1, <4>2, <4>3, <1>1
    <3>2. QED BY <2>1, <2>3, <3>1, <1>6, <1>7
  <2>4. QED BY <2>2, <2>3
<1>14. QED BY <1>9, <1>10, <1>11, <1>12, <1>13 DEF VoteInv

LEMMA VoteStep == TypeOK /\ TypeOK' /\ Calm /\ VoteInv /\ [Next]_vars => VoteInv'
<1> SUFFICES ASSUME TypeOK, TypeOK', Calm, VoteInv, [Next]_vars PROVE VoteInv'
  OBVIOUS
<1>0. ~mode.stepsDown
  BY DEF Calm
<1>1. CASE \/ UNCHANGED vars
           \/ \E n \in Node, c \in Call : CollectAnswers(n, c) \/ Abandon(n, c)
           \/ \E n \in Node, r \in requests : Refuse(n, r)
  BY <1>1, VoteStepQuiet
<1>2. ASSUME NEW n \in Node, NEW c \in Call,
             \/ StartElection(n, c) \/ EndElection(n, c)
             \/ \E a \in calls[n][c].answers : CountAnswer(n, c, a)
      PROVE  VoteInv'
  BY <1>2, VoteStepStart, VoteStepEnd, VoteStepCount
<1>3. ASSUME NEW n \in Node, NEW r \in requests, GrantVote(n, r) PROVE VoteInv'
  BY <1>3, VoteStepGrant
<1>4. ASSUME NEW n \in Node, StepDown(n) PROVE VoteInv'
  BY <1>0, <1>4 DEF StepDown
<1>5. QED BY <1>1, <1>2, <1>3, <1>4 DEF Next

LEMMA ModeStays == [Next]_vars => mode' = mode
BY DEF Next, StartElection, CollectAnswers, EndElection, Abandon, CountAnswer, Refuse,
       GrantVote, StepDown, vars

IInv == TypeOK /\ (Calm => VoteInv)

LEMMA Inductive == Spec => []IInv
<1>1. Init => IInv
  <2>1. Init => VoteInv
    BY IdleType DEF Init, VoteInv, VotesAreKept, Elections
  <2>2. QED BY <2>1, TypeInit DEF IInv
<1>2. IInv /\ [Next]_vars => IInv'
  BY TypeStep, VoteStep, ModeStays DEF IInv, Calm
<1>3. QED BY <1>1, <1>2, PTL DEF Spec

(* Whatever is lost, delayed, repeated or overtaken, no node votes for two   *)
(* candidates of one term, while nobody steps down.                          *)
THEOREM OneVote == Spec => []OneVotePerTerm
<1>1. IInv => OneVotePerTerm
  BY DEF IInv, OneVotePerTerm, VoteInv
<1>2. QED BY <1>1, Inductive, PTL

(* Two elections that were won in the term they asked votes for were not of  *)
(* one term, unless of one node.                                             *)
THEOREM OneLeader == Spec => []OneLeaderPerTerm
<1>1. IInv => OneLeaderPerTerm
  BY OneWinner DEF IInv, OneLeaderPerTerm
<1>2. QED BY <1>1, Inductive, PTL
=============================================================================
