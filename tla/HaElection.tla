----------------------------- MODULE HaElection -----------------------------
(***************************************************************************)
(* Leader election of the high-availability crate                          *)
(* (crates/oxigeo-ha/src/failover/election.rs, transport.rs).              *)
(*                                                                         *)
(* An election is a call of start_election, which the embedder makes and   *)
(* may drop; several calls on one node share its votes.  The runtime is    *)
(* tokio's current_thread, as in the crate's tests: none of the functions  *)
(* awaits anything but the answers of the peers, so each runs from one     *)
(* await to the next without interruption.  What threads may interleave    *)
(* between the locks of one function is not modelled.                      *)
(*                                                                         *)
(* Every node knows all others as its peers and has a transport, which may *)
(* lose, delay and repeat what it carries.  State is in memory only: a     *)
(* crashed node takes no more steps, and returns as a new one.             *)
(***************************************************************************)
EXTENDS Integers, FiniteSets

CONSTANTS
    Node,
    NoNode,    \* None
    Call,      \* slots for calls of start_election on one node
    MaxTerm,   \* bound: no election is started in this term
    Modes      \* [starters, calls, stepsDown], see `mode`

ASSUME ElectionAssumption ==
    /\ IsFiniteSet(Node) /\ Node # {} /\ NoNode \notin Node /\ MaxTerm \in Nat
    /\ Modes \subseteq [starters: SUBSET Node, calls: SUBSET Call, stepsDown: BOOLEAN]

VARIABLES
    term, role, votedFor, leader,  \* current_term, current_role, voted_for and
                                   \* current_leader
    votes,     \* votes_received, the voters in it
    calls,     \* what each call does: [at, term, answers]
    requests, answers,             \* what was ever sent
    won,       \* elections that were won: the node, the term it asked votes
               \* for, and the term it reports
    mode       \* chosen by Init: where elections are started, in which slots,
               \* and whether leaders step down

nodeVars == <<term, role, votedFor, leader, votes>>
vars == <<nodeVars, calls, requests, answers, won, mode>>

Term     == 0 .. MaxTerm
Request  == [from: Node, to: Node, term: Term]
Answer   == [from: Node, to: Node, asked: Term, term: Term, granted: BOOLEAN]
Idle     == [at |-> "idle", term |-> 0, answers |-> {}]
Majority == Cardinality(Node) \div 2 + 1

TypeOK ==
    /\ term \in [Node -> Term]
    /\ role \in [Node -> {"Follower", "Candidate", "Leader"}]
    /\ votedFor \in [Node -> Node \cup {NoNode}]
    /\ leader \in [Node -> Node \cup {NoNode}]
    /\ votes \in [Node -> SUBSET Node]
    /\ calls \in [Node -> [Call -> [at: {"idle", "waiting", "counting"}, term: Term,
                                    answers: SUBSET Answer]]]
    /\ requests \subseteq Request /\ answers \subseteq Answer
    /\ won \subseteq [node: Node, asked: Term, term: Term]
    /\ mode \in Modes

Init ==
    /\ term = [n \in Node |-> 0] /\ role = [n \in Node |-> "Follower"]
    /\ votedFor = [n \in Node |-> NoNode] /\ leader = [n \in Node |-> NoNode]
    /\ votes = [n \in Node |-> {}]
    /\ calls = [n \in Node |-> [c \in Call |-> Idle]]
    /\ requests = {} /\ answers = {} /\ won = {}
    /\ mode \in Modes

(* A task may start or go on after an await: no other is between two awaits. *)
Free(n) == \A c \in Call : calls[n][c].at # "counting"
------------------------------------------------------------------------------
BecomeCandidate_KeepsVotes(n) ==
    /\ term' = [term EXCEPT ![n] = @ + 1]
    /\ role' = [role EXCEPT ![n] = "Candidate"]
    /\ votedFor' = [votedFor EXCEPT ![n] = n]
    /\ votes' = [votes EXCEPT ![n] = @ \cup {n}]

BecomeCandidate_IfFollower(n) ==
    /\ term' = [term EXCEPT ![n] = @ + 1]
    /\ role' = [role EXCEPT ![n] = IF @ = "Follower" THEN "Candidate" ELSE @]
    /\ votedFor' = [votedFor EXCEPT ![n] = n]
    /\ votes' = [votes EXCEPT ![n] = {n}]

BecomeCandidate_TwoTerms(n) ==
    /\ term' = [term EXCEPT ![n] = @ + 2]
    /\ role' = [role EXCEPT ![n] = "Candidate"]
    /\ votedFor' = [votedFor EXCEPT ![n] = n]
    /\ votes' = [votes EXCEPT ![n] = {n}]

(* A new term, and the own vote. *)
BecomeCandidate(n) ==
    /\ term' = [term EXCEPT ![n] = @ + 1]
    /\ role' = [role EXCEPT ![n] = "Candidate"]
    /\ votedFor' = [votedFor EXCEPT ![n] = n]
    /\ votes' = [votes EXCEPT ![n] = {n}]

(* start_election up to its await: a request goes to every peer. *)
StartElection(n, c) ==
    /\ n \in mode.starters /\ c \in mode.calls /\ Free(n)
    /\ calls[n][c].at = "idle" /\ term[n] < MaxTerm
    /\ BecomeCandidate(n)
    /\ calls' = [calls EXCEPT ![n][c] =
                    [at |-> "waiting", term |-> term[n] + 1, answers |-> {}]]
    /\ requests' = requests \cup {[from |-> n, to |-> m, term |-> term[n] + 1] :
                                     m \in Node \ {n}}
    /\ UNCHANGED <<leader, answers, won, mode>>

(* handle_vote_request, for a request of an older term *)
Refuse(n, r) ==
    /\ r.to = n /\ r.term < term[n] /\ Free(n)
    /\ answers' = answers \cup {[from |-> n, to |-> r.from, asked |-> r.term,
                                  term |-> term[n], granted |-> FALSE]}
    /\ UNCHANGED <<nodeVars, calls, requests, won, mode>>

GrantVote_NotRecorded(n, r) ==
    /\ r.to = n /\ r.term >= term[n] /\ Free(n)
    /\ r.term = term[n] => votedFor[n] \in {NoNode, r.from}
    /\ term' = [term EXCEPT ![n] = r.term]
    /\ role' = [role EXCEPT ![n] = IF r.term > term[n] THEN "Follower" ELSE @]
    /\ votedFor' = [votedFor EXCEPT ![n] = IF r.term > term[n] THEN NoNode ELSE @]
    /\ answers' = answers \cup {[from |-> n, to |-> r.from, asked |-> r.term,
                                  term |-> r.term, granted |-> TRUE]}
    /\ UNCHANGED <<leader, votes, calls, requests, won, mode>>

(* and for any other: a newer term is adopted, with no vote in it yet, and the *)
(* vote is given if there is none or it is the candidate's already.  A refusal *)
(* in the term of the request changes nothing on either side and is left out.  *)
GrantVote(n, r) ==
    /\ r.to = n /\ r.term >= term[n] /\ Free(n)
    /\ r.term = term[n] => votedFor[n] \in {NoNode, r.from}
    /\ term' = [term EXCEPT ![n] = r.term]
    /\ role' = [role EXCEPT ![n] = IF r.term > term[n] THEN "Follower" ELSE @]
    /\ votedFor' = [votedFor EXCEPT ![n] = r.from]
    /\ answers' = answers \cup {[from |-> n, to |-> r.from, asked |-> r.term,
                                  term |-> r.term, granted |-> TRUE]}
    /\ UNCHANGED <<leader, votes, calls, requests, won, mode>>

(* join_all is done: each peer has answered, or failed, or timed out. *)
CollectAnswers(n, c) ==
    /\ calls[n][c].at = "waiting" /\ Free(n)
    /\ \E S \in SUBSET {a \in answers : a.to = n /\ a.asked = calls[n][c].term} :
          /\ \A a, b \in S : a.from = b.from => a = b
          /\ calls' = [calls EXCEPT ![n][c] =
                          [at |-> "counting", term |-> @.term, answers |-> S]]
    /\ UNCHANGED <<nodeVars, requests, answers, won, mode>>

(* handle_vote_response, for one answer after the other *)
CountAnswer(n, c, a) ==
    /\ calls[n][c].at = "counting" /\ a \in calls[n][c].answers
    /\ calls' = [calls EXCEPT ![n][c] =
                    [at |-> "counting", term |-> @.term, answers |-> @.answers \ {a}]]
    /\ \/ /\ a.term > term[n]
          /\ term' = [term EXCEPT ![n] = a.term]
          /\ role' = [role EXCEPT ![n] = "Follower"]
          /\ votedFor' = [votedFor EXCEPT ![n] = NoNode]
          /\ UNCHANGED votes
       \/ /\ a.term = term[n] /\ a.granted
          /\ votes' = [votes EXCEPT ![n] = @ \cup {a.from}]
          /\ UNCHANGED <<term, role, votedFor>>
       \/ /\ a.term < term[n] \/ (a.term = term[n] /\ ~a.granted)
          /\ UNCHANGED <<term, role, votedFor, votes>>
    /\ UNCHANGED <<leader, requests, answers, won, mode>>

(* start_election after the last answer *)
EndElection(n, c) ==
    /\ calls[n][c].at = "counting" /\ calls[n][c].answers = {}
    /\ calls' = [calls EXCEPT ![n][c] = Idle]
    /\ \/ /\ Cardinality(votes[n]) >= Majority
          /\ role' = [role EXCEPT ![n] = "Leader"]
          /\ leader' = [leader EXCEPT ![n] = n]
          /\ won' = won \cup {[node |-> n, asked |-> calls[n][c].term, term |-> term[n]]}
       \/ /\ Cardinality(votes[n]) < Majority
          /\ role' = [role EXCEPT ![n] = "Follower"]
          /\ UNCHANGED <<leader, won>>
    /\ UNCHANGED <<term, votedFor, votes, requests, answers, mode>>

(* The embedder drops the future of start_election. *)
Abandon(n, c) ==
    /\ calls[n][c].at = "waiting" /\ Free(n)
    /\ calls' = [calls EXCEPT ![n][c] = Idle]
    /\ UNCHANGED <<nodeVars, requests, answers, won, mode>>

(* The embedder calls it on a leader. *)
StepDown(n) ==
    /\ mode.stepsDown /\ role[n] = "Leader" /\ Free(n)
    /\ role' = [role EXCEPT ![n] = "Follower"]
    /\ leader' = [leader EXCEPT ![n] = NoNode]
    /\ votedFor' = [votedFor EXCEPT ![n] = NoNode]
    /\ UNCHANGED <<term, votes, calls, requests, answers, won, mode>>

Next ==
    \/ \E n \in Node, c \in Call :
          \/ StartElection(n, c) \/ CollectAnswers(n, c) \/ EndElection(n, c)
          \/ Abandon(n, c)
          \/ \E a \in calls[n][c].answers : CountAnswer(n, c, a)
    \/ \E n \in Node, r \in requests : Refuse(n, r) \/ GrantVote(n, r)
    \/ \E n \in Node : StepDown(n)

Spec == Init /\ [][Next]_vars
------------------------------------------------------------------------------
(* The voters of an election: the candidate, and who granted it the vote.    *)
Voters(n, t) ==
    {n} \cup {v \in Node : \E a \in answers : a.from = v /\ a.to = n /\ a.asked = t /\ a.granted}

Elections(t) == {n \in Node : \E r \in requests : r.from = n /\ r.term = t}

(* Whatever is repeated, delayed or overtaken, no node votes for two candidates *)
(* of one term; its own candidacy counts as a vote.                             *)
VotesAreKept ==
    \A t \in Term : \A m, n \in Elections(t) :
        m # n => Voters(m, t) \cap Voters(n, t) = {}

(* step_down forgets the vote of the current term. *)
Calm == ~mode.stepsDown

(* The same while nobody steps down. *)
OneVotePerTerm == Calm => VotesAreKept

(* Two elections that were won while their node stayed in the term they asked *)
(* votes for were not of one term, unless of one node.                        *)
OneLeaderPerTerm ==
    Calm => \A v, w \in won : (v.asked = v.term /\ w.asked = w.term /\ v.term = w.term)
                                 => v.node = w.node

(* "Majority computed from the real cluster membership": a won election has   *)
(* the votes of a majority in the term it reports as the election's.  The     *)
(* code breaks it (see README).                                               *)
WinnersHaveQuorum == \A w \in won : Cardinality(Voters(w.node, w.term)) >= Majority

(* A leader has the votes that made it one, and knows that it leads: another  *)
(* call on the same node, which empties and counts the same votes, does not   *)
(* leave a leader behind that lost.                                           *)
LeaderKeepsVotes ==
    \A n \in Node : role[n] = "Leader" => Cardinality(votes[n]) >= Majority /\ leader[n] = n
=============================================================================
