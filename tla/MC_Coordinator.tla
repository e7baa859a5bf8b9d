--------------------------- MODULE MC_Coordinator ---------------------------
(* Instances of Coordinator for TLC. *)
EXTENDS Coordinator, TLC

CONSTANTS n1, n2

(* Either of two nodes may know of the other or not. *)
BothViews == {<<n1, n2>>, <<n2, n1>>}

(* Nodes are alike when none is churned or stopped; the loops of a node are *)
(* always alike.                                                            *)
Symmetry     == Permutations(Node)
LoopSymmetry == Permutations(Loop)

(* What a loop noted for an election or a round is of no account when that is *)
(* over: both notes are written again before they are read.                   *)
Notes(n, l) == CASE pc[n][l] \in {"vote", "collect", "win", "lose", "beat"} ->
                        <<round[n][l], total[n][l]>>
                 [] pc[n][l] = "elect" -> <<0, total[n][l]>>
                 [] OTHER              -> <<0, 0>>
View == <<stateVars, votedFor, members, running, pc,
          [n \in Node |-> [l \in Loop |-> Notes(n, l)]], ballots, cpu, netVars>>
=============================================================================
