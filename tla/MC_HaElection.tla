---------------------------- MODULE MC_HaElection ----------------------------
(* Instances of HaElection for TLC. *)
EXTENDS HaElection, TLC

CONSTANTS c1

(* Every node may start an election; two calls at once on a node, and then    *)
(* two of the nodes start elections; and leaders that step down.              *)
Plain    == [starters |-> Node, calls |-> {c1}, stepsDown |-> FALSE]
TwoCalls == [Plain EXCEPT !.calls = Call]
Stepping == [Plain EXCEPT !.stepsDown = TRUE]

SomeModes == {Plain, Stepping} \cup {[TwoCalls EXCEPT !.starters = Node \ {n}] : n \in Node}

Symmetry == Permutations(Node)
=============================================================================
