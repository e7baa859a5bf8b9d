-------------------------- MODULE MC_ReplicatedLog --------------------------
(* Instances of ReplicatedLog for TLC. *)
EXTENDS ReplicatedLog, TLC

(* The nodes differ in nothing but their ids. *)
Symmetry == Permutations(Node)
=============================================================================
