--------------------------- MODULE MC_OfflineSync ---------------------------
(* Instances of OfflineSync for TLC. *)
EXTENDS OfflineSync

CONSTANTS a1, s1

(* One writer and one sync; the same with a remote that fails and operations *)
(* of one second; two syncs at once; and two writers at once.                *)
Calm == [apps |-> {a1}, syncs |-> {s1}, faults |-> FALSE, ties |-> FALSE,
         ops |-> MaxOps]

Faulty == [Calm EXCEPT !.faults = TRUE, !.ties = TRUE, !.ops = 2]

Writers == [Calm EXCEPT !.apps = App]

SomeModes == {Calm, Faulty, [Faulty EXCEPT !.syncs = Sync, !.ops = 1], Writers}
=============================================================================
