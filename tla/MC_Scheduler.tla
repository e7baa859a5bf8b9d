---------------------------- MODULE MC_Scheduler ----------------------------
(* Instances of Scheduler for TLC: five tasks, of which three have to wait    *)
(* for one worker before one that has ended is stolen; tasks that are stolen  *)
(* and cancelled or pruned; tasks that depend on each other; and tasks that   *)
(* are submitted again.                                                       *)
EXTENDS Scheduler, TLC

Stealing  == [steals |-> TRUE, calls |-> {}, tasks |-> 5, deps |-> 0, tries |-> 1]
Ending    == [Stealing EXCEPT !.calls = {"cancel", "prune"}, !.tasks = 4]
Dependent == [steals |-> FALSE, calls |-> OtherCalls, tasks |-> 3, deps |-> 2, tries |-> 1]
Retrying  == [Dependent EXCEPT !.tasks = 2, !.deps = 1, !.tries = 2]

SomeModes == {Stealing, Ending, Dependent, Retrying}

Symmetry == Permutations(Task) \cup Permutations(Worker)
=============================================================================
