----------------------------- MODULE TaskGraph -----------------------------
(***************************************************************************)
(* Tasks and their dependencies                                            *)
(* (crates/oxigeo-cluster/src/task_graph.rs).                              *)
(*                                                                         *)
(* Each operator describes one method of the graph, as a change of its     *)
(* variables; who calls it, and when, is said by the module that uses it.  *)
(* The result cache, execution plans and time stamps are left out.         *)
(***************************************************************************)
EXTENDS Naturals, FiniteSets

CONSTANT Task   \* task ids

ASSUME TaskAssumption == IsFiniteSet(Task)

VARIABLES
    status,        \* the status of each task in the graph, or "absent"
    needs,         \* Task.dependencies, as submitted
    dependencies,  \* the graph's own record of them,
    dependents     \* and its inverse

graphVars == <<status, needs, dependencies, dependents>>

Status == {"Pending", "Ready", "Scheduled", "Running", "Completed", "Failed",
           "Cancelled"}
Ended  == {"Completed", "Failed", "Cancelled"}
Present == {t \in Task : status[t] # "absent"}

GraphTypeOK ==
    /\ status \in [Task -> Status \cup {"absent"}]
    /\ needs \in [Task -> SUBSET Task]
    /\ dependencies \in [Task -> SUBSET Task]
    /\ dependents \in [Task -> SUBSET Task]

GraphInit ==
    /\ status = [t \in Task |-> "absent"]
    /\ needs = [t \in Task |-> {}]
    /\ dependencies = [t \in Task |-> {}]
    /\ dependents = [t \in Task |-> {}]
------------------------------------------------------------------------------
(* The search along recorded dependencies that starts at `to` finds `from`. *)
WouldCreateCycle(from, to) ==
    \A S \in SUBSET Task :
        (to \in S /\ \A t \in S : dependencies[t] \subseteq S) => from \in S

AddTaskFails_OnlyOnItself(t, deps) == t \in deps

AddTaskFails(t, deps) == \E d \in deps : WouldCreateCycle(t, d)

(* Dependencies need not be in the graph, and are not looked at: a task whose *)
(* dependencies have all completed before it came waits nevertheless.         *)
AddTask(t, deps) ==
    /\ status' = [status EXCEPT ![t] = IF deps = {} THEN "Ready" ELSE "Pending"]
    /\ needs' = [needs EXCEPT ![t] = deps]
    /\ dependencies' = [dependencies EXCEPT ![t] = deps]
    /\ dependents' = [d \in Task |-> IF d \in deps THEN dependents[d] \cup {t}
                                     ELSE dependents[d]]

RemoveTasks_KeepsDependents(gone) ==
    /\ status' = [t \in Task |-> IF t \in gone THEN "absent" ELSE status[t]]
    /\ needs' = [t \in Task |-> IF t \in gone THEN {} ELSE needs[t]]
    /\ dependencies' = [t \in Task |-> IF t \in gone THEN {}
            ELSE {d \in dependencies[t] : ~(d \in gone /\ t \in dependents[d])}]
    /\ dependents' = [d \in Task |-> IF d \in gone THEN {} ELSE dependents[d]]

(* A removed task follows each record to the other side and is struck off     *)
(* there; the tasks that need it keep it on their own lists.                  *)
RemoveTasks(gone) ==
    /\ status' = [t \in Task |-> IF t \in gone THEN "absent" ELSE status[t]]
    /\ needs' = [t \in Task |-> IF t \in gone THEN {} ELSE needs[t]]
    /\ dependencies' = [t \in Task |-> IF t \in gone THEN {}
            ELSE {d \in dependencies[t] : ~(d \in gone /\ t \in dependents[d])}]
    /\ dependents' = [d \in Task |-> IF d \in gone THEN {}
            ELSE {t \in dependents[d] : ~(t \in gone /\ d \in dependencies[t])}]

PruneCompleted == RemoveTasks({t \in Task : status[t] \in Ended})

(* update_task_status to anything but Completed, and set_task_error. *)
SetStatus(t, new) ==
    /\ status' = [status EXCEPT ![t] = new]
    /\ UNCHANGED <<needs, dependencies, dependents>>

Unblocked_AnyDependency(done) ==
    {t \in dependents[done] : status[t] = "Pending"}

(* A dependent becomes ready when each of its dependencies is in the graph and *)
(* completed.                                                                  *)
Unblocked(done) ==
    {t \in dependents[done] :
        /\ status[t] = "Pending"
        /\ \A d \in needs[t] : d = done \/ status[d] = "Completed"}

(* update_task_status to Completed, which updates the dependents.  It would    *)
(* stop half-way at one that is not in the graph: DependentsArePresent.        *)
Complete(t) ==
    /\ status' = [d \in Task |-> IF d = t THEN "Completed"
                                 ELSE IF d \in Unblocked(t) THEN "Ready"
                                 ELSE status[d]]
    /\ UNCHANGED <<needs, dependencies, dependents>>

(* set_task_result marks the task Completed and tells nobody. *)
SetResult(t) == SetStatus(t, "Completed")
------------------------------------------------------------------------------
(* No task depends on itself, however indirectly. *)
Acyclic ==
    \A t \in Task : \A d \in dependencies[t] : ~WouldCreateCycle(t, d)

(* Whoever is told of a completion is in the graph: update_dependents looks   *)
(* up one after the other and gives up at the first that it does not find.    *)
DependentsArePresent == \A d \in Task : dependents[d] \subseteq Present
=============================================================================
