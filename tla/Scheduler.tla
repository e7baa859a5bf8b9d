----------------------------- MODULE Scheduler -----------------------------
(***************************************************************************)
(* The task scheduler of oxigeo-cluster on top of its task graph and       *)
(* worker pool (crates/oxigeo-cluster/src/scheduler/core.rs,               *)
(* worker_pool.rs), on a current_thread runtime: no method of the          *)
(* scheduler awaits while it changes state (submit_task only before), so   *)
(* every call is one action; so is every iteration of the scheduler loop,  *)
(* and every theft of a task.                                              *)
(*                                                                         *)
(* The heap of the global queue is a bag of ids: any entry may be the one  *)
(* of the highest priority.  The backpressure semaphore is left out: each  *)
(* call to submit_task gives its permit back before it goes on.  The       *)
(* worker pool is a choice: heartbeats, usage reports, health checks and   *)
(* registrations may at any time leave any worker the one to select, or    *)
(* none.  Workers and users are external: a worker reports the end of each *)
(* task it was given at most once, possibly after it was cancelled.  An id *)
(* ("Unique task ID") is submitted again only for a retry: the same task,  *)
(* when it has ended or was pruned and no worker has it any more.          *)
(***************************************************************************)
EXTENDS TaskGraph, Sequences, SequencesExt

CONSTANTS
    Worker,          \* worker ids
    NoWorker,        \* no assignment
    StealThreshold,  \* config.work_steal_threshold
    CountMax,        \* bound: the largest value of a u64
    Modes            \* [steals, calls, tasks, deps, tries], see `mode`

OtherCalls == {"fail", "cancel", "start", "store", "prune"}

ASSUME SchedulerAssumption ==
    /\ IsFiniteSet(Worker) /\ NoWorker \notin Worker
    /\ StealThreshold \in Nat /\ CountMax \in Nat
    /\ Modes \subseteq [steals: BOOLEAN, calls: SUBSET OtherCalls,
                        tasks: Nat, deps: Nat, tries: Nat]

VARIABLES
    queue,       \* global_queue, the number of entries of each task
    assigned,    \* task_assignments
    workerQueue, \* worker_queues
    counts,      \* worker_task_counts, and
    counted,     \* the workers that have an entry there
    mode,        \* chosen by Init: enable_work_stealing; what is ever called
                 \* besides submit_task and complete_task; bounds on the number
                 \* of tasks, of dependencies of a task, and of times it is
                 \* submitted
    submitted,   \* how often each id was submitted, and
    claimed,     \* the ids that were last submitted with the status Ready
    given,       \* tasks whose end some worker has still to report
    finished     \* tasks that ever completed (nobody reads it but properties)

schedVars == <<queue, assigned, workerQueue, counts, counted>>
envVars   == <<mode, submitted, claimed, given, finished>>
vars      == <<graphVars, schedVars, envVars>>

TypeOK ==
    /\ GraphTypeOK
    /\ queue \in [Task -> Nat]
    /\ assigned \in [Task -> Worker \cup {NoWorker}]
    /\ workerQueue \in [Worker -> Seq(Task)]
    /\ counts \in [Worker -> 0 .. CountMax] /\ counted \subseteq Worker
    /\ mode \in Modes
    /\ submitted \in [Task -> Nat] /\ claimed \subseteq Task
    /\ given \subseteq Task /\ finished \subseteq Task

Init ==
    /\ GraphInit
    /\ queue = [t \in Task |-> 0] /\ assigned = [t \in Task |-> NoWorker]
    /\ workerQueue = [w \in Worker |-> <<>>]
    /\ counts = [w \in Worker |-> 0] /\ counted = {}
    /\ mode \in Modes
    /\ submitted = [t \in Task |-> 0] /\ claimed = {} /\ given = {} /\ finished = {}

Raise(f, w) == [f EXCEPT ![w] = IF @ = CountMax THEN 0 ELSE @ + 1]
Lower_NoWrap(f, w) == [f EXCEPT ![w] = @ - 1]

Lower(f, w) == [f EXCEPT ![w] = IF @ = 0 THEN CountMax ELSE @ - 1]
------------------------------------------------------------------------------
(* An entry goes into the heap, and out of it. *)
Push(t) == queue' = [queue EXCEPT ![t] = @ + 1]
Pop(t)  == queue[t] > 0 /\ queue' = [queue EXCEPT ![t] = @ - 1]

MaySubmit(t, deps) ==
    /\ submitted[t] < mode.tries /\ Cardinality(deps) <= mode.deps
    /\ submitted[t] = 0 => Cardinality({u \in Task : submitted[u] > 0}) < mode.tasks
    /\ t \notin given
    /\ t \in Present => status[t] \in Ended /\ deps = needs[t]

(* submit_task.  Whether the task is queued depends on the status the caller *)
(* wrote into it, not on the one the graph gives it.                         *)
SubmitTask(t, deps, claim) ==
    /\ MaySubmit(t, deps)
    /\ submitted' = [submitted EXCEPT ![t] = @ + 1]
    /\ \/ AddTaskFails(t, deps) /\ UNCHANGED <<graphVars, queue, claimed>>
       \/ /\ ~AddTaskFails(t, deps)
          /\ AddTask(t, deps)
          /\ \/ claim = "Ready" /\ Push(t) /\ claimed' = claimed \cup {t}
             \/ claim # "Ready" /\ queue' = queue /\ claimed' = claimed \ {t}
    /\ UNCHANGED <<assigned, workerQueue, counts, counted, mode, given, finished>>

(* schedule_ready_tasks, one iteration: the task is not Ready any more (or not *)
(* yet), and its entry is dropped,                                             *)
DropEntry(t) ==
    /\ Pop(t) /\ status[t] # "Ready"
    /\ UNCHANGED <<graphVars, assigned, workerQueue, counts, counted, envVars>>

(* or it is assigned to the worker that the pool selects, or that a locality *)
(* hint names,                                                               *)
AssignTask(t, w) ==
    /\ Pop(t) /\ status[t] = "Ready"
    /\ SetStatus(t, "Scheduled")
    /\ assigned' = [assigned EXCEPT ![t] = w]
    /\ workerQueue' = [workerQueue EXCEPT ![w] = Append(@, t)]
    /\ counts' = Raise(counts, w) /\ counted' = counted \cup {w}
    /\ given' = given \cup {t}
    /\ UNCHANGED <<mode, submitted, claimed, finished>>

Dispatch(t) == \E w \in Worker : AssignTask(t, w)

SelectionFails_DropsTask(t) ==
    /\ Pop(t) /\ status[t] = "Ready"
    /\ UNCHANGED <<graphVars, assigned, workerQueue, counts, counted, envVars>>

(* or, when no worker will do, popped and pushed again. *)
SelectionFails(t) ==
    /\ queue[t] > 0 /\ status[t] = "Ready"
    /\ UNCHANGED vars

StealTask_KeepsAssignment(victim, thief) ==
    /\ mode.steals /\ {victim, thief} \subseteq counted
    /\ counts[victim] > StealThreshold
    /\ counts[thief] < StealThreshold \div 2
    /\ workerQueue[victim] # <<>>
    /\ workerQueue' = [workerQueue EXCEPT
           ![victim] = Tail(@), ![thief] = Append(@, Head(workerQueue[victim]))]
    /\ counts' = Raise(Lower(counts, victim), thief)
    /\ UNCHANGED <<graphVars, queue, assigned, counted, envVars>>

(* perform_work_stealing, for one pair of workers. *)
StealTask(victim, thief) ==
    /\ mode.steals /\ {victim, thief} \subseteq counted
    /\ counts[victim] > StealThreshold
    /\ counts[thief] < StealThreshold \div 2
    /\ workerQueue[victim] # <<>>
    /\ LET t == Head(workerQueue[victim])
       IN /\ workerQueue' = [workerQueue EXCEPT ![victim] = Tail(@),
                                                ![thief] = Append(@, t)]
          /\ assigned' = [assigned EXCEPT ![t] = thief]
    /\ counts' = Raise(Lower(counts, victim), thief)
    /\ UNCHANGED <<graphVars, queue, counted, envVars>>
------------------------------------------------------------------------------
(* The assignment of a task that has ended is dropped.  Only cancel_task takes *)
(* the task out of the worker's queue.                                         *)
DropAssignment(t) ==
    /\ assigned' = [assigned EXCEPT ![t] = NoWorker]
    /\ counts' = IF assigned[t] = NoWorker THEN counts
                 ELSE Lower(counts, assigned[t])

CompleteTask(t) ==
    /\ t \in given /\ t \in Present
    /\ Complete(t)
    /\ DropAssignment(t)
    /\ given' = given \ {t} /\ finished' = finished \cup {t}
    /\ UNCHANGED <<queue, workerQueue, counted, mode, submitted, claimed>>

FailTask(t) ==
    /\ "fail" \in mode.calls /\ t \in given /\ t \in Present
    /\ SetStatus(t, "Failed")
    /\ DropAssignment(t)
    /\ given' = given \ {t}
    /\ UNCHANGED <<queue, workerQueue, counted, mode, submitted, claimed, finished>>

(* The other entries stay, in their order (VecDeque::retain). *)
WithoutTask(s, t) ==
    LET kept == {i \in 1 .. Len(s) : s[i] # t}
        Kept(n) == CHOOSE i \in kept : Cardinality({j \in kept : j <= i}) = n
    IN  [n \in 1 .. Cardinality(kept) |-> s[Kept(n)]]

CancelTask(t) ==
    /\ "cancel" \in mode.calls /\ t \in Present
    /\ SetStatus(t, "Cancelled")
    /\ DropAssignment(t)
    /\ workerQueue' =
         IF assigned[t] = NoWorker THEN workerQueue
         ELSE [workerQueue EXCEPT ![assigned[t]] = WithoutTask(@, t)]
    /\ UNCHANGED <<queue, counted, envVars>>

(* A worker tells that it runs a task it was given, if that was not cancelled. *)
StartTask(t) ==
    /\ "start" \in mode.calls /\ t \in given /\ status[t] = "Scheduled"
    /\ SetStatus(t, "Running")
    /\ UNCHANGED <<schedVars, envVars>>

(* A worker stores the result of a task before it reports the completion. *)
StoreResult(t) ==
    /\ "store" \in mode.calls /\ t \in given /\ status[t] = "Running"
    /\ SetResult(t)
    /\ finished' = finished \cup {t}
    /\ UNCHANGED <<schedVars, mode, submitted, claimed, given>>

(* A report about a task that is no longer in the graph is an error. *)
ReportFails(t) ==
    /\ t \in given /\ t \notin Present
    /\ given' = given \ {t}
    /\ UNCHANGED <<graphVars, schedVars, mode, submitted, claimed, finished>>

Prune ==
    /\ "prune" \in mode.calls
    /\ PruneCompleted
    /\ UNCHANGED <<schedVars, envVars>>

Next ==
    \/ \E t \in Task :
          \/ \E deps \in SUBSET Task, claim \in {"Ready", "Pending"} :
                SubmitTask(t, deps, claim)
          \/ DropEntry(t) \/ Dispatch(t) \/ SelectionFails(t)
          \/ CompleteTask(t) \/ FailTask(t) \/ CancelTask(t) \/ StartTask(t)
          \/ StoreResult(t) \/ ReportFails(t)
    \/ \E v, w \in Worker : StealTask(v, w)
    \/ Prune

Spec == Init /\ [][Next]_vars
------------------------------------------------------------------------------
(* No task is ready, let alone handed to a worker, before every task it       *)
(* depends on has completed once (task_graph.rs decides it when a dependency  *)
(* completes; completed tasks may have been pruned or cancelled since).       *)
RunsAfterDependencies ==
    \A t \in Task : status[t] \in {"Ready", "Scheduled", "Running"}
                        => needs[t] \subseteq finished

Once == mode.tries <= 1

(* The number that work stealing and load balancing go by is the number of    *)
(* tasks assigned to the worker - as long as no task is stolen or retried:    *)
(* the front of a worker's queue may be a task that has ended.                *)
CountsMatchAssignments ==
    Once /\ ~mode.steals =>
        \A w \in Worker : counts[w] = Cardinality({t \in Task : assigned[t] = w})

(* A task that a worker is to run is in the queue of that worker, and in no   *)
(* other, however often it was stolen; and no queue holds a task twice.  (One *)
(* that is retried after it failed is still where it was before.)             *)
AssignedIsQueued ==
    Once =>
    /\ \A t \in Task : (status[t] \in {"Scheduled", "Running"} /\ assigned[t] # NoWorker)
          => \A w \in Worker : Contains(workerQueue[w], t) <=> w = assigned[t]
    /\ \A w \in Worker : IsInjective(workerQueue[w])

(* A task that waits for nothing, and that its caller submitted as Ready, has *)
(* an entry in the heap until it is given to a worker or cancelled, whichever *)
(* of its entries are dropped and however often no worker will do.            *)
ClaimedIsQueued ==
    \A t \in claimed : (status[t] = "Ready" /\ needs[t] = {}) => queue[t] > 0

(* "Add to queue if ready", "Task is ready to be scheduled": every task that  *)
(* is ready has an entry.  The code breaks it (see README).                   *)
ReadyIsQueued == \A t \in Task : status[t] = "Ready" => queue[t] > 0

(* "Remove from worker queue and assignment" (complete_task and fail_task):   *)
(* a task whose end was reported is in no worker's queue.  The code breaks    *)
(* it (see README).                                                           *)
EndedIsUnqueued ==
    \A t \in Task, w \in Worker :
        status[t] \in {"Completed", "Failed"} /\ assigned[t] = NoWorker
            => ~Contains(workerQueue[w], t)
=============================================================================
