---------------------------- MODULE OfflineSync ----------------------------
(***************************************************************************)
(* The offline manager, its queue of operations and its sync engine        *)
(* (crates/oxigeo-offline/src/manager.rs, queue.rs, sync.rs, retry.rs,     *)
(* storage/sqlite.rs), with crashes and a remote that fails.               *)
(*                                                                         *)
(* The futures are not Send, so they share a thread and interleave at      *)
(* their awaits: an action is what is done under one hold of the storage   *)
(* lock, or one push.  Records and operations are in SQLite and survive a  *)
(* crash; calls that were under way do not.  A record's id is the          *)
(* operation that inserted it.  Priorities are all the same.  The version  *)
(* history, conflict detection (which sync never calls) and the optimistic *)
(* tracker, which nothing here reads, are left out.                        *)
(*                                                                         *)
(* The remote is external: it stores what it is pushed, last writer wins.  *)
(***************************************************************************)
EXTENDS Integers, FiniteSets, Sequences, Functions

CONSTANTS
    Key,           \* record keys
    App, Sync,     \* tasks that write, and tasks that call sync()
    MaxQueueSize,  \* config.max_queue_size
    BatchSize,     \* config.sync_batch_size
    MaxAttempts,   \* config.retry_max_attempts
    MaxOps,        \* bound: operations that are created, in any mode
    MaxCrashes,    \* bound: crashes and syncs that are cut short
    Modes          \* [apps, syncs, faults, ties, ops], see `mode`

ASSUME OfflineAssumption ==
    /\ Key # {} /\ IsFiniteSet(App) /\ IsFiniteSet(Sync)
    /\ MaxQueueSize \in Nat \ {0} /\ BatchSize \in Nat \ {0}
    /\ MaxAttempts \in Nat \ {0} /\ MaxOps \in Nat /\ MaxCrashes \in Nat
    /\ Modes \subseteq [apps: SUBSET App, syncs: SUBSET Sync,
                        faults: BOOLEAN, ties: BOOLEAN, ops: 0 .. MaxOps]

VARIABLES
    records,    \* the table of records: [id, version, live], id 0 if none
    issued,     \* the operations created so far: [id, version, second]
    queue,      \* the table of operations
    retries,    \* retry_count of each operation, in that table
    app,        \* what each writer does: [at, key, op, id, version]
    sync,       \* what each sync does: [at, batch, attempt]
    healthy,    \* the remote answers
    remote,     \* the version of each record that it has, -1 for none
    mode,       \* chosen by Init: the tasks at work, whether the remote may
                \* fail, whether two operations may be created in one second,
                \* and how many are
    crashes,
    accepted, delivered, aged, failed  \* operations whose call returned Ok, that
                \* were pushed, that prune_old removed; and the number of syncs
                \* in which each failed, up to MaxAttempts + 1

storage == <<records, issued, queue, retries>>
ghosts  == <<accepted, delivered, aged, failed>>
vars == <<storage, app, sync, healthy, remote, mode, crashes, ghosts>>

Op     == 1 .. MaxOps
Issued == 1 .. Len(issued)
NoCall == [at |-> "idle", key |-> CHOOSE k \in Key : TRUE, op |-> 0, id |-> 0,
           version |-> 0]
NoSync == [at |-> "idle", batch |-> <<>>, attempt |-> 0]

TypeOK ==
    /\ records \in [Key -> [id: 0 .. MaxOps, version: 0 .. MaxOps, live: BOOLEAN]]
    /\ issued \in Seq([id: Op, version: 0 .. MaxOps, second: Nat])
    /\ queue \subseteq Issued
    /\ retries \in [Op -> 0 .. MaxAttempts]
    /\ app \in [App -> [at: {"idle", "read", "stored", "sized"}, key: Key,
                        op: 0 .. MaxOps, id: 0 .. MaxOps, version: 0 .. MaxOps]]
    /\ sync \in [Sync -> [at: {"idle", "pushing", "ok", "err"},
                          batch: Seq([op: Op, retries: 0 .. MaxAttempts]),
                          attempt: 0 .. MaxAttempts]]
    /\ healthy \in BOOLEAN /\ remote \in [Op -> -1 .. MaxOps]
    /\ mode \in Modes /\ crashes \in 0 .. MaxCrashes
    /\ accepted \subseteq Issued /\ delivered \subseteq Issued /\ aged \subseteq Issued
    /\ failed \in [Op -> 0 .. MaxAttempts + 1]

Init ==
    /\ records = [k \in Key |-> [id |-> 0, version |-> 0, live |-> FALSE]]
    /\ issued = <<>> /\ queue = {} /\ retries = [o \in Op |-> 0]
    /\ app = [a \in App |-> NoCall] /\ sync = [s \in Sync |-> NoSync]
    /\ healthy = TRUE /\ remote = [o \in Op |-> -1]
    /\ mode \in Modes /\ crashes = 0
    /\ accepted = {} /\ delivered = {} /\ aged = {} /\ failed = [o \in Op |-> 0]
------------------------------------------------------------------------------
(* OfflineManager::write and update. *)

(* The clock in seconds when an operation is created. *)
Now(second) ==
    LET last == IF issued = <<>> THEN 0 ELSE issued[Len(issued)].second
    IN second = last + 1 \/ (mode.ties /\ issued # <<>> /\ second = last)

(* The record is put, under its key, and the operation is created. *)
PutRecord(a, k, id, version) ==
    /\ Len(issued) < mode.ops
    /\ records' = [records EXCEPT ![k] = [id |-> id, version |-> version,
                                          live |-> TRUE]]
    /\ \E second \in 1 .. MaxOps :
          /\ Now(second)
          /\ issued' = Append(issued, [id |-> id, version |-> version,
                                       second |-> second])
    /\ app' = [app EXCEPT ![a] = [at |-> "stored", key |-> k, id |-> 0,
                                  version |-> 0, op |-> Len(issued) + 1]]
    /\ UNCHANGED <<queue, retries, sync, healthy, remote, mode, crashes, ghosts>>

(* A record of the same key is replaced by one with a new id. *)
Write(a, k) ==
    /\ a \in mode.apps /\ app[a].at = "idle"
    /\ PutRecord(a, k, Len(issued) + 1, 0)

ReadForUpdate(a, k) ==
    /\ a \in mode.apps /\ app[a].at = "idle" /\ records[k].live
    /\ app' = [app EXCEPT ![a] = [at |-> "read", key |-> k, op |-> 0,
                                  id |-> records[k].id,
                                  version |-> records[k].version]]
    /\ UNCHANGED <<storage, sync, healthy, remote, mode, crashes, ghosts>>

Update(a) ==
    /\ app[a].at = "read"
    /\ PutRecord(a, app[a].key, app[a].id, app[a].version + 1)

CheckSize_OffByOne(a) ==
    /\ app[a].at = "stored"
    /\ app' = [app EXCEPT ![a] = IF Cardinality(queue) > MaxQueueSize THEN NoCall
                                 ELSE [@ EXCEPT !.at = "sized"]]
    /\ UNCHANGED <<storage, sync, healthy, remote, mode, crashes, ghosts>>

(* SyncQueue::enqueue looks at the size of the queue, *)
CheckSize(a) ==
    /\ app[a].at = "stored"
    /\ app' = [app EXCEPT ![a] = IF Cardinality(queue) >= MaxQueueSize THEN NoCall
                                 ELSE [@ EXCEPT !.at = "sized"]]
    /\ UNCHANGED <<storage, sync, healthy, remote, mode, crashes, ghosts>>

(* and takes the lock anew to insert the operation. *)
Enqueue(a) ==
    /\ app[a].at = "sized"
    /\ queue' = queue \cup {app[a].op}
    /\ accepted' = accepted \cup {app[a].op}
    /\ app' = [app EXCEPT ![a] = NoCall]
    /\ UNCHANGED <<records, issued, retries, sync, healthy, remote, mode, crashes,
                   delivered, aged, failed>>

(* delete marks the record and queues nothing. *)
Delete(k) ==
    /\ records[k].live
    /\ records' = [records EXCEPT ![k].live = FALSE]
    /\ UNCHANGED <<issued, queue, retries, app, sync, healthy, remote, mode,
                   crashes, ghosts>>

(* prune_old, for one operation. *)
Prune(o) ==
    /\ o \in queue
    /\ queue' = queue \ {o} /\ aged' = aged \cup {o}
    /\ UNCHANGED <<records, issued, retries, app, sync, healthy, remote, mode,
                   crashes, accepted, delivered, failed>>
------------------------------------------------------------------------------
(* SyncEngine::sync. *)

Oldest_Newest(batch) ==
    /\ IsInjective(batch)
    /\ \A i \in DOMAIN batch :
          \A o \in queue \ {batch[j] : j \in 1 .. i} :
              issued[batch[i]].second >= issued[o].second

(* get_pending: the oldest operations, by the second they were created in. *)
Oldest(batch) ==
    /\ IsInjective(batch)
    /\ \A i \in DOMAIN batch :
          \A o \in queue \ {batch[j] : j \in 1 .. i} :
              issued[batch[i]].second <= issued[o].second

StartSync(s) ==
    /\ s \in mode.syncs /\ sync[s].at = "idle" /\ queue # {}
    /\ \E n \in 1 .. BatchSize :
        /\ n = BatchSize \/ n = Cardinality(queue)
        /\ \E batch \in [1 .. n -> queue] :
            /\ Oldest(batch)
            /\ sync' = [sync EXCEPT ![s] =
                 [at |-> "pushing", attempt |-> 0,
                  batch |-> [i \in 1 .. n |-> [op |-> batch[i],
                                               retries |-> retries[batch[i]]]]]]
    /\ UNCHANGED <<storage, app, healthy, remote, mode, crashes, ghosts>>

Current(s) == Head(sync[s].batch)

NextOperation(s) ==
    sync' = [sync EXCEPT ![s] = IF Len(@.batch) = 1 THEN NoSync
                                ELSE [at |-> "pushing", attempt |-> 0,
                                      batch |-> Tail(@.batch)]]

Deliver(o) ==
    /\ delivered' = delivered \cup {o}
    /\ remote' = [remote EXCEPT ![issued[o].id] = issued[o].version]

PushSucceeds(s) ==
    /\ sync[s].at = "pushing" /\ healthy
    /\ Deliver(Current(s).op)
    /\ sync' = [sync EXCEPT ![s].at = "ok"]
    /\ UNCHANGED <<storage, app, healthy, mode, crashes, accepted, aged, failed>>

(* The push fails, or only its answer is lost.  RetryManager::execute pushes *)
(* again until its attempts are used up.                                     *)
PushFails(s) ==
    /\ sync[s].at = "pushing" /\ ~healthy
    /\ UNCHANGED <<delivered, remote>> \/ Deliver(Current(s).op)
    /\ \/ /\ sync[s].attempt < MaxAttempts
          /\ sync' = [sync EXCEPT ![s].attempt = @ + 1]
          /\ UNCHANGED failed
       \/ /\ sync[s].attempt >= MaxAttempts
          /\ sync' = [sync EXCEPT ![s].at = "err"]
          /\ failed' = [failed EXCEPT ![Current(s).op] =
                            IF @ > MaxAttempts THEN @ ELSE @ + 1]
    /\ UNCHANGED <<storage, app, healthy, mode, crashes, accepted, aged>>

Dequeue_Forgotten(s) ==
    /\ sync[s].at = "ok"
    /\ NextOperation(s)
    /\ UNCHANGED <<storage, app, healthy, remote, mode, crashes, ghosts>>

Dequeue(s) ==
    /\ sync[s].at = "ok"
    /\ queue' = queue \ {Current(s).op}
    /\ NextOperation(s)
    /\ UNCHANGED <<records, issued, retries, app, healthy, remote, mode, crashes,
                   ghosts>>

Requeue_OffByOne(s) ==
    /\ sync[s].at = "err" /\ Current(s).retries <= MaxAttempts
    /\ retries' = IF Current(s).op \in queue
                  THEN [retries EXCEPT ![Current(s).op] = Current(s).retries + 1]
                  ELSE retries
    /\ NextOperation(s)
    /\ UNCHANGED <<records, issued, queue, app, healthy, remote, mode, crashes,
                   ghosts>>

(* requeue_with_retry writes the count that was read with the batch, plus one; *)
(* the statement does nothing when the operation is gone.                      *)
Requeue(s) ==
    /\ sync[s].at = "err" /\ Current(s).retries < MaxAttempts
    /\ retries' = IF Current(s).op \in queue
                  THEN [retries EXCEPT ![Current(s).op] = Current(s).retries + 1]
                  ELSE retries
    /\ NextOperation(s)
    /\ UNCHANGED <<records, issued, queue, app, healthy, remote, mode, crashes,
                   ghosts>>

GiveUp_OneTooEarly(s) ==
    /\ sync[s].at = "err" /\ Current(s).retries + 1 >= MaxAttempts
    /\ queue' = queue \ {Current(s).op}
    /\ NextOperation(s)
    /\ UNCHANGED <<records, issued, retries, app, healthy, remote, mode, crashes,
                   ghosts>>

GiveUp(s) ==
    /\ sync[s].at = "err" /\ Current(s).retries >= MaxAttempts
    /\ queue' = queue \ {Current(s).op}
    /\ NextOperation(s)
    /\ UNCHANGED <<records, issued, retries, app, healthy, remote, mode, crashes,
                   ghosts>>

(* The storage fails, or the future of the sync is dropped. *)
CutShort(s) ==
    /\ crashes < MaxCrashes /\ sync[s].at # "idle"
    /\ crashes' = crashes + 1
    /\ sync' = [sync EXCEPT ![s] = NoSync]
    /\ UNCHANGED <<storage, app, healthy, remote, mode, ghosts>>

Crash ==
    /\ crashes < MaxCrashes
    /\ crashes' = crashes + 1
    /\ app' = [a \in App |-> NoCall] /\ sync' = [s \in Sync |-> NoSync]
    /\ UNCHANGED <<storage, healthy, remote, mode, ghosts>>

RemoteChanges ==
    /\ mode.faults
    /\ healthy' = ~healthy
    /\ UNCHANGED <<storage, app, sync, remote, mode, crashes, ghosts>>

SyncStep(s) == \/ PushSucceeds(s) \/ PushFails(s)
               \/ Dequeue(s) \/ Requeue(s) \/ GiveUp(s)

Next ==
    \/ \E a \in App : \/ \E k \in Key : Write(a, k) \/ ReadForUpdate(a, k)
                      \/ Update(a) \/ CheckSize(a) \/ Enqueue(a)
    \/ \E k \in Key : Delete(k)
    \/ \E o \in Op : Prune(o)
    \/ \E s \in Sync : StartSync(s) \/ SyncStep(s) \/ CutShort(s)
    \/ Crash \/ RemoteChanges

Spec == Init /\ [][Next]_vars

(* A sync under way goes on: pushes and storage answer.  Nothing in the crate *)
(* ever calls sync(),                                                         *)
FairSpec == Spec /\ \A s \in Sync : WF_vars(SyncStep(s))

(* so that the program around it has to, again and again. *)
CalledSpec == FairSpec /\ \A s \in Sync : WF_vars(StartSync(s))
------------------------------------------------------------------------------
(* An operation whose call returned Ok stays in the queue until it has been   *)
(* pushed, has reached its age limit, or has failed in one sync more than the *)
(* retries configured - whatever crashes, and although concurrent syncs write *)
(* retry counts that are out of date.                                         *)
NothingIsDroppedEarly ==
    \A o \in accepted \ (queue \cup delivered \cup aged) : failed[o] > MaxAttempts

(* The queue exceeds its maximum only by calls that looked at its size before *)
(* the others had inserted their operations,                                  *)
QueueIsBounded ==
    Cardinality(queue) < MaxQueueSize + Cardinality(mode.apps)

(* while the configuration speaks of the "maximum size of sync queue".  The   *)
(* code breaks it, and README says how to see that.                          *)
QueueWithinLimit == Cardinality(queue) <= MaxQueueSize

(* With one writer, one sync at a time, a remote that does not fail and a     *)
(* second between any two operations, the remote never goes back to an older  *)
(* version of a record, even if crashes make a push happen twice.  (A push    *)
(* arrives before the crash that cuts it off, or never.)                      *)
Orderly == /\ ~mode.faults /\ ~mode.ties
           /\ Cardinality(mode.apps) = 1 /\ Cardinality(mode.syncs) = 1
NeverGoesBack ==
    [][Orderly => \A o \in Op : remote'[o] >= remote[o]]_vars

(* When the remote answers for good, and as long as somebody calls sync(),    *)
(* everything that was queued is done with.                                   *)
Drains == <>[]healthy => <>[](queue = {})

(* "Automatic sync when connectivity is restored": operations that were       *)
(* queued while the remote was away are synced once it is back.  The code     *)
(* does not, and README says how to see that.                                 *)
BackgroundSync ==
    <>[]healthy => ((~healthy /\ queue # {})
                        ~> (queue = {} \/ \E s \in Sync : sync[s].at # "idle"))
=============================================================================
