------------------------------ MODULE Bulkhead ------------------------------
(***************************************************************************)
(* The bulkhead of oxigeo-cluster                                          *)
(* (crates/oxigeo-cluster/src/fault_tolerance/bulkhead.rs): a semaphore    *)
(* with a bound on the number of calls that wait for it.  Statistics are   *)
(* left out.                                                               *)
(*                                                                         *)
(* Tokio's semaphore is external: waiters are served in the order they     *)
(* came, a permit that is returned goes to the first waiter directly, and  *)
(* try_acquire takes none that is meant for a waiter.                      *)
(***************************************************************************)
EXTENDS Calls, Naturals, Sequences, SequencesExt

CONSTANTS
    MaxConcurrent,  \* config.max_concurrent
    MaxQueueSize    \* config.max_queue_size

ASSUME BulkheadAssumption == MaxConcurrent \in Nat \ {0} /\ MaxQueueSize \in Nat

VARIABLES
    queueSize,  \* queue_size
    permits,    \* permits of the semaphore that nobody holds
    waiters,    \* calls that wait in semaphore.acquire()
    place       \* where each call stands

bulkheadVars == <<queueSize, permits, waiters, place>>

Place == {"outside", "joined", "refused", "waiting", "granted", "inside"}

BulkheadTypeOK ==
    /\ queueSize \in Nat
    /\ permits \in 0 .. MaxConcurrent
    /\ waiters \in Seq(Call) /\ IsInjective(waiters)
    /\ place \in [Call -> Place]

BulkheadInit ==
    /\ queueSize = 0 /\ permits = MaxConcurrent /\ waiters = <<>>
    /\ place = [c \in Call |-> "outside"]

Entering(c) == place[c] \in {"joined", "refused"}   \* between two atomic steps
Move(c, to) == place' = [place EXCEPT ![c] = to]

(* A permit is returned: to the first waiter, or to the semaphore. *)
HandOver(c) ==
    IF waiters = <<>>
    THEN permits' = permits + 1 /\ Move(c, "outside") /\ UNCHANGED waiters
    ELSE /\ place' = [place EXCEPT ![c] = "outside", ![Head(waiters)] = "granted"]
         /\ waiters' = Tail(waiters)
         /\ UNCHANGED permits

(* The semaphore forgets a call that waits for it. *)
StopWaiting(c) ==
    \E i \in DOMAIN waiters : waiters[i] = c /\ waiters' = RemoveAt(waiters, i)
------------------------------------------------------------------------------
(* acquire: the call counts itself before it looks at the bound. *)
JoinQueue(c) ==
    /\ place[c] = "outside"
    /\ queueSize' = queueSize + 1
    /\ Move(c, IF queueSize >= MaxQueueSize THEN "refused" ELSE "joined")
    /\ UNCHANGED <<permits, waiters>>

RefuseQueueFull(c) ==
    /\ place[c] = "refused"
    /\ queueSize' = queueSize - 1
    /\ Move(c, "outside")
    /\ UNCHANGED <<permits, waiters>>

(* The first poll of semaphore.acquire(). *)
AcquireAtOnce(c) ==
    /\ place[c] = "joined" /\ permits > 0
    /\ permits' = permits - 1
    /\ queueSize' = queueSize - 1
    /\ Move(c, "inside")
    /\ UNCHANGED waiters

StartWaiting(c) ==
    /\ place[c] = "joined" /\ permits = 0
    /\ waiters' = Append(waiters, c)
    /\ Move(c, "waiting")
    /\ UNCHANGED <<queueSize, permits>>

(* A waiter that was handed a permit is polled. *)
WakeWithPermit(c) ==
    /\ place[c] = "granted"
    /\ queueSize' = queueSize - 1
    /\ Move(c, "inside")
    /\ UNCHANGED <<permits, waiters>>

WaitTimeout_KeepsCount(c) ==
    /\ place[c] = "waiting"
    /\ StopWaiting(c)
    /\ Move(c, "outside")
    /\ UNCHANGED <<queueSize, permits>>

(* max_wait_time has passed.  The timeout looks at the semaphore first, so a *)
(* waiter that was handed a permit keeps it.                                 *)
WaitTimeout(c) ==
    /\ place[c] = "waiting"
    /\ StopWaiting(c)
    /\ queueSize' = queueSize - 1
    /\ Move(c, "outside")
    /\ UNCHANGED permits

(* try_acquire, when it succeeds: a failure changes nothing. *)
TryAcquire(c) ==
    /\ place[c] = "outside" /\ permits > 0
    /\ permits' = permits - 1
    /\ Move(c, "inside")
    /\ UNCHANGED <<queueSize, waiters>>

(* The permit is dropped, by success or failure or with the call's future. *)
Release(c) == place[c] = "inside" /\ HandOver(c) /\ UNCHANGED queueSize

(* The future of a call is dropped while it waits: the semaphore forgets it *)
(* (and passes on a permit it was handed), but queue_size is not lowered.   *)
AbandonWait(c) ==
    /\ \/ /\ place[c] = "waiting"
          /\ StopWaiting(c)
          /\ Move(c, "outside")
          /\ UNCHANGED permits
       \/ place[c] = "granted" /\ HandOver(c)
    /\ UNCHANGED queueSize

BulkheadStep(c) ==
    \/ RefuseQueueFull(c) \/ AcquireAtOnce(c) \/ StartWaiting(c)
    \/ WakeWithPermit(c)
=============================================================================
