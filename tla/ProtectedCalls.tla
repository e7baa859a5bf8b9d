--------------------------- MODULE ProtectedCalls ---------------------------
(***************************************************************************)
(* Calls that pass a bulkhead and then a circuit breaker:                  *)
(*   bulkhead.call(breaker.call(timeouts.call_with_error(operation))),     *)
(* a composition that is assumed: the crate documents each on its own,     *)
(* with the functions of crates/oxigeo-cluster/src/fault_tolerance.        *)
(*                                                                         *)
(* How the calls are run is in `mode`, which Init chooses for good:        *)
(*   threads  the accesses of two calls may interleave (tokio's default    *)
(*            runtime); otherwise a call keeps the thread to its next await *)
(*   cancels  a caller may drop a call's future                            *)
(*   drains   operations have a timeout that is no longer than the         *)
(*            breaker's open_duration, so when that has passed no call from *)
(*            before the circuit opened is left                            *)
(*   callers  the calls that are made                                      *)
(*   forces   how often an operator forces or resets the breaker (a bound)  *)
(***************************************************************************)
EXTENDS CircuitBreaker, Bulkhead

CONSTANTS
    Modes,      \* the modes Init may choose
    MaxForced   \* bound: how often an operator may force or reset the breaker

ASSUME CallsAssumption ==
    /\ MaxForced \in Nat
    /\ Modes \subseteq [threads: BOOLEAN, cancels: BOOLEAN, drains: BOOLEAN,
                        callers: SUBSET Call, forces: 0 .. MaxForced]

VARIABLES
    mode,
    healthy,  \* the protected service answers
    forced    \* operator interventions so far

vars == <<breakerVars, bulkheadVars, mode, healthy, forced>>

TypeOK ==
    /\ BreakerTypeOK /\ BulkheadTypeOK
    /\ mode \in Modes /\ healthy \in BOOLEAN /\ forced \in 0 .. MaxForced

Init ==
    /\ BreakerInit /\ BulkheadInit
    /\ mode \in Modes /\ healthy = TRUE /\ forced = 0

(* The thread is free for c, or (Nobody) for an operator. *)
InSection(c) == Busy(c) \/ Entering(c)
HasThread(c) == mode.threads \/ \A d \in Call \ {c} : ~InSection(d)
ThreadIsFree == mode.threads \/ \A d \in Call : ~InSection(d)

Environment == UNCHANGED <<mode, healthy, forced>>
------------------------------------------------------------------------------
(* Bulkhead::call and Bulkhead::try_call. *)
Enter(c) ==
    /\ c \in mode.callers /\ at[c] = "out" /\ HasThread(c)
    /\ JoinQueue(c) \/ TryAcquire(c)
    /\ UNCHANGED breakerVars /\ Environment

PassBulkhead(c) ==
    /\ HasThread(c) /\ BulkheadStep(c)
    /\ UNCHANGED breakerVars /\ Environment

Timeout(c) ==
    /\ HasThread(c) /\ WaitTimeout(c)
    /\ UNCHANGED breakerVars /\ Environment

(* CircuitBreaker::call, from inside the bulkhead; the permit is dropped with *)
(* the result.                                                                *)
PassBreaker(c) ==
    /\ place[c] = "inside" /\ HasThread(c)
    /\ CallStep(c) /\ ~Return(c)
    /\ UNCHANGED bulkheadVars /\ Environment

Leave(c) ==
    /\ HasThread(c)
    /\ Return(c) /\ Release(c)
    /\ Environment

(* An operation succeeds only while the service is healthy, and fails or times *)
(* out only while it is not.                                                   *)
EndOperation(c) ==
    /\ HasThread(c)
    /\ Finish(c, IF healthy THEN "ok" ELSE "err")
    /\ UNCHANGED bulkheadVars /\ Environment

CallerGivesUp(c) ==
    /\ mode.cancels /\ HasThread(c)
    /\ \/ Cancel(c) /\ UNCHANGED bulkheadVars
       \/ AbandonWait(c) /\ UNCHANGED breakerVars
    /\ Environment

OpenTimeElapses ==
    /\ mode.drains => \A c \in Call : ~Admitted(c)
    /\ OpenElapses
    /\ UNCHANGED bulkheadVars /\ Environment

Observe ==
    /\ ThreadIsFree /\ ObserveState
    /\ UNCHANGED bulkheadVars /\ Environment

Intervene ==
    /\ forced < mode.forces /\ ThreadIsFree
    /\ ForceOpen \/ ForceClose \/ Reset
    /\ forced' = forced + 1
    /\ UNCHANGED <<bulkheadVars, mode, healthy>>

ServiceChanges ==
    /\ healthy' = ~healthy
    /\ UNCHANGED <<breakerVars, bulkheadVars, mode, forced>>

Next ==
    \/ \E c \in Call : \/ Enter(c) \/ PassBulkhead(c) \/ Timeout(c)
                       \/ PassBreaker(c) \/ Leave(c) \/ EndOperation(c)
                       \/ CallerGivesUp(c)
    \/ OpenTimeElapses \/ Observe \/ Intervene \/ ServiceChanges

Spec == Init /\ [][Next]_vars

(* The runtime polls every task that can go on sooner or later (SF, because a *)
(* thread is now free and now taken), operations end, time passes, and        *)
(* callers keep calling.                                                      *)
FairSpec ==
    /\ Spec
    /\ WF_vars(OpenTimeElapses)
    /\ \A c \in Call : SF_vars(Enter(c) \/ PassBulkhead(c) \/ PassBreaker(c)
                               \/ Leave(c) \/ EndOperation(c))
------------------------------------------------------------------------------
Trials == {c \in Call : Trial(c)}

(* While the circuit is half-open no more trial calls run than the            *)
(* configuration allows, and none is uncounted - provided that operations     *)
(* time out before the circuit resets.  (circuit_breaker.rs counts trials in  *)
(* half_open_requests.)                                                       *)
TrialsAreBounded ==
    (~mode.threads /\ mode.drains /\ circuit = "HalfOpen")
        => Cardinality(Trials) <= HalfOpenMax

(* A half-open circuit that nobody is trying has room for a trial.  There is  *)
(* no timer in this state: were the slots lost, the breaker would reject      *)
(* every call for ever.                                                       *)
NeverWedged ==
    (/\ ~mode.threads /\ mode.drains /\ ~mode.cancels /\ circuit = "HalfOpen"
     /\ \A c \in Call : at[c] \in {"out", "done"})
        => halfOpen < HalfOpenMax

(* A closed circuit has not reached its threshold: failures that came while   *)
(* it was open or half-open are not held against it after it closes.          *)
ClosedIsBelowThreshold ==
    (~mode.threads /\ circuit = "Closed" /\ \A c \in Call : ~Busy(c))
        => failures < FailureThreshold

(* queue_size counts exactly the calls between their fetch_add and their      *)
(* fetch_sub, so no place in the queue is lost - if no caller gives up.       *)
QueueSizeIsExact ==
    ~mode.cancels =>
        queueSize = Cardinality({c \in Call : place[c] \notin {"outside", "inside"}})

(* When the service answers for good, the circuit closes for good.            *)
Recovers ==
    (~mode.threads /\ mode.drains /\ ~mode.cancels /\ <>[]healthy)
        => <>[](circuit = "Closed")
=============================================================================
