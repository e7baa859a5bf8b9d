--------------------------- MODULE CircuitBreaker ---------------------------
(***************************************************************************)
(* The circuit breaker of oxigeo-cluster                                   *)
(* (crates/oxigeo-cluster/src/fault_tolerance/circuit_breaker.rs): which   *)
(* calls it admits and what it does with their outcomes.                   *)
(*                                                                         *)
(* The state is under a lock and each counter is an atomic of its own, so  *)
(* every action is one access to one of them by one call.  A module that   *)
(* uses this one says which of the accesses may interleave: Busy(c) holds  *)
(* of a call that stands inside one of the breaker's functions, none of    *)
(* which awaits.                                                           *)
(***************************************************************************)
EXTENDS Calls, Integers

CONSTANTS
    FailureThreshold,  \* config.failure_threshold
    SuccessThreshold,  \* config.success_threshold
    HalfOpenMax,       \* config.half_open_max_requests
    CounterMax         \* bound: the largest value of a u64

ASSUME BreakerAssumption ==
    /\ FailureThreshold \in Nat \ {0} /\ SuccessThreshold \in Nat \ {0}
    /\ HalfOpenMax \in Nat \ {0}
    /\ CounterMax \in Nat /\ CounterMax > HalfOpenMax

VARIABLES
    circuit,    \* state
    failures,   \* consecutive_failures; more than the threshold is kept as it
    successes,  \* consecutive_successes, likewise
    halfOpen,   \* half_open_requests
    elapsed,    \* opened_at.elapsed() >= open_duration
    at,         \* where each call stands
    call        \* its locals: the outcome, the state it read (of a call that
                \* runs: the one that admitted it) and the counter it raised

breakerVars == <<circuit, failures, successes, halfOpen, elapsed, at, call>>

CircuitState == {"Closed", "Open", "HalfOpen"}
Outcome      == {"none", "ok", "err"}
Stage == {"out", "resetting", "reading", "probing", "taking", "running",
          "record", "first", "second", "decide", "leave", "done"}

NoLocals == [outcome |-> "none", seen |-> "Closed", count |-> 0]

BreakerTypeOK ==
    /\ circuit \in CircuitState
    /\ failures \in 0 .. FailureThreshold
    /\ successes \in 0 .. SuccessThreshold
    /\ halfOpen \in 0 .. CounterMax
    /\ elapsed \in BOOLEAN
    /\ at \in [Call -> Stage]
    /\ call \in [Call -> [outcome: Outcome, seen: CircuitState, count: Nat]]

BreakerInit ==
    /\ circuit = "Closed" /\ elapsed = FALSE
    /\ failures = 0 /\ successes = 0 /\ halfOpen = 0
    /\ at = [c \in Call |-> "out"]
    /\ call = [c \in Call |-> NoLocals]

Busy(c)  == at[c] \notin {"out", "running", "done"}
Admitted(c) == at[c] \in {"taking", "running", "record", "first", "second",
                          "decide", "leave"}
Trial(c) == at[c] = "running" /\ call[c].seen = "HalfOpen"

Go(c, stage) == at' = [at EXCEPT ![c] = stage]
Raised(n, limit) == IF n < limit THEN n + 1 ELSE n   \* saturating, see above
Incremented(n) == IF n < CounterMax THEN n + 1 ELSE 0   \* AtomicU64::fetch_add
Decremented_NoWrap(n) == n - 1

Decremented(n) == IF n > 0 THEN n - 1 ELSE CounterMax   \* AtomicU64::fetch_sub
------------------------------------------------------------------------------
(* Transitions: each runs under the write lock of the state and does nothing *)
(* when the state is not the one it leaves.                                  *)

TransitionToClosed_KeepsFailures ==
    IF circuit = "Closed" THEN UNCHANGED <<circuit, failures, halfOpen, elapsed>>
    ELSE circuit' = "Closed" /\ halfOpen' = 0 /\ elapsed' = FALSE /\ UNCHANGED failures

TransitionToClosed ==
    IF circuit = "Closed" THEN UNCHANGED <<circuit, failures, halfOpen, elapsed>>
    ELSE /\ circuit' = "Closed" /\ failures' = 0 /\ halfOpen' = 0
         /\ elapsed' = FALSE

TransitionToOpen ==
    /\ circuit' = "Open"
    /\ elapsed' = (circuit = "Open" /\ elapsed)

TransitionToHalfOpen_KeepsSlots ==
    IF circuit # "Open" THEN UNCHANGED <<circuit, successes, halfOpen>>
    ELSE circuit' = "HalfOpen" /\ successes' = 0 /\ UNCHANGED halfOpen

TransitionToHalfOpen ==
    IF circuit # "Open" THEN UNCHANGED <<circuit, successes, halfOpen>>
    ELSE circuit' = "HalfOpen" /\ successes' = 0 /\ halfOpen' = 0

(* open_duration has passed since the circuit was opened. *)
OpenElapses ==
    /\ circuit = "Open" /\ ~elapsed
    /\ elapsed' = TRUE
    /\ UNCHANGED <<circuit, failures, successes, halfOpen, at, call>>
------------------------------------------------------------------------------
(* allow_request. *)

(* maybe_transition_state reads the state and the time of opening. *)
Arrive(c) ==
    /\ at[c] = "out"
    /\ Go(c, IF circuit = "Open" /\ elapsed THEN "resetting" ELSE "reading")
    /\ UNCHANGED <<circuit, failures, successes, halfOpen, elapsed, call>>

AttemptReset(c) ==
    /\ at[c] = "resetting"
    /\ TransitionToHalfOpen
    /\ Go(c, "reading")
    /\ UNCHANGED <<failures, elapsed, call>>

Admit(c, how) ==
    /\ Go(c, "running")
    /\ call' = [call EXCEPT ![c].seen = how]

Reject(c) == Go(c, "done") /\ UNCHANGED call

ReadState(c) ==
    /\ at[c] = "reading"
    /\ \/ circuit = "Closed" /\ Admit(c, "Closed")
       \/ circuit = "Open" /\ Reject(c)
       \/ circuit = "HalfOpen" /\ Go(c, "probing") /\ UNCHANGED call
    /\ UNCHANGED <<circuit, failures, successes, halfOpen, elapsed>>

CheckHalfOpen_OffByOne(c) ==
    /\ at[c] = "probing"
    /\ \/ halfOpen <= HalfOpenMax /\ Go(c, "taking") /\ UNCHANGED call
       \/ halfOpen > HalfOpenMax /\ Reject(c)
    /\ UNCHANGED <<circuit, failures, successes, halfOpen, elapsed>>

(* The limit on trial calls is checked here, and the slot taken below. *)
CheckHalfOpen(c) ==
    /\ at[c] = "probing"
    /\ \/ halfOpen < HalfOpenMax /\ Go(c, "taking") /\ UNCHANGED call
       \/ halfOpen >= HalfOpenMax /\ Reject(c)
    /\ UNCHANGED <<circuit, failures, successes, halfOpen, elapsed>>

TakeSlot(c) ==
    /\ at[c] = "taking"
    /\ halfOpen' = Incremented(halfOpen)
    /\ Admit(c, "HalfOpen")
    /\ UNCHANGED <<circuit, failures, successes, elapsed>>
------------------------------------------------------------------------------
(* record_success and record_failure. *)

(* The protected operation ended, in time or by its timeout. *)
Finish(c, outcome) ==
    /\ at[c] = "running"
    /\ Go(c, "record")
    /\ call' = [call EXCEPT ![c].outcome = outcome]
    /\ UNCHANGED <<circuit, failures, successes, halfOpen, elapsed>>

RecordRead(c) ==
    /\ at[c] = "record"
    /\ Go(c, "first")
    /\ call' = [call EXCEPT ![c].seen = circuit]
    /\ UNCHANGED <<circuit, failures, successes, halfOpen, elapsed>>

FirstCounter(c) ==
    /\ at[c] = "first"
    /\ \/ /\ call[c].outcome = "ok"
          /\ failures' = 0
          /\ UNCHANGED call
       \/ /\ call[c].outcome = "err"
          /\ failures' = Raised(failures, FailureThreshold)
          /\ call' = [call EXCEPT ![c].count = failures']
    /\ Go(c, "second")
    /\ UNCHANGED <<circuit, successes, halfOpen, elapsed>>

SecondCounter(c) ==
    /\ at[c] = "second"
    /\ \/ /\ call[c].outcome = "ok"
          /\ successes' = Raised(successes, SuccessThreshold)
          /\ call' = [call EXCEPT ![c].count = successes']
       \/ /\ call[c].outcome = "err"
          /\ successes' = 0
          /\ UNCHANGED call
    /\ Go(c, "decide")
    /\ UNCHANGED <<circuit, failures, halfOpen, elapsed>>

EnoughSuccesses(c) ==
    /\ call[c].outcome = "ok" /\ call[c].seen = "HalfOpen"
    /\ call[c].count >= SuccessThreshold

ShouldOpen(c) ==
    /\ call[c].outcome = "err"
    /\ \/ call[c].seen = "Closed" /\ call[c].count >= FailureThreshold
       \/ call[c].seen = "HalfOpen"

Decide(c) ==
    /\ at[c] = "decide"
    /\ \/ EnoughSuccesses(c) /\ TransitionToClosed
       \/ /\ ShouldOpen(c) /\ TransitionToOpen
          /\ UNCHANGED <<failures, halfOpen>>
       \/ /\ ~EnoughSuccesses(c) /\ ~ShouldOpen(c)
          /\ UNCHANGED <<circuit, failures, halfOpen, elapsed>>
    /\ Go(c, "leave")
    /\ UNCHANGED <<successes, call>>

LeaveSlot_OnlyOnFailure(c) ==
    /\ at[c] = "leave"
    /\ halfOpen' = IF call[c].seen = "HalfOpen" /\ call[c].outcome = "err"
                   THEN Decremented(halfOpen) ELSE halfOpen
    /\ Go(c, "done")
    /\ UNCHANGED <<circuit, failures, successes, elapsed, call>>

(* The slot of a trial is given back according to the state read on entry. *)
LeaveSlot(c) ==
    /\ at[c] = "leave"
    /\ halfOpen' = IF call[c].seen = "HalfOpen" THEN Decremented(halfOpen)
                   ELSE halfOpen
    /\ Go(c, "done")
    /\ UNCHANGED <<circuit, failures, successes, elapsed, call>>

(* The caller has the result. *)
Return(c) ==
    /\ at[c] = "done"
    /\ Go(c, "out")
    /\ call' = [call EXCEPT ![c] = NoLocals]
    /\ UNCHANGED <<circuit, failures, successes, halfOpen, elapsed>>

(* The future of a call is dropped while the operation runs: its guard has  *)
(* no Drop, so nothing is recorded and no slot is given back.               *)
Cancel(c) ==
    /\ at[c] = "running"
    /\ Go(c, "done")
    /\ UNCHANGED <<circuit, failures, successes, halfOpen, elapsed, call>>
------------------------------------------------------------------------------
(* Operators and observers. *)

ForceOpen ==
    /\ TransitionToOpen
    /\ UNCHANGED <<failures, successes, halfOpen, at, call>>

ForceClose ==
    /\ TransitionToClosed
    /\ UNCHANGED <<successes, at, call>>

Reset == TransitionToClosed /\ successes' = 0 /\ UNCHANGED <<at, call>>

(* state(), which get_stats calls as well. *)
ObserveState ==
    /\ circuit = "Open" /\ elapsed
    /\ TransitionToHalfOpen
    /\ UNCHANGED <<failures, elapsed, at, call>>

CallStep(c) ==
    \/ Arrive(c) \/ AttemptReset(c) \/ ReadState(c) \/ CheckHalfOpen(c)
    \/ TakeSlot(c) \/ RecordRead(c) \/ FirstCounter(c) \/ SecondCounter(c)
    \/ Decide(c) \/ LeaveSlot(c) \/ Return(c)
=============================================================================
