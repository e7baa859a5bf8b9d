------------------------ MODULE ProtectedCallsProofs ------------------------
(***************************************************************************)
(* The safety of calls behind a bulkhead and a circuit breaker, for any    *)
(* number of calls, any thresholds and any modes.                          *)
(***************************************************************************)
EXTENDS ProtectedCalls, SequenceTheorems, FiniteSetTheorems, TLAPS

(* What the bulkhead's numbers count.  A caller that gives up leaves its    *)
(* place in queue_size behind.                                              *)
Queued  == {c \in Call : place[c] \notin {"outside", "inside"}}
Holding == {c \in Call : place[c] \in {"granted", "inside"}}

BulkheadInv ==
    /\ permits + Cardinality(Holding) = MaxConcurrent
    /\ queueSize >= Cardinality(Queued)
    /\ ~mode.cancels => queueSize = Cardinality(Queued)
    /\ \A i \in DOMAIN waiters : place[waiters[i]] = "waiting"

(* Without threads one call at most is between two awaits; it decides on a  *)
(* state that is still the circuit's.                                       *)
OneSection == \A c, d \in Call : InSection(c) /\ InSection(d) => c = d

Deciding(c) == at[c] \in {"first", "second", "decide"}
Over(c) == /\ at[c] \in {"second", "decide"} /\ call[c].outcome = "err"
           /\ call[c].count = failures

SectionInv ==
    /\ OneSection
    /\ \A c \in Call : Deciding(c) => call[c].seen = circuit
    /\ circuit = "Closed" => failures < FailureThreshold \/ \E c \in Call : Over(c)

(* A call that was admitted to a half-open circuit and has not given back   *)
(* its slot, if no call of an earlier time is left (drains).                *)
Holds(c) == at[c] \in {"running", "record", "first", "second", "decide", "leave"}
Holders  == {c \in Call : Holds(c)}

TrialInv ==
    /\ circuit = "Open" /\ elapsed => \A c \in Call : ~Admitted(c)
    /\ \A c \in Call : at[c] = "resetting" => circuit = "Open" /\ elapsed
    /\ \A c \in Call : at[c] = "probing" => circuit = "HalfOpen"
    /\ \A c \in Call : at[c] = "taking" => circuit = "HalfOpen" /\ halfOpen < HalfOpenMax
    /\ circuit = "HalfOpen" =>
          /\ \A c \in Call : Holds(c) => call[c].seen = "HalfOpen"
          /\ Cardinality(Holders) <= halfOpen /\ halfOpen <= HalfOpenMax
          /\ ~mode.cancels => halfOpen = Cardinality(Holders)

CallsInv ==
    /\ TypeOK /\ BulkheadInv
    /\ ~mode.threads => SectionInv
    /\ ~mode.threads /\ mode.drains => TrialInv

(* A set of calls that only c enters or leaves.                             *)
LEMMA CallMoves ==
    ASSUME NEW S \in SUBSET Call, NEW T \in SUBSET Call, NEW c \in Call,
           \A d \in Call \ {c} : d \in S <=> d \in T
    PROVE  /\ Cardinality(S) \in Nat /\ Cardinality(T) \in Nat
           /\ c \in S /\ c \notin T => Cardinality(S) = Cardinality(T) + 1
           /\ c \notin S /\ c \in T => Cardinality(T) = Cardinality(S) + 1
           /\ (c \in S <=> c \in T) => T = S
<1>1. /\ IsFiniteSet(S) /\ IsFiniteSet(T)
      /\ Cardinality(S) \in Nat /\ Cardinality(T) \in Nat
  BY CallAssumption, FS_Subset, FS_CardinalityType
<1>2. c \in S /\ c \notin T => S = T \cup {c}
  OBVIOUS
<1>3. c \notin S /\ c \in T => T = S \cup {c}
  OBVIOUS
<1>4. (c \in S <=> c \in T) => T = S
  OBVIOUS
<1>5. c \notin T => Cardinality(T \cup {c}) = Cardinality(T) + 1
  BY <1>1, FS_AddElement
<1>6. c \notin S => Cardinality(S \cup {c}) = Cardinality(S) + 1
  BY <1>1, FS_AddElement
<1>7. QED BY <1>1, <1>2, <1>3, <1>4, <1>5, <1>6

Locals == [outcome: Outcome, seen: CircuitState, count: Nat]

LEMMA ConstantFacts ==
    /\ FailureThreshold \in Nat \ {0} /\ SuccessThreshold \in Nat \ {0}
    /\ HalfOpenMax \in Nat \ {0} /\ CounterMax \in Nat /\ CounterMax > HalfOpenMax
    /\ MaxConcurrent \in Nat \ {0}
BY BreakerAssumption, BulkheadAssumption

LEMMA BreakerTypes ==
    ASSUME BreakerTypeOK
    PROVE  /\ failures \in Nat /\ failures <= FailureThreshold
           /\ successes \in Nat /\ successes <= SuccessThreshold
           /\ halfOpen \in Nat /\ halfOpen <= CounterMax
           /\ call \in [Call -> Locals] /\ \A c \in Call : call[c] \in Locals
BY ConstantFacts DEF BreakerTypeOK, Locals

-----------------------------------------------------------------------------
(* The types of the breaker. *)

LEMMA CounterTypes ==
    ASSUME BreakerTypeOK
    PROVE  /\ Incremented(halfOpen) \in 0 .. CounterMax
           /\ Decremented(halfOpen) \in 0 .. CounterMax
           /\ Raised(failures, FailureThreshold) \in 0 .. FailureThreshold
           /\ Raised(successes, SuccessThreshold) \in 0 .. SuccessThreshold
BY ConstantFacts DEF BreakerTypeOK, Incremented, Decremented, Raised

LEMMA TransitionTypes ==
    ASSUME BreakerTypeOK
    PROVE  /\ TransitionToClosed => /\ circuit' \in CircuitState /\ elapsed' \in BOOLEAN
                                    /\ failures' \in 0 .. FailureThreshold
                                    /\ halfOpen' \in 0 .. CounterMax
           /\ TransitionToOpen => circuit' \in CircuitState /\ elapsed' \in BOOLEAN
           /\ TransitionToHalfOpen => /\ circuit' \in CircuitState
                                      /\ successes' \in 0 .. SuccessThreshold
                                      /\ halfOpen' \in 0 .. CounterMax
<1>0. 0 \in 0 .. FailureThreshold /\ 0 \in 0 .. SuccessThreshold /\ 0 \in 0 .. CounterMax
  BY ConstantFacts
<1>1. ASSUME TransitionToClosed
      PROVE  /\ circuit' \in CircuitState /\ elapsed' \in BOOLEAN
             /\ failures' \in 0 .. FailureThreshold /\ halfOpen' \in 0 .. CounterMax
  BY <1>0, <1>1 DEF BreakerTypeOK, TransitionToClosed, CircuitState
<1>2. ASSUME TransitionToOpen PROVE circuit' \in CircuitState /\ elapsed' \in BOOLEAN
  <2>1. circuit' = "Open" /\ elapsed' = (circuit = "Open" /\ elapsed)
    BY <1>2 DEF TransitionToOpen
  <2>2. elapsed' \in BOOLEAN
    BY <2>1, Zenon
  <2>3. QED BY <2>1, <2>2 DEF CircuitState
<1>3. ASSUME TransitionToHalfOpen
      PROVE  /\ circuit' \in CircuitState /\ successes' \in 0 .. SuccessThreshold
             /\ halfOpen' \in 0 .. CounterMax
  BY <1>0, <1>3 DEF BreakerTypeOK, TransitionToHalfOpen, CircuitState
<1>4. QED BY <1>1, <1>2, <1>3

LEMMA LocalTypes ==
    ASSUME BreakerTypeOK, NEW c \in Call
    PROVE  /\ \A s \in CircuitState : [call EXCEPT ![c].seen = s] \in [Call -> Locals]
           /\ \A o \in Outcome : [call EXCEPT ![c].outcome = o] \in [Call -> Locals]
           /\ \A i \in Nat : [call EXCEPT ![c].count = i] \in [Call -> Locals]
           /\ [call EXCEPT ![c] = NoLocals] \in [Call -> Locals]
<1>1. NoLocals \in Locals
  BY DEF NoLocals, Locals, Outcome, CircuitState
<1>2. QED BY <1>1, BreakerTypes DEF Locals

LEMMA StageTypes ==
    ASSUME BreakerTypeOK, NEW c \in Call, NEW stage \in Stage, Go(c, stage)
    PROVE  at' \in [Call -> Stage]
BY DEF Go, BreakerTypeOK

LEMMA CallStepType ==
    ASSUME BreakerTypeOK, NEW c \in Call, CallStep(c)
    PROVE  BreakerTypeOK'
<1>0. call \in [Call -> Locals] /\ circuit \in CircuitState
  BY BreakerTypes DEF BreakerTypeOK
<1>1. at' \in [Call -> Stage]
  <2>1. \A s \in Stage : Go(c, s) => at' \in [Call -> Stage]
    BY StageTypes
  <2>2. \E s \in Stage : Go(c, s)
    BY DEF CallStep, Arrive, AttemptReset, ReadState, CheckHalfOpen, TakeSlot, RecordRead,
       FirstCounter, SecondCounter, Decide, LeaveSlot, Return, Admit, Reject, Stage
  <2>3. QED BY <2>1, <2>2
<1>2. CASE Arrive(c) \/ AttemptReset(c) \/ ReadState(c) \/ CheckHalfOpen(c)
  <2>1. UNCHANGED call \/ \E s \in CircuitState : call' = [call EXCEPT ![c].seen = s]
    BY <1>2 DEF Arrive, AttemptReset, ReadState, CheckHalfOpen, Admit, Reject, CircuitState
  <2>2. call' \in [Call -> Locals]
    BY <1>0, <2>1, LocalTypes
  <2>3. /\ circuit' \in CircuitState /\ successes' \in 0 .. SuccessThreshold
        /\ halfOpen' \in 0 .. CounterMax /\ UNCHANGED <<failures, elapsed>>
    BY <1>2, TransitionTypes DEF Arrive, AttemptReset, ReadState, CheckHalfOpen, BreakerTypeOK
  <2>4. QED BY <1>1, <2>2, <2>3 DEF BreakerTypeOK, Locals
<1>3. CASE TakeSlot(c) \/ RecordRead(c) \/ LeaveSlot(c) \/ Return(c)
  <2>1. \/ UNCHANGED call
        \/ \E s \in CircuitState : call' = [call EXCEPT ![c].seen = s]
        \/ call' = [call EXCEPT ![c] = NoLocals]
    BY <1>0, <1>3 DEF TakeSlot, RecordRead, LeaveSlot, Return, Admit, CircuitState
  <2>2. call' \in [Call -> Locals]
    BY <1>0, <2>1, LocalTypes
  <2>3. halfOpen' \in 0 .. CounterMax /\ UNCHANGED <<circuit, failures, successes, elapsed>>
    BY <1>3, CounterTypes DEF TakeSlot, RecordRead, LeaveSlot, Return, BreakerTypeOK
  <2>4. QED BY <1>1, <2>2, <2>3 DEF BreakerTypeOK, Locals
<1>4. CASE FirstCounter(c) \/ SecondCounter(c)
  <2>1. /\ failures' \in 0 .. FailureThreshold /\ successes' \in 0 .. SuccessThreshold
        /\ UNCHANGED <<circuit, halfOpen, elapsed>>
    BY <1>4, CounterTypes, ConstantFacts DEF FirstCounter, SecondCounter, BreakerTypeOK
  <2>2. failures' \in Nat /\ successes' \in Nat
    BY <2>1, ConstantFacts
  <2>3. UNCHANGED call \/ \E i \in Nat : call' = [call EXCEPT ![c].count = i]
    BY <1>4, <2>2 DEF FirstCounter, SecondCounter
  <2>4. call' \in [Call -> Locals]
    BY <1>0, <2>3, LocalTypes
  <2>5. QED BY <1>1, <2>1, <2>4 DEF BreakerTypeOK, Locals
<1>5. CASE Decide(c)
  <2>1. /\ circuit' \in CircuitState /\ elapsed' \in BOOLEAN
        /\ failures' \in 0 .. FailureThreshold /\ halfOpen' \in 0 .. CounterMax
        /\ UNCHANGED <<successes, call>>
    BY <1>5, TransitionTypes DEF Decide, BreakerTypeOK
  <2>2. QED BY <1>1, <2>1 DEF BreakerTypeOK
<1>6. QED BY <1>2, <1>3, <1>4, <1>5 DEF CallStep

LEMMA FinishType ==
    ASSUME BreakerTypeOK, NEW c \in Call, NEW o \in Outcome, Finish(c, o)
    PROVE  BreakerTypeOK'
<1>1. at' \in [Call -> Stage] /\ call' \in [Call -> Locals]
  BY StageTypes, LocalTypes DEF Finish, Stage
<1>2. UNCHANGED <<circuit, failures, successes, halfOpen, elapsed>>
  BY DEF Finish
<1>3. QED BY <1>1, <1>2 DEF BreakerTypeOK, Locals

LEMMA BreakerOtherType ==
    ASSUME BreakerTypeOK,
           \/ \E c \in Call : Cancel(c)
           \/ OpenElapses \/ ForceOpen \/ ForceClose \/ Reset \/ ObserveState
    PROVE  BreakerTypeOK'
<1>1. CASE \E c \in Call : Cancel(c)
  <2>1. at' \in [Call -> Stage]
    BY <1>1, StageTypes DEF Cancel, Stage
  <2>2. QED BY <1>1, <2>1 DEF Cancel, BreakerTypeOK
<1>2. CASE OpenElapses
  BY <1>2 DEF OpenElapses, BreakerTypeOK
<1>3. CASE ForceOpen
  <2>1. /\ circuit' \in CircuitState /\ elapsed' \in BOOLEAN
        /\ UNCHANGED <<failures, successes, halfOpen, at, call>>
    BY <1>3, TransitionTypes DEF ForceOpen
  <2>2. QED BY <2>1 DEF BreakerTypeOK
<1>4. CASE ForceClose \/ Reset
  <2>1. /\ circuit' \in CircuitState /\ elapsed' \in BOOLEAN
        /\ failures' \in 0 .. FailureThreshold /\ halfOpen' \in 0 .. CounterMax
        /\ successes' \in 0 .. SuccessThreshold /\ UNCHANGED <<at, call>>
    BY <1>4, TransitionTypes, ConstantFacts DEF ForceClose, Reset, BreakerTypeOK
  <2>2. QED BY <2>1 DEF BreakerTypeOK
<1>5. CASE ObserveState
  <2>1. /\ circuit' \in CircuitState /\ successes' \in 0 .. SuccessThreshold
        /\ halfOpen' \in 0 .. CounterMax /\ UNCHANGED <<failures, elapsed, at, call>>
    BY <1>5, TransitionTypes DEF ObserveState
  <2>2. QED BY <2>1 DEF BreakerTypeOK
<1>6. QED BY <1>1, <1>2, <1>3, <1>4, <1>5

-----------------------------------------------------------------------------
(* The bulkhead. *)

BulkheadOK == BulkheadTypeOK /\ BulkheadInv

LEMMA BulkheadFacts ==
    ASSUME BulkheadOK
    PROVE  /\ queueSize \in Nat /\ permits \in Nat /\ permits <= MaxConcurrent
           /\ waiters \in Seq(Call) /\ Len(waiters) \in Nat /\ DOMAIN waiters = 1 .. Len(waiters)
           /\ Queued \in SUBSET Call /\ Holding \in SUBSET Call
           /\ Cardinality(Queued) \in Nat /\ Cardinality(Holding) \in Nat
           /\ \A i \in 1 .. Len(waiters) : waiters[i] \in Call /\ place[waiters[i]] = "waiting"
           /\ \A i, j \in 1 .. Len(waiters) : waiters[i] = waiters[j] => i = j
           /\ place \in [Call -> Place]
<1>1. waiters \in Seq(Call) /\ DOMAIN waiters = 1 .. Len(waiters) /\ Len(waiters) \in Nat
  BY LenProperties DEF BulkheadOK, BulkheadTypeOK
<1>2. \A i \in 1 .. Len(waiters) : waiters[i] \in Call
  BY <1>1, ElementOfSeq
<1>3. Queued \in SUBSET Call /\ Holding \in SUBSET Call
  BY DEF Queued, Holding
<1>4. Cardinality(Queued) \in Nat /\ Cardinality(Holding) \in Nat
  BY <1>3, CallAssumption, FS_Subset, FS_CardinalityType
<1>5. QED BY SMTT(20), <1>1, <1>2, <1>3, <1>4, ConstantFacts
          DEF BulkheadOK, BulkheadTypeOK, BulkheadInv, IsInjective

(* A step in which c moves and nobody else.                                 *)
LEMMA OneMoves ==
    ASSUME BulkheadOK, NEW c \in Call, NEW to \in Place, Move(c, to), UNCHANGED mode,
           permits' \in Nat, queueSize' \in Nat,
           waiters' \in Seq(Call),
           \A i \in 1 .. Len(waiters') : place'[waiters'[i]] = "waiting",
           \A i, j \in 1 .. Len(waiters') : waiters'[i] = waiters'[j] => i = j,
           permits' = IF place[c] \notin {"granted", "inside"} /\ to \in {"granted", "inside"}
                        THEN permits - 1
                      ELSE IF place[c] \in {"granted", "inside"} /\ to \notin {"granted", "inside"}
                        THEN permits + 1 ELSE permits,
           \/ queueSize' = IF place[c] \in {"outside", "inside"} /\ to \notin {"outside", "inside"}
                             THEN queueSize + 1
                           ELSE IF place[c] \notin {"outside", "inside"} /\ to \in {"outside", "inside"}
                             THEN queueSize - 1 ELSE queueSize
           \/ mode.cancels /\ to = "outside" /\ queueSize' = queueSize
    PROVE  BulkheadOK'
<1>1. /\ place' \in [Call -> Place] /\ place'[c] = to
      /\ \A d \in Call \ {c} : place'[d] = place[d]
  BY BulkheadFacts DEF Move
<1>2. PICK Q1, H1 : Q1 = Queued' /\ H1 = Holding'
  OBVIOUS
<1>3. /\ Q1 \in SUBSET Call /\ H1 \in SUBSET Call
      /\ \A d \in Call \ {c} : (d \in Queued <=> d \in Q1) /\ (d \in Holding <=> d \in H1)
      /\ c \in Queued <=> place[c] \notin {"outside", "inside"}
      /\ c \in Q1 <=> to \notin {"outside", "inside"}
      /\ c \in Holding <=> place[c] \in {"granted", "inside"}
      /\ c \in H1 <=> to \in {"granted", "inside"}
  BY <1>1, <1>2 DEF Queued, Holding
<1>4. /\ Cardinality(Q1) \in Nat
      /\ c \in Queued /\ c \notin Q1 => Cardinality(Queued) = Cardinality(Q1) + 1
      /\ c \notin Queued /\ c \in Q1 => Cardinality(Q1) = Cardinality(Queued) + 1
      /\ (c \in Queued <=> c \in Q1) => Q1 = Queued
  BY SMTT(20), <1>3, BulkheadFacts, CallMoves
<1>5. /\ Cardinality(H1) \in Nat
      /\ c \in Holding /\ c \notin H1 => Cardinality(Holding) = Cardinality(H1) + 1
      /\ c \notin Holding /\ c \in H1 => Cardinality(H1) = Cardinality(Holding) + 1
      /\ (c \in Holding <=> c \in H1) => H1 = Holding
  BY <1>3, BulkheadFacts, CallMoves
<1>6. permits' + Cardinality(H1) = MaxConcurrent
  <2>1. permits + Cardinality(Holding) = MaxConcurrent
    BY DEF BulkheadOK, BulkheadInv
  <2>2. QED BY <1>3, <1>5, <2>1, BulkheadFacts
<1>7. queueSize' >= Cardinality(Q1) /\ (~mode.cancels => queueSize' = Cardinality(Q1))
  <2>1. /\ queueSize >= Cardinality(Queued) /\ (~mode.cancels => queueSize = Cardinality(Queued))
    BY DEF BulkheadOK, BulkheadInv
  <2>2. QED BY <1>3, <1>4, <2>1, BulkheadFacts
<1>8. permits' \in 0 .. MaxConcurrent
  BY <1>5, <1>6, ConstantFacts
<1>9. BulkheadTypeOK'
  BY <1>1, <1>8, LenProperties DEF BulkheadTypeOK, IsInjective
<1>10. BulkheadInv'
  BY <1>2, <1>6, <1>7, LenProperties DEF BulkheadInv
<1>11. QED BY <1>9, <1>10 DEF BulkheadOK

LEMMA QueuedCounts ==
    ASSUME BulkheadOK, NEW c \in Call, place[c] \notin {"outside", "inside"}
    PROVE  queueSize >= 1
<1> DEFINE T == Queued \ {c}
<1>1. /\ c \in Queued /\ T \in SUBSET Call /\ c \notin T
      /\ \A d \in Call \ {c} : d \in Queued <=> d \in T
  BY DEF Queued
<1> HIDE DEF T
<1>2. Cardinality(Queued) = Cardinality(T) + 1 /\ Cardinality(T) \in Nat
  BY <1>1, BulkheadFacts, CallMoves
<1>3. QED BY <1>2, BulkheadFacts DEF BulkheadOK, BulkheadInv

(* The semaphore's queue without one of its members.                        *)
LEMMA StopFacts ==
    ASSUME BulkheadOK, NEW c \in Call, StopWaiting(c), UNCHANGED permits
    PROVE  /\ waiters' \in Seq(Call)
           /\ \A i \in 1 .. Len(waiters') : waiters'[i] # c /\ place[waiters'[i]] = "waiting"
           /\ \A i, j \in 1 .. Len(waiters') : waiters'[i] = waiters'[j] => i = j
<1>1. PICK p \in 1 .. Len(waiters) : waiters[p] = c /\ waiters' = RemoveAt(waiters, p)
  BY BulkheadFacts DEF StopWaiting
<1>2. Len(waiters) \in Nat /\ \A i \in 1 .. Len(waiters) : waiters[i] \in Call
  BY BulkheadFacts
<1> DEFINE a == SubSeq(waiters, 1, p - 1)
           b == SubSeq(waiters, p + 1, Len(waiters))
<1>3. a \in Seq(Call) /\ Len(a) = p - 1 /\ \A i \in 1 .. Len(a) : a[i] = waiters[i]
  <2>1. \A i \in 1 .. p - 1 : waiters[i] \in Call
    BY <1>2
  <2>2. QED BY <1>2, <2>1, SubSeqProperties
<1>4. /\ b \in Seq(Call) /\ Len(b) = Len(waiters) - p
      /\ \A i \in 1 .. Len(b) : b[i] = waiters[p + i]
  <2>1. \A i \in p + 1 .. Len(waiters) : waiters[i] \in Call
    BY <1>2
  <2>2. /\ b \in Seq(Call)
        /\ Len(b) = IF p + 1 <= Len(waiters) THEN Len(waiters) - (p + 1) + 1 ELSE 0
        /\ \A i \in 1 .. Len(waiters) - (p + 1) + 1 : b[i] = waiters[(p + 1) + i - 1]
    BY <1>2, <2>1, SubSeqProperties
  <2> HIDE DEF b
  <2>3. Len(b) = Len(waiters) - p
    BY <1>2, <2>2
  <2>4. \A i \in 1 .. Len(b) : (p + 1) + i - 1 = p + i /\ i \in 1 .. Len(waiters) - (p + 1) + 1
    BY <1>2, <2>3
  <2>5. QED BY <2>2, <2>3, <2>4
<1>5. waiters' = a \o b
  BY <1>1 DEF RemoveAt
<1> HIDE DEF a, b
<1>6. /\ waiters' \in Seq(Call) /\ Len(waiters') = Len(waiters) - 1
      /\ \A i \in 1 .. Len(waiters') : waiters'[i] = IF i <= p - 1 THEN a[i] ELSE b[i - (p - 1)]
  <2>1. Len(a) + Len(b) = Len(waiters) - 1
    BY <1>2, <1>3, <1>4
  <2>2. QED BY <1>3, <1>4, <1>5, <2>1, ConcatProperties
<1>7. ASSUME NEW i \in 1 .. Len(waiters')
      PROVE  /\ (IF i < p THEN i ELSE i + 1) \in 1 .. Len(waiters)
             /\ waiters'[i] = waiters[IF i < p THEN i ELSE i + 1]
  <2>1. CASE i < p
    BY <1>2, <1>3, <1>6, <2>1
  <2>2. CASE ~(i < p)
    <3>1. i - (p - 1) \in 1 .. Len(b) /\ p + (i - (p - 1)) = i + 1 /\ ~(i <= p - 1)
      BY <1>2, <1>4, <1>6, <2>2
    <3>2. waiters'[i] = b[i - (p - 1)]
      BY <1>6, <3>1
    <3>3. b[i - (p - 1)] = waiters[p + (i - (p - 1))]
      BY <1>4, <3>1
    <3>4. waiters'[i] = waiters[i + 1]
      BY <3>1, <3>2, <3>3
    <3>5. i + 1 \in 1 .. Len(waiters)
      BY <1>2, <1>6
    <3>6. QED BY <2>2, <3>4, <3>5
  <2>3. QED BY <2>1, <2>2
<1>8. \A i, j \in 1 .. Len(waiters) : waiters[i] = waiters[j] => i = j
  BY BulkheadFacts
<1>9. ASSUME NEW i \in 1 .. Len(waiters')
      PROVE  waiters'[i] # c /\ place[waiters'[i]] = "waiting"
  <2>1. (IF i < p THEN i ELSE i + 1) # p
    OBVIOUS
  <2>2. waiters'[i] # c
    BY <1>1, <1>7, <1>8, <2>1
  <2>3. QED BY SMTT(20), <1>7, <2>2, BulkheadFacts
<1>10. ASSUME NEW i \in 1 .. Len(waiters'), NEW j \in 1 .. Len(waiters'),
              waiters'[i] = waiters'[j]
       PROVE  i = j
  <2>1. (IF i < p THEN i ELSE i + 1) = (IF j < p THEN j ELSE j + 1)
    BY <1>7, <1>8, <1>10
  <2>2. QED BY <2>1
<1>11. QED BY <1>6, <1>9, <1>10

LEMMA StopOK ==
    ASSUME BulkheadOK, NEW c \in Call, place[c] = "waiting", StopWaiting(c),
           Move(c, "outside"), UNCHANGED <<permits, mode>>,
           queueSize' = queueSize - 1 \/ (mode.cancels /\ queueSize' = queueSize)
    PROVE  BulkheadOK'
<1>1. /\ waiters' \in Seq(Call)
      /\ \A i \in 1 .. Len(waiters') : waiters'[i] # c /\ place[waiters'[i]] = "waiting"
      /\ \A i, j \in 1 .. Len(waiters') : waiters'[i] = waiters'[j] => i = j
  BY StopFacts
<1>2. \A i \in 1 .. Len(waiters') : waiters'[i] \in Call
  BY <1>1, ElementOfSeq, LenProperties
<1>3. \A i \in 1 .. Len(waiters') : place'[waiters'[i]] = "waiting"
  BY <1>1, <1>2, BulkheadFacts DEF Move
<1>4. queueSize' \in Nat /\ permits' \in Nat
  BY BulkheadFacts, QueuedCounts
<1>5. "outside" \in Place
  BY DEF Place
<1>6. QED BY <1>1, <1>3, <1>4, <1>5, BulkheadFacts, OneMoves

LEMMA HandOverOK ==
    ASSUME BulkheadOK, NEW c \in Call, place[c] \in {"granted", "inside"}, HandOver(c),
           UNCHANGED <<queueSize, mode>>, place[c] = "granted" => mode.cancels
    PROVE  BulkheadOK'
<1>1. CASE waiters = <<>>
  <2>1. permits' = permits + 1 /\ Move(c, "outside") /\ waiters' = waiters
    BY <1>1 DEF HandOver
  <2>2. Len(waiters') = 0
    BY <1>1, <2>1, EmptySeq
  <2>3. "outside" \in Place
    BY DEF Place
  <2>4. permits' \in Nat /\ queueSize' \in Nat /\ waiters' \in Seq(Call)
    BY <2>1, BulkheadFacts
  <2>5. QED BY <2>1, <2>2, <2>3, <2>4, OneMoves
<1>2. CASE waiters # <<>>
  <2> DEFINE h == Head(waiters)
  <2>1. /\ place' = [place EXCEPT ![c] = "outside", ![h] = "granted"]
        /\ waiters' = Tail(waiters) /\ permits' = permits
    BY <1>2 DEF HandOver
  <2>2. /\ h = waiters[1] /\ h \in Call /\ 1 \in 1 .. Len(waiters)
        /\ waiters' \in Seq(Call) /\ Len(waiters') = Len(waiters) - 1 /\ Len(waiters') \in Nat
        /\ \A i \in 1 .. Len(waiters') : waiters'[i] = waiters[i + 1]
    <3>1. Len(waiters) # 0
      BY <1>2, BulkheadFacts, EmptySeq
    <3>2. 1 \in 1 .. Len(waiters)
      BY <3>1, BulkheadFacts
    <3>3. h = waiters[1]
      BY BulkheadFacts, <1>2
    <3>4. QED BY <1>2, <2>1, <3>2, <3>3, BulkheadFacts, HeadTailProperties, LenProperties
  <2> HIDE DEF h
  <2>3. place[h] = "waiting" /\ h # c
    BY <2>2, BulkheadFacts
  <2>4. /\ place' \in [Call -> Place] /\ place'[c] = "outside" /\ place'[h] = "granted"
        /\ \A d \in Call \ {c, h} : place'[d] = place[d]
    BY <2>1, <2>2, <2>3, BulkheadFacts DEF Place
  <2>5. ASSUME NEW i \in 1 .. Len(waiters') PROVE place'[waiters'[i]] = "waiting"
    <3>1. i + 1 \in 1 .. Len(waiters) /\ i + 1 # 1 /\ waiters'[i] = waiters[i + 1]
      BY <2>2, BulkheadFacts
    <3>2. waiters'[i] # h /\ waiters'[i] \in Call /\ place[waiters'[i]] = "waiting"
      BY <2>2, <3>1, BulkheadFacts
    <3>3. QED BY <2>4, <3>2
  <2>6. ASSUME NEW i \in 1 .. Len(waiters'), NEW j \in 1 .. Len(waiters'),
               waiters'[i] = waiters'[j]
        PROVE  i = j
    <3>1. i + 1 \in 1 .. Len(waiters) /\ j + 1 \in 1 .. Len(waiters)
          /\ waiters[i + 1] = waiters[j + 1]
      BY <2>2, <2>6, BulkheadFacts
    <3>2. i + 1 = j + 1
      BY <3>1, BulkheadFacts
    <3>3. QED BY <3>2
  <2>7. PICK Q1, H1, H0 : Q1 = Queued' /\ H1 = Holding' /\ H0 = Holding \ {c}
    OBVIOUS
  <2>8. /\ Q1 \in SUBSET Call /\ \A d \in Call \ {c} : d \in Queued <=> d \in Q1
        /\ c \notin Q1 /\ (c \in Queued <=> place[c] = "granted")
    BY <2>3, <2>4, <2>7 DEF Queued
  <2>9. /\ Cardinality(Q1) \in Nat
        /\ c \in Queued => Cardinality(Queued) = Cardinality(Q1) + 1
        /\ c \notin Queued => Q1 = Queued
    BY <2>8, BulkheadFacts, CallMoves
  <2>10. queueSize >= Cardinality(Q1) /\ (~mode.cancels => queueSize = Cardinality(Q1))
    <3>1. /\ queueSize >= Cardinality(Queued) /\ (~mode.cancels => queueSize = Cardinality(Queued))
      BY DEF BulkheadOK, BulkheadInv
    <3>2. QED BY <2>8, <2>9, <3>1, BulkheadFacts
  <2>11. /\ H0 \in SUBSET Call /\ H1 \in SUBSET Call /\ c \in Holding /\ c \notin H0
         /\ h \notin H0 /\ h \in H1
         /\ \A d \in Call \ {c} : d \in Holding <=> d \in H0
         /\ \A d \in Call \ {h} : d \in H0 <=> d \in H1
    <3>1. /\ H0 = Holding \ {c} /\ H1 = {d \in Call : place'[d] \in {"granted", "inside"}}
      BY <2>7 DEF Holding
    <3>2. c \in Holding /\ h \notin Holding /\ H0 \in SUBSET Call
      BY <2>3, <3>1 DEF Holding
    <3>3. h \in H1 /\ c \notin H1 /\ H1 \in SUBSET Call
      BY <2>2, <2>4, <3>1
    <3>4. \A d \in Call \ {c, h} : d \in Holding <=> d \in H1
      BY <2>4, <3>1 DEF Holding
    <3>5. QED BY <3>1, <3>2, <3>3, <3>4
  <2>12. Cardinality(Holding) = Cardinality(H0) + 1 /\ Cardinality(H0) \in Nat
    BY <2>11, BulkheadFacts, CallMoves
  <2>13. Cardinality(H1) = Cardinality(H0) + 1
    BY <2>2, <2>11, CallMoves
  <2>14. permits + Cardinality(H1) = MaxConcurrent
    BY <2>12, <2>13 DEF BulkheadOK, BulkheadInv
  <2>15. BulkheadTypeOK'
    BY <2>1, <2>2, <2>4, <2>6, LenProperties DEF BulkheadOK, BulkheadTypeOK, IsInjective
  <2>16. BulkheadInv'
    BY <2>1, <2>2, <2>5, <2>7, <2>10, <2>14, LenProperties DEF BulkheadInv
  <2>17. QED BY <2>15, <2>16 DEF BulkheadOK
<1>3. QED BY <1>1, <1>2

LEMMA BulkheadCalm == BulkheadOK /\ UNCHANGED <<bulkheadVars, mode>> => BulkheadOK'
BY DEF BulkheadOK, BulkheadTypeOK, BulkheadInv, bulkheadVars, Queued, Holding

LEMMA BulkheadMoves ==
    ASSUME BulkheadOK, NEW c \in Call, UNCHANGED mode,
           JoinQueue(c) \/ BulkheadStep(c) \/ TryAcquire(c) \/ WaitTimeout(c)
    PROVE  BulkheadOK'
<1>0. /\ waiters \in Seq(Call) /\ permits \in Nat /\ queueSize \in Nat /\ place \in [Call -> Place]
      /\ Len(waiters) \in Nat
      /\ \A i \in 1 .. Len(waiters) : waiters[i] \in Call /\ place[waiters[i]] = "waiting"
      /\ \A i, j \in 1 .. Len(waiters) : waiters[i] = waiters[j] => i = j
  BY BulkheadFacts
<1>1. /\ Place = {"outside", "joined", "refused", "waiting", "granted", "inside"}
  BY DEF Place
<1>2. ASSUME NEW to, Move(c, to), place[c] # "waiting", UNCHANGED waiters
      PROVE  /\ waiters' \in Seq(Call)
             /\ \A i \in 1 .. Len(waiters') : place'[waiters'[i]] = "waiting"
             /\ \A i, j \in 1 .. Len(waiters') : waiters'[i] = waiters'[j] => i = j
  BY <1>0, <1>2 DEF Move
<1>3. CASE JoinQueue(c)
  <2>1. PICK to \in {"refused", "joined"} :
           /\ place[c] = "outside" /\ Move(c, to) /\ queueSize' = queueSize + 1
           /\ UNCHANGED <<permits, waiters>>
    BY <1>3 DEF JoinQueue
  <2>2. QED BY <1>0, <1>1, <1>2, <2>1, OneMoves
<1>4. CASE RefuseQueueFull(c)
  <2>1. /\ place[c] = "refused" /\ Move(c, "outside") /\ queueSize' = queueSize - 1
        /\ UNCHANGED <<permits, waiters>>
    BY <1>4 DEF RefuseQueueFull
  <2>2. queueSize' \in Nat
    BY <1>0, <2>1, QueuedCounts
  <2>3. QED BY <1>0, <1>1, <1>2, <2>1, <2>2, OneMoves
<1>5. CASE AcquireAtOnce(c)
  <2>1. /\ place[c] = "joined" /\ Move(c, "inside") /\ queueSize' = queueSize - 1
        /\ permits' = permits - 1 /\ permits > 0 /\ UNCHANGED waiters
    BY <1>5 DEF AcquireAtOnce
  <2>2. queueSize' \in Nat /\ permits' \in Nat
    BY <1>0, <2>1, QueuedCounts
  <2>3. QED BY <1>0, <1>1, <1>2, <2>1, <2>2, OneMoves
<1>6. CASE StartWaiting(c)
  <2>1. /\ place[c] = "joined" /\ Move(c, "waiting") /\ waiters' = Append(waiters, c)
        /\ UNCHANGED <<queueSize, permits>>
    BY <1>6 DEF StartWaiting
  <2>2. /\ waiters' \in Seq(Call) /\ Len(waiters') = Len(waiters) + 1
        /\ \A i \in 1 .. Len(waiters) : waiters'[i] = waiters[i]
        /\ waiters'[Len(waiters) + 1] = c
    BY <1>0, <2>1, AppendProperties
  <2>3. \A i \in 1 .. Len(waiters') : i \in 1 .. Len(waiters) \/ i = Len(waiters) + 1
    BY <1>0, <2>2
  <2>4. \A i \in 1 .. Len(waiters) : waiters[i] # c
    BY <1>0, <2>1
  <2>5. \A i \in 1 .. Len(waiters') : place'[waiters'[i]] = "waiting"
    BY <1>0, <2>1, <2>2, <2>3, <2>4 DEF Move
  <2>6. ASSUME NEW i \in 1 .. Len(waiters'), NEW j \in 1 .. Len(waiters'),
               waiters'[i] = waiters'[j]
        PROVE  i = j
    BY <1>0, <2>2, <2>3, <2>4, <2>6
  <2>7. QED BY <1>0, <1>1, <2>1, <2>2, <2>5, <2>6, OneMoves
<1>7. CASE WakeWithPermit(c)
  <2>1. /\ place[c] = "granted" /\ Move(c, "inside") /\ queueSize' = queueSize - 1
        /\ UNCHANGED <<permits, waiters>>
    BY <1>7 DEF WakeWithPermit
  <2>2. queueSize' \in Nat
    BY <1>0, <2>1, QueuedCounts
  <2>3. QED BY <1>0, <1>1, <1>2, <2>1, <2>2, OneMoves
<1>8. CASE TryAcquire(c)
  <2>1. /\ place[c] = "outside" /\ Move(c, "inside") /\ permits' = permits - 1 /\ permits > 0
        /\ UNCHANGED <<queueSize, waiters>>
    BY <1>8 DEF TryAcquire
  <2>2. permits' \in Nat
    BY <1>0, <2>1
  <2>3. QED BY <1>0, <1>1, <1>2, <2>1, <2>2, OneMoves
<1>9. CASE WaitTimeout(c)
  BY <1>9, StopOK DEF WaitTimeout
<1>10. QED BY <1>3, <1>4, <1>5, <1>6, <1>7, <1>8, <1>9 DEF BulkheadStep

LEMMA BulkheadLeaves ==
    ASSUME BulkheadOK, NEW c \in Call, UNCHANGED mode, Release(c) \/ (mode.cancels /\ AbandonWait(c))
    PROVE  BulkheadOK'
<1>1. CASE Release(c)
  BY <1>1, HandOverOK DEF Release
<1>2. CASE mode.cancels /\ AbandonWait(c)
  BY <1>2, HandOverOK, StopOK DEF AbandonWait
<1>3. QED BY <1>1, <1>2

-----------------------------------------------------------------------------
(* What the steps of the system are to the breaker. *)

(* A step of a call that has the thread.                                    *)
CallMove(c) ==
    /\ HasThread(c)
    /\ \A d \in Call \ {c} : /\ at'[d] = at[d] /\ call'[d] = call[d]
                             /\ place'[d] \in {place[d], "granted"}
    /\ \/ UNCHANGED breakerVars
       \/ CallStep(c) \/ (\E o \in {"ok", "err"} : Finish(c, o))
       \/ mode.cancels /\ Cancel(c)

(* A step of nobody's.                                                      *)
OtherMove ==
    /\ UNCHANGED <<at, call, place>>
    /\ \/ UNCHANGED breakerVars
       \/ (mode.drains => \A c \in Call : ~Admitted(c)) /\ OpenElapses
       \/ ThreadIsFree /\ (ObserveState \/ ForceOpen \/ ForceClose \/ Reset)

LEMMA BulkheadOthers ==
    ASSUME BulkheadOK, NEW c \in Call,
           JoinQueue(c) \/ BulkheadStep(c) \/ TryAcquire(c) \/ WaitTimeout(c) \/ AbandonWait(c)
           \/ Release(c)
    PROVE  \A d \in Call \ {c} : place'[d] \in {place[d], "granted"}
<1>1. place \in [Call -> Place]
  BY BulkheadFacts
<1>2. CASE HandOver(c)
  <2>1. \/ place' = [place EXCEPT ![c] = "outside"]
        \/ place' = [place EXCEPT ![c] = "outside", ![Head(waiters)] = "granted"]
    BY <1>2 DEF HandOver, Move
  <2>2. QED BY <1>1, <2>1
<1>3. CASE \E to \in Place : Move(c, to)
  BY <1>1, <1>3 DEF Move
<1>4. QED BY <1>2, <1>3 DEF JoinQueue, BulkheadStep, TryAcquire, WaitTimeout, AbandonWait, Release,
             RefuseQueueFull, AcquireAtOnce, StartWaiting, WakeWithPermit, Place

LEMMA BreakerOthers ==
    ASSUME BreakerTypeOK, NEW c \in Call,
           CallStep(c) \/ (\E o \in {"ok", "err"} : Finish(c, o)) \/ Cancel(c)
    PROVE  \A d \in Call \ {c} : at'[d] = at[d] /\ call'[d] = call[d]
<1>1. at \in [Call -> Stage] /\ call \in [Call -> Locals]
  BY BreakerTypes DEF BreakerTypeOK
<1>2. \E s \in Stage : Go(c, s)
  BY DEF CallStep, Arrive, AttemptReset, ReadState, CheckHalfOpen, TakeSlot, RecordRead,
     FirstCounter, SecondCounter, Decide, LeaveSlot, Return, Admit, Reject, Finish, Cancel, Stage
<1>3. \/ UNCHANGED call
      \/ \E s : call' = [call EXCEPT ![c].seen = s]
      \/ \E s : call' = [call EXCEPT ![c].count = s]
      \/ \E s : call' = [call EXCEPT ![c].outcome = s]
      \/ call' = [call EXCEPT ![c] = NoLocals]
  BY DEF CallStep, Arrive, AttemptReset, ReadState, CheckHalfOpen, TakeSlot, RecordRead,
     FirstCounter, SecondCounter, Decide, LeaveSlot, Return, Admit, Reject, Finish, Cancel
<1>4. QED BY <1>1, <1>2, <1>3 DEF Go

TypeAndCounts == TypeOK /\ BulkheadInv

LEMMA Moves ==
    ASSUME TypeAndCounts, [Next]_vars
    PROVE  UNCHANGED mode /\ (OtherMove \/ \E c \in Call : CallMove(c))
<1>0. BreakerTypeOK /\ BulkheadOK
  BY DEF TypeAndCounts, TypeOK, BulkheadOK
<1>1. UNCHANGED mode
  BY DEF Next, Enter, PassBulkhead, Timeout, PassBreaker, Leave, EndOperation, CallerGivesUp,
     OpenTimeElapses, Observe, Intervene, ServiceChanges, Environment, vars
<1>2. ASSUME NEW c \in Call, Enter(c) \/ PassBulkhead(c) \/ Timeout(c)
      PROVE  CallMove(c)
  <2>1. HasThread(c) /\ UNCHANGED breakerVars
        /\ (JoinQueue(c) \/ BulkheadStep(c) \/ TryAcquire(c) \/ WaitTimeout(c))
    BY <1>2 DEF Enter, PassBulkhead, Timeout
  <2>2. QED BY <1>0, <2>1, BulkheadOthers DEF CallMove, breakerVars
<1>3. ASSUME NEW c \in Call, PassBreaker(c) \/ EndOperation(c)
      PROVE  CallMove(c)
  <2>1. /\ HasThread(c) /\ UNCHANGED bulkheadVars
        /\ CallStep(c) \/ \E o \in {"ok", "err"} : Finish(c, o)
    BY <1>3 DEF PassBreaker, EndOperation
  <2>2. QED BY <1>0, <2>1, BreakerOthers DEF CallMove, bulkheadVars
<1>4. ASSUME NEW c \in Call, Leave(c) PROVE CallMove(c)
  <2>1. HasThread(c) /\ CallStep(c) /\ Release(c)
    BY <1>4 DEF Leave, CallStep
  <2>2. QED BY <1>0, <2>1, BulkheadOthers, BreakerOthers DEF CallMove
<1>5. ASSUME NEW c \in Call, CallerGivesUp(c) PROVE CallMove(c)
  <2>1. CASE Cancel(c) /\ UNCHANGED bulkheadVars
    BY <1>0, <1>5, <2>1, BreakerOthers DEF CallMove, bulkheadVars, CallerGivesUp
  <2>2. CASE AbandonWait(c) /\ UNCHANGED breakerVars
    BY <1>0, <1>5, <2>2, BulkheadOthers DEF CallMove, breakerVars, CallerGivesUp
  <2>3. QED BY <1>5, <2>1, <2>2 DEF CallerGivesUp
<1>6. ASSUME OpenTimeElapses \/ Observe \/ Intervene \/ ServiceChanges \/ UNCHANGED vars
      PROVE  OtherMove
  <2>1. CASE OpenTimeElapses
    BY <2>1 DEF OpenTimeElapses, OpenElapses, OtherMove, bulkheadVars
  <2>2. CASE Observe
    BY <2>2 DEF Observe, ObserveState, OtherMove, bulkheadVars
  <2>3. CASE Intervene
    BY <2>3 DEF Intervene, ForceOpen, ForceClose, Reset, OtherMove, bulkheadVars
  <2>4. CASE ServiceChanges \/ UNCHANGED vars
    BY <2>4 DEF ServiceChanges, OtherMove, bulkheadVars, breakerVars, vars
  <2>5. QED BY <1>6, <2>1, <2>2, <2>3, <2>4
<1>7. QED BY <1>1, <1>2, <1>3, <1>4, <1>5, <1>6 DEF Next

LEMMA TypeStep == TypeAndCounts /\ [Next]_vars => TypeAndCounts'
<1> SUFFICES ASSUME TypeAndCounts, [Next]_vars PROVE TypeAndCounts'
  OBVIOUS
<1>0. BreakerTypeOK /\ BulkheadOK /\ UNCHANGED mode
  BY Moves DEF TypeAndCounts, TypeOK, BulkheadOK
<1>1. BreakerTypeOK'
  <2>1. BreakerTypeOK /\ UNCHANGED breakerVars => BreakerTypeOK'
    BY DEF BreakerTypeOK, breakerVars
  <2>2. ASSUME OtherMove PROVE BreakerTypeOK'
    BY <1>0, <2>1, <2>2, BreakerOtherType DEF OtherMove
  <2>3. ASSUME NEW c \in Call, CallMove(c) PROVE BreakerTypeOK'
    <3>1. "ok" \in Outcome /\ "err" \in Outcome
      BY DEF Outcome
    <3>2. QED BY <1>0, <2>1, <2>3, <3>1, CallStepType, FinishType, BreakerOtherType DEF CallMove
  <2>4. QED BY <2>2, <2>3, Moves
<1>2. BulkheadOK'
  <2>1. CASE UNCHANGED bulkheadVars
    BY <1>0, <2>1, BulkheadCalm
  <2>2. ASSUME NEW c \in Call, Enter(c) \/ PassBulkhead(c) \/ Timeout(c) PROVE BulkheadOK'
    BY <1>0, <2>2, BulkheadMoves DEF Enter, PassBulkhead, Timeout
  <2>3. ASSUME NEW c \in Call, Leave(c) PROVE BulkheadOK'
    BY <1>0, <2>3, BulkheadLeaves DEF Leave
  <2>4. ASSUME NEW c \in Call, CallerGivesUp(c) PROVE BulkheadOK'
    BY <1>0, <2>1, <2>4, BulkheadLeaves DEF CallerGivesUp
  <2>5. QED BY <2>1, <2>2, <2>3, <2>4 DEF Next, PassBreaker, EndOperation, OpenTimeElapses, Observe,
               Intervene, ServiceChanges, vars
<1>3. mode' \in Modes /\ healthy' \in BOOLEAN /\ forced' \in 0 .. MaxForced
  <2>1. mode \in Modes /\ healthy \in BOOLEAN /\ forced \in 0 .. MaxForced
    BY DEF TypeAndCounts, TypeOK
  <2>2. healthy' = healthy \/ healthy' = ~healthy
    BY DEF Next, Enter, PassBulkhead, Timeout, PassBreaker, Leave, EndOperation, CallerGivesUp,
       OpenTimeElapses, Observe, Intervene, ServiceChanges, Environment, vars
  <2>3. forced' = forced \/ (forced < mode.forces /\ forced' = forced + 1)
    BY DEF Next, Enter, PassBulkhead, Timeout, PassBreaker, Leave, EndOperation, CallerGivesUp,
       OpenTimeElapses, Observe, Intervene, ServiceChanges, Environment, vars
  <2>4. mode.forces \in 0 .. MaxForced /\ MaxForced \in Nat
    BY <2>1, CallsAssumption
  <2>5. healthy' \in BOOLEAN
    BY <2>1, <2>2, Zenon
  <2>6. QED BY <1>0, <2>1, <2>3, <2>4, <2>5
<1>4. QED BY <1>1, <1>2, <1>3 DEF TypeAndCounts, TypeOK, BulkheadOK

LEMMA TypeInit == Init => TypeAndCounts
<1> SUFFICES ASSUME Init PROVE TypeAndCounts
  OBVIOUS
<1>1. BreakerTypeOK
  <2>1. 0 \in 0 .. FailureThreshold /\ 0 \in 0 .. SuccessThreshold /\ 0 \in 0 .. CounterMax
    BY ConstantFacts
  <2>2. circuit \in CircuitState /\ elapsed \in BOOLEAN /\ at \in [Call -> Stage]
    BY DEF Init, BreakerInit, CircuitState, Stage
  <2>3. call \in [Call -> Locals]
    BY DEF Init, BreakerInit, NoLocals, Locals, Outcome, CircuitState
  <2>4. QED BY <2>1, <2>2, <2>3 DEF Init, BreakerInit, BreakerTypeOK, Locals
<1>2. /\ queueSize = 0 /\ permits = MaxConcurrent /\ waiters = <<>>
      /\ place = [c \in Call |-> "outside"]
  BY DEF Init, BulkheadInit
<1>3. BulkheadTypeOK
  BY <1>2, ConstantFacts, EmptySeq DEF BulkheadTypeOK, IsInjective, Place
<1>4. Queued = {} /\ Holding = {}
  BY <1>2 DEF Queued, Holding
<1>5. BulkheadInv
  BY <1>2, <1>4, ConstantFacts, FS_EmptySet, EmptySeq DEF BulkheadInv
<1>6. QED BY <1>1, <1>3, <1>5, CallsAssumption DEF TypeAndCounts, TypeOK, Init

-----------------------------------------------------------------------------
(* Calls on one thread. *)

LEMMA SectionFacts ==
    ASSUME ~mode.threads, NEW c \in Call, HasThread(c)
    PROVE  \A d \in Call \ {c} : ~InSection(d) /\ ~Busy(d) /\ ~Deciding(d) /\ ~Over(d)
BY DEF HasThread, InSection, Busy, Deciding, Over

LEMMA OneSectionStep ==
    ASSUME ~mode.threads, OneSection, OtherMove \/ \E c \in Call : CallMove(c)
    PROVE  OneSection'
<1>1. CASE OtherMove
  BY <1>1 DEF OneSection, OtherMove, InSection, Busy, Entering
<1>2. ASSUME NEW c \in Call, CallMove(c) PROVE OneSection'
  <2>1. \A d \in Call \ {c} : ~InSection(d)
    BY <1>2, SectionFacts DEF CallMove
  <2>2. \A d \in Call \ {c} : ~InSection(d)'
    BY <1>2, <2>1 DEF CallMove, InSection, Busy, Entering
  <2>3. QED BY <2>2 DEF OneSection
<1>3. QED BY <1>1, <1>2

(* What a call reads stays so while it decides; a count it finds is the     *)
(* counter's.                                                               *)
LEMMA DecidingStep ==
    ASSUME BreakerTypeOK, NEW c \in Call,
           Deciding(c) => call[c].seen = circuit,
           CallStep(c) \/ (\E o \in {"ok", "err"} : Finish(c, o)) \/ Cancel(c)
    PROVE  Deciding(c)' => call'[c].seen = circuit'
<1>1. at \in [Call -> Stage] /\ call \in [Call -> Locals] /\ call[c] \in Locals
  BY BreakerTypes DEF BreakerTypeOK
<1>2. CASE RecordRead(c)
  <2>1. call' = [call EXCEPT ![c].seen = circuit] /\ circuit' = circuit
    BY <1>2 DEF RecordRead
  <2>2. QED BY <1>1, <2>1 DEF Locals
<1>3. CASE FirstCounter(c) \/ SecondCounter(c)
  <2>1. /\ circuit' = circuit /\ Deciding(c)
        /\ UNCHANGED call \/ \E i : call' = [call EXCEPT ![c].count = i]
    BY <1>3 DEF FirstCounter, SecondCounter, Deciding
  <2>2. call'[c].seen = call[c].seen
    BY <1>1, <2>1 DEF Locals
  <2>3. QED BY <2>1, <2>2
<1>4. CASE ~RecordRead(c) /\ ~FirstCounter(c) /\ ~SecondCounter(c)
  <2>1. \E s \in Stage \ {"first", "second", "decide"} : Go(c, s)
    BY <1>4 DEF CallStep, Arrive, AttemptReset, ReadState, CheckHalfOpen, TakeSlot, Decide, LeaveSlot,
       Return, Admit, Reject, Finish, Cancel, Stage
  <2>2. ~Deciding(c)'
    BY <1>1, <2>1 DEF Go, Deciding
  <2>3. QED BY <2>2
<1>5. QED BY <1>2, <1>3, <1>4

BelowOr(c) == circuit = "Closed" => failures < FailureThreshold \/ Over(c)

LEMMA BelowStep ==
    ASSUME BreakerTypeOK, NEW c \in Call, Deciding(c) => call[c].seen = circuit, BelowOr(c),
           CallStep(c) \/ (\E o \in {"ok", "err"} : Finish(c, o)) \/ Cancel(c)
    PROVE  BelowOr(c)'
<1>1. /\ at \in [Call -> Stage] /\ call \in [Call -> Locals] /\ call[c] \in Locals
      /\ failures \in Nat /\ FailureThreshold \in Nat /\ FailureThreshold > 0
  BY BreakerTypes, ConstantFacts DEF BreakerTypeOK
<1>2. CASE FirstCounter(c)
  <2>1. at'[c] = "second" /\ circuit' = circuit
    BY <1>1, <1>2 DEF FirstCounter, Go
  <2>2. CASE call[c].outcome = "ok"
    <3>1. failures' = 0
      BY <1>2, <2>2 DEF FirstCounter
    <3>2. QED BY <1>1, <3>1 DEF BelowOr
  <2>3. CASE call[c].outcome # "ok"
    <3>1. call[c].outcome = "err" /\ call' = [call EXCEPT ![c].count = failures']
      BY <1>2, <2>3 DEF FirstCounter
    <3>2. call'[c].outcome = "err" /\ call'[c].count = failures'
      BY <1>1, <3>1 DEF Locals
    <3>3. QED BY <2>1, <3>2 DEF BelowOr, Over
  <2>4. QED BY <2>2, <2>3
<1>3. CASE SecondCounter(c)
  <2>1. at'[c] = "decide" /\ UNCHANGED <<circuit, failures>>
    BY <1>1, <1>3 DEF SecondCounter, Go
  <2>2. call[c].outcome = "err" => call' = call
    BY <1>3 DEF SecondCounter
  <2>3. QED BY <2>1, <2>2 DEF BelowOr, Over
<1>4. CASE Decide(c)
  <2>1. call[c].seen = circuit
    BY <1>4 DEF Decide, Deciding
  <2>2. CASE EnoughSuccesses(c) /\ TransitionToClosed
    <3>1. failures' = 0
      BY <2>1, <2>2 DEF EnoughSuccesses, TransitionToClosed
    <3>2. QED BY <1>1, <3>1 DEF BelowOr
  <2>3. CASE ShouldOpen(c) /\ TransitionToOpen
    BY <2>3 DEF BelowOr, TransitionToOpen
  <2>4. CASE ~ShouldOpen(c) /\ UNCHANGED <<circuit, failures>>
    <3>1. circuit = "Closed" /\ Over(c) => failures < FailureThreshold
      <4>1. call[c].count \in Nat
        BY <1>1 DEF Locals
      <4>2. QED BY <1>1, <2>1, <2>4, <4>1 DEF ShouldOpen, Over
    <3>2. QED BY <2>4, <3>1 DEF BelowOr
  <2>5. QED BY <1>4, <2>2, <2>3, <2>4 DEF Decide
<1>5. CASE ~FirstCounter(c) /\ ~SecondCounter(c) /\ ~Decide(c)
  <2>1. ~Over(c)
    BY <1>5 DEF Over, CallStep, Arrive, AttemptReset, ReadState, CheckHalfOpen, TakeSlot, RecordRead,
       LeaveSlot, Return, Finish, Cancel
  <2>2. failures' = failures /\ (circuit' = circuit \/ circuit' = "HalfOpen")
    BY <1>5 DEF CallStep, Arrive, AttemptReset, ReadState, CheckHalfOpen, TakeSlot, RecordRead,
       LeaveSlot, Return, Finish, Cancel, TransitionToHalfOpen
  <2>3. QED BY <2>1, <2>2 DEF BelowOr
<1>6. QED BY <1>2, <1>3, <1>4, <1>5

LEMMA SectionStep ==
    ASSUME ~mode.threads, TypeAndCounts, SectionInv, [Next]_vars
    PROVE  SectionInv'
<1>0. BreakerTypeOK /\ (OtherMove \/ \E c \in Call : CallMove(c))
  BY Moves DEF TypeAndCounts, TypeOK
<1>1. OneSection'
  BY <1>0, OneSectionStep DEF SectionInv
<1>2. CASE UNCHANGED breakerVars
  BY <1>1, <1>2 DEF SectionInv, Deciding, Over, breakerVars
<1>3. ASSUME NEW c \in Call, CallMove(c), ~UNCHANGED breakerVars PROVE SectionInv'
  <2>1. CallStep(c) \/ (\E o \in {"ok", "err"} : Finish(c, o)) \/ Cancel(c)
    BY <1>3 DEF CallMove
  <2>2. \A d \in Call \ {c} : ~Deciding(d) /\ ~Over(d) /\ at'[d] = at[d]
    BY <1>3, SectionFacts DEF CallMove
  <2>3. Deciding(c) => call[c].seen = circuit
    BY DEF SectionInv
  <2>4. BelowOr(c)
    BY <2>2 DEF SectionInv, BelowOr
  <2>5. (Deciding(c)' => call'[c].seen = circuit') /\ BelowOr(c)'
    BY <1>0, <2>1, <2>3, <2>4, DecidingStep, BelowStep
  <2>6. \A d \in Call \ {c} : ~Deciding(d)'
    BY <2>2 DEF Deciding
  <2>7. QED BY <1>1, <2>5, <2>6 DEF SectionInv, BelowOr
<1>4. CASE OtherMove /\ ~UNCHANGED breakerVars
  <2>1. UNCHANGED <<at, call>>
    BY <1>4 DEF OtherMove
  <2>2. CASE OpenElapses
    BY <1>1, <2>2 DEF OpenElapses, SectionInv, Deciding, Over
  <2>3. CASE ThreadIsFree /\ (ObserveState \/ ForceOpen \/ ForceClose \/ Reset)
    <3>1. \A d \in Call : ~Deciding(d) /\ ~Over(d)
      BY <2>3 DEF ThreadIsFree, InSection, Busy, Deciding, Over
    <3>2. \A d \in Call : ~Deciding(d)'
      BY <2>1, <3>1 DEF Deciding
    <3>3. circuit' = "Closed" => failures' < FailureThreshold
      BY <2>3, <3>1, ConstantFacts DEF SectionInv, ObserveState, ForceOpen, ForceClose, Reset,
         TransitionToClosed, TransitionToOpen, TransitionToHalfOpen
    <3>4. QED BY <1>1, <3>2, <3>3 DEF SectionInv
  <2>4. QED BY <1>4, <2>2, <2>3 DEF OtherMove
<1>5. QED BY <1>0, <1>2, <1>3, <1>4

-----------------------------------------------------------------------------
(* The trial calls of a half-open circuit. *)

Quiet == circuit = "Open" /\ elapsed => \A c \in Call : ~Admitted(c)

Waits(c) ==
    /\ at[c] = "resetting" => circuit = "Open" /\ elapsed
    /\ at[c] = "probing" => circuit = "HalfOpen"
    /\ at[c] = "taking" => circuit = "HalfOpen" /\ halfOpen < HalfOpenMax

Slots == /\ \A c \in Call : Holds(c) => call[c].seen = "HalfOpen"
         /\ Cardinality(Holders) <= halfOpen /\ halfOpen <= HalfOpenMax
         /\ ~mode.cancels => halfOpen = Cardinality(Holders)

LEMMA TrialParts ==
    TrialInv <=> Quiet /\ (\A c \in Call : Waits(c)) /\ (circuit = "HalfOpen" => Slots)
BY DEF TrialInv, Quiet, Waits, Slots

Steps(c) == CallStep(c) \/ (\E o \in {"ok", "err"} : Finish(c, o)) \/ (mode.cancels /\ Cancel(c))

(* An open circuit whose time has passed was one before the step.           *)
LEMMA QuietStep ==
    ASSUME BreakerTypeOK, NEW c \in Call, Steps(c), Quiet, Waits(c),
           \A d \in Call \ {c} : at'[d] = at[d]
    PROVE  Quiet'
<1>0. at \in [Call -> Stage]
  BY DEF BreakerTypeOK
<1>1. circuit' = "Open" /\ elapsed' => circuit = "Open" /\ elapsed
  BY DEF Steps, CallStep, Arrive, AttemptReset, ReadState, CheckHalfOpen, TakeSlot, RecordRead,
     FirstCounter, SecondCounter, Decide, LeaveSlot, Return, Finish, Cancel, TransitionToHalfOpen,
     TransitionToClosed, TransitionToOpen
<1>2. SUFFICES ASSUME circuit' = "Open", elapsed', circuit = "Open", elapsed,
                      \A d \in Call : ~Admitted(d)
               PROVE  ~Admitted(c)'
  BY <1>1 DEF Quiet, Admitted
<1>3. \E s \in {"resetting", "reading", "done", "out"} : Go(c, s)
  BY <1>2 DEF Steps, CallStep, Arrive, AttemptReset, ReadState, CheckHalfOpen, TakeSlot, RecordRead,
     FirstCounter, SecondCounter, Decide, LeaveSlot, Return, Finish, Cancel, Admitted, Reject, Waits
<1>4. QED BY <1>0, <1>3 DEF Go, Admitted

LEMMA WaitsStep ==
    ASSUME BreakerTypeOK, NEW c \in Call, Steps(c), Waits(c)
    PROVE  Waits(c)'
<1>0. at \in [Call -> Stage]
  BY DEF BreakerTypeOK
<1>1. CASE Arrive(c)
  <2>1. /\ UNCHANGED <<circuit, halfOpen, elapsed>>
        /\ at'[c] = IF circuit = "Open" /\ elapsed THEN "resetting" ELSE "reading"
    BY <1>0, <1>1 DEF Arrive, Go
  <2>2. QED BY <2>1 DEF Waits
<1>2. CASE ReadState(c)
  <2>1. /\ UNCHANGED <<circuit, halfOpen, elapsed>>
        /\ at'[c] \in {"running", "done"} \/ (at'[c] = "probing" /\ circuit = "HalfOpen")
    BY <1>0, <1>2 DEF ReadState, Go, Admit, Reject
  <2>2. QED BY <2>1 DEF Waits
<1>3. CASE CheckHalfOpen(c)
  <2>1. /\ UNCHANGED <<circuit, halfOpen, elapsed>> /\ at[c] = "probing"
        /\ at'[c] = "done" \/ (at'[c] = "taking" /\ halfOpen < HalfOpenMax)
    BY <1>0, <1>3 DEF CheckHalfOpen, Go, Reject
  <2>2. QED BY <2>1 DEF Waits
<1>4. CASE ~Arrive(c) /\ ~ReadState(c) /\ ~CheckHalfOpen(c)
  <2>1. \E s \in Stage \ {"resetting", "probing", "taking"} : Go(c, s)
    BY <1>4 DEF Steps, CallStep, AttemptReset, TakeSlot, RecordRead, FirstCounter, SecondCounter,
       Decide, LeaveSlot, Return, Finish, Cancel, Admit, Stage
  <2>2. at'[c] \notin {"resetting", "probing", "taking"}
    BY <1>0, <2>1 DEF Go
  <2>3. QED BY <2>2 DEF Waits
<1>5. QED BY <1>1, <1>2, <1>3, <1>4

(* What a step of c does to its slot while the circuit stays half-open.     *)
Keeps(c) == /\ halfOpen' = halfOpen /\ (Holds(c)' <=> Holds(c))
            /\ Holds(c)' => call'[c].seen = "HalfOpen"
Takes(c) == /\ ~Holds(c) /\ halfOpen < HalfOpenMax /\ halfOpen' = Incremented(halfOpen)
            /\ Holds(c)' /\ call'[c].seen = "HalfOpen"
Leaves(c) == Holds(c) /\ ~Holds(c)' /\ halfOpen' = Decremented(halfOpen)
Loses(c) == mode.cancels /\ Holds(c) /\ ~Holds(c)' /\ halfOpen' = halfOpen

LEMMA SlotMoves ==
    ASSUME BreakerTypeOK, NEW c \in Call, Steps(c), Waits(c), circuit = "HalfOpen",
           circuit' = "HalfOpen", Holds(c) => call[c].seen = "HalfOpen"
    PROVE  Keeps(c) \/ Takes(c) \/ Leaves(c) \/ Loses(c)
<1>0. at \in [Call -> Stage] /\ call \in [Call -> Locals] /\ call[c] \in Locals
  BY BreakerTypes DEF BreakerTypeOK
<1>1. CASE TakeSlot(c)
  <2>1. at[c] = "taking" /\ halfOpen < HalfOpenMax /\ halfOpen' = Incremented(halfOpen)
    BY <1>1 DEF TakeSlot, Waits
  <2>2. at'[c] = "running" /\ call'[c].seen = "HalfOpen"
    BY <1>0, <1>1 DEF TakeSlot, Admit, Go, Locals
  <2>3. Takes(c)
    BY <2>1, <2>2 DEF Takes, Holds
  <2>4. QED BY <2>3
<1>2. CASE LeaveSlot(c)
  <2>1. at[c] = "leave" /\ at'[c] = "done"
    BY <1>0, <1>2 DEF LeaveSlot, Go
  <2>2. halfOpen' = Decremented(halfOpen)
    BY <1>2, <2>1 DEF LeaveSlot, Holds
  <2>3. QED BY <2>1, <2>2 DEF Leaves, Holds
<1>3. CASE mode.cancels /\ Cancel(c)
  <2>1. at[c] = "running" /\ at'[c] = "done" /\ halfOpen' = halfOpen
    BY <1>0, <1>3 DEF Cancel, Go
  <2>2. QED BY <1>3, <2>1 DEF Loses, Holds
<1>4. CASE Arrive(c) \/ ReadState(c) \/ CheckHalfOpen(c) \/ Return(c)
  <2>1. /\ at[c] \in {"out", "reading", "probing", "done"} /\ halfOpen' = halfOpen
        /\ at'[c] \in {"resetting", "reading", "probing", "taking", "done", "out"}
    BY <1>0, <1>4 DEF Arrive, ReadState, CheckHalfOpen, Return, Go, Reject
  <2>2. QED BY <2>1 DEF Keeps, Holds
<1>5. CASE RecordRead(c)
  <2>1. at[c] = "record" /\ at'[c] = "first" /\ halfOpen' = halfOpen /\ call'[c].seen = "HalfOpen"
    BY <1>0, <1>5 DEF RecordRead, Go, Locals
  <2>2. QED BY <2>1 DEF Keeps, Holds
<1>6. CASE (\E o \in {"ok", "err"} : Finish(c, o)) \/ FirstCounter(c) \/ SecondCounter(c) \/ Decide(c)
  <2>1. /\ at[c] \in {"running", "first", "second", "decide"}
        /\ at'[c] \in {"record", "second", "decide", "leave"}
    BY <1>0, <1>6 DEF Finish, FirstCounter, SecondCounter, Decide, Go
  <2>2. halfOpen' = halfOpen
    BY <1>6 DEF Finish, FirstCounter, SecondCounter, Decide, TransitionToClosed
  <2>3. \/ UNCHANGED call
        \/ \E i : call' = [call EXCEPT ![c].count = i]
        \/ \E i : call' = [call EXCEPT ![c].outcome = i]
    BY <1>6 DEF Finish, FirstCounter, SecondCounter, Decide
  <2>4. call'[c].seen = call[c].seen
    BY <1>0, <2>3 DEF Locals
  <2>5. QED BY <2>1, <2>2, <2>4 DEF Keeps, Holds
<1>7. ~AttemptReset(c)
  BY DEF AttemptReset, Waits
<1>8. QED BY <1>1, <1>2, <1>3, <1>4, <1>5, <1>6, <1>7 DEF Steps, CallStep

LEMMA SlotsStep ==
    ASSUME BreakerTypeOK, NEW c \in Call, Slots, UNCHANGED mode,
           \A d \in Call \ {c} : at'[d] = at[d] /\ call'[d] = call[d],
           Keeps(c) \/ Takes(c) \/ Leaves(c) \/ Loses(c)
    PROVE  Slots'
<1>1. PICK H : H = Holders'
  OBVIOUS
<1>2. /\ Holders \in SUBSET Call /\ H \in SUBSET Call
      /\ \A d \in Call \ {c} : d \in Holders <=> d \in H
      /\ (c \in Holders <=> Holds(c)) /\ (c \in H <=> Holds(c)')
  BY <1>1 DEF Holders, Holds
<1>3. /\ Cardinality(H) \in Nat /\ Cardinality(Holders) \in Nat
      /\ c \in Holders /\ c \notin H => Cardinality(Holders) = Cardinality(H) + 1
      /\ c \notin Holders /\ c \in H => Cardinality(H) = Cardinality(Holders) + 1
      /\ (c \in Holders <=> c \in H) => H = Holders
  <2>1. /\ Holders \in SUBSET Call /\ H \in SUBSET Call
        /\ \A d \in Call \ {c} : d \in Holders <=> d \in H
    BY <1>2
  <2>2. QED BY <2>1, CallMoves
<1>4. /\ Cardinality(Holders) <= halfOpen /\ halfOpen <= HalfOpenMax
      /\ ~mode.cancels => halfOpen = Cardinality(Holders)
  BY DEF Slots
<1>5. /\ halfOpen \in Nat /\ HalfOpenMax \in Nat /\ CounterMax \in Nat /\ HalfOpenMax < CounterMax
  BY BreakerTypes, ConstantFacts
<1>6. /\ Cardinality(H) <= halfOpen' /\ halfOpen' <= HalfOpenMax
      /\ ~mode.cancels => halfOpen' = Cardinality(H)
  <2>1. CASE Keeps(c)
    BY <1>2, <1>3, <1>4, <2>1 DEF Keeps
  <2>2. CASE Takes(c)
    <3>1. halfOpen' = halfOpen + 1 /\ halfOpen < HalfOpenMax
      BY <1>5, <2>2 DEF Takes, Incremented
    <3>2. Cardinality(H) = Cardinality(Holders) + 1
      BY <1>2, <1>3, <2>2 DEF Takes
    <3>3. QED BY <1>3, <1>4, <1>5, <3>1, <3>2
  <2>3. CASE Leaves(c)
    <3>1. Cardinality(Holders) = Cardinality(H) + 1
      BY <1>2, <1>3, <2>3 DEF Leaves
    <3>2. halfOpen' = halfOpen - 1
      BY <1>3, <1>4, <1>5, <2>3, <3>1 DEF Leaves, Decremented
    <3>3. QED BY <1>3, <1>4, <1>5, <3>1, <3>2
  <2>4. CASE Loses(c)
    BY <1>2, <1>3, <1>4, <1>5, <2>4 DEF Loses
  <2>5. QED BY <2>1, <2>2, <2>3, <2>4
<1>7. \A d \in Call : Holds(d)' => call'[d].seen = "HalfOpen"
  BY DEF Slots, Holds, Keeps, Takes, Leaves, Loses
<1>8. QED BY <1>1, <1>6, <1>7 DEF Slots

(* The circuit that becomes half-open does so with no slot taken.           *)
LEMMA FreshSlots ==
    ASSUME BreakerTypeOK, \A d \in Call : ~Holds(d)', halfOpen' = 0
    PROVE  Slots'
<1>1. PICK H : H = Holders'
  OBVIOUS
<1>2. H = {}
  BY <1>1 DEF Holders
<1>3. Cardinality(H) = 0
  BY <1>2, FS_EmptySet
<1>4. QED BY <1>1, <1>3, ConstantFacts DEF Slots

LEMMA TrialStep ==
    ASSUME ~mode.threads, mode.drains, TypeAndCounts, TrialInv, [Next]_vars
    PROVE  TrialInv'
<1>0. BreakerTypeOK /\ UNCHANGED mode /\ (OtherMove \/ \E c \in Call : CallMove(c))
  BY Moves DEF TypeAndCounts, TypeOK
<1>1. Quiet /\ (\A c \in Call : Waits(c)) /\ (circuit = "HalfOpen" => Slots)
  BY TrialParts
<1>2. SUFFICES Quiet' /\ (\A c \in Call : Waits(c)') /\ (circuit' = "HalfOpen" => Slots')
  BY DEF TrialInv, Quiet, Waits, Slots
<1>3. CASE UNCHANGED breakerVars
  BY <1>0, <1>1, <1>3 DEF breakerVars, Quiet, Waits, Slots, Admitted, Holders, Holds
<1>4. ASSUME NEW c \in Call, CallMove(c), ~UNCHANGED breakerVars
      PROVE  Quiet' /\ (\A d \in Call : Waits(d)') /\ (circuit' = "HalfOpen" => Slots')
  <2>1. Steps(c) /\ \A d \in Call \ {c} : at'[d] = at[d] /\ call'[d] = call[d]
    BY <1>4 DEF CallMove, Steps
  <2>2. Quiet'
    BY <1>0, <1>1, <2>1, QuietStep
  <2>3. \A d \in Call : Waits(d)'
    <3>1. \A d \in Call \ {c} : at'[d] \notin {"resetting", "probing", "taking"}
      BY <1>4, <2>1, SectionFacts DEF CallMove, Busy
    <3>2. Waits(c)'
      BY <1>0, <1>1, <2>1, WaitsStep
    <3>3. QED BY <3>1, <3>2 DEF Waits
  <2>4. ASSUME circuit' = "HalfOpen", circuit = "HalfOpen" PROVE Slots'
    <3>1. Slots
      BY <1>1, <2>4
    <3>2. Keeps(c) \/ Takes(c) \/ Leaves(c) \/ Loses(c)
      BY <1>0, <1>1, <2>1, <2>4, <3>1, SlotMoves DEF Slots
    <3>3. QED BY <1>0, <2>1, <3>1, <3>2, SlotsStep
  <2>5. ASSUME circuit' = "HalfOpen", circuit # "HalfOpen" PROVE Slots'
    <3>1. AttemptReset(c) /\ TransitionToHalfOpen
      BY <2>1, <2>5 DEF Steps, CallStep, Arrive, AttemptReset, ReadState, CheckHalfOpen, TakeSlot,
         RecordRead, FirstCounter, SecondCounter, Decide, LeaveSlot, Return, Finish, Cancel,
         TransitionToClosed, TransitionToOpen
    <3>2. circuit = "Open" /\ elapsed /\ halfOpen' = 0
      BY <1>1, <2>5, <3>1 DEF AttemptReset, Waits, TransitionToHalfOpen
    <3>3. \A d \in Call : ~Holds(d)
      BY <1>1, <3>2 DEF Quiet, Admitted, Holds
    <3>4. at'[c] = "reading"
      BY <1>0, <3>1 DEF AttemptReset, Go, BreakerTypeOK
    <3>5. \A d \in Call : ~Holds(d)'
      BY <2>1, <3>3, <3>4 DEF Holds
    <3>6. QED BY <1>0, <3>2, <3>5, FreshSlots
  <2>6. QED BY <2>2, <2>3, <2>4, <2>5
<1>5. CASE OtherMove /\ ~UNCHANGED breakerVars
  <2>1. UNCHANGED <<at, call>>
    BY <1>5 DEF OtherMove
  <2>2. CASE (\A c \in Call : ~Admitted(c)) /\ OpenElapses
    BY <1>1, <2>2 DEF OpenElapses, Quiet, Waits, Admitted
  <2>3. CASE ThreadIsFree /\ (ObserveState \/ ForceOpen \/ ForceClose \/ Reset)
    <3>1. \A d \in Call : at'[d] \notin {"resetting", "probing", "taking"}
      BY <2>1, <2>3 DEF ThreadIsFree, InSection, Busy
    <3>2. circuit' = "Open" /\ elapsed' => circuit = "Open" /\ elapsed
      BY <2>3 DEF ObserveState, ForceOpen, ForceClose, Reset, TransitionToHalfOpen,
         TransitionToClosed, TransitionToOpen
    <3>3. Quiet'
      BY <1>1, <2>1, <3>2 DEF Quiet, Admitted
    <3>4. ASSUME circuit' = "HalfOpen" PROVE Slots'
      <4>1. circuit = "Open" /\ elapsed /\ halfOpen' = 0
        BY <2>3, <3>4 DEF ObserveState, ForceOpen, ForceClose, Reset, TransitionToHalfOpen,
           TransitionToClosed, TransitionToOpen
      <4>2. \A d \in Call : ~Holds(d)'
        BY <1>1, <2>1, <4>1 DEF Quiet, Admitted, Holds
      <4>3. QED BY <1>0, <4>1, <4>2, FreshSlots
    <3>5. QED BY <3>1, <3>3, <3>4 DEF Waits
  <2>4. QED BY <1>5, <2>2, <2>3 DEF OtherMove
<1>6. QED BY <1>0, <1>3, <1>4, <1>5

-----------------------------------------------------------------------------
(* The invariant. *)

LEMMA CallsInit == Init => CallsInv
<1> SUFFICES ASSUME Init PROVE CallsInv
  OBVIOUS
<1>1. TypeOK /\ BulkheadInv
  BY TypeInit DEF TypeAndCounts
<1>2. /\ circuit = "Closed" /\ failures = 0
      /\ \A c \in Call : at[c] = "out" /\ place[c] = "outside"
  BY DEF Init, BreakerInit, BulkheadInit
<1>3. SectionInv
  BY <1>2, ConstantFacts DEF SectionInv, OneSection, InSection, Busy, Entering, Deciding
<1>4. TrialInv
  BY <1>2 DEF TrialInv, Admitted
<1>5. QED BY <1>1, <1>3, <1>4 DEF CallsInv

LEMMA CallsStep == CallsInv /\ [Next]_vars => CallsInv'
<1> SUFFICES ASSUME CallsInv, [Next]_vars PROVE CallsInv'
  OBVIOUS
<1>1. TypeAndCounts
  BY DEF CallsInv, TypeAndCounts
<1>2. UNCHANGED mode
  BY <1>1, Moves
<1>3. TypeAndCounts'
  BY <1>1, TypeStep
<1>4. ~mode.threads => SectionInv'
  BY <1>1, SectionStep DEF CallsInv
<1>5. ~mode.threads /\ mode.drains => TrialInv'
  BY <1>1, TrialStep DEF CallsInv
<1>6. QED BY <1>2, <1>3, <1>4, <1>5 DEF CallsInv, TypeAndCounts

LEMMA CallsInvariant == Spec => []CallsInv
BY CallsInit, CallsStep, PTL DEF Spec

-----------------------------------------------------------------------------
(* Every variable of breaker and bulkhead keeps its type; above all the u64 *)
(* that counts half-open requests stays one, and the waiting queue of the    *)
(* semaphore has each caller at most once.                                   *)
THEOREM ProtectedTypesHold == Spec => []TypeOK
<1>1. CallsInv => TypeOK
  BY DEF CallsInv
<1>2. QED BY <1>1, CallsInvariant, PTL

(* queue_size never leaks a place unless a caller drops its future: whatever *)
(* the order in which calls are refused, queued, timed out and handed a      *)
(* permit (Bulkhead::call's fetch_add and fetch_subs).                       *)
THEOREM QueueIsExact == Spec => []QueueSizeIsExact
<1>1. CallsInv => QueueSizeIsExact
  BY DEF CallsInv, BulkheadInv, Queued, QueueSizeIsExact
<1>2. QED BY <1>1, CallsInvariant, PTL

(* No more calls are inside the bulkhead, or about to be with a permit in    *)
(* hand, than max_concurrent - also when callers time out or give up while   *)
(* the semaphore hands them its permit.                                      *)
ConcurrencyIsLimited == Cardinality(Holding) <= MaxConcurrent

THEOREM ConcurrencyStaysLimited == Spec => []ConcurrencyIsLimited
<1>1. CallsInv => ConcurrencyIsLimited
  <2> SUFFICES ASSUME CallsInv PROVE ConcurrencyIsLimited
    OBVIOUS
  <2>1. BulkheadOK /\ permits + Cardinality(Holding) = MaxConcurrent
    BY DEF CallsInv, TypeOK, BulkheadOK, BulkheadInv
  <2>2. permits \in Nat /\ Cardinality(Holding) \in Nat
    BY <2>1, BulkheadFacts
  <2>3. QED BY <2>1, <2>2, ConstantFacts DEF ConcurrencyIsLimited
<1>2. QED BY <1>1, CallsInvariant, PTL

(* allow_request admits no trial beyond half_open_max_requests and every     *)
(* trial that runs is counted, for operations that end before the circuit    *)
(* resets; also when callers give up.                                        *)
THEOREM TrialsStayBounded == Spec => []TrialsAreBounded
<1>1. CallsInv => TrialsAreBounded
  <2> SUFFICES ASSUME CallsInv, ~mode.threads, mode.drains, circuit = "HalfOpen"
               PROVE  Cardinality(Trials) <= HalfOpenMax
    BY DEF TrialsAreBounded
  <2>1. Slots /\ BreakerTypeOK
    BY TrialParts DEF CallsInv, TypeOK
  <2>2. Trials \subseteq Holders /\ Holders \subseteq Call
    BY DEF Trials, Trial, Holders, Holds
  <2>3. /\ Cardinality(Trials) <= Cardinality(Holders)
        /\ Cardinality(Trials) \in Nat /\ Cardinality(Holders) \in Nat
    <3>1. IsFiniteSet(Holders)
      BY <2>2, CallAssumption, FS_Subset
    <3>2. IsFiniteSet(Trials) /\ Cardinality(Trials) <= Cardinality(Holders)
      BY <2>2, <3>1, FS_Subset
    <3>3. QED BY <3>1, <3>2, FS_CardinalityType
  <2>4. /\ Cardinality(Holders) <= halfOpen /\ halfOpen <= HalfOpenMax
        /\ halfOpen \in Nat /\ HalfOpenMax \in Nat
    BY <2>1, BreakerTypes, ConstantFacts DEF Slots
  <2>5. QED BY <2>3, <2>4
<1>2. QED BY <1>1, CallsInvariant, PTL

(* A half-open breaker whose callers are all gone has given back every slot, *)
(* and so admits the next call: no sequence of trials, successes, failures,  *)
(* forced states and resets wedges it.                                       *)
THEOREM BreakerNeverWedged == Spec => []NeverWedged
<1>1. CallsInv => NeverWedged
  <2> SUFFICES ASSUME CallsInv, ~mode.threads, mode.drains, ~mode.cancels, circuit = "HalfOpen",
                      \A c \in Call : at[c] \in {"out", "done"}
               PROVE  halfOpen < HalfOpenMax
    BY DEF NeverWedged
  <2>1. Slots
    BY TrialParts DEF CallsInv
  <2>2. Holders = {}
    BY DEF Holders, Holds
  <2>3. halfOpen = 0
    BY <2>1, <2>2, FS_EmptySet DEF Slots
  <2>4. QED BY <2>3, ConstantFacts
<1>2. QED BY <1>1, CallsInvariant, PTL

(* record_failure and the transitions keep consecutive_failures under the    *)
(* threshold whenever the circuit is closed and no call is about to decide.  *)
THEOREM ClosedStaysBelow == Spec => []ClosedIsBelowThreshold
<1>1. CallsInv => ClosedIsBelowThreshold
  BY DEF CallsInv, SectionInv, ClosedIsBelowThreshold, Over, Busy
<1>2. QED BY <1>1, CallsInvariant, PTL

=============================================================================
