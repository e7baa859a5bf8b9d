-------------------------- MODULE SchedulerProofs --------------------------
(* Theorems about Scheduler, for every set of tasks and workers, every       *)
(* threshold and every mode.                                                 *)
EXTENDS Scheduler, FiniteSetTheorems, TLAPS

------------------------------------------------------------------------------
(* Queues of tasks.                                                          *)

LEMMA Appended ==
    ASSUME NEW s \in Seq(Task), NEW t \in Task
    PROVE  /\ Append(s, t) \in Seq(Task)
           /\ \A u \in Task : Contains(Append(s, t), u) <=> Contains(s, u) \/ u = t
           /\ IsInjective(s) /\ ~Contains(s, t) => IsInjective(Append(s, t))
<1> DEFINE r == Append(s, t)
<1>1. /\ r \in Seq(Task) /\ Len(r) = Len(s) + 1
      /\ \A i \in 1 .. Len(s) : r[i] = s[i]
      /\ r[Len(s) + 1] = t
  OBVIOUS
<1> HIDE DEF r
<1>2. \A u \in Task : Contains(r, u) <=> Contains(s, u) \/ u = t
  BY <1>1 DEF Contains
<1>3. IsInjective(s) /\ ~Contains(s, t) => IsInjective(r)
  BY <1>1 DEF Contains, IsInjective
<1>4. QED BY <1>1, <1>2, <1>3 DEF r

LEMMA TailOf ==
    ASSUME NEW s \in Seq(Task), s # <<>>
    PROVE  /\ Tail(s) \in Seq(Task) /\ Head(s) \in Task /\ Contains(s, Head(s))
           /\ IsInjective(s) =>
                /\ \A u \in Task :
                       Contains(Tail(s), u) <=> Contains(s, u) /\ u # Head(s)
                /\ IsInjective(Tail(s))
<1> DEFINE r == Tail(s)
<1>1. /\ r \in Seq(Task) /\ Len(s) \in Nat \ {0} /\ Len(r) = Len(s) - 1
      /\ \A i \in 1 .. Len(r) : r[i] = s[i + 1]
      /\ Head(s) = s[1] /\ s[1] \in Task
  OBVIOUS
<1> HIDE DEF r
<1>2. Contains(s, Head(s))
  BY <1>1 DEF Contains
<1>3. ASSUME IsInjective(s), NEW u \in Task
      PROVE  Contains(r, u) <=> Contains(s, u) /\ u # Head(s)
  <2>1. ASSUME Contains(r, u) PROVE Contains(s, u) /\ u # Head(s)
    BY <1>1, <1>3, <2>1 DEF Contains, IsInjective
  <2>2. ASSUME Contains(s, u), u # Head(s) PROVE Contains(r, u)
    <3>1. PICK i \in 1 .. Len(s) : s[i] = u
      BY <2>2 DEF Contains
    <3>2. i - 1 \in 1 .. Len(r) /\ r[i - 1] = u
      BY <1>1, <2>2, <3>1
    <3>3. QED BY <3>2 DEF Contains
  <2>3. QED BY <2>1, <2>2
<1>4. IsInjective(s) => IsInjective(r)
  BY <1>1 DEF IsInjective
<1>5. QED BY <1>1, <1>2, <1>3, <1>4 DEF r

(* The n-th of a set of positions: positions up to it are n in number.        *)
LEMMA Ranked ==
    ASSUME NEW m \in Nat, NEW K \in SUBSET (1 .. m)
    PROVE  /\ Cardinality(K) \in Nat
           /\ \A i, j \in K : Cardinality({k \in K : k <= i})
                                = Cardinality({k \in K : k <= j}) => i = j
           /\ \A n \in 1 .. Cardinality(K) :
                  \E i \in K : Cardinality({k \in K : k <= i}) = n
           /\ \A i \in K : Cardinality({k \in K : k <= i}) \in 1 .. Cardinality(K)
<1> DEFINE UpTo(i) == {k \in K : k <= i}
           rank == [i \in K |-> Cardinality(UpTo(i))]
<1>1. IsFiniteSet(K)
  <2>1. IsFiniteSet(1 .. m)
    BY FS_Interval
  <2>2. QED BY <2>1, FS_Subset
<1>2. Cardinality(K) \in Nat
  BY <1>1, FS_CardinalityType
<1>3. \A i \in K : /\ IsFiniteSet(UpTo(i)) /\ Cardinality(UpTo(i)) \in Nat
                   /\ Cardinality(UpTo(i)) <= Cardinality(K)
  BY <1>1, FS_Subset, FS_CardinalityType
<1>4. \A i \in K : Cardinality(UpTo(i)) # 0
  <2> SUFFICES ASSUME NEW i \in K PROVE UpTo(i) # {}
    BY <1>3, FS_EmptySet
  <2>1. i \in UpTo(i)
    OBVIOUS
  <2>2. QED BY <2>1
<1>5. ASSUME NEW i \in K, NEW j \in K, i < j
      PROVE  Cardinality(UpTo(i)) # Cardinality(UpTo(j))
  <2>1. UpTo(i) \subseteq UpTo(j)
    <3>1. ASSUME NEW k \in K, k <= i PROVE k <= j
      <4>1. K \subseteq Nat
        OBVIOUS
      <4>2. k \in Nat /\ i \in Nat /\ j \in Nat
        BY <4>1
      <4>3. QED BY <1>5, <3>1, <4>2
    <3>2. QED BY <3>1
  <2>2. j \in UpTo(j) /\ j \notin UpTo(i)
    BY <1>5
  <2>3. UpTo(i) # UpTo(j)
    BY <2>2
  <2> HIDE DEF UpTo
  <2>4. QED BY <1>3, <2>1, <2>3, FS_Subset
<1>6. \A i, j \in K : Cardinality(UpTo(i)) = Cardinality(UpTo(j)) => i = j
  BY <1>5
<1>7. \A i \in K : Cardinality(UpTo(i)) \in 1 .. Cardinality(K)
  BY <1>2, <1>3, <1>4
<1>8. rank \in Injection(K, 1 .. Cardinality(K))
  BY <1>6, <1>7 DEF Injection, IsInjective
<1>9. /\ IsFiniteSet(1 .. Cardinality(K))
      /\ Cardinality(1 .. Cardinality(K)) = Cardinality(K)
  BY <1>2, FS_Interval
<1>10. rank \in Surjection(K, 1 .. Cardinality(K))
  BY <1>8, <1>9, FS_Injection
<1>11. \A n \in 1 .. Cardinality(K) : \E i \in K : Cardinality(UpTo(i)) = n
  BY <1>10 DEF Surjection
<1>12. QED BY <1>2, <1>6, <1>7, <1>11

LEMMA Retained ==
    ASSUME NEW s \in Seq(Task), NEW t \in Task
    PROVE  /\ WithoutTask(s, t) \in Seq(Task)
           /\ \A u \in Task : Contains(WithoutTask(s, t), u) <=> Contains(s, u) /\ u # t
           /\ IsInjective(s) => IsInjective(WithoutTask(s, t))
<1> DEFINE kept == {i \in 1 .. Len(s) : s[i] # t}
           Rank(i) == Cardinality({j \in kept : j <= i})
           Kept(n) == CHOOSE i \in kept : Rank(i) = n
           r == [n \in 1 .. Cardinality(kept) |-> s[Kept(n)]]
<1>1. WithoutTask(s, t) = r
  BY DEF WithoutTask
<1>2. /\ Len(s) \in Nat /\ kept \in SUBSET (1 .. Len(s))
      /\ \A i \in kept : s[i] \in Task
  OBVIOUS
<1>3. /\ Cardinality(kept) \in Nat
      /\ \A i, j \in kept : Rank(i) = Rank(j) => i = j
      /\ \A n \in 1 .. Cardinality(kept) : \E i \in kept : Rank(i) = n
      /\ \A i \in kept : Rank(i) \in 1 .. Cardinality(kept)
  BY <1>2, Ranked
<1>4. \A i \in 1 .. Len(s) : i \in kept <=> s[i] # t
  OBVIOUS
<1> HIDE DEF kept, Rank
<1>5. \A n \in 1 .. Cardinality(kept) : Kept(n) \in kept /\ Rank(Kept(n)) = n
  BY <1>3
<1>6. \A i \in kept : Kept(Rank(i)) = i
  BY <1>3, <1>5
<1> HIDE DEF Kept
<1>7. r \in Seq(Task) /\ Len(r) = Cardinality(kept)
  <2>1. r \in [1 .. Cardinality(kept) -> Task]
    BY <1>2, <1>5
  <2>2. QED BY <1>3, <2>1
<1>8. \A n \in 1 .. Cardinality(kept) : r[n] = s[Kept(n)]
  OBVIOUS
<1> HIDE DEF r
<1>9. ASSUME NEW u \in Task PROVE Contains(r, u) <=> Contains(s, u) /\ u # t
  <2>1. ASSUME Contains(r, u) PROVE Contains(s, u) /\ u # t
    <3>1. PICK n \in 1 .. Cardinality(kept) : s[Kept(n)] = u
      BY <1>7, <1>8, <2>1 DEF Contains
    <3>2. QED BY <1>2, <1>4, <1>5, <3>1 DEF Contains
  <2>2. ASSUME Contains(s, u), u # t PROVE Contains(r, u)
    <3>1. PICK i \in kept : s[i] = u
      BY <1>4, <2>2 DEF Contains
    <3>2. Rank(i) \in 1 .. Cardinality(kept) /\ r[Rank(i)] = u
      BY <1>3, <1>6, <1>8, <3>1
    <3>3. QED BY <1>7, <3>2 DEF Contains
  <2>3. QED BY <2>1, <2>2
<1>10. ASSUME IsInjective(s) PROVE IsInjective(r)
  <2>1. DOMAIN r = 1 .. Cardinality(kept)
    BY <1>7
  <2>2. DOMAIN s = 1 .. Len(s)
    OBVIOUS
  <2>3. \A m, n \in 1 .. Cardinality(kept) : r[m] = r[n] => m = n
    BY <1>2, <1>5, <1>8, <1>10, <2>2 DEF IsInjective
  <2>4. QED BY <2>1, <2>3 DEF IsInjective
<1>11. QED BY <1>1, <1>7, <1>9, <1>10
------------------------------------------------------------------------------
(* Types.                                                                    *)

LEMMA TypeInit == Init => TypeOK
BY SchedulerAssumption DEF Init, GraphInit, TypeOK, GraphTypeOK

LEMMA Counter ==
    ASSUME NEW f \in [Worker -> 0 .. CountMax], NEW w \in Worker
    PROVE  /\ Raise(f, w) \in [Worker -> 0 .. CountMax]
           /\ Lower(f, w) \in [Worker -> 0 .. CountMax]
BY SchedulerAssumption DEF Raise, Lower

LEMMA Pushed ==
    ASSUME queue \in [Task -> Nat], NEW t \in Task
    PROVE  /\ Push(t) \/ Pop(t) \/ queue' = queue => queue' \in [Task -> Nat]
           /\ Push(t) => queue'[t] # 0 /\ \A u \in Task : queue[u] # 0 => queue'[u] # 0
           /\ Pop(t) => \A u \in Task \ {t} : queue'[u] = queue[u]
<1>1. queue[t] \in Nat
  OBVIOUS
<1>2. Push(t) => /\ queue' \in [Task -> Nat] /\ queue'[t] # 0
                 /\ \A u \in Task : queue[u] # 0 => queue'[u] # 0
  BY <1>1 DEF Push
<1>3. Pop(t) => queue' \in [Task -> Nat] /\ \A u \in Task \ {t} : queue'[u] = queue[u]
  BY <1>1 DEF Pop
<1>4. QED BY <1>2, <1>3

LEMMA TypeStep == TypeOK /\ [Next]_vars => TypeOK'
<1> SUFFICES ASSUME TypeOK, [Next]_vars PROVE TypeOK'
  OBVIOUS
<1> USE DEF TypeOK, GraphTypeOK, Status
<1>1. ASSUME NEW t \in Task, NEW deps \in SUBSET Task,
             NEW claim \in {"Ready", "Pending"}, SubmitTask(t, deps, claim)
      PROVE  TypeOK'
  <2>1. CASE UNCHANGED <<graphVars, queue, claimed>>
    BY <1>1, <2>1 DEF SubmitTask, graphVars
  <2>2. CASE AddTask(t, deps) /\ (Push(t) \/ queue' = queue)
    <3>1. status' \in [Task -> Status \cup {"absent"}] /\ needs' \in [Task -> SUBSET Task]
      BY <2>2 DEF AddTask
    <3>2. dependencies' \in [Task -> SUBSET Task] /\ dependents' \in [Task -> SUBSET Task]
      <4>1. \A d \in Task : dependents[d] \cup {t} \in SUBSET Task
        OBVIOUS
      <4>2. QED BY <2>2, <4>1 DEF AddTask
    <3>3. queue' \in [Task -> Nat]
      BY <2>2, Pushed
    <3>4. submitted' \in [Task -> Nat] /\ claimed' \subseteq Task
      BY <1>1 DEF SubmitTask
    <3>5. QED BY <1>1, <3>1, <3>2, <3>3, <3>4 DEF SubmitTask
  <2>3. QED BY <1>1, <2>1, <2>2 DEF SubmitTask
<1>2. ASSUME NEW t \in Task, DropEntry(t) PROVE TypeOK'
  BY <1>2 DEF DropEntry, Pop, graphVars, envVars
<1>3. ASSUME NEW t \in Task, NEW w \in Worker, AssignTask(t, w) PROVE TypeOK'
  <2>1. workerQueue' \in [Worker -> Seq(Task)]
    BY <1>3 DEF AssignTask
  <2>2. counts' \in [Worker -> 0 .. CountMax]
    BY <1>3, Counter DEF AssignTask
  <2>3. QED BY <1>3, <2>1, <2>2 DEF AssignTask, SetStatus, Pop
<1>4. ASSUME NEW t \in Task, SelectionFails(t) PROVE TypeOK'
  BY <1>4 DEF SelectionFails, vars, graphVars, schedVars, envVars
<1>5. ASSUME NEW t \in Task, DropAssignment(t)
      PROVE  /\ assigned' \in [Task -> Worker \cup {NoWorker}]
             /\ counts' \in [Worker -> 0 .. CountMax]
  <2>1. assigned[t] # NoWorker => Lower(counts, assigned[t]) \in [Worker -> 0 .. CountMax]
    BY Counter
  <2>2. QED BY <1>5, <2>1 DEF DropAssignment
<1>6. ASSUME NEW t \in Task, CompleteTask(t) PROVE TypeOK'
  BY <1>5, <1>6 DEF CompleteTask, Complete
<1>7. ASSUME NEW t \in Task, FailTask(t) PROVE TypeOK'
  BY <1>5, <1>7 DEF FailTask, SetStatus
<1>8. ASSUME NEW t \in Task, CancelTask(t) PROVE TypeOK'
  <2>1. workerQueue' \in [Worker -> Seq(Task)]
    BY <1>8, Retained DEF CancelTask
  <2>2. QED BY <1>5, <1>8, <2>1 DEF CancelTask, SetStatus, envVars
<1>9. ASSUME NEW t \in Task, StartTask(t) PROVE TypeOK'
  BY <1>9 DEF StartTask, SetStatus, schedVars, envVars
<1>10. ASSUME NEW t \in Task, StoreResult(t) PROVE TypeOK'
  BY <1>10 DEF StoreResult, SetResult, SetStatus, schedVars
<1>11. ASSUME NEW t \in Task, ReportFails(t) PROVE TypeOK'
  BY <1>11 DEF ReportFails, graphVars, schedVars
<1>12. ASSUME NEW v \in Worker, NEW w \in Worker, StealTask(v, w) PROVE TypeOK'
  <2>1. Head(workerQueue[v]) \in Task /\ Tail(workerQueue[v]) \in Seq(Task)
    BY <1>12, TailOf DEF StealTask
  <2>2. workerQueue' \in [Worker -> Seq(Task)]
    <3>1. v # w
      BY <1>12, SchedulerAssumption DEF StealTask
    <3>2. Append(workerQueue[w], Head(workerQueue[v])) \in Seq(Task)
      BY <2>1, Appended
    <3>3. workerQueue' = [z \in Worker |->
              IF z = w THEN Append(workerQueue[w], Head(workerQueue[v]))
              ELSE IF z = v THEN Tail(workerQueue[v]) ELSE workerQueue[z]]
      BY <1>12, <3>1 DEF StealTask
    <3>4. QED BY <2>1, <3>2, <3>3
  <2>3. counts' \in [Worker -> 0 .. CountMax]
    BY <1>12, Counter DEF StealTask
  <2>4. QED BY <1>12, <2>1, <2>2, <2>3 DEF StealTask, graphVars, envVars
<1>13. CASE Prune
  BY <1>13 DEF Prune, PruneCompleted, RemoveTasks, Ended, schedVars, envVars
<1>14. CASE UNCHANGED vars
  BY <1>14 DEF vars, graphVars, schedVars, envVars
<1> HIDE DEF TypeOK, GraphTypeOK, Status
<1>15. QED
  BY <1>1, <1>2, <1>3, <1>4, <1>6, <1>7, <1>8, <1>9, <1>10, <1>11, <1>12, <1>13,
     <1>14 DEF Next, Dispatch

(* Every variable keeps its type.                                            *)
THEOREM TypeCorrect == Spec => []TypeOK
BY TypeInit, TypeStep, PTL DEF Spec

------------------------------------------------------------------------------
(* Assignments.  A task is assigned and queued only after it was submitted    *)
(* and has been ready, and, submitted once, it is ready only once.           *)
PlaceInv ==
    /\ \A t \in Task : status[t] # "absent" => submitted[t] # 0
    /\ \A t \in Task : assigned[t] # NoWorker
          => submitted[t] # 0 /\ status[t] \notin {"Pending", "Ready"}
    /\ \A t \in Task, w \in Worker : Contains(workerQueue[w], t)
          => submitted[t] # 0 /\ status[t] \notin {"Pending", "Ready"}
    /\ \A t \in Task, v, w \in Worker :
          Contains(workerQueue[v], t) /\ Contains(workerQueue[w], t) => v = w
    /\ \A t \in Task : (status[t] \in {"Scheduled", "Running"} /\ assigned[t] # NoWorker)
          => \A w \in Worker : Contains(workerQueue[w], t) <=> w = assigned[t]
    /\ \A w \in Worker : IsInjective(workerQueue[w])

LEMMA PlaceInit == Init => PlaceInv
BY DEF Init, GraphInit, PlaceInv, Contains, IsInjective

LEMMA OnceStays == [Next]_vars => (Once' <=> Once)
BY DEF Next, vars, Once, SubmitTask, DropEntry, Dispatch, AssignTask, SelectionFails,
       CompleteTask, FailTask, CancelTask, StartTask, StoreResult, ReportFails,
       StealTask, Prune, schedVars, envVars

LEMMA FirstTry ==
    ASSUME TypeOK, Once, NEW t \in Task, NEW deps, MaySubmit(t, deps)
    PROVE  submitted[t] = 0
<1>1. mode.tries \in Nat
  BY SchedulerAssumption DEF TypeOK
<1>2. QED BY <1>1 DEF TypeOK, Once, MaySubmit

LEMMA PlaceStep == TypeOK /\ Once /\ PlaceInv /\ [Next]_vars => PlaceInv'
<1> SUFFICES ASSUME TypeOK, Once, PlaceInv, [Next]_vars PROVE PlaceInv'
  OBVIOUS
<1> USE DEF TypeOK, GraphTypeOK, PlaceInv, Status
<1>1. ASSUME NEW t \in Task, NEW deps \in SUBSET Task,
             NEW claim \in {"Ready", "Pending"}, SubmitTask(t, deps, claim)
      PROVE  PlaceInv'
  <2>1. CASE UNCHANGED <<graphVars, queue>>
    <3>1. submitted' = [submitted EXCEPT ![t] = @ + 1]
      BY <1>1 DEF SubmitTask
    <3>2. QED BY <1>1, <2>1, <3>1 DEF SubmitTask, graphVars
  <2>2. CASE AddTask(t, deps)
    <3>1. submitted[t] = 0 /\ submitted' = [submitted EXCEPT ![t] = @ + 1]
      BY <1>1, FirstTry DEF SubmitTask
    <3>2. QED BY <1>1, <2>2, <3>1 DEF SubmitTask, AddTask
  <2>3. QED BY <1>1, <2>1, <2>2 DEF SubmitTask
<1>2. ASSUME NEW t \in Task, DropEntry(t) PROVE PlaceInv'
  BY <1>2 DEF DropEntry, graphVars, envVars
<1>3. ASSUME NEW t \in Task, NEW w \in Worker, AssignTask(t, w) PROVE PlaceInv'
  <2>1. \A v \in Worker : ~Contains(workerQueue[v], t)
    BY <1>3 DEF AssignTask
  <2>2. workerQueue' = [workerQueue EXCEPT ![w] = Append(workerQueue[w], t)]
    BY <1>3 DEF AssignTask
  <2>3. \A v \in Worker, u \in Task : Contains(workerQueue'[v], u)
          <=> Contains(workerQueue[v], u) \/ (v = w /\ u = t)
    BY <2>2, Appended
  <2>4. \A v \in Worker : IsInjective(workerQueue'[v])
    BY <2>1, <2>2, Appended
  <2>5. submitted[t] # 0 /\ assigned[t] = NoWorker
    BY <1>3 DEF AssignTask
  <2>6. /\ status' = [status EXCEPT ![t] = "Scheduled"]
        /\ assigned' = [assigned EXCEPT ![t] = w] /\ submitted' = submitted
    BY <1>3 DEF AssignTask, SetStatus
  <2>7. \A u \in Task : /\ status'[u] = IF u = t THEN "Scheduled" ELSE status[u]
                       /\ assigned'[u] = IF u = t THEN w ELSE assigned[u]
    BY <2>6
  <2>8. w # NoWorker
    BY SchedulerAssumption
  <2>9. \A u \in Task, v \in Worker : assigned'[u] # NoWorker \/ Contains(workerQueue'[v], u)
          => submitted'[u] # 0 /\ status'[u] \notin {"Pending", "Ready"}
    BY <2>3, <2>5, <2>6, <2>7
  <2>10. \A u \in Task : assigned'[u] # NoWorker
          => submitted'[u] # 0 /\ status'[u] \notin {"Pending", "Ready"}
    BY <2>9
  <2>11. \A u \in Task, v, z \in Worker :
          Contains(workerQueue'[v], u) /\ Contains(workerQueue'[z], u) => v = z
    <3>1. \A u \in Task, v, z \in Worker :
            Contains(workerQueue[v], u) /\ Contains(workerQueue[z], u) => v = z
      OBVIOUS
    <3> HIDE DEF TypeOK, PlaceInv
    <3>2. QED BY <2>1, <2>3, <3>1
  <2>12. \A u \in Task : (status'[u] \in {"Scheduled", "Running"} /\ assigned'[u] # NoWorker)
          => \A v \in Worker : Contains(workerQueue'[v], u) <=> v = assigned'[u]
    <3>1. \A v \in Worker : Contains(workerQueue'[v], t) <=> v = assigned'[t]
      BY <2>1, <2>3, <2>7
    <3>2. \A u \in Task \ {t} : /\ status'[u] = status[u] /\ assigned'[u] = assigned[u]
            /\ \A v \in Worker : Contains(workerQueue'[v], u) <=> Contains(workerQueue[v], u)
      BY <2>3, <2>7
    <3>3. \A u \in Task : (status[u] \in {"Scheduled", "Running"} /\ assigned[u] # NoWorker)
            => \A v \in Worker : Contains(workerQueue[v], u) <=> v = assigned[u]
      OBVIOUS
    <3> HIDE DEF TypeOK, PlaceInv
    <3>4. QED BY <3>1, <3>2, <3>3
  <2>13. \A u \in Task : status'[u] # "absent" => submitted'[u] # 0
    <3>1. submitted' = submitted
      BY <2>6
    <3>2. \A u \in Task \ {t} : status'[u] = status[u]
      BY <2>7
    <3>3. QED BY <2>5, <3>1, <3>2
  <2>14. QED BY <2>4, <2>9, <2>10, <2>11, <2>12, <2>13
<1>4. ASSUME NEW t \in Task, SelectionFails(t) PROVE PlaceInv'
  BY <1>4 DEF SelectionFails, vars, graphVars, schedVars, envVars
<1>5. ASSUME NEW t \in Task, CompleteTask(t) PROVE PlaceInv'
  BY <1>5 DEF CompleteTask, Complete, Unblocked, Present, DropAssignment
<1>6. ASSUME NEW t \in Task, FailTask(t) PROVE PlaceInv'
  BY <1>6 DEF FailTask, SetStatus, Present, DropAssignment
<1>7. ASSUME NEW t \in Task, CancelTask(t) PROVE PlaceInv'
  <2>1. \A v \in Worker, u \in Task : Contains(workerQueue'[v], u)
          <=> Contains(workerQueue[v], u) /\ ~(v = assigned[t] /\ u = t)
    <3>1. CASE assigned[t] = NoWorker
      BY <1>7, <3>1, SchedulerAssumption DEF CancelTask
    <3>2. CASE assigned[t] # NoWorker
      <4>1. workerQueue' = [workerQueue EXCEPT ![assigned[t]] =
                                WithoutTask(workerQueue[assigned[t]], t)]
        BY <1>7, <3>2 DEF CancelTask
      <4>2. assigned[t] \in Worker
        BY <3>2
      <4>3. \A u \in Task : Contains(workerQueue'[assigned[t]], u)
              <=> Contains(workerQueue[assigned[t]], u) /\ u # t
        <5>1. workerQueue[assigned[t]] \in Seq(Task)
          BY <4>2
        <5>2. workerQueue'[assigned[t]] = WithoutTask(workerQueue[assigned[t]], t)
          BY <4>1, <4>2
        <5> HIDE DEF TypeOK, PlaceInv
        <5>3. ASSUME NEW q \in Seq(Task), NEW u \in Task
              PROVE  Contains(WithoutTask(q, t), u) <=> Contains(q, u) /\ u # t
          BY Retained
        <5>4. QED BY <5>1, <5>2, <5>3
      <4>4. \A v \in Worker \ {assigned[t]} : workerQueue'[v] = workerQueue[v]
        BY <4>1, <4>2
      <4>5. QED BY <4>2, <4>3, <4>4
    <3>3. QED BY <3>1, <3>2
  <2>2. \A v \in Worker : IsInjective(workerQueue'[v])
    BY <1>7, Retained DEF CancelTask
  <2>3. /\ status' = [status EXCEPT ![t] = "Cancelled"] /\ status[t] # "absent"
        /\ assigned' = [assigned EXCEPT ![t] = NoWorker] /\ submitted' = submitted
    BY <1>7 DEF CancelTask, SetStatus, Present, DropAssignment, envVars
  <2>4. QED BY <2>1, <2>2, <2>3
<1>8. ASSUME NEW t \in Task, StartTask(t) PROVE PlaceInv'
  BY <1>8 DEF StartTask, SetStatus, schedVars, envVars
<1>9. ASSUME NEW t \in Task, StoreResult(t) PROVE PlaceInv'
  BY <1>9 DEF StoreResult, SetResult, SetStatus, schedVars
<1>10. ASSUME NEW t \in Task, ReportFails(t) PROVE PlaceInv'
  BY <1>10 DEF ReportFails, graphVars, schedVars
<1>11. ASSUME NEW v \in Worker, NEW w \in Worker, StealTask(v, w) PROVE PlaceInv'
  <2> DEFINE t == Head(workerQueue[v])
  <2>1. v # w
    BY <1>11, SchedulerAssumption DEF StealTask
  <2>2. t \in Task /\ Contains(workerQueue[v], t) /\ ~Contains(workerQueue[w], t)
    BY <1>11, <2>1, TailOf DEF StealTask
  <2>3. /\ workerQueue'[v] = Tail(workerQueue[v])
        /\ workerQueue'[w] = Append(workerQueue[w], t)
        /\ \A z \in Worker \ {v, w} : workerQueue'[z] = workerQueue[z]
    BY <1>11, <2>1 DEF StealTask
  <2>4. /\ assigned' = [assigned EXCEPT ![t] = w]
        /\ status' = status /\ submitted' = submitted
    BY <1>11 DEF StealTask, graphVars, envVars
  <2>5. workerQueue[v] # <<>>
    BY <1>11 DEF StealTask
  <2>6. \A u \in Task : /\ Contains(workerQueue'[v], u)
                             <=> Contains(workerQueue[v], u) /\ u # t
                        /\ Contains(workerQueue'[w], u)
                             <=> Contains(workerQueue[w], u) \/ u = t
    BY <2>2, <2>3, <2>5, TailOf, Appended
  <2>7. \A z \in Worker : IsInjective(workerQueue'[z])
    <3>1. IsInjective(workerQueue'[v])
      BY <2>3, <2>5, TailOf
    <3>2. IsInjective(workerQueue'[w])
      BY <2>2, <2>3, Appended
    <3>3. QED BY <2>3, <3>1, <3>2
  <2> HIDE DEF t
  <2>8. \A z \in Worker, u \in Task : Contains(workerQueue'[z], u)
          <=> IF u = t THEN z = w ELSE Contains(workerQueue[z], u)
    <3>1. \A z \in Worker \ {v} : ~Contains(workerQueue[z], t)
      BY <2>2
    <3>2. SUFFICES ASSUME NEW z \in Worker, NEW u \in Task
                   PROVE  Contains(workerQueue'[z], u)
                            <=> IF u = t THEN z = w ELSE Contains(workerQueue[z], u)
      OBVIOUS
    <3>3. CASE z = v
      BY <2>1, <2>6, <3>3
    <3>4. CASE z = w
      BY <2>6, <3>4
    <3>5. CASE z \notin {v, w}
      BY <2>3, <3>1, <3>5
    <3>6. QED BY <3>3, <3>4, <3>5
  <2>9. submitted[t] # 0 /\ status[t] \notin {"Pending", "Ready"}
    BY <2>2
  <2>10. w # NoWorker
    BY SchedulerAssumption
  <2>11. \A u \in Task : /\ status'[u] = status[u]
                        /\ assigned'[u] = IF u = t THEN w ELSE assigned[u]
    BY <2>2, <2>4
  <2>12. \A u \in Task : status'[u] # "absent" => submitted'[u] # 0
    BY <2>4
  <2>13. \A u \in Task : assigned'[u] # NoWorker
          => submitted'[u] # 0 /\ status'[u] \notin {"Pending", "Ready"}
    BY <2>4, <2>9, <2>11
  <2>14. \A u \in Task, z \in Worker : Contains(workerQueue'[z], u)
          => submitted'[u] # 0 /\ status'[u] \notin {"Pending", "Ready"}
    BY <2>4, <2>8, <2>9
  <2>15. \A u \in Task, y, z \in Worker :
          Contains(workerQueue'[y], u) /\ Contains(workerQueue'[z], u) => y = z
    BY <2>8
  <2>16. \A u \in Task : (status'[u] \in {"Scheduled", "Running"} /\ assigned'[u] # NoWorker)
          => \A z \in Worker : Contains(workerQueue'[z], u) <=> z = assigned'[u]
    BY <2>8, <2>11
  <2>17. QED BY <2>7, <2>12, <2>13, <2>14, <2>15, <2>16
<1>12. CASE Prune
  BY <1>12 DEF Prune, PruneCompleted, RemoveTasks, Ended, schedVars, envVars
<1>13. CASE UNCHANGED vars
  BY <1>13 DEF vars, graphVars, schedVars, envVars
<1>14. QED
  BY <1>1, <1>2, <1>3, <1>4, <1>5, <1>6, <1>7, <1>8, <1>9, <1>10, <1>11, <1>12,
     <1>13 DEF Next, Dispatch

(* A task that is to run is in the queue of its worker and in no other, as   *)
(* long as no task is retried.                                               *)
THEOREM QueuedWhereAssigned == Spec => []AssignedIsQueued
<1>1. (Once => PlaceInv) => AssignedIsQueued
  BY DEF PlaceInv, AssignedIsQueued
<1>2. QED
  BY <1>1, TypeInit, TypeStep, PlaceInit, PlaceStep, OnceStays, PTL DEF Spec
------------------------------------------------------------------------------
(* Counts.  Without stealing nothing but an assignment and its end changes    *)
(* them, provided that the counter is wide enough for all tasks.             *)
TasksOf(f, w) == {t \in Task : f[t] = w}
Load(f, w) == Cardinality(TasksOf(f, w))

LEMMA LoadIsNat ==
    ASSUME NEW f, NEW w
    PROVE  IsFiniteSet(TasksOf(f, w)) /\ Load(f, w) \in Nat
<1>1. TasksOf(f, w) \subseteq Task
  BY DEF TasksOf
<1>2. QED BY <1>1, TaskAssumption, FS_Subset, FS_CardinalityType DEF Load

(* The load of w after t is handed from f[t] to v.                            *)
LEMMA LoadAfter ==
    ASSUME NEW f \in [Task -> Worker \cup {NoWorker}], NEW t \in Task,
           NEW v \in Worker \cup {NoWorker}, f[t] # v, NEW w \in Worker,
           NEW g, \A u \in Task : g[u] = IF u = t THEN v ELSE f[u]
    PROVE  Load(g, w) = IF w = v THEN Load(f, w) + 1
                        ELSE IF w = f[t] THEN Load(f, w) - 1 ELSE Load(f, w)
<1>1. CASE w = v
  <2>1. TasksOf(g, w) = TasksOf(f, w) \cup {t} /\ t \notin TasksOf(f, w)
    BY <1>1 DEF TasksOf
  <2>2. Cardinality(TasksOf(f, w) \cup {t}) = Cardinality(TasksOf(f, w)) + 1
    BY <2>1, LoadIsNat, FS_AddElement
  <2>3. QED BY <1>1, <2>1, <2>2 DEF Load
<1>2. CASE w # v /\ w = f[t]
  <2>1. TasksOf(g, w) = TasksOf(f, w) \ {t} /\ t \in TasksOf(f, w)
    BY <1>2 DEF TasksOf
  <2>2. Cardinality(TasksOf(f, w) \ {t}) = Cardinality(TasksOf(f, w)) - 1
    BY <2>1, LoadIsNat, FS_RemoveElement
  <2>3. QED BY <1>2, <2>1, <2>2 DEF Load
<1>3. CASE w # v /\ w # f[t]
  <2>1. TasksOf(g, w) = TasksOf(f, w)
    BY <1>3 DEF TasksOf
  <2>2. QED BY <1>3, <2>1 DEF Load
<1>4. QED BY <1>1, <1>2, <1>3

CountInv == Once /\ ~mode.steals => \A w \in Worker : counts[w] = Load(assigned, w)

LEMMA CountEnd ==
    ASSUME TypeOK, CountInv, NEW t \in Task, DropAssignment(t), UNCHANGED mode
    PROVE  CountInv'
<1> SUFFICES ASSUME Once, ~mode.steals, NEW w \in Worker
             PROVE  counts'[w] = Load(assigned', w)
  BY DEF CountInv, Once
<1>1. CASE assigned[t] = NoWorker
  <2>1. assigned' = assigned /\ counts' = counts
    BY <1>1 DEF DropAssignment, TypeOK
  <2>2. QED BY <2>1 DEF CountInv
<1>2. CASE assigned[t] # NoWorker
  <2> DEFINE v == assigned[t]
  <2>1. v \in Worker /\ assigned \in [Task -> Worker \cup {NoWorker}]
    BY <1>2 DEF TypeOK
  <2>2. assigned' = [assigned EXCEPT ![t] = NoWorker] /\ counts' = Lower(counts, v)
    BY <1>2 DEF DropAssignment
  <2>3. Load(assigned', w) = IF w = v THEN Load(assigned, w) - 1 ELSE Load(assigned, w)
    <3>1. NoWorker \in Worker \cup {NoWorker} /\ assigned[t] # NoWorker /\ w # NoWorker
      BY <1>2, SchedulerAssumption
    <3>2. Load(assigned', w) =
              IF w = NoWorker THEN Load(assigned, w) + 1
              ELSE IF w = assigned[t] THEN Load(assigned, w) - 1
              ELSE Load(assigned, w)
      <4>1. \A u \in Task : assigned'[u] = IF u = t THEN NoWorker ELSE assigned[u]
        BY <2>1, <2>2
      <4> HIDE DEF v
      <4>2. QED BY <2>1, <3>1, <4>1, LoadAfter
    <3>3. QED BY <3>1, <3>2
  <2>4. t \in TasksOf(assigned, v)
    BY DEF TasksOf
  <2>5. Load(assigned, v) # 0
    BY <2>4, LoadIsNat, FS_EmptySet DEF Load
  <2>6. counts[w] = Load(assigned, w) /\ counts[v] = Load(assigned, v)
    BY <2>1 DEF CountInv
  <2>7. counts'[w] = IF w = v THEN counts[w] - 1 ELSE counts[w]
    BY <2>1, <2>2, <2>5, <2>6 DEF Lower, TypeOK
  <2>8. QED BY <2>3, <2>6, <2>7
<1>3. QED BY <1>1, <1>2

LEMMA CountBegin ==
    ASSUME Cardinality(Task) <= CountMax, TypeOK, Once => PlaceInv, CountInv,
           NEW t \in Task, NEW v \in Worker, AssignTask(t, v)
    PROVE  CountInv'
<1> SUFFICES ASSUME Once, ~mode.steals, NEW w \in Worker
             PROVE  counts'[w] = Load(assigned', w)
  BY DEF CountInv, AssignTask, Once
<1>1. assigned[t] = NoWorker /\ NoWorker # v /\ NoWorker # w
  BY SchedulerAssumption DEF PlaceInv, AssignTask
<1>2. assigned' = [assigned EXCEPT ![t] = v] /\ counts' = Raise(counts, v)
  BY DEF AssignTask
<1>3. Load(assigned', w) = IF w = v THEN Load(assigned, w) + 1 ELSE Load(assigned, w)
  <2>1. assigned \in [Task -> Worker \cup {NoWorker}]
    BY DEF TypeOK
  <2>2. v \in Worker \cup {NoWorker} /\ assigned[t] # v
    BY <1>1
  <2>3. Load(assigned', w) =
            IF w = v THEN Load(assigned, w) + 1
            ELSE IF w = assigned[t] THEN Load(assigned, w) - 1
            ELSE Load(assigned, w)
    <3>1. \A u \in Task : assigned'[u] = IF u = t THEN v ELSE assigned[u]
      BY <1>2, <2>1
    <3>2. QED BY <2>1, <2>2, <3>1, LoadAfter
  <2>4. QED BY <1>1, <2>3
<1>4. Load(assigned, v) < Cardinality(Task)
  <2>1. TasksOf(assigned, v) \subseteq Task \ {t}
    BY <1>1 DEF TasksOf
  <2>2. IsFiniteSet(Task \ {t}) /\ Cardinality(Task \ {t}) = Cardinality(Task) - 1
    BY TaskAssumption, FS_RemoveElement
  <2>3. Cardinality(TasksOf(assigned, v)) <= Cardinality(Task \ {t})
    BY <2>1, <2>2, FS_Subset
  <2>4. Load(assigned, v) <= Cardinality(Task) - 1
    BY <2>2, <2>3 DEF Load
  <2>5. Cardinality(Task) \in Nat /\ Load(assigned, v) \in Nat
    BY TaskAssumption, FS_CardinalityType, LoadIsNat
  <2>6. QED BY <2>4, <2>5
<1>5. counts[w] = Load(assigned, w) /\ counts[v] = Load(assigned, v)
  BY DEF CountInv
<1>6. counts[v] # CountMax
  BY <1>4, <1>5, TaskAssumption, FS_CardinalityType, LoadIsNat, SchedulerAssumption
<1>7. counts'[w] = IF w = v THEN counts[w] + 1 ELSE counts[w]
  BY <1>2, <1>6 DEF Raise, TypeOK
<1>8. QED BY <1>3, <1>5, <1>7

LEMMA CountStep ==
    ASSUME Cardinality(Task) <= CountMax
    PROVE  TypeOK /\ (Once => PlaceInv) /\ CountInv /\ [Next]_vars => CountInv'
<1> SUFFICES ASSUME TypeOK, Once => PlaceInv, CountInv, [Next]_vars PROVE CountInv'
  OBVIOUS
<1>1. CASE UNCHANGED <<assigned, counts, mode>>
  BY <1>1 DEF CountInv, Once
<1>2. ASSUME NEW t \in Task, CompleteTask(t) \/ FailTask(t) \/ CancelTask(t)
      PROVE  CountInv'
  BY <1>2, CountEnd DEF CompleteTask, FailTask, CancelTask, envVars
<1>3. ASSUME NEW t \in Task, Dispatch(t) PROVE CountInv'
  BY <1>3, CountBegin DEF Dispatch
<1>4. ASSUME NEW v \in Worker, NEW w \in Worker, StealTask(v, w) PROVE CountInv'
  BY <1>4 DEF StealTask, CountInv, envVars, Once
<1>5. ASSUME NEW t \in Task,
             \/ \E deps \in SUBSET Task, claim \in {"Ready", "Pending"} :
                    SubmitTask(t, deps, claim)
             \/ DropEntry(t) \/ SelectionFails(t) \/ StartTask(t)
             \/ StoreResult(t) \/ ReportFails(t)
      PROVE  UNCHANGED <<assigned, counts, mode>>
  BY <1>5 DEF SubmitTask, DropEntry, SelectionFails, StartTask, StoreResult,
              ReportFails, vars, schedVars, envVars
<1>6. CASE Prune
  BY <1>1, <1>6 DEF Prune, schedVars, envVars
<1>7. CASE UNCHANGED vars
  BY <1>1, <1>7 DEF vars, schedVars, envVars
<1>8. QED BY <1>1, <1>2, <1>3, <1>4, <1>5, <1>6, <1>7 DEF Next

(* A worker's count is the number of its tasks if nothing is stolen or retried. *)
THEOREM CountsAreExact ==
    ASSUME Cardinality(Task) <= CountMax
    PROVE  Spec => []CountsMatchAssignments
<1>1. Init => CountInv
  <2> SUFFICES ASSUME Init, NEW w \in Worker PROVE counts[w] = Load(assigned, w)
    BY DEF CountInv
  <2>1. TasksOf(assigned, w) = {}
    BY SchedulerAssumption DEF Init, TasksOf
  <2>2. QED BY <2>1, FS_EmptySet DEF Load, Init
<1>2. CountInv => CountsMatchAssignments
  BY DEF CountInv, CountsMatchAssignments, Load, TasksOf
<1>3. QED
  BY <1>1, <1>2, TypeInit, TypeStep, PlaceInit, PlaceStep, OnceStays, CountStep,
     PTL DEF Spec

------------------------------------------------------------------------------
(* Dependencies.                                                             *)

(* A task that completed has been reported, a task that waits has something  *)
(* to wait for, and one that may run has nothing left.                       *)
DependencyInv ==
    /\ \A t \in Task : status[t] = "Completed" => t \in finished
    /\ \A t \in Task : status[t] = "Pending" => needs[t] # {}
    /\ RunsAfterDependencies
    /\ ClaimedIsQueued

LEMMA DependencyInit == Init => DependencyInv
BY DEF Init, GraphInit, DependencyInv, RunsAfterDependencies, ClaimedIsQueued

LEMMA DependencyStep == TypeOK /\ DependencyInv /\ [Next]_vars => DependencyInv'
<1> SUFFICES ASSUME TypeOK, DependencyInv, [Next]_vars PROVE DependencyInv'
  OBVIOUS
<1> USE DEF TypeOK, GraphTypeOK, DependencyInv, RunsAfterDependencies,
            ClaimedIsQueued, Status
<1>1. ASSUME NEW t \in Task, NEW deps \in SUBSET Task,
             NEW claim \in {"Ready", "Pending"}, SubmitTask(t, deps, claim)
      PROVE  DependencyInv'
  <2>1. CASE UNCHANGED <<graphVars, queue, claimed>>
    BY <1>1, <2>1 DEF SubmitTask, graphVars
  <2>2. CASE AddTask(t, deps) /\ Push(t) /\ claimed' = claimed \cup {t}
    BY <1>1, <2>2 DEF SubmitTask, AddTask, Push
  <2>3. CASE AddTask(t, deps) /\ queue' = queue /\ claimed' = claimed \ {t}
    BY <1>1, <2>3 DEF SubmitTask, AddTask
  <2>4. QED BY <1>1, <2>1, <2>2, <2>3 DEF SubmitTask
<1>2. ASSUME NEW t \in Task, DropEntry(t) PROVE DependencyInv'
  BY <1>2 DEF DropEntry, Pop, graphVars, envVars
<1>3. ASSUME NEW t \in Task, NEW w \in Worker, AssignTask(t, w) PROVE DependencyInv'
  BY <1>3 DEF AssignTask, SetStatus, Pop
<1>4. ASSUME NEW t \in Task, SelectionFails(t) PROVE DependencyInv'
  BY <1>4 DEF SelectionFails, vars, graphVars, schedVars, envVars
<1>5. ASSUME NEW t \in Task, CompleteTask(t) PROVE DependencyInv'
  BY <1>5 DEF CompleteTask, Complete, Unblocked, Present
<1>6. ASSUME NEW t \in Task, FailTask(t) PROVE DependencyInv'
  BY <1>6 DEF FailTask, SetStatus, Present
<1>7. ASSUME NEW t \in Task, CancelTask(t) PROVE DependencyInv'
  BY <1>7 DEF CancelTask, SetStatus, Present, envVars
<1>8. ASSUME NEW t \in Task, StartTask(t) PROVE DependencyInv'
  BY <1>8 DEF StartTask, SetStatus, schedVars, envVars
<1>9. ASSUME NEW t \in Task, StoreResult(t) PROVE DependencyInv'
  BY <1>9 DEF StoreResult, SetResult, SetStatus, schedVars
<1>10. ASSUME NEW t \in Task, ReportFails(t) PROVE DependencyInv'
  BY <1>10 DEF ReportFails, graphVars, schedVars
<1>11. ASSUME NEW v \in Worker, NEW w \in Worker, StealTask(v, w) PROVE DependencyInv'
  BY <1>11 DEF StealTask, graphVars, envVars
<1>12. CASE Prune
  BY <1>12 DEF Prune, PruneCompleted, RemoveTasks, Ended, schedVars, envVars
<1>13. CASE UNCHANGED vars
  BY <1>13 DEF vars, graphVars, schedVars, envVars
<1>14. QED
  BY <1>1, <1>2, <1>3, <1>4, <1>5, <1>6, <1>7, <1>8, <1>9, <1>10, <1>11, <1>12,
     <1>13 DEF Next, Dispatch

(* No task is ready or running before what it depends on has completed.      *)
THEOREM AfterDependencies == Spec => []RunsAfterDependencies
<1>1. DependencyInv => RunsAfterDependencies
  BY DEF DependencyInv
<1>2. QED
  BY <1>1, TypeInit, TypeStep, DependencyInit, DependencyStep, PTL DEF Spec

(* A ready task that depends on nothing, and that its caller submitted as    *)
(* Ready, is never lost by the scheduler (one submitted as Pending is: see   *)
(* ReadyIsQueued).                                                           *)
THEOREM NoneIsLost == Spec => []ClaimedIsQueued
<1>1. DependencyInv => ClaimedIsQueued
  BY DEF DependencyInv
<1>2. QED
  BY <1>1, TypeInit, TypeStep, DependencyInit, DependencyStep, PTL DEF Spec
------------------------------------------------------------------------------
(* The two sides of the graph.  What a task records as its dependents records *)
(* it as a dependency, and is in the graph.                                   *)
EdgeInv ==
    /\ \A t, d \in Task : t \in dependents[d] => d \in dependencies[t]
    /\ \A t \in Task : dependencies[t] \subseteq needs[t]
    /\ DependentsArePresent

LEMMA EdgeInit == Init => EdgeInv
BY DEF Init, GraphInit, EdgeInv, DependentsArePresent

LEMMA EdgesAdd ==
    ASSUME GraphTypeOK, EdgeInv, NEW t \in Task, NEW deps \in SUBSET Task,
           t \in Present => deps = needs[t], AddTask(t, deps)
    PROVE  EdgeInv'
<1> USE DEF GraphTypeOK, EdgeInv, DependentsArePresent, Present
<1>1. \A u \in Task : status'[u] # "absent" <=> u = t \/ status[u] # "absent"
  BY DEF AddTask
<1>2. \A u, d \in Task : u \in dependents'[d] <=> u \in dependents[d] \/ (u = t /\ d \in deps)
  BY DEF AddTask
<1>3. \A u \in Task : /\ dependencies'[u] = IF u = t THEN deps ELSE dependencies[u]
                     /\ needs'[u] = IF u = t THEN deps ELSE needs[u]
  BY DEF AddTask
<1>4. \A d \in Task : t \in dependents[d] => d \in deps
  OBVIOUS
<1>5. \A u, d \in Task : u \in dependents'[d] => d \in dependencies'[u]
  BY <1>2, <1>3, <1>4
<1>6. \A u \in Task : dependencies'[u] \subseteq needs'[u]
  BY <1>3
<1>7. \A u, d \in Task : u \in dependents'[d] => status'[u] # "absent"
  BY <1>1, <1>2
<1>8. \A d \in Task : dependents'[d] \subseteq Task
  BY DEF AddTask
<1>9. QED BY <1>5, <1>6, <1>7, <1>8

LEMMA EdgesRemove ==
    ASSUME GraphTypeOK, EdgeInv, NEW gone \in SUBSET Task, RemoveTasks(gone)
    PROVE  EdgeInv'
<1> USE DEF GraphTypeOK, EdgeInv, DependentsArePresent, Present
<1>1. \A t, d \in Task : t \in dependents'[d]
          => /\ t \in dependents[d] /\ d \in dependencies[t]
             /\ d \notin gone /\ t \notin gone
  BY DEF RemoveTasks
<1>2. \A t \in Task \ gone : /\ status'[t] = status[t] /\ needs'[t] = needs[t]
                            /\ dependencies'[t] \subseteq dependencies[t]
                            /\ dependencies[t] \ gone \subseteq dependencies'[t]
  BY DEF RemoveTasks
<1>3. \A t \in gone : dependencies'[t] = {}
  BY DEF RemoveTasks
<1>4. \A t, d \in Task : t \in dependents'[d] => d \in dependencies'[t]
  BY <1>1, <1>2
<1>5. \A t \in Task : dependencies'[t] \subseteq needs'[t]
  BY <1>2, <1>3
<1>6. \A t, d \in Task : t \in dependents'[d] => status'[t] # "absent"
  BY <1>1, <1>2
<1>7. \A d \in Task : dependents'[d] \subseteq Task
  BY DEF RemoveTasks
<1>8. QED BY <1>4, <1>5, <1>6, <1>7

(* A step that is not SubmitTask or Prune leaves the edges as they are, and   *)
(* adds and removes no task.                                                  *)
LEMMA OtherSteps ==
    ASSUME TypeOK, [Next]_vars,
           ~ \E t \in Task, deps \in SUBSET Task, claim \in {"Ready", "Pending"} :
                 SubmitTask(t, deps, claim),
           ~Prune
    PROVE  UNCHANGED <<needs, dependencies, dependents, Present>>
<1> USE DEF TypeOK, GraphTypeOK, Present, Status
<1>1. ASSUME NEW t \in Task, CompleteTask(t)
      PROVE  UNCHANGED <<needs, dependencies, dependents, Present>>
  BY <1>1 DEF CompleteTask, Complete, Unblocked
<1>2. ASSUME NEW t \in Task,
             \/ Dispatch(t) \/ FailTask(t) \/ CancelTask(t) \/ StartTask(t)
             \/ StoreResult(t)
      PROVE  UNCHANGED <<needs, dependencies, dependents, Present>>
  <2>1. PICK new \in Status : SetStatus(t, new) /\ t \in Present
    BY <1>2 DEF Dispatch, AssignTask, FailTask, CancelTask, StartTask, StoreResult,
                SetResult
  <2>2. QED BY <2>1 DEF SetStatus
<1>3. ASSUME NEW t \in Task, DropEntry(t) \/ SelectionFails(t) \/ ReportFails(t)
      PROVE  UNCHANGED <<needs, dependencies, dependents, Present>>
  BY <1>3 DEF DropEntry, SelectionFails, ReportFails, vars, graphVars
<1>4. ASSUME NEW v \in Worker, NEW w \in Worker, StealTask(v, w)
      PROVE  UNCHANGED <<needs, dependencies, dependents, Present>>
  BY <1>4 DEF StealTask, graphVars
<1>5. CASE UNCHANGED vars
  BY <1>5 DEF vars, graphVars
<1>6. QED BY <1>1, <1>2, <1>3, <1>4, <1>5 DEF Next

LEMMA EdgeStep == TypeOK /\ EdgeInv /\ [Next]_vars => EdgeInv'
<1> SUFFICES ASSUME TypeOK, EdgeInv, [Next]_vars PROVE EdgeInv'
  OBVIOUS
<1>1. CASE UNCHANGED <<needs, dependencies, dependents, Present>>
  BY <1>1 DEF EdgeInv, DependentsArePresent
<1>2. ASSUME NEW t \in Task, NEW deps \in SUBSET Task,
             NEW claim \in {"Ready", "Pending"}, SubmitTask(t, deps, claim)
      PROVE  EdgeInv'
  <2>1. CASE UNCHANGED graphVars
    BY <1>1, <2>1 DEF graphVars, Present
  <2>2. CASE AddTask(t, deps)
    BY <1>2, <2>2, EdgesAdd DEF SubmitTask, MaySubmit, TypeOK
  <2>3. QED BY <1>2, <2>1, <2>2 DEF SubmitTask, graphVars
<1>3. CASE Prune
  <2>1. PICK gone \in SUBSET Task : RemoveTasks(gone)
    BY <1>3 DEF Prune, PruneCompleted
  <2>2. QED BY <2>1, EdgesRemove DEF TypeOK
<1>4. QED BY <1>1, <1>2, <1>3, OtherSteps

(* A completion finds all the tasks that it has to tell, whatever was pruned *)
(* and submitted again.                                                      *)
THEOREM AllAreTold == Spec => []DependentsArePresent
<1>1. EdgeInv => DependentsArePresent
  BY DEF EdgeInv
<1>2. QED BY <1>1, TypeInit, TypeStep, EdgeInit, EdgeStep, PTL DEF Spec
------------------------------------------------------------------------------
(* Cycles.  A closed set of tasks holds what its members depend on, so one    *)
(* that holds `to` and not `from` says that there is no way between them.     *)
Closed(S, edges) == S \in SUBSET Task /\ \A t \in S : edges[t] \subseteq S

NoWay(from, to, edges) == \E S \in SUBSET Task :
    Closed(S, edges) /\ to \in S /\ from \notin S

LEMMA NoCycleIsNoWay ==
    ASSUME NEW from \in Task, NEW to \in Task
    PROVE  ~WouldCreateCycle(from, to) <=> NoWay(from, to, dependencies)
BY DEF WouldCreateCycle, NoWay, Closed

LEMMA AcyclicIsNoWay ==
    ASSUME dependencies \in [Task -> SUBSET Task]
    PROVE  Acyclic <=> \A x \in Task : \A d \in dependencies[x] :
                           NoWay(x, d, dependencies)
BY NoCycleIsNoWay DEF Acyclic

(* With fewer edges there are no new ways.                                    *)
LEMMA FewerEdges ==
    ASSUME NEW f \in [Task -> SUBSET Task], NEW g \in [Task -> SUBSET Task],
           \A x \in Task : g[x] \subseteq f[x],
           NEW from \in Task, NEW to \in Task, NoWay(from, to, f)
    PROVE  NoWay(from, to, g)
BY DEF NoWay, Closed

(* A task gets dependencies, from none of which there is a way back to it,    *)
(* in place of those it had: no other edge x -> d becomes part of a cycle.    *)
LEMMA NewEdges ==
    ASSUME NEW f \in [Task -> SUBSET Task], NEW t \in Task,
           NEW deps \in SUBSET Task,
           \A e \in deps : NoWay(t, e, f),
           NEW x \in Task, x # t, NEW d \in f[x], NoWay(x, d, f)
    PROVE  NoWay(x, d, [f EXCEPT ![t] = deps])
<1> DEFINE g == [f EXCEPT ![t] = deps]
<1>1. PICK S \in SUBSET Task : Closed(S, f) /\ d \in S /\ x \notin S
  BY DEF NoWay
<1>2. CASE NoWay(t, d, f)
  <2>1. PICK R \in SUBSET Task : Closed(R, f) /\ d \in R /\ t \notin R
    BY <1>2 DEF NoWay
  <2>2. Closed(S \cap R, g) /\ d \in S \cap R /\ x \notin S \cap R
    BY <1>1, <2>1 DEF Closed
  <2>3. QED BY <2>2 DEF NoWay
<1>3. CASE ~NoWay(t, d, f)
  <2> DEFINE Away == {R \in SUBSET Task : Closed(R, f) /\ t \notin R /\ x \notin R}
             U == UNION Away
  <2>1. U \in SUBSET Task /\ x \notin U
    OBVIOUS
  <2>2. \A y \in U : f[y] \subseteq U /\ y # t
    BY DEF Closed
  <2>3. deps \subseteq U
    <3> SUFFICES ASSUME NEW e \in deps PROVE e \in U
      OBVIOUS
    <3>1. PICK R \in SUBSET Task : Closed(R, f) /\ e \in R /\ t \notin R
      BY DEF NoWay
    <3>2. x \notin R
      BY <1>3, <3>1 DEF NoWay, Closed
    <3>3. QED BY <3>1, <3>2
  <2> HIDE DEF Away, U
  <2>4. Closed(S \cup U, g)
    BY <1>1, <2>1, <2>2, <2>3 DEF Closed
  <2>5. QED BY <1>1, <2>1, <2>4 DEF NoWay
<1>4. QED BY <1>2, <1>3

LEMMA AcyclicAdd ==
    ASSUME GraphTypeOK, Acyclic, NEW t \in Task, NEW deps \in SUBSET Task,
           ~AddTaskFails(t, deps), AddTask(t, deps)
    PROVE  Acyclic'
<1>1. dependencies \in [Task -> SUBSET Task]
  BY DEF GraphTypeOK
<1>2. dependencies' = [dependencies EXCEPT ![t] = deps]
  BY DEF AddTask
<1>3. dependencies' \in [Task -> SUBSET Task]
  BY <1>1, <1>2
<1>4. \A e \in deps : NoWay(t, e, dependencies)
  BY NoCycleIsNoWay DEF AddTaskFails
<1>5. \A x \in Task : \A d \in dependencies[x] : NoWay(x, d, dependencies)
  BY <1>1, AcyclicIsNoWay
<1>6. ASSUME NEW x \in Task, NEW d \in dependencies'[x]
      PROVE  NoWay(x, d, dependencies')
  <2>1. CASE x = t
    <3>1. PICK S \in SUBSET Task : Closed(S, dependencies) /\ d \in S /\ t \notin S
      BY <1>1, <1>2, <1>4, <2>1 DEF NoWay
    <3>2. Closed(S, dependencies')
      BY <1>1, <1>2, <3>1 DEF Closed
    <3>3. QED BY <2>1, <3>1, <3>2 DEF NoWay
  <2>2. CASE x # t
    <3>1. d \in dependencies[x]
      BY <1>1, <1>2, <2>2
    <3>2. NoWay(x, d, dependencies)
      BY <1>5, <3>1
    <3>3. QED BY <1>1, <1>2, <1>4, <2>2, <3>1, <3>2, NewEdges
  <2>3. QED BY <2>1, <2>2
<1>7. QED
  BY <1>3, <1>6 DEF Acyclic, WouldCreateCycle, NoWay, Closed

LEMMA AcyclicRemove ==
    ASSUME GraphTypeOK, Acyclic, NEW gone \in SUBSET Task, RemoveTasks(gone)
    PROVE  Acyclic'
<1>1. dependencies \in [Task -> SUBSET Task]
  BY DEF GraphTypeOK
<1>2. /\ dependencies' \in [Task -> SUBSET Task]
      /\ \A x \in Task : dependencies'[x] \subseteq dependencies[x]
  BY <1>1 DEF RemoveTasks
<1>3. \A x \in Task : \A d \in dependencies'[x] : NoWay(x, d, dependencies')
  BY <1>1, <1>2, AcyclicIsNoWay, FewerEdges
<1>4. QED BY <1>2, <1>3 DEF Acyclic, WouldCreateCycle, NoWay, Closed

LEMMA AcyclicStep == TypeOK /\ Acyclic /\ [Next]_vars => Acyclic'
<1> SUFFICES ASSUME TypeOK, Acyclic, [Next]_vars PROVE Acyclic'
  OBVIOUS
<1>1. CASE UNCHANGED dependencies
  BY <1>1 DEF Acyclic, WouldCreateCycle
<1>2. ASSUME NEW t \in Task, NEW deps \in SUBSET Task,
             NEW claim \in {"Ready", "Pending"}, SubmitTask(t, deps, claim)
      PROVE  Acyclic'
  BY <1>1, <1>2, AcyclicAdd DEF SubmitTask, graphVars, TypeOK
<1>3. CASE Prune
  <2>1. PICK gone \in SUBSET Task : RemoveTasks(gone)
    BY <1>3 DEF Prune, PruneCompleted
  <2>2. QED BY <2>1, AcyclicRemove DEF TypeOK
<1>4. QED BY <1>1, <1>2, <1>3, OtherSteps

(* Whatever is submitted, completed and pruned, no task waits for itself.    *)
THEOREM NoCycles == Spec => []Acyclic
<1>1. Init => Acyclic
  BY DEF Init, GraphInit, Acyclic
<1>2. QED BY <1>1, TypeInit, TypeStep, AcyclicStep, PTL DEF Spec
=============================================================================
