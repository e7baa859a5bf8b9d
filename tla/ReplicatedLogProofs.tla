----------------------- MODULE ReplicatedLogProofs -----------------------
EXTENDS ReplicatedLog, SequenceTheorems, FiniteSetTheorems, WellFoundedInduction, TLAPS

(* Every set of naturals that is not empty has a least element.             *)
LEMMA LeastElement ==
    ASSUME NEW S \in SUBSET Nat, S # {}
    PROVE  \E m \in S : \A x \in S : m <= x
<1> DEFINE R == StrictSubsetOrdering(Nat)
           T == {0 .. x : x \in S}
<1>1. IsWellFoundedOn(R, FiniteSubsetsOf(Nat))
  BY FS_StrictSubsetOrderingWellFounded
<1>2. T \subseteq FiniteSubsetsOf(Nat)
  <2> SUFFICES ASSUME NEW x \in S PROVE 0 .. x \in FiniteSubsetsOf(Nat)
    OBVIOUS
  <2>1. IsFiniteSet(0 .. x) /\ 0 .. x \in SUBSET Nat
    BY FS_Interval
  <2>2. QED BY <2>1 DEF FiniteSubsetsOf
<1>3. T # {}
  OBVIOUS
<1> HIDE DEF R, T
<1>4. PICK I \in T : \A J \in T : <<J, I>> \notin R
  BY <1>1, <1>2, <1>3, WFMin
<1>5. PICK m \in S : I = 0 .. m
  BY DEF T
<1>6. ASSUME NEW x \in S, x < m PROVE FALSE
  <2>1. 0 .. x \in T
    BY DEF T
  <2>2. 0 .. x \subseteq Nat /\ I \subseteq Nat
    BY <1>5
  <2>3. 0 .. x \subseteq I /\ m \in I /\ m \notin 0 .. x
    BY <1>5, <1>6
  <2>4. <<0 .. x, I>> \in R
    BY <2>2, <2>3 DEF R, StrictSubsetOrdering
  <2>5. QED BY <1>4, <2>1, <2>4
<1>7. QED BY <1>6

LEMMA MinIsLeast ==
    ASSUME NEW S \in SUBSET Nat, S # {}
    PROVE  Min(S) \in S /\ \A x \in S : Min(S) <= x
BY LeastElement DEF Min

(* A set of naturals below a bound has a greatest element.                  *)
LEMMA MaxIsGreatest ==
    ASSUME NEW b \in Nat, NEW S \in SUBSET (0 .. b), S # {}
    PROVE  Max(S) \in S /\ \A x \in S : Max(S) >= x
<1> DEFINE T == {b - x : x \in S}
<1>1. T \in SUBSET Nat /\ T # {}
  <2>1. \A x \in S : b - x \in Nat
    OBVIOUS
  <2>2. QED BY <2>1
<1>2. PICK m \in T : \A y \in T : m <= y
  <2> HIDE DEF T
  <2>1. QED BY <1>1, LeastElement
<1>3. b - m \in S /\ \A x \in S : b - m >= x
  BY <1>2
<1>4. QED BY <1>3 DEF Max

LEMMA ConstantTypes ==
    /\ MaxTerm \in Nat /\ MaxLog \in Nat /\ MaxBeats \in Nat
    /\ Term = 0 .. MaxTerm /\ Index = 0 .. MaxLog
BY BoundAssumption DEF Term, Index

(* The index at which Splice cuts the log: before the first clash.          *)
Clash(l, prev, es) ==
    {i \in prev + 1 .. Smaller(Len(l), prev + Len(es)) : l[i].term # es[i - prev].term}
Keep(l, prev, es) == IF Clash(l, prev, es) = {} THEN Len(l) ELSE Min(Clash(l, prev, es)) - 1

LEMMA KeepFacts ==
    ASSUME NEW l \in Seq(Entry), NEW es \in Seq(Entry), NEW prev \in 0 .. Len(l)
    PROVE  LET k == Keep(l, prev, es) IN
           /\ k \in prev .. Len(l)
           /\ \A i \in prev + 1 .. k :
                 i <= prev + Len(es) => l[i].term = es[i - prev].term
           /\ k < Len(l) => /\ k < prev + Len(es)
                            /\ l[k + 1].term # es[k + 1 - prev].term
<1> DEFINE C == Clash(l, prev, es)
<1>0. Len(l) \in Nat /\ Len(es) \in Nat
  BY LenProperties
<1>1. \A i \in Int : i \in C <=> /\ i \in prev + 1 .. Len(l) /\ i <= prev + Len(es)
                                 /\ l[i].term # es[i - prev].term
  BY <1>0 DEF Clash, Smaller
<1>2. C \in SUBSET Nat
  BY <1>0 DEF Clash, Smaller
<1>3. CASE C = {}
  BY <1>0, <1>1, <1>3 DEF Keep
<1>4. CASE C # {}
  <2> DEFINE m == Min(C)
  <2> HIDE DEF C
  <2>1. m \in C /\ \A i \in C : m <= i
    BY <1>2, <1>4, MinIsLeast
  <2>2. m \in Nat
    BY <2>1, <1>2
  <2>3. Keep(l, prev, es) = m - 1
    BY <1>4 DEF Keep, C
  <2> HIDE DEF m
  <2>4. m \in prev + 1 .. Len(l) /\ m <= prev + Len(es) /\ l[m].term # es[m - prev].term
    BY <1>1, <2>1, <2>2
  <2>5. ASSUME NEW i \in prev + 1 .. m - 1, i <= prev + Len(es)
        PROVE  l[i].term = es[i - prev].term
    <3>1. i \notin C
      BY <2>1, <2>2, <1>0
    <3>2. i \in Int /\ i \in prev + 1 .. Len(l) /\ i <= prev + Len(es)
      BY <1>0, <2>2, <2>4, <2>5
    <3>3. QED BY <1>1, <3>1, <3>2
  <2>6. (m - 1) + 1 = m
    BY <2>2
  <2>7. QED BY SMTT(20), <1>0, <2>2, <2>3, <2>4, <2>5, <2>6
<1>5. QED BY <1>3, <1>4

LEMMA SpliceFacts ==
    ASSUME NEW l \in Seq(Entry), NEW es \in Seq(Entry), NEW prev \in 0 .. Len(l)
    PROVE  LET k == Keep(l, prev, es)
               s == Splice(l, prev, es)
           IN /\ s \in Seq(Entry)
              /\ Len(s) = IF k < prev + Len(es) THEN prev + Len(es) ELSE k
              /\ \A i \in 1 .. k : s[i] = l[i]
              /\ \A i \in k + 1 .. Len(s) : s[i] = es[i - prev]
<1> DEFINE k == Keep(l, prev, es)
           a == SubSeq(l, 1, k)
           b == SubSeq(es, k - prev + 1, Len(es))
<1>0. Len(l) \in Nat /\ Len(es) \in Nat
  BY LenProperties
<1>1. k \in prev .. Len(l)
  BY KeepFacts
<1>2. Splice(l, prev, es) = a \o b
  BY DEF Splice, Keep, Clash
<1> HIDE DEF k
<1>3. /\ a \in Seq(Entry) /\ Len(a) = k
      /\ \A i \in 1 .. k : a[i] = l[i]
  <2>1. \A i \in 1 .. k : l[i] \in Entry
    BY <1>0, <1>1, ElementOfSeq
  <2>2. k \in Int
    BY <1>0, <1>1
  <2>3. QED BY <2>1, <2>2, <1>0, <1>1, SubSeqProperties
<1>4. /\ b \in Seq(Entry)
      /\ Len(b) = IF k - prev + 1 <= Len(es) THEN Len(es) - (k - prev + 1) + 1 ELSE 0
      /\ \A i \in 1 .. Len(es) - (k - prev + 1) + 1 : b[i] = es[k - prev + 1 + i - 1]
  <2>1. \A i \in k - prev + 1 .. Len(es) : es[i] \in Entry
    BY <1>0, <1>1, ElementOfSeq
  <2>2. k - prev + 1 \in Int /\ Len(es) \in Int
    BY <1>0, <1>1
  <2>3. QED BY <2>1, <2>2, SubSeqProperties
<1> HIDE DEF a, b
<1>5. /\ a \o b \in Seq(Entry)
      /\ Len(a \o b) = Len(a) + Len(b)
      /\ \A i \in 1 .. Len(a) + Len(b) : (a \o b)[i] = IF i <= Len(a) THEN a[i] ELSE b[i - Len(a)]
  BY <1>3, <1>4, ConcatProperties
<1>6. Len(a \o b) = IF k < prev + Len(es) THEN prev + Len(es) ELSE k
  BY <1>0, <1>1, <1>3, <1>4, <1>5
<1>7. \A i \in 1 .. k : (a \o b)[i] = l[i]
  BY <1>0, <1>1, <1>3, <1>4, <1>5
<1>8. ASSUME NEW i \in k + 1 .. Len(a \o b) PROVE (a \o b)[i] = es[i - prev]
  <2>1. k < prev + Len(es) /\ Len(a \o b) = prev + Len(es)
    BY <1>0, <1>1, <1>6
  <2>2. (a \o b)[i] = b[i - k]
    BY <1>0, <1>1, <1>3, <1>4, <1>5, <2>1
  <2>3. i - k \in 1 .. Len(es) - (k - prev + 1) + 1 /\ k - prev + 1 + (i - k) - 1 = i - prev
    BY <1>0, <1>1, <2>1
  <2>4. QED BY <1>4, <2>2, <2>3
<1>9. QED BY <1>2, <1>5, <1>6, <1>7, <1>8 DEF k
-----------------------------------------------------------------------------
(* Types. *)

Driver == [pc : Label, todo : SUBSET Node, peer : Node \cup {NoNode},
           call : Req \cup {NoCall}, resp : Resp \cup {NoCall}, commit : Index,
           mine : Entry \cup {NoCall}, before : Index, round : 0 .. 2, target : Index,
           beats : Nat]

(* An entry stands at its index.                                            *)
Indexed(l) == \A i \in 1 .. Len(l) : l[i].index = i

(* A request's entries follow its prevIndex.                                *)
Follows(q) == \A i \in 1 .. Len(q.entries) : q.entries[i].index = q.prevIndex + i

(* A task has consecutive entries left.                                     *)
Consecutive(s) == s # <<>> /\ \A i \in 1 .. Len(s) : s[i].index = s[1].index + (i - 1)

DriverShape(d) == /\ d.pc = "wait" => d.peer \in Node
                  /\ d.round = 1 => d.mine \in Entry

TaskShape(n, k) ==
    /\ Consecutive(k.todo)
    /\ k.call # NoCall => k.call \in reqs /\ k.call.to = n /\ k.resp \in Resp

TypeInv ==
    /\ TypeOK
    /\ drv \in [Node -> Driver] /\ \A n \in Node : DriverShape(drv[n])
    /\ tasks \in [Node -> SUBSET Task] /\ \A n \in Node : \A k \in tasks[n] : TaskShape(n, k)
    /\ \A n \in Node : Indexed(log[n])
    /\ \A q \in reqs : Follows(q)
    /\ \A n \in Node : commit[n] <= lastApplied[n]

LEMMA LogLength ==
    ASSUME NEW l \in Seq(Entry), Indexed(l)
    PROVE  Len(l) \in Index
<1>1. Len(l) \in Nat /\ (Len(l) > 0 => l[Len(l)] \in Entry)
  BY LenProperties, ElementOfSeq
<1>2. \A e \in Entry : e.index \in 1 .. MaxLog
  BY DEF Entry
<1>3. Len(l) > 0 => l[Len(l)].index = Len(l)
  BY <1>1 DEF Indexed
<1>4. Len(l) > 0 => Len(l) \in 1 .. MaxLog
  BY <1>1, <1>2, <1>3
<1>5. QED BY <1>1, <1>4, ConstantTypes

LEMMA OffType == Off \in Driver /\ DriverShape(Off) /\ [Off EXCEPT !.pc = "idle"] \in Driver
BY ConstantTypes DEF Off, Driver, Label, DriverShape

LEMMA InitType == Init => TypeInv
<1> SUFFICES ASSUME Init PROVE TypeInv
  OBVIOUS
<1>1. <<>> \in Seq(Entry) /\ Len(<<>>) = 0 /\ 0 \in Index /\ 0 \in Term
      /\ 1 \in 1 .. MaxLog + 1
  BY ConstantTypes, EmptySeq
<1>2. TypeOK
  BY <1>1, OffType DEF Init, TypeOK, Progress, Driver
<1>3. drv \in [Node -> Driver] /\ \A n \in Node : DriverShape(drv[n])
  BY OffType DEF Init
<1>4. tasks \in [Node -> SUBSET Task] /\ \A n \in Node : \A k \in tasks[n] : TaskShape(n, k)
  BY DEF Init
<1>5. \A n \in Node : Indexed(log[n])
  BY <1>1 DEF Init, Indexed
<1>6. \A q \in reqs : Follows(q)
  BY DEF Init
<1>7. \A n \in Node : commit[n] <= lastApplied[n]
  BY DEF Init
<1>8. QED BY <1>2, <1>3, <1>4, <1>5, <1>6, <1>7 DEF TypeInv

LEMMA TypeInvType ==
    ASSUME TypeInv
    PROVE  /\ log \in [Node -> Seq(Entry)] /\ term \in [Node -> Term]
           /\ commit \in [Node -> Index] /\ lastApplied \in [Node -> Index]
           /\ applied \in [Node -> Seq(Entry)]
           /\ next \in [Node -> [Node -> 1 .. MaxLog + 1]]
           /\ match \in [Node -> [Node -> Index]]
           /\ reqs \subseteq Req /\ polls \in Term
           /\ winner \in [Term -> Node \cup {NoNode}] /\ answered \subseteq Entry
           /\ drv \in [Node -> Driver] /\ tasks \in [Node -> SUBSET Task]
           /\ \A n \in Node : Len(log[n]) \in Index /\ commit[n] <= lastApplied[n]
BY LogLength DEF TypeInv, TypeOK

(* What is left of the leaders when some are dropped.                       *)
LEMMA WithoutType ==
    ASSUME NEW S, NEW f \in [Node -> S], NEW D \in SUBSET Node, NEW x \in S
    PROVE  Without(f, D, x) \in [Node -> S]
BY DEF Without

LEMMA ProgressType ==
    /\ \A i \in 1 .. MaxLog + 1 : Progress(i) \in [Node -> 1 .. MaxLog + 1]
    /\ \A i \in Index : Progress(i) \in [Node -> Index]
BY DEF Progress

LEMMA DropType ==
    ASSUME TypeInv, NEW D \in SUBSET Node
    PROVE  /\ Without(drv, D, Off) \in [Node -> Driver]
           /\ Without(next, D, Progress(1)) \in [Node -> [Node -> 1 .. MaxLog + 1]]
           /\ Without(match, D, Progress(0)) \in [Node -> [Node -> Index]]
<1>1. Progress(1) \in [Node -> 1 .. MaxLog + 1] /\ Progress(0) \in [Node -> Index]
  BY ProgressType, ConstantTypes
<1>2. Without(drv, D, Off) \in [Node -> Driver]
  BY TypeInvType, OffType, WithoutType
<1>3. Without(next, D, Progress(1)) \in [Node -> [Node -> 1 .. MaxLog + 1]]
  BY <1>1, TypeInvType, WithoutType
<1>4. Without(match, D, Progress(0)) \in [Node -> [Node -> Index]]
  BY <1>1, TypeInvType, WithoutType
<1>5. QED BY <1>2, <1>3, <1>4

LEMMA VoteType ==
    ASSUME TypeInv, NEW Q, NEW D, Vote(Q, D)
    PROVE  polls' \in Term /\ term' \in [Node -> Term]
BY ConstantTypes DEF TypeInv, TypeOK, Vote

(* A step that changes one driver and the reqs at most.                     *)
LEMMA DriverStep ==
    ASSUME TypeInv, NEW n \in Node, NEW d \in Driver, DriverShape(d),
           drv' = [drv EXCEPT ![n] = d]
    PROVE  drv' \in [Node -> Driver] /\ \A m \in Node : DriverShape(drv[m])'
<1>1. drv \in [Node -> Driver] /\ \A m \in Node : DriverShape(drv[m])
  BY DEF TypeInv
<1>2. QED BY <1>1 DEF DriverShape

LEMMA ReplyType ==
    ASSUME TypeInv, NEW q, NEW r \in Resp, Reply(q, r)
    PROVE  drv' \in [Node -> Driver] /\ \A m \in Node : DriverShape(drv[m])'
<1>1. drv \in [Node -> Driver] /\ \A m \in Node : DriverShape(drv[m])
  BY DEF TypeInv
<1> DEFINE m == q.leader
           d == [drv[m] EXCEPT !.resp = r]
<1>2. CASE drv' = drv
  BY <1>1, <1>2 DEF DriverShape
<1>3. CASE drv' = [drv EXCEPT ![m].resp = r]
  <2>1. \A x \in Node : drv'[x] = IF x = m THEN d ELSE drv[x]
    BY <1>1, <1>3
  <2>2. m \in Node => d \in Driver /\ DriverShape(d)
    BY <1>1 DEF DriverShape, Driver
  <2>3. drv' \in [Node -> Driver]
    BY <1>1, <1>3, <2>1, <2>2
  <2>4. QED BY <1>1, <2>1, <2>2, <2>3 DEF DriverShape
<1>4. QED BY <1>2, <1>3 DEF Reply

(* What a step must give: types, and the shapes of what it changed.         *)
LEMMA TypeInvNext ==
    ASSUME TypeInv,
           log' \in [Node -> Seq(Entry)], \A n \in Node : Indexed(log[n])',
           term' \in [Node -> Term], commit' \in [Node -> Index],
           lastApplied' \in [Node -> Index],
           \A n \in Node : commit'[n] <= lastApplied'[n], applied' \in [Node -> Seq(Entry)],
           tasks' \in [Node -> SUBSET Task],
           \A n \in Node : \A k \in tasks'[n] : TaskShape(n, k)',
           next' \in [Node -> [Node -> 1 .. MaxLog + 1]],
           match' \in [Node -> [Node -> Index]],
           drv' \in [Node -> Driver], \A n \in Node : DriverShape(drv[n])',
           reqs' \subseteq Req, \A q \in reqs' : Follows(q),
           polls' \in Term, winner' \in [Term -> Node \cup {NoNode}],
           answered' \subseteq Entry
    PROVE  TypeInv'
<1>1. \A n \in Node : (drv[n].pc \in Label /\ drv[n].todo \subseteq Node)'
  BY DEF Driver
<1>2. \A n \in Node : tasks'[n] \subseteq Task
  OBVIOUS
<1>3. \A q \in reqs' : Follows(q)'
  BY DEF Follows
<1>4. QED BY <1>1, <1>2, <1>3 DEF TypeInv, TypeOK

(* The parts that a step leaves alone stay as they are.                     *)
LEMMA SameTasks ==
    ASSUME TypeInv, UNCHANGED tasks, reqs \subseteq reqs'
    PROVE  /\ tasks' \in [Node -> SUBSET Task]
           /\ \A n \in Node : \A k \in tasks'[n] : TaskShape(n, k)'
BY DEF TypeInv, TaskShape

LEMMA SameLogs ==
    ASSUME TypeInv, UNCHANGED log
    PROVE  log' \in [Node -> Seq(Entry)] /\ \A n \in Node : Indexed(log[n])'
BY DEF TypeInv, TypeOK, Indexed

LEMMA SameReqs ==
    ASSUME TypeInv, UNCHANGED reqs
    PROVE  reqs' \subseteq Req /\ \A q \in reqs' : Follows(q)
BY DEF TypeInv, TypeOK

LEMMA ElectionType ==
    ASSUME TypeInv, LoseElection \/ \E n \in Node : TakeLead(n)
    PROVE  TypeInv'
<1>1. CASE LoseElection
  <2>1. PICK Q \in SUBSET Node : 
           /\ Vote(Q, Q) /\ drv' = Without(drv, Q, Off)
           /\ next' = Without(next, Q, Progress(1)) /\ match' = Without(match, Q, Progress(0))
           /\ UNCHANGED winner
    BY <1>1 DEF LoseElection
  <2>2. /\ drv' \in [Node -> Driver] /\ next' \in [Node -> [Node -> 1 .. MaxLog + 1]]
        /\ match' \in [Node -> [Node -> Index]]
    BY <2>1, DropType
  <2>3. \A m \in Node : DriverShape(drv[m])'
    BY <2>1, OffType DEF TypeInv, Without, DriverShape
  <2>4. /\ polls' \in Term /\ term' \in [Node -> Term]
        /\ UNCHANGED <<log, commit, lastApplied, applied, tasks, reqs, answered>>
    BY <2>1, VoteType DEF Vote
  <2>5. QED BY <2>1, <2>2, <2>3, <2>4, TypeInvType, SameTasks, SameLogs, SameReqs, TypeInvNext
<1>2. ASSUME NEW n \in Node, TakeLead(n) PROVE TypeInv'
  <2>1. PICK Q \in SUBSET Node, D \in SUBSET Node :
           /\ Vote(Q, D) /\ winner' = [winner EXCEPT ![polls'] = n]
           /\ drv' = [Without(drv, D, Off) EXCEPT ![n] = [Off EXCEPT !.pc = "idle"]]
           /\ next' = [Without(next, D, Progress(1)) EXCEPT ![n] = Progress(Len(log[n]) + 1)]
           /\ match' = Without(match, D, Progress(0))
    <3>1. PICK Q \in SUBSET Node : TakeLead(n)!(Q)
      BY <1>2 DEF TakeLead
    <3> DEFINE D == IF Handover THEN Node ELSE Q
    <3>2. D \in SUBSET Node
      OBVIOUS
    <3>3. QED BY <3>1, <3>2
  <2>2. Len(log[n]) + 1 \in 1 .. MaxLog + 1
    BY TypeInvType, ConstantTypes
  <2>3. /\ Without(drv, D, Off) \in [Node -> Driver]
        /\ Without(next, D, Progress(1)) \in [Node -> [Node -> 1 .. MaxLog + 1]]
        /\ match' \in [Node -> [Node -> Index]]
    BY <2>1, DropType
  <2>4. drv' \in [Node -> Driver] /\ next' \in [Node -> [Node -> 1 .. MaxLog + 1]]
    BY <2>1, <2>2, <2>3, OffType, ProgressType
  <2>5. \A m \in Node : DriverShape(drv[m])'
    BY <2>1, OffType DEF TypeInv, Without, DriverShape, Off
  <2>6. /\ polls' \in Term /\ term' \in [Node -> Term]
        /\ UNCHANGED <<log, commit, lastApplied, applied, tasks, reqs, answered>>
    BY <2>1, VoteType DEF Vote
  <2>7. winner' \in [Term -> Node \cup {NoNode}]
    BY <2>1, TypeInvType
  <2>8. QED BY <2>3, <2>4, <2>5, <2>6, <2>7, TypeInvType, SameTasks, SameLogs, SameReqs, TypeInvNext
<1>3. QED BY <1>1, <1>2

LEMMA DriverParts ==
    ASSUME TypeInv, NEW n \in Node
    PROVE  /\ drv[n] \in Driver /\ DriverShape(drv[n])
           /\ drv[n].pc \in Label /\ drv[n].todo \subseteq Node
           /\ drv[n].peer \in Node \cup {NoNode}
           /\ drv[n].call \in Req \cup {NoCall} /\ drv[n].resp \in Resp \cup {NoCall}
           /\ drv[n].commit \in Index /\ drv[n].before \in Index /\ drv[n].target \in Index
           /\ drv[n].mine \in Entry \cup {NoCall} /\ drv[n].round \in 0 .. 2
           /\ drv[n].beats \in Nat
<1>1. drv[n] \in Driver /\ DriverShape(drv[n])
  BY DEF TypeInv
<1>2. QED BY <1>1 DEF Driver

LEMMA AppendStepType ==
    ASSUME TypeInv, NEW n \in Node, LeaderAppend(n)
    PROVE  TypeInv'
<1> DEFINE e == [term |-> term[n], index |-> Len(log[n]) + 1, data |-> n]
           d == [drv[n] EXCEPT !.pc = "send", !.todo = Node \ {n}, !.commit = commit[n],
                               !.mine = e, !.before = commit[n], !.round = 1]
<1>1. /\ Len(log[n]) < MaxLog
      /\ log' = [log EXCEPT ![n] = Append(@, e)]
      /\ drv' = [drv EXCEPT ![n] = d]
      /\ UNCHANGED <<term, commit, lastApplied, applied, tasks, next, match, reqs,
                     polls, winner, answered>>
  BY DEF LeaderAppend
<1>2. /\ log[n] \in Seq(Entry) /\ term[n] \in Term /\ commit[n] \in Index
      /\ Len(log[n]) \in Index
  BY TypeInvType
<1>3. e \in Entry
  BY <1>1, <1>2, ConstantTypes DEF Entry
<1> HIDE DEF e
<1>4. d \in Driver /\ DriverShape(d)
  <2>1. drv[n] \in Driver
    BY DriverParts
  <2>2. d \in Driver
    <3>1. 1 \in 0 .. 2 /\ Node \ {n} \in SUBSET Node /\ e \in Entry \cup {NoCall}
          /\ "send" \in Label /\ commit[n] \in Index
      BY <1>2, <1>3 DEF Label
    <3>2. QED BY <2>1, <3>1, Zenon DEF Driver
  <2>3. d.pc = "send" /\ d.mine = e
    BY <2>1 DEF Driver
  <2>4. QED BY <1>3, <2>2, <2>3 DEF DriverShape
<1> HIDE DEF d
<1>5. drv' \in [Node -> Driver] /\ \A m \in Node : DriverShape(drv[m])'
  BY <1>1, <1>4, DriverStep
<1>6. /\ Append(log[n], e) \in Seq(Entry) /\ Len(Append(log[n], e)) = Len(log[n]) + 1
      /\ \A i \in 1 .. Len(log[n]) : Append(log[n], e)[i] = log[n][i]
      /\ Append(log[n], e)[Len(log[n]) + 1] = e
  BY <1>2, <1>3, AppendProperties
<1>7. log' \in [Node -> Seq(Entry)]
  BY <1>1, <1>6, TypeInvType
<1>8. \A m \in Node : Indexed(log[m])'
  <2>1. e.index = Len(log[n]) + 1
    BY DEF e
  <2>2. Indexed(Append(log[n], e))
    BY <1>2, <1>6, <2>1, ConstantTypes DEF TypeInv, Indexed
  <2>3. \A m \in Node : Indexed(log'[m])
    BY <1>1, <2>2, TypeInvType DEF TypeInv
  <2>4. QED BY <2>3 DEF Indexed
<1>9. QED BY <1>1, <1>5, <1>7, <1>8, TypeInvType, SameTasks, SameReqs, TypeInvNext

(* A step of the leader's task that changes the driver only.                *)
LEMMA DriverOnly ==
    ASSUME TypeInv, NEW n \in Node, NEW d \in Driver, DriverShape(d),
           drv' = [drv EXCEPT ![n] = d],
           UNCHANGED <<logVars, applied, tasks, next, match, reqs, polls, winner, answered>>
    PROVE  TypeInv'
<1>1. drv' \in [Node -> Driver] /\ \A m \in Node : DriverShape(drv[m])'
  BY DriverStep
<1>2. UNCHANGED <<log, term, commit, lastApplied, applied, tasks, next, match, reqs, polls,
                  winner, answered>>
  BY DEF logVars
<1>3. QED BY <1>1, <1>2, TypeInvType, SameTasks, SameLogs, SameReqs, TypeInvNext

LEMMA HeartbeatType ==
    ASSUME TypeInv, NEW n \in Node, Heartbeat(n)
    PROVE  TypeInv'
<1> DEFINE d == [drv[n] EXCEPT !.pc = "send", !.todo = Node \ {n}, !.commit = commit[n],
                               !.mine = NoCall, !.round = 2, !.beats = drv[n].beats + 1]
<1>1. drv' = [drv EXCEPT ![n] = d]
      /\ UNCHANGED <<logVars, applied, tasks, next, match, reqs, polls, winner, answered>>
  BY DEF Heartbeat
<1>2. d \in Driver /\ DriverShape(d)
  <2>1. drv[n] \in Driver /\ drv[n].beats \in Nat /\ commit[n] \in Index
    BY DriverParts, TypeInvType
  <2>2. d \in Driver
    <3>1. 2 \in 0 .. 2 /\ Node \ {n} \in SUBSET Node /\ NoCall \in Entry \cup {NoCall}
          /\ "send" \in Label /\ drv[n].beats + 1 \in Nat
      BY <2>1 DEF Label
    <3>2. QED BY <2>1, <3>1 DEF Driver
  <2>3. d.pc = "send" /\ d.round = 2
    BY <2>1 DEF Driver
  <2>4. QED BY <2>2, <2>3 DEF DriverShape
<1> HIDE DEF d
<1>3. QED BY <1>1, <1>2, DriverOnly

LEMMA RequestType ==
    ASSUME TypeInv, NEW n \in Node, NEW f \in Node
    PROVE  Request(n, f) \in Req /\ Follows(Request(n, f))
<1> DEFINE q == Request(n, f)
           prev == next[n][f] - 1
           l == log[n]
           es == SubSeq(l, prev + 1, Len(l))
<1>1. /\ l \in Seq(Entry) /\ term[n] \in Term /\ drv[n].commit \in Index /\ Len(l) \in Nat
      /\ Indexed(l)
  BY TypeInvType, DriverParts, LenProperties DEF TypeInv
<1>2. prev \in Index /\ prev \in Nat
  <2>1. next[n][f] \in 1 .. MaxLog + 1
    BY TypeInvType
  <2>2. QED BY <2>1, ConstantTypes
<1>3. (IF Knows(l, prev) THEN TermAt(l, prev) ELSE 0) \in Term
  <2>1. ASSUME Knows(l, prev), prev # 0 PROVE l[prev].term \in Term
    <3>1. prev \in 1 .. Len(l)
      <4> HIDE DEF prev
      <4>1. QED BY <2>1, <1>1, <1>2 DEF Knows
    <3>2. l[prev] \in Entry
      BY <3>1, <1>1, ElementOfSeq
    <3>3. QED BY <3>2 DEF Entry
  <2>2. QED BY <2>1, ConstantTypes DEF TermAt
<1>4. /\ es \in Seq(Entry)
      /\ Len(es) = IF prev + 1 <= Len(l) THEN Len(l) - prev ELSE 0
      /\ \A i \in 1 .. Len(l) - prev : es[i] = l[prev + i]
  <2>1. \A i \in prev + 1 .. Len(l) : l[i] \in Entry
    BY <1>1, <1>2, ConstantTypes, ElementOfSeq
  <2>2. prev + 1 \in Int /\ Len(l) \in Int
    BY <1>1, <1>2, ConstantTypes
  <2>3. /\ es \in Seq(Entry)
        /\ Len(es) = IF prev + 1 <= Len(l) THEN Len(l) - (prev + 1) + 1 ELSE 0
        /\ \A i \in 1 .. Len(l) - (prev + 1) + 1 : es[i] = l[prev + 1 + i - 1]
    BY SMTT(20), <2>1, <2>2, SubSeqProperties
  <2> HIDE DEF prev, es, l
  <2>4. QED BY <2>3, <1>1, <1>2
<1>5. q = [term |-> term[n], leader |-> n, to |-> f, prevIndex |-> prev,
           prevTerm |-> IF Knows(l, prev) THEN TermAt(l, prev) ELSE 0,
           entries |-> es, commit |-> drv[n].commit]
  BY DEF Request
<1> HIDE DEF prev, es, q
<1>6. q \in Req
  BY <1>1, <1>2, <1>3, <1>4, <1>5 DEF Req
<1>7. \A i \in 1 .. Len(es) : es[i].index = prev + i
  BY SMTT(20), <1>1, <1>2, <1>4, ConstantTypes DEF Indexed
<1>8. QED BY <1>5, <1>6, <1>7 DEF Follows, q

LEMMA SendType ==
    ASSUME TypeInv, NEW n \in Node, NEW f \in Node, Send(n, f)
    PROVE  TypeInv'
<1> DEFINE q == Request(n, f)
           d == [drv[n] EXCEPT !.pc = "wait", !.peer = f, !.call = q, !.resp = NoCall]
<1>1. /\ reqs' = reqs \cup {q} /\ drv' = [drv EXCEPT ![n] = d]
      /\ UNCHANGED <<logVars, applied, tasks, next, match, polls, winner, answered>>
  BY DEF Send
<1>2. q \in Req /\ Follows(q)
  BY RequestType
<1> HIDE DEF q
<1>3. d \in Driver /\ DriverShape(d)
  <2>1. drv[n] \in Driver /\ DriverShape(drv[n])
    BY DriverParts
  <2>2. d \in Driver
    BY <1>2, <2>1 DEF Driver, Label
  <2>3. d.peer = f /\ d.round = drv[n].round /\ d.mine = drv[n].mine
    BY <2>1 DEF Driver
  <2>4. QED BY <2>1, <2>2, <2>3 DEF DriverShape
<1> HIDE DEF d
<1>4. drv' \in [Node -> Driver] /\ \A m \in Node : DriverShape(drv[m])'
  BY <1>1, <1>3, DriverStep
<1>5. reqs' \subseteq Req /\ (\A x \in reqs' : Follows(x)) /\ reqs \subseteq reqs'
  BY <1>1, <1>2, TypeInvType DEF TypeInv
<1>6. UNCHANGED <<log, term, commit, lastApplied, applied, tasks, next, match, polls,
                  winner, answered>>
  BY <1>1 DEF logVars
<1>7. QED BY <1>4, <1>5, <1>6, TypeInvType, SameTasks, SameLogs, TypeInvNext

LEMMA NextFollowerType ==
    ASSUME TypeInv, NEW n \in Node, NextFollower(n)
    PROVE  drv' \in [Node -> Driver] /\ \A m \in Node : DriverShape(drv[m])'
<1> DEFINE d == [drv[n] EXCEPT !.pc = "send", !.todo = drv[n].todo \ {drv[n].peer}, !.peer = NoNode,
                               !.call = NoCall, !.resp = NoCall]
<1>1. drv' = [drv EXCEPT ![n] = d]
  BY DEF NextFollower
<1>2. d \in Driver /\ DriverShape(d)
  <2>1. drv[n] \in Driver /\ DriverShape(drv[n]) /\ drv[n].todo \subseteq Node
    BY DriverParts
  <2>2. d \in Driver
    BY <2>1 DEF Driver, Label
  <2>3. d.pc = "send" /\ d.round = drv[n].round /\ d.mine = drv[n].mine
    BY <2>1 DEF Driver
  <2>4. QED BY <2>1, <2>2, <2>3 DEF DriverShape
<1> HIDE DEF d
<1>3. QED BY <1>1, <1>2, DriverStep

(* The answer that a leader deals with.                                     *)
LEMMA AnswerType ==
    ASSUME TypeInv, NEW n \in Node, Answers(n)
    PROVE  /\ drv[n].peer \in Node /\ drv[n].resp \in Resp
           /\ drv[n].resp.term \in Term /\ drv[n].resp.match \in Index
<1>1. drv[n].pc = "wait" /\ drv[n].resp # NoCall
  BY DEF Answers, Waits
<1>2. drv[n].peer \in Node /\ drv[n].resp \in Resp
  BY <1>1, DriverParts DEF DriverShape
<1>3. QED BY <1>2 DEF Resp

LEMMA AnswerStepType ==
    ASSUME TypeInv, NEW n \in Node,
           CallFails(n) \/ AdoptTerm(n) \/ FollowerAccepts(n) \/ FollowerRefuses(n)
    PROVE  TypeInv'
<1>1. CASE CallFails(n)
  <2>1. drv' \in [Node -> Driver] /\ \A m \in Node : DriverShape(drv[m])'
    BY <1>1, NextFollowerType DEF CallFails
  <2>2. UNCHANGED <<log, term, commit, lastApplied, applied, tasks, next, match, reqs, polls,
                    winner, answered>>
    BY <1>1 DEF CallFails, logVars
  <2>3. QED BY <2>1, <2>2, TypeInvType, SameTasks, SameLogs, SameReqs, TypeInvNext
<1>2. CASE AdoptTerm(n)
  <2>1. drv' \in [Node -> Driver] /\ \A m \in Node : DriverShape(drv[m])'
    BY <1>2, NextFollowerType DEF AdoptTerm
  <2>2. term' \in [Node -> Term]
    BY <1>2, AnswerType, TypeInvType DEF AdoptTerm
  <2>3. UNCHANGED <<log, commit, lastApplied, applied, tasks, next, match, reqs, polls,
                    winner, answered>>
    BY <1>2 DEF AdoptTerm
  <2>4. QED BY <2>1, <2>2, <2>3, TypeInvType, SameTasks, SameLogs, SameReqs, TypeInvNext
<1>3. CASE FollowerAccepts(n)
  <2> DEFINE f == drv[n].peer
             r == drv[n].resp
  <2>1. drv' \in [Node -> Driver] /\ \A m \in Node : DriverShape(drv[m])'
    BY <1>3, NextFollowerType DEF FollowerAccepts
  <2>2. /\ f \in Node /\ r.match \in Index
    BY <1>3, AnswerType DEF FollowerAccepts
  <2>3. /\ match' = [match EXCEPT ![n][f] = r.match]
        /\ next' = [next EXCEPT ![n][f] = r.match + 1]
        /\ UNCHANGED <<log, term, commit, lastApplied, applied, tasks, reqs, polls,
                       winner, answered>>
    BY <1>3 DEF FollowerAccepts, logVars
  <2> HIDE DEF f, r
  <2>4. match' \in [Node -> [Node -> Index]]
    BY <2>2, <2>3, TypeInvType
  <2>5. r.match + 1 \in 1 .. MaxLog + 1
    BY <2>2, ConstantTypes
  <2>6. next' \in [Node -> [Node -> 1 .. MaxLog + 1]]
    BY <2>2, <2>3, <2>5, TypeInvType
  <2>7. QED BY <2>1, <2>3, <2>4, <2>6, TypeInvType, SameTasks, SameLogs, SameReqs, TypeInvNext
<1>4. CASE FollowerRefuses(n)
  <2> DEFINE f == drv[n].peer
             d == [drv[n] EXCEPT !.pc = "send", !.call = NoCall, !.resp = NoCall]
  <2>1. UNCHANGED <<log, term, commit, lastApplied, applied, tasks, match, reqs, polls,
                    winner, answered>>
    BY <1>4 DEF FollowerRefuses, logVars
  <2>2. f \in Node
    BY <1>4, AnswerType DEF FollowerRefuses
  <2>3. /\ next' \in [Node -> [Node -> 1 .. MaxLog + 1]]
        /\ drv' \in [Node -> Driver] /\ \A m \in Node : DriverShape(drv[m])'
    <3>1. CASE next[n][f] > 1
      <4>1. next' = [next EXCEPT ![n][f] = @ - 1] /\ drv' = [drv EXCEPT ![n] = d]
        BY <1>4, <3>1 DEF FollowerRefuses, BackOff
      <4>2. d \in Driver /\ DriverShape(d)
        <5>1. drv[n] \in Driver /\ DriverShape(drv[n])
          BY DriverParts
        <5>2. d \in Driver
          BY <5>1 DEF Driver, Label
        <5>3. d.pc = "send" /\ d.round = drv[n].round /\ d.mine = drv[n].mine
          BY <5>1 DEF Driver
        <5>4. QED BY <5>1, <5>2, <5>3 DEF DriverShape
      <4> HIDE DEF d, f
      <4>3. drv' \in [Node -> Driver] /\ \A m \in Node : DriverShape(drv[m])'
        BY <4>1, <4>2, DriverStep
      <4>4. next[n][f] - 1 \in 1 .. MaxLog + 1
        <5>1. next[n][f] \in 1 .. MaxLog + 1
          BY <2>2, TypeInvType
        <5>2. QED BY <3>1, <5>1, ConstantTypes
      <4>5. next' \in [Node -> [Node -> 1 .. MaxLog + 1]]
        BY <4>1, <4>4, <2>2, TypeInvType
      <4>6. QED BY <4>3, <4>5
    <3>2. CASE ~(next[n][f] > 1)
      <4>1. UNCHANGED next /\ NextFollower(n)
        BY <1>4, <3>2 DEF FollowerRefuses
      <4>2. QED BY <4>1, NextFollowerType, TypeInvType
    <3>3. QED BY <3>1, <3>2
  <2>4. QED BY <2>1, <2>3, TypeInvType, SameTasks, SameLogs, SameReqs, TypeInvNext
<1>5. QED BY <1>1, <1>2, <1>3, <1>4

LEMMA ReplicatedFacts ==
    ASSUME TypeInv, NEW n \in Node, Replicated(n) # {}
    PROVE  Max(Replicated(n)) \in Replicated(n) /\ Max(Replicated(n)) \in Index
<1>1. Len(log[n]) \in Index /\ commit[n] \in Index
  BY TypeInvType
<1>2. Replicated(n) \in SUBSET (0 .. MaxLog)
  BY <1>1, ConstantTypes DEF Replicated
<1>3. QED BY <1>2, MaxIsGreatest, ConstantTypes

LEMMA ChooseStepType ==
    ASSUME TypeInv, NEW n \in Node, ChooseCommit(n)
    PROVE  TypeInv'
<1> DEFINE d == IF Replicated(n) = {} THEN [drv[n] EXCEPT !.pc = "end"]
                ELSE [drv[n] EXCEPT !.pc = "commit", !.target = Max(Replicated(n))]
<1>1. drv' = [drv EXCEPT ![n] = d]
      /\ UNCHANGED <<logVars, applied, tasks, next, match, reqs, polls, winner, answered>>
  BY DEF ChooseCommit
<1>2. drv[n] \in Driver /\ DriverShape(drv[n])
  BY DriverParts
<1>3. d \in Driver /\ d.pc # "wait" /\ d.round = drv[n].round /\ d.mine = drv[n].mine
  <2>1. CASE Replicated(n) = {}
    BY <1>2, <2>1 DEF Driver, Label
  <2>2. CASE Replicated(n) # {}
    <3>1. Max(Replicated(n)) \in Index
      BY <2>2, ReplicatedFacts
    <3>2. QED BY <1>2, <2>2, <3>1 DEF Driver, Label
  <2>3. QED BY <2>1, <2>2
<1>4. DriverShape(d)
  BY <1>2, <1>3 DEF DriverShape
<1> HIDE DEF d
<1>5. QED BY <1>1, <1>3, <1>4, DriverOnly

(* The entries taken for application.                                       *)
LEMMA UnappliedFacts ==
    ASSUME NEW l \in Seq(Entry), Indexed(l), NEW from \in Index, NEW to \in Index,
           to <= Len(l) \/ to <= from
    PROVE  LET u == Unapplied(l, from, to) IN
           /\ u \in Seq(Entry)
           /\ Len(u) = IF from < to THEN to - from ELSE 0
           /\ \A i \in 1 .. Len(u) : u[i] = l[from + i] /\ u[i].index = from + i
           /\ u # <<>> => Consecutive(u)
<1> DEFINE u == Unapplied(l, from, to)
<1>0. Len(l) \in Nat /\ from \in Nat /\ to \in Nat
  BY LenProperties, ConstantTypes
<1>1. \A i \in from + 1 .. to : i \in 1 .. Len(l) /\ l[i] \in Entry
  BY <1>0, ElementOfSeq
<1>2. /\ u \in Seq(Entry)
      /\ Len(u) = IF from + 1 <= to THEN to - (from + 1) + 1 ELSE 0
      /\ \A i \in 1 .. to - (from + 1) + 1 : u[i] = l[from + 1 + i - 1]
  <2>1. from + 1 \in Int /\ to \in Int
    BY <1>0
  <2>2. \A i \in from + 1 .. to : l[i] \in Entry
    BY <1>1
  <2>3. QED BY <2>1, <2>2, SubSeqProperties DEF Unapplied
<1> HIDE DEF u
<1>3. Len(u) = IF from < to THEN to - from ELSE 0
  BY <1>0, <1>2
<1>4. ASSUME NEW i \in 1 .. Len(u) PROVE u[i] = l[from + i] /\ u[i].index = from + i
  <2>1. from < to /\ i \in 1 .. to - from
    BY <1>0, <1>3
  <2>2. u[i] = l[from + i] /\ from + i \in from + 1 .. to
    BY <1>0, <1>2, <2>1
  <2>3. QED BY <1>1, <2>2 DEF Indexed
<1>5. ASSUME u # <<>> PROVE Consecutive(u)
  <2>1. Len(u) \in Nat /\ Len(u) # 0
    BY <1>2, <1>5, EmptySeq
  <2>2. u[1].index = from + 1
    BY <1>4, <2>1
  <2>3. QED BY <1>0, <1>4, <1>5, <2>1, <2>2 DEF Consecutive
<1>6. QED BY <1>2, <1>3, <1>4, <1>5 DEF u

LEMMA LargerType ==
    /\ \A a, b \in Index : /\ Larger(a, b) \in Index /\ Smaller(a, b) \in Index
                           /\ Larger(a, b) >= a /\ Larger(a, b) >= b
                           /\ Smaller(a, b) <= a /\ Smaller(a, b) <= b
BY ConstantTypes DEF Larger, Smaller

(* A new task is put to those of a node.                                    *)
LEMMA AddTaskType ==
    ASSUME TypeInv, NEW n \in Node, NEW k \in Task, TaskShape(n, k), UNCHANGED reqs,
           tasks' = [tasks EXCEPT ![n] = @ \cup {k}]
    PROVE  /\ tasks' \in [Node -> SUBSET Task]
           /\ \A m \in Node : \A j \in tasks'[m] : TaskShape(m, j)'
<1>1. tasks \in [Node -> SUBSET Task] /\ \A m \in Node : \A j \in tasks[m] : TaskShape(m, j)
  BY DEF TypeInv
<1>2. \A m \in Node : \A j \in tasks'[m] : j \in tasks[m] \/ (m = n /\ j = k)
  BY <1>1
<1>3. \A m \in Node : \A j \in tasks'[m] : TaskShape(m, j)
  BY <1>1, <1>2
<1>4. tasks' \in [Node -> SUBSET Task]
  BY <1>1
<1>5. QED BY <1>3, <1>4 DEF TaskShape

LEMMA LeaderCommitType ==
    ASSUME TypeInv, NEW n \in Node, LeaderCommit(n)
    PROVE  TypeInv'
<1> DEFINE i == drv[n].target
           todo == Unapplied(log[n], lastApplied[n], i)
           k == [todo |-> todo, call |-> NoCall, resp |-> NoCall]
<1>1. /\ log[n] \in Seq(Entry) /\ Indexed(log[n]) /\ lastApplied[n] \in Index /\ i \in Index
      /\ drv[n] \in Driver /\ DriverShape(drv[n]) /\ commit[n] \in Index
  BY TypeInvType, DriverParts DEF TypeInv
<1>2. UNCHANGED <<log, term, applied, next, match, reqs, polls, winner, answered>>
  BY DEF LeaderCommit
<1>3. /\ commit' \in [Node -> Index] /\ lastApplied' \in [Node -> Index]
      /\ \A m \in Node : commit'[m] <= lastApplied'[m]
  <2>1. CASE Committable(n, i)
    <3>1. commit' = [commit EXCEPT ![n] = i]
          /\ lastApplied' = [lastApplied EXCEPT ![n] = Larger(@, i)]
      BY <2>1 DEF LeaderCommit, Taken
    <3> HIDE DEF i
    <3>2. Larger(lastApplied[n], i) \in Index /\ Larger(lastApplied[n], i) >= i
      BY <1>1, LargerType
    <3>3. QED BY <3>1, <3>2, <1>1, TypeInvType, ConstantTypes
  <2>2. CASE ~Committable(n, i)
    <3>1. UNCHANGED <<commit, lastApplied>>
      BY <2>2 DEF LeaderCommit
    <3>2. QED BY <3>1, TypeInvType
  <2>3. QED BY <2>1, <2>2
<1>4. ASSUME NEW p \in {"apply", "end"}
      PROVE  [drv[n] EXCEPT !.pc = p] \in Driver /\ DriverShape([drv[n] EXCEPT !.pc = p])
  BY <1>1 DEF Driver, Label, DriverShape
<1>5. /\ drv' \in [Node -> Driver] /\ \A m \in Node : DriverShape(drv[m])'
      /\ tasks' \in [Node -> SUBSET Task]
      /\ \A m \in Node : \A j \in tasks'[m] : TaskShape(m, j)'
  <2>1. CASE Committable(n, i) /\ todo # <<>>
    <3>1. tasks' = [tasks EXCEPT ![n] = @ \cup {k}] /\ drv' = [drv EXCEPT ![n].pc = "apply"]
      BY <2>1 DEF LeaderCommit
    <3>2. drv' = [drv EXCEPT ![n] = [drv[n] EXCEPT !.pc = "apply"]]
      BY <3>1
    <3>3. i <= Len(log[n])
      BY <2>1 DEF Committable, Knows
    <3>4. todo \in Seq(Entry) /\ Consecutive(todo)
      BY <1>1, <2>1, <3>3, UnappliedFacts
    <3>5. k \in Task /\ TaskShape(n, k)
      <4> HIDE DEF todo
      <4>1. QED BY <3>4 DEF Task, TaskShape
    <3> HIDE DEF k
    <3>6. QED BY <1>2, <1>4, <3>1, <3>2, <3>5, AddTaskType, DriverStep
  <2>2. CASE ~(Committable(n, i) /\ todo # <<>>)
    <3>1. drv' = [drv EXCEPT ![n].pc = "end"] /\ UNCHANGED tasks
      BY <2>2 DEF LeaderCommit
    <3>2. drv' = [drv EXCEPT ![n] = [drv[n] EXCEPT !.pc = "end"]]
      BY <3>1
    <3>3. QED BY <1>2, <1>4, <3>1, <3>2, SameTasks, DriverStep
  <2>3. QED BY <2>1, <2>2
<1>6. QED BY <1>2, <1>3, <1>5, TypeInvType, SameLogs, SameReqs, TypeInvNext

(* The leader's task is over, and it has had as many heartbeats as before.  *)
LEMMA IdleType ==
    ASSUME NEW b \in Nat
    PROVE  /\ [Off EXCEPT !.pc = "idle", !.beats = b] \in Driver
           /\ DriverShape([Off EXCEPT !.pc = "idle", !.beats = b])
<1> DEFINE d == [Off EXCEPT !.pc = "idle", !.beats = b]
<1>1. Off \in Driver
  BY OffType
<1>2. d \in Driver
  BY <1>1 DEF Driver, Label
<1>3. d.pc = "idle" /\ d.round = 0
  BY DEF Off
<1>4. QED BY <1>2, <1>3 DEF DriverShape

LEMMA EndRoundType ==
    ASSUME TypeInv, NEW n \in Node, EndRound(n)
    PROVE  TypeInv'
<1> DEFINE d == drv[n]
           again == [d EXCEPT !.pc = "send", !.todo = Node \ {n}, !.commit = commit[n],
                              !.round = 2]
           over == [Off EXCEPT !.pc = "idle", !.beats = d.beats]
<1>1. /\ drv' = [drv EXCEPT ![n] = again] \/ drv' = [drv EXCEPT ![n] = over]
      /\ UNCHANGED <<log, term, commit, lastApplied, applied, tasks, next, match, reqs,
                     polls, winner>>
  BY DEF EndRound, logVars
<1>2. answered' = answered
      \/ (answered' = answered \cup {d.mine} /\ (d.round = 1 \/ d.mine # NoCall))
  BY DEF EndRound
<1>3. /\ d \in Driver /\ DriverShape(d) /\ d.beats \in Nat /\ commit[n] \in Index
      /\ d.mine \in Entry \cup {NoCall}
  BY TypeInvType, DriverParts
<1>4. over \in Driver /\ DriverShape(over)
  BY <1>3, IdleType
<1>5. again \in Driver /\ again.pc = "send" /\ again.round = 2
  <2>1. 2 \in 0 .. 2 /\ Node \ {n} \in SUBSET Node /\ "send" \in Label
    BY DEF Label
  <2>2. QED BY <2>1, <1>3 DEF Driver
<1>6. DriverShape(again)
  BY <1>5 DEF DriverShape
<1>7. answered' \subseteq Entry
  BY <1>2, <1>3, TypeInvType DEF DriverShape
<1> HIDE DEF again, over
<1>8. drv' \in [Node -> Driver] /\ \A m \in Node : DriverShape(drv[m])'
  BY <1>1, <1>4, <1>5, <1>6, DriverStep
<1>9. QED BY <1>1, <1>7, <1>8, TypeInvType, SameTasks, SameLogs, SameReqs, TypeInvNext

(* What handle_append_entries does when the request fits.                   *)
LEMMA AppendFacts ==
    ASSUME TypeInv, NEW n \in Node, NEW q \in reqs, PrevMatches(n, q)
    PROVE  LET l == Splice(log[n], q.prevIndex, q.entries)
               c == IF q.commit > commit[n] THEN Smaller(q.commit, Len(l)) ELSE commit[n]
           IN /\ q \in Req /\ q.term \in Term /\ q.prevIndex \in 0 .. Len(log[n])
              /\ q.entries \in Seq(Entry) /\ q.commit \in Index
              /\ l \in Seq(Entry) /\ Indexed(l) /\ Len(l) \in Index
              /\ c \in Index /\ (c <= Len(l) \/ c = commit[n])
<1> DEFINE l == Splice(log[n], q.prevIndex, q.entries)
           c == IF q.commit > commit[n] THEN Smaller(q.commit, Len(l)) ELSE commit[n]
           k == Keep(log[n], q.prevIndex, q.entries)
<1>1. /\ q \in Req /\ q.term \in Term /\ q.entries \in Seq(Entry) /\ q.commit \in Index
      /\ q.prevIndex \in Index /\ Follows(q)
  BY TypeInvType DEF Req, TypeInv
<1>2. /\ log[n] \in Seq(Entry) /\ Indexed(log[n]) /\ Len(log[n]) \in Index /\ commit[n] \in Index
  BY TypeInvType DEF TypeInv
<1>3. q.prevIndex \in 0 .. Len(log[n])
  BY <1>1, <1>2, ConstantTypes DEF PrevMatches, Knows
<1>4. k \in q.prevIndex .. Len(log[n])
  BY <1>1, <1>2, <1>3, KeepFacts
<1>5. /\ l \in Seq(Entry)
      /\ Len(l) = IF k < q.prevIndex + Len(q.entries) THEN q.prevIndex + Len(q.entries) ELSE k
      /\ \A i \in 1 .. k : l[i] = log[n][i]
      /\ \A i \in k + 1 .. Len(l) : l[i] = q.entries[i - q.prevIndex]
  BY <1>1, <1>2, <1>3, SpliceFacts
<1> HIDE DEF l, k
<1>6. Indexed(l)
  <2> SUFFICES ASSUME NEW i \in 1 .. Len(l) PROVE l[i].index = i
    BY DEF Indexed
  <2>0. k \in Nat /\ Len(q.entries) \in Nat /\ q.prevIndex \in Nat /\ Len(log[n]) \in Nat
    BY <1>1, <1>2, <1>4, LenProperties, ConstantTypes
  <2>1. CASE i <= k
    <3>1. i \in 1 .. k /\ i \in 1 .. Len(log[n])
      BY <2>0, <2>1, <1>4
    <3>2. QED BY <3>1, <1>2, <1>5 DEF Indexed
  <2>2. CASE i > k
    <3>1. i \in k + 1 .. Len(l) /\ i - q.prevIndex \in 1 .. Len(q.entries)
      BY <2>0, <2>2, <1>4, <1>5
    <3>2. l[i] = q.entries[i - q.prevIndex]
      BY <3>1, <1>5
    <3>3. q.entries[i - q.prevIndex].index = q.prevIndex + (i - q.prevIndex)
      BY <3>1, <1>1 DEF Follows
    <3>4. QED BY <3>1, <3>2, <3>3, <2>0
  <2>3. QED BY <2>0, <2>1, <2>2
<1>7. Len(l) \in Index
  BY <1>5, <1>6, LogLength
<1>8. c \in Index /\ (c <= Len(l) \/ c = commit[n])
  <2>1. CASE q.commit > commit[n]
    BY <2>1, <1>1, <1>2, <1>7, ConstantTypes DEF Smaller
  <2>2. CASE ~(q.commit > commit[n])
    BY <2>2, <1>2, ConstantTypes
  <2>3. QED BY <2>1, <2>2
<1>9. QED BY <1>1, <1>3, <1>5, <1>6, <1>7, <1>8 DEF l

LEMMA RefuseType ==
    ASSUME TypeInv, NEW n \in Node, NEW q \in reqs, RefuseStale(n, q) \/ RefuseMismatch(n, q)
    PROVE  TypeInv'
<1>1. q.term \in Term /\ term[n] \in Term /\ Len(log[n]) \in Index /\ 0 \in Index
  BY TypeInvType, ConstantTypes DEF Req
<1>2. CASE RefuseStale(n, q)
  <2> DEFINE r == [term |-> term[n], success |-> FALSE, match |-> Len(log[n])]
  <2>1. Reply(q, r)
        /\ UNCHANGED <<logVars, applied, tasks, next, match, reqs, polls, winner, answered>>
    BY <1>2 DEF RefuseStale
  <2>2. r \in Resp
    BY <1>1 DEF Resp
  <2> HIDE DEF r
  <2>3. drv' \in [Node -> Driver] /\ \A m \in Node : DriverShape(drv[m])'
    BY <2>1, <2>2, ReplyType
  <2>4. UNCHANGED <<log, term, commit, lastApplied, applied, tasks, next, match, reqs, polls,
                    winner, answered>>
    BY <2>1 DEF logVars
  <2>5. QED BY <2>3, <2>4, TypeInvType, SameTasks, SameLogs, SameReqs, TypeInvNext
<1>3. CASE RefuseMismatch(n, q)
  <2> DEFINE r == [term |-> q.term, success |-> FALSE, match |-> 0]
  <2>1. /\ Reply(q, r) /\ term' = [term EXCEPT ![n] = q.term]
        /\ UNCHANGED <<log, commit, lastApplied, applied, tasks, next, match, reqs,
                       polls, winner, answered>>
    BY <1>3 DEF RefuseMismatch
  <2>2. r \in Resp
    BY <1>1 DEF Resp
  <2> HIDE DEF r
  <2>3. drv' \in [Node -> Driver] /\ \A m \in Node : DriverShape(drv[m])'
    BY <2>1, <2>2, ReplyType
  <2>4. term' \in [Node -> Term]
    BY <2>1, <1>1, TypeInvType
  <2>5. QED BY <2>1, <2>3, <2>4, TypeInvType, SameTasks, SameLogs, SameReqs, TypeInvNext
<1>4. QED BY <1>2, <1>3

LEMMA AppendEntriesType ==
    ASSUME TypeInv, NEW n \in Node, NEW q \in reqs, AppendEntries(n, q)
    PROVE  TypeInv'
<1> DEFINE l == Splice(log[n], q.prevIndex, q.entries)
           c == IF q.commit > commit[n] THEN Smaller(q.commit, Len(l)) ELSE commit[n]
           todo == Unapplied(l, lastApplied[n], c)
           r == [term |-> q.term, success |-> TRUE, match |-> Len(l)]
           k == [todo |-> todo, call |-> q, resp |-> r]
           a == Larger(lastApplied[n], Smaller(c, Len(l)))
<1>1. /\ q.to = n /\ PrevMatches(n, q)
      /\ term' = [term EXCEPT ![n] = q.term]
      /\ log' = [log EXCEPT ![n] = l]
      /\ commit' = [commit EXCEPT ![n] = c]
      /\ lastApplied' = [lastApplied EXCEPT ![n] = a]
      /\ UNCHANGED <<applied, next, match, reqs, polls, winner, answered>>
  BY DEF AppendEntries, Taken
<1>2. \/ todo = <<>> /\ UNCHANGED tasks /\ Reply(q, r)
      \/ todo # <<>> /\ tasks' = [tasks EXCEPT ![n] = @ \cup {k}] /\ UNCHANGED drv
  BY DEF AppendEntries
<1>3. /\ q \in Req /\ q.term \in Term
      /\ l \in Seq(Entry) /\ Indexed(l) /\ Len(l) \in Index
      /\ c \in Index /\ (c <= Len(l) \/ c = commit[n])
  BY <1>1, AppendFacts
<1> HIDE DEF l, c
<1>4. lastApplied[n] \in Index /\ commit[n] \in Index /\ commit[n] <= lastApplied[n]
  BY TypeInvType
<1>5. a \in Index /\ c <= a
  BY <1>3, <1>4, ConstantTypes DEF Larger, Smaller
<1>6. r \in Resp
  BY <1>3 DEF Resp
<1>7. todo \in Seq(Entry) /\ (todo # <<>> => Consecutive(todo))
  <2>1. c <= Len(l) \/ c <= lastApplied[n]
    BY <1>3, <1>4, ConstantTypes
  <2>2. QED BY <1>3, <1>4, <2>1, UnappliedFacts
<1> HIDE DEF a, todo, r
<1>8. /\ drv' \in [Node -> Driver] /\ \A m \in Node : DriverShape(drv[m])'
      /\ tasks' \in [Node -> SUBSET Task]
      /\ \A m \in Node : \A j \in tasks'[m] : TaskShape(m, j)'
  <2>1. CASE todo = <<>>
    BY <2>1, <1>1, <1>2, <1>6, SameTasks, ReplyType
  <2>2. CASE todo # <<>>
    <3>1. k \in Task /\ TaskShape(n, k)
      BY <2>2, <1>1, <1>3, <1>6, <1>7 DEF Task, TaskShape
    <3> HIDE DEF k
    <3>2. tasks' = [tasks EXCEPT ![n] = @ \cup {k}] /\ UNCHANGED drv
      BY <1>2, <2>2
    <3>3. /\ tasks' \in [Node -> SUBSET Task]
          /\ \A m \in Node : \A j \in tasks'[m] : TaskShape(m, j)'
      BY <1>1, <3>1, <3>2, AddTaskType
    <3>4. QED BY <3>2, <3>3 DEF TypeInv, DriverShape
  <2>3. QED BY <2>1, <2>2
<1>9. /\ log' \in [Node -> Seq(Entry)] /\ \A m \in Node : Indexed(log[m])'
  BY <1>1, <1>3, TypeInvType DEF TypeInv, Indexed
<1>10. /\ term' \in [Node -> Term] /\ commit' \in [Node -> Index]
       /\ lastApplied' \in [Node -> Index]
       /\ \A m \in Node : commit'[m] <= lastApplied'[m]
  BY <1>1, <1>3, <1>5, TypeInvType
<1>11. QED BY <1>1, <1>8, <1>9, <1>10, TypeInvType, SameReqs, TypeInvNext

(* A task of a node is replaced by those of R.                              *)
LEMMA ReplaceTaskType ==
    ASSUME TypeInv, NEW n \in Node, NEW k, NEW R \in SUBSET Task, UNCHANGED reqs,
           \A j \in R : TaskShape(n, j),
           tasks' = [tasks EXCEPT ![n] = (@ \ {k}) \cup R]
    PROVE  /\ tasks' \in [Node -> SUBSET Task]
           /\ \A m \in Node : \A j \in tasks'[m] : TaskShape(m, j)'
<1>1. tasks \in [Node -> SUBSET Task] /\ \A m \in Node : \A j \in tasks[m] : TaskShape(m, j)
  BY DEF TypeInv
<1>2. \A m \in Node : \A j \in tasks'[m] : j \in tasks[m] \/ (m = n /\ j \in R)
  BY <1>1
<1>3. \A m \in Node : \A j \in tasks'[m] : TaskShape(m, j)
  BY <1>1, <1>2
<1>4. tasks' \in [Node -> SUBSET Task]
  BY <1>1
<1>5. QED BY <1>3, <1>4 DEF TaskShape

(* What is left of a task when its first entry was applied.                 *)
LEMMA RestOfTask ==
    ASSUME TypeInv, NEW n \in Node, NEW k \in tasks[n]
    PROVE  /\ k \in Task /\ TaskShape(n, k) /\ k.todo \in Seq(Entry) /\ k.todo # <<>>
           /\ Len(k.todo) \in Nat \ {0}
           /\ Head(k.todo) = k.todo[1] /\ k.todo[1] \in Entry
           /\ Tail(k.todo) \in Seq(Entry) /\ Len(Tail(k.todo)) = Len(k.todo) - 1
           /\ \A i \in 1 .. Len(k.todo) - 1 : Tail(k.todo)[i] = k.todo[i + 1]
           /\ Tail(k.todo) # <<>> => /\ [k EXCEPT !.todo = Tail(k.todo)] \in Task
                                     /\ TaskShape(n, [k EXCEPT !.todo = Tail(k.todo)])
<1>1. k \in Task /\ TaskShape(n, k)
  BY DEF TypeInv
<1>2. k.todo \in Seq(Entry) /\ k.todo # <<>>
  BY <1>1 DEF Task, TaskShape, Consecutive
<1>3. Len(k.todo) \in Nat \ {0}
  BY <1>2, EmptySeq, LenProperties
<1>4. k.todo[1] \in Entry /\ Head(k.todo) = k.todo[1]
  BY <1>2, <1>3, ElementOfSeq
<1>5. /\ Tail(k.todo) \in Seq(Entry) /\ Len(Tail(k.todo)) = Len(k.todo) - 1
      /\ \A i \in 1 .. Len(k.todo) - 1 : Tail(k.todo)[i] = k.todo[i + 1]
  BY <1>2, HeadTailProperties
<1>6. ASSUME Tail(k.todo) # <<>>
      PROVE  /\ [k EXCEPT !.todo = Tail(k.todo)] \in Task
             /\ TaskShape(n, [k EXCEPT !.todo = Tail(k.todo)])
  <2> DEFINE s == Tail(k.todo)
             j == [k EXCEPT !.todo = s]
  <2>1. Consecutive(s)
    <3>1. Len(s) \in Nat /\ Len(s) # 0
      BY <1>5, <1>6, EmptySeq
    <3>2. \A i \in 1 .. Len(k.todo) : k.todo[i].index = k.todo[1].index + (i - 1)
      BY <1>1 DEF TaskShape, Consecutive
    <3>3. k.todo[1].index \in Int
      BY <1>4, ConstantTypes DEF Entry
    <3>4. ASSUME NEW i \in 1 .. Len(s) PROVE s[i].index = s[1].index + (i - 1)
      <4>1. s[i] = k.todo[i + 1] /\ s[1] = k.todo[1 + 1] /\ i + 1 \in 1 .. Len(k.todo)
            /\ 1 + 1 \in 1 .. Len(k.todo)
        BY <1>3, <1>5, <3>1
      <4>2. s[i].index = k.todo[1].index + (i + 1 - 1)
            /\ s[1].index = k.todo[1].index + (1 + 1 - 1)
        BY <3>2, <4>1
      <4>3. QED BY <3>3, <4>2
    <3>5. QED BY <1>6, <3>4 DEF Consecutive
  <2>2. j \in Task /\ j.todo = s /\ j.call = k.call /\ j.resp = k.resp
    BY <1>1, <1>5 DEF Task
  <2>3. QED BY <1>1, <2>1, <2>2 DEF TaskShape
<1>7. QED BY <1>1, <1>2, <1>3, <1>4, <1>5, <1>6

LEMMA ApplyStepType ==
    ASSUME TypeInv, NEW n \in Node, NEW k \in tasks[n], ApplyEntry(n, k) \/ ApplyFails(n, k)
    PROVE  TypeInv'
<1>0. k \in Task /\ TaskShape(n, k) /\ drv[n] \in Driver /\ DriverShape(drv[n])
      /\ drv[n].beats \in Nat
  BY RestOfTask, DriverParts
<1>1. CASE ApplyEntry(n, k)
  <2> DEFINE rest == Tail(k.todo)
             R == IF rest = <<>> THEN {} ELSE {[k EXCEPT !.todo = rest]}
  <2>1. /\ applied' = [applied EXCEPT ![n] = Append(@, Head(k.todo))]
        /\ tasks' = [tasks EXCEPT ![n] = (@ \ {k}) \cup R]
        /\ IF rest = <<>> THEN Finish(n, k) ELSE UNCHANGED drv
        /\ UNCHANGED <<log, term, commit, lastApplied, next, match, reqs, polls, winner, answered>>
    BY <1>1 DEF ApplyEntry, logVars
  <2>2. R \in SUBSET Task /\ \A j \in R : TaskShape(n, j)
    BY RestOfTask
  <2>3. /\ tasks' \in [Node -> SUBSET Task]
        /\ \A m \in Node : \A j \in tasks'[m] : TaskShape(m, j)'
    <3> HIDE DEF R
    <3>1. QED BY <2>1, <2>2, ReplaceTaskType
  <2>4. applied' \in [Node -> Seq(Entry)]
    <3>1. Append(applied[n], Head(k.todo)) \in Seq(Entry)
      <4>1. applied[n] \in Seq(Entry) /\ Head(k.todo) \in Entry
        BY RestOfTask, TypeInvType
      <4>2. QED BY <4>1, AppendProperties
    <3>2. QED BY <2>1, <3>1, TypeInvType
  <2>5. drv' \in [Node -> Driver] /\ \A m \in Node : DriverShape(drv[m])'
    <3>1. CASE rest # <<>>
      BY <2>1, <3>1 DEF TypeInv, DriverShape
    <3>2. CASE rest = <<>> /\ k.call = NoCall
      <4> DEFINE d == [drv[n] EXCEPT !.pc = "end"]
      <4>1. drv' = [drv EXCEPT ![n] = d]
        BY <2>1, <3>2 DEF Finish
      <4>2. d \in Driver /\ DriverShape(d)
        BY <1>0 DEF Driver, Label, DriverShape
      <4> HIDE DEF d
      <4>3. QED BY <4>1, <4>2, DriverStep
    <3>3. CASE rest = <<>> /\ k.call # NoCall
      <4>1. Reply(k.call, k.resp) /\ k.resp \in Resp
        BY <1>0, <2>1, <3>3 DEF Finish, TaskShape
      <4>2. QED BY <4>1, ReplyType
    <3>4. QED BY <3>1, <3>2, <3>3
  <2>6. QED BY <2>1, <2>3, <2>4, <2>5, TypeInvType, SameLogs, SameReqs, TypeInvNext
<1>2. CASE ApplyFails(n, k)
  <2> DEFINE d == [Off EXCEPT !.pc = "idle", !.beats = drv[n].beats]
  <2>1. /\ tasks' = [tasks EXCEPT ![n] = (@ \ {k}) \cup {}]
        /\ UNCHANGED drv \/ drv' = [drv EXCEPT ![n] = d]
        /\ UNCHANGED <<log, term, commit, lastApplied, applied, next, match, reqs, polls,
                       winner, answered>>
    BY <1>2 DEF ApplyFails, logVars
  <2>2. /\ tasks' \in [Node -> SUBSET Task]
        /\ \A m \in Node : \A j \in tasks'[m] : TaskShape(m, j)'
    <3> HIDE DEF d
    <3>1. {} \in SUBSET Task /\ \A j \in {} : TaskShape(n, j)
      OBVIOUS
    <3>2. tasks' = [tasks EXCEPT ![n] = (@ \ {k}) \cup {}] /\ UNCHANGED reqs
      BY <2>1
    <3>3. QED BY <3>1, <3>2, ReplaceTaskType
  <2>3. d \in Driver /\ DriverShape(d)
    BY <1>0, IdleType
  <2> HIDE DEF d
  <2>4. drv' \in [Node -> Driver] /\ \A m \in Node : DriverShape(drv[m])'
    <3>1. CASE UNCHANGED drv
      BY <3>1 DEF TypeInv, DriverShape
    <3>2. CASE drv' = [drv EXCEPT ![n] = d]
      BY <2>3, <3>2, DriverStep
    <3>3. QED BY <2>1, <3>1, <3>2
  <2>5. QED BY <2>1, <2>2, <2>4, TypeInvType, SameLogs, SameReqs, TypeInvNext
<1>3. QED BY <1>1, <1>2

LEMMA TypeStep == TypeInv /\ [Next]_vars => TypeInv'
<1> SUFFICES ASSUME TypeInv, [Next]_vars PROVE TypeInv'
  OBVIOUS
<1>1. ASSUME NEW n \in Node, LeaderStep(n) PROVE TypeInv'
  BY <1>1, SendType, AnswerStepType, ChooseStepType, LeaderCommitType, EndRoundType
     DEF LeaderStep
<1>2. CASE UNCHANGED vars
  <2>1. UNCHANGED <<log, term, commit, lastApplied, applied, tasks, next, match, drv, reqs,
                    polls, winner, answered>>
    BY <1>2 DEF vars, logVars, leaderVars
  <2>2. drv' \in [Node -> Driver] /\ \A m \in Node : DriverShape(drv[m])'
    BY <2>1 DEF TypeInv, DriverShape
  <2>3. QED BY <2>1, <2>2, TypeInvType, SameTasks, SameLogs, SameReqs, TypeInvNext
<1>3. QED BY <1>1, <1>2, ElectionType, AppendStepType, HeartbeatType, ApplyStepType, RefuseType,
             AppendEntriesType DEF Next, ApplyStep

(* Every state has the types of TypeOK, in every mode.                      *)
THEOREM TypeCorrect == Spec => []TypeOK
<1>1. Init => TypeInv
  BY InitType
<1>2. TypeInv /\ [Next]_vars => TypeInv'
  BY TypeStep
<1>3. TypeInv => TypeOK
  BY DEF TypeInv
<1>4. QED BY <1>1, <1>2, <1>3, PTL DEF Spec

-----------------------------------------------------------------------------
(* No index is applied twice.  last_applied moves past the entries when they *)
(* are taken, under the lock: so whatever was taken before lies below what   *)
(* is taken later, however the tasks interleave and whatever becomes of them. *)

Indices(s) == {s[i].index : i \in 1 .. Len(s)}

(* What was applied, and what will be, was taken.                           *)
TakenOnly ==
    \A n \in Node : /\ \A x \in Indices(applied[n]) : x <= lastApplied[n]
                    /\ \A k \in tasks[n] : \A x \in Indices(k.todo) : x <= lastApplied[n]

(* Nothing that will be applied was applied, and no two tasks share an index. *)
TasksApart ==
    \A n \in Node : \A k \in tasks[n] :
        /\ \A x \in Indices(k.todo) : x \notin Indices(applied[n])
        /\ \A j \in tasks[n] : j # k => \A x \in Indices(k.todo) : x \notin Indices(j.todo)

OnceInv == NeverAppliedTwice /\ TakenOnly /\ TasksApart

LEMMA IndicesType ==
    ASSUME NEW s \in Seq(Entry)
    PROVE  Indices(s) \subseteq Nat
<1>1. \A i \in 1 .. Len(s) : s[i] \in Entry
  BY ElementOfSeq
<1>2. QED BY <1>1, ConstantTypes DEF Indices, Entry

(* A step that takes the entries from `from` on for a task, or none.        *)
LEMMA OnceTake ==
    ASSUME TypeInv, OnceInv, NEW n \in Node, NEW a \in Index, lastApplied[n] <= a,
           lastApplied' = [lastApplied EXCEPT ![n] = a], UNCHANGED applied,
           \/ UNCHANGED tasks
           \/ \E k \in Task : /\ tasks' = [tasks EXCEPT ![n] = @ \cup {k}]
                              /\ \A x \in Indices(k.todo) : lastApplied[n] < x /\ x <= a
    PROVE  OnceInv'
<1>0. /\ lastApplied \in [Node -> Index] /\ tasks \in [Node -> SUBSET Task]
      /\ applied \in [Node -> Seq(Entry)]
  BY TypeInvType
<1>1. \A m \in Node : lastApplied[m] <= lastApplied'[m] /\ lastApplied'[m] \in Nat
                      /\ lastApplied[m] \in Nat
  BY <1>0, ConstantTypes
<1>2. \A m \in Node : Indices(applied[m]) \subseteq Nat /\ Indices(applied'[m]) = Indices(applied[m])
  BY <1>0, IndicesType
<1>3. \A m \in Node : \A k \in tasks[m] : Indices(k.todo) \subseteq Nat
  BY <1>0, IndicesType DEF Task
<1>4. CASE UNCHANGED tasks
  <2>1. TakenOnly'
    <3> SUFFICES ASSUME NEW m \in Node
                 PROVE  /\ \A x \in Indices(applied[m]) : x <= lastApplied'[m]
                        /\ \A k \in tasks[m] : \A x \in Indices(k.todo) : x <= lastApplied'[m]
      BY <1>2, <1>4 DEF TakenOnly, Indices
    <3>1. QED BY <1>1, <1>2, <1>3 DEF OnceInv, TakenOnly
  <2>2. NeverAppliedTwice'
    BY DEF OnceInv, NeverAppliedTwice
  <2>3. TasksApart'
    <3> SUFFICES ASSUME NEW m \in Node, NEW i \in tasks'[m]
                 PROVE  /\ \A x \in Indices(i.todo) : x \notin Indices(applied'[m])
                        /\ \A j \in tasks'[m] :
                              j # i => \A x \in Indices(i.todo) : x \notin Indices(j.todo)
      BY DEF TasksApart, Indices
    <3>1. QED BY <1>2, <1>4 DEF OnceInv, TasksApart
  <2>4. QED BY <2>1, <2>2, <2>3 DEF OnceInv
<1>5. ASSUME NEW k \in Task, tasks' = [tasks EXCEPT ![n] = @ \cup {k}],
             \A x \in Indices(k.todo) : lastApplied[n] < x /\ x <= a
      PROVE  OnceInv'
  <2>1. \A m \in Node : \A j \in tasks'[m] : j \in tasks[m] \/ (m = n /\ j = k)
    BY <1>0, <1>5
  <2>2. Indices(k.todo) \subseteq Nat
    BY IndicesType DEF Task
  <2>3. TakenOnly'
    <3> SUFFICES ASSUME NEW m \in Node
                 PROVE  /\ \A x \in Indices(applied[m]) : x <= lastApplied'[m]
                        /\ \A j \in tasks'[m] : \A x \in Indices(j.todo) : x <= lastApplied'[m]
      BY <1>2 DEF TakenOnly, Indices
    <3>1. \A x \in Indices(applied[m]) : x <= lastApplied'[m]
      BY <1>1, <1>2 DEF OnceInv, TakenOnly
    <3>2. ASSUME NEW j \in tasks[m], NEW x \in Indices(j.todo) PROVE x <= lastApplied'[m]
      <4>1. x \in Nat /\ x <= lastApplied[m]
        BY <1>3 DEF OnceInv, TakenOnly
      <4>2. QED BY <4>1, <1>1
    <3>3. m = n => lastApplied'[m] = a
      BY <1>0
    <3>4. QED BY <3>1, <3>2, <3>3, <2>1, <1>5
  <2>4. TasksApart'
    <3>1. \A x \in Indices(k.todo) : x \notin Indices(applied[n])
      <4>1. \A x \in Indices(applied[n]) : x <= lastApplied[n]
        BY DEF OnceInv, TakenOnly
      <4>2. QED BY <4>1, <1>1, <1>2, <1>5, <2>2
    <3>2. \A j \in tasks[n] : \A x \in Indices(k.todo) : x \notin Indices(j.todo)
      <4>1. \A j \in tasks[n] : \A x \in Indices(j.todo) : x <= lastApplied[n]
        BY DEF OnceInv, TakenOnly
      <4>2. QED BY <4>1, <1>1, <1>3, <1>5, <2>2
    <3> SUFFICES ASSUME NEW m \in Node, NEW i \in tasks'[m]
                 PROVE  /\ \A x \in Indices(i.todo) : x \notin Indices(applied[m])
                        /\ \A j \in tasks'[m] :
                              j # i => \A x \in Indices(i.todo) : x \notin Indices(j.todo)
      BY <1>2 DEF TasksApart, Indices
    <3>3. QED BY <2>1, <3>1, <3>2 DEF OnceInv, TasksApart
  <2>5. NeverAppliedTwice'
    BY DEF OnceInv, NeverAppliedTwice
  <2>6. QED BY <2>3, <2>4, <2>5 DEF OnceInv
<1>6. QED BY <1>4, <1>5

LEMMA OnceApply ==
    ASSUME TypeInv, OnceInv, NEW n \in Node, NEW k \in tasks[n],
           ApplyEntry(n, k) \/ ApplyFails(n, k)
    PROVE  OnceInv'
<1> DEFINE rest == Tail(k.todo)
           e == Head(k.todo)
           j0 == [k EXCEPT !.todo = rest]
<1>0. /\ tasks \in [Node -> SUBSET Task] /\ applied \in [Node -> Seq(Entry)]
  BY TypeInvType
<1>1. /\ UNCHANGED lastApplied
      /\ \A m \in Node \ {n} : tasks'[m] = tasks[m] /\ applied'[m] = applied[m]
      /\ \A j \in tasks'[n] : (j \in tasks[n] /\ j # k) \/ (ApplyEntry(n, k) /\ rest # <<>> /\ j = j0)
  <2>1. CASE ApplyEntry(n, k)
    <3>1. /\ UNCHANGED lastApplied
          /\ applied' = [applied EXCEPT ![n] = Append(@, e)]
          /\ tasks' = [tasks EXCEPT ![n] = (@ \ {k}) \cup (IF rest = <<>> THEN {} ELSE {j0})]
      BY <2>1 DEF ApplyEntry, logVars
    <3> HIDE DEF rest, e, j0
    <3>2. QED BY <1>0, <2>1, <3>1
  <2>2. CASE ApplyFails(n, k)
    <3>1. UNCHANGED <<lastApplied, applied>> /\ tasks' = [tasks EXCEPT ![n] = @ \ {k}]
      BY <2>2 DEF ApplyFails, logVars
    <3>2. QED BY <1>0, <3>1
  <2>3. QED BY <2>1, <2>2
<1>2. /\ e = k.todo[1] /\ e \in Entry /\ rest \in Seq(Entry) /\ Len(rest) = Len(k.todo) - 1
      /\ Len(k.todo) \in Nat \ {0}
      /\ \A i \in 1 .. Len(k.todo) - 1 : rest[i] = k.todo[i + 1]
      /\ k \in Task /\ k.todo \in Seq(Entry)
      /\ \A i \in 1 .. Len(k.todo) : k.todo[i].index = k.todo[1].index + (i - 1)
  <2>1. /\ k \in Task /\ TaskShape(n, k) /\ k.todo \in Seq(Entry) /\ Len(k.todo) \in Nat \ {0}
        /\ e = k.todo[1] /\ k.todo[1] \in Entry
        /\ rest \in Seq(Entry) /\ Len(rest) = Len(k.todo) - 1
        /\ \A i \in 1 .. Len(k.todo) - 1 : rest[i] = k.todo[i + 1]
    BY RestOfTask
  <2> HIDE DEF e, rest
  <2>2. \A i \in 1 .. Len(k.todo) : k.todo[i].index = k.todo[1].index + (i - 1)
    BY <2>1 DEF TaskShape, Consecutive
  <2>3. QED BY <2>1, <2>2
<1>3. j0.todo = rest
  BY <1>2 DEF Task
<1>4. Indices(rest) \subseteq Indices(k.todo) /\ e.index \in Indices(k.todo)
      /\ e.index \notin Indices(rest)
  <2>1. \A i \in 1 .. Len(rest) : i + 1 \in 1 .. Len(k.todo) /\ rest[i] = k.todo[i + 1]
    BY <1>2
  <2>2. e.index \in Int
    BY <1>2, ConstantTypes DEF Entry
  <2>3. \A i \in 1 .. Len(rest) : rest[i].index = e.index + i
    <3> SUFFICES ASSUME NEW i \in 1 .. Len(rest) PROVE rest[i].index = e.index + i
      OBVIOUS
    <3>1. rest[i].index = e.index + (i + 1 - 1)
      BY <1>2, <2>1
    <3>2. QED BY <3>1, <2>2
  <2>4. Len(rest) \in Nat
    BY <1>2
  <2>5. QED BY <1>2, <2>1, <2>2, <2>3, <2>4 DEF Indices
<1>5. /\ \A x \in Indices(k.todo) : x <= lastApplied[n] /\ x \notin Indices(applied[n])
      /\ \A j \in tasks[n] : j # k => \A x \in Indices(k.todo) : x \notin Indices(j.todo)
  BY DEF OnceInv, TakenOnly, TasksApart
<1>6. /\ Indices(applied'[n]) \subseteq Indices(applied[n]) \cup {e.index}
      /\ ~ApplyEntry(n, k) => applied' = applied
      /\ \A x, y \in 1 .. Len(applied'[n]) :
            applied'[n][x].index = applied'[n][y].index => x = y
  <2>0. applied[n] \in Seq(Entry) /\ Len(applied[n]) \in Nat
    BY <1>0, LenProperties
  <2>1. CASE ~ApplyEntry(n, k)
    BY <2>1 DEF ApplyFails, OnceInv, NeverAppliedTwice
  <2>2. CASE ApplyEntry(n, k)
    <3>1. applied'[n] = Append(applied[n], e)
      BY <2>2, <1>0 DEF ApplyEntry
    <3> DEFINE s == applied[n]
               t == Append(s, e)
    <3>2. /\ Len(t) = Len(s) + 1 /\ t[Len(s) + 1] = e
          /\ \A i \in 1 .. Len(s) : t[i] = s[i]
      BY <1>2, <2>0, AppendProperties
    <3>3. e.index \notin Indices(s)
      BY <1>4, <1>5
    <3>4. \A x, y \in 1 .. Len(s) : s[x].index = s[y].index => x = y
      BY DEF OnceInv, NeverAppliedTwice
    <3> HIDE DEF s, t, e
    <3>5. \A i \in 1 .. Len(t) : (i \in 1 .. Len(s) /\ t[i] = s[i]) \/ (i = Len(s) + 1 /\ t[i] = e)
      BY <2>0, <3>2 DEF s
    <3>6. Indices(t) \subseteq Indices(s) \cup {e.index}
      BY <3>5 DEF Indices
    <3>7. \A x, y \in 1 .. Len(t) : t[x].index = t[y].index => x = y
      BY <3>3, <3>4, <3>5 DEF Indices
    <3>8. QED BY <2>2, <3>1, <3>6, <3>7 DEF s, t
  <2>3. QED BY <2>1, <2>2
<1> HIDE DEF rest, e, j0
<1>7. NeverAppliedTwice'
  <2> SUFFICES ASSUME NEW m \in Node
               PROVE  \A x, y \in 1 .. Len(applied'[m]) :
                         applied'[m][x].index = applied'[m][y].index => x = y
    BY DEF NeverAppliedTwice
  <2>1. CASE m = n
    BY <2>1, <1>6
  <2>2. CASE m # n
    BY <2>2, <1>1 DEF OnceInv, NeverAppliedTwice
  <2>3. QED BY <2>1, <2>2
<1>8. TakenOnly'
  <2> SUFFICES ASSUME NEW m \in Node
               PROVE  /\ \A x \in Indices(applied'[m]) : x <= lastApplied[m]
                      /\ \A j \in tasks'[m] : \A x \in Indices(j.todo) : x <= lastApplied[m]
    BY <1>1 DEF TakenOnly, Indices
  <2>1. CASE m = n
    BY <2>1, <1>1, <1>3, <1>4, <1>5, <1>6 DEF OnceInv, TakenOnly
  <2>2. CASE m # n
    BY <2>2, <1>1 DEF OnceInv, TakenOnly
  <2>3. QED BY <2>1, <2>2
<1>9. TasksApart'
  <2> SUFFICES ASSUME NEW m \in Node, NEW i \in tasks'[m]
               PROVE  /\ \A x \in Indices(i.todo) : x \notin Indices(applied'[m])
                      /\ \A j \in tasks'[m] :
                            j # i => \A x \in Indices(i.todo) : x \notin Indices(j.todo)
    BY DEF TasksApart, Indices
  <2>1. CASE m # n
    BY <2>1, <1>1 DEF OnceInv, TasksApart
  <2>2. CASE m = n
    <3>1. \A j \in tasks'[n] : j # j0 => j \in tasks[n] /\ j # k
      BY <1>1
    <3>2. ASSUME NEW j \in tasks[n], j # k
          PROVE  \A x \in Indices(j.todo) : x \notin Indices(applied'[n]) /\ x \notin Indices(rest)
      <4>1. \A x \in Indices(j.todo) : x \notin Indices(applied[n]) /\ x \notin Indices(k.todo)
        BY <3>2 DEF OnceInv, TasksApart
      <4>2. QED BY <4>1, <1>4, <1>6
    <3>3. \A x \in Indices(rest) : x \notin Indices(applied'[n])
      BY <1>4, <1>5, <1>6
    <3>4. CASE i = j0 /\ ~(i \in tasks[n] /\ i # k)
      BY <2>2, <3>1, <3>2, <3>3, <3>4, <1>3
    <3>5. CASE i \in tasks[n] /\ i # k
      <4>1. \A x \in Indices(i.todo) : x \notin Indices(applied'[n])
        BY <3>2, <3>5
      <4>2. ASSUME NEW j \in tasks'[n], j # i
            PROVE  \A x \in Indices(i.todo) : x \notin Indices(j.todo)
        <5>1. CASE j \in tasks[n]
          BY <3>5, <4>2, <5>1 DEF OnceInv, TasksApart
        <5>2. CASE j = j0
          BY <3>2, <3>5, <5>2, <1>3
        <5>3. QED BY <5>1, <5>2, <1>1
      <4>3. QED BY <2>2, <4>1, <4>2
    <3>6. QED BY <2>2, <3>1, <3>4, <3>5
  <2>3. QED BY <2>1, <2>2
<1>10. QED BY <1>7, <1>8, <1>9 DEF OnceInv

LEMMA OnceStep == TypeInv /\ OnceInv /\ [Next]_vars => OnceInv'
<1> SUFFICES ASSUME TypeInv, OnceInv, [Next]_vars PROVE OnceInv'
  OBVIOUS
<1>1. ASSUME UNCHANGED <<applied, tasks, lastApplied>> PROVE OnceInv'
  BY <1>1 DEF OnceInv, NeverAppliedTwice, TakenOnly, TasksApart, Indices
<1>2. ASSUME NEW n \in Node, LeaderCommit(n) PROVE OnceInv'
  <2> DEFINE i == drv[n].target
             todo == Unapplied(log[n], lastApplied[n], i)
             k == [todo |-> todo, call |-> NoCall, resp |-> NoCall]
             a == Larger(lastApplied[n], i)
  <2>1. CASE ~Committable(n, i)
    BY <1>1, <1>2, <2>1 DEF LeaderCommit
  <2>2. CASE Committable(n, i)
    <3>1. /\ log[n] \in Seq(Entry) /\ Indexed(log[n]) /\ lastApplied[n] \in Index /\ i \in Index
      BY TypeInvType, DriverParts DEF TypeInv
    <3>2. i <= Len(log[n])
      BY <2>2 DEF Committable, Knows
    <3>3. /\ todo \in Seq(Entry)
          /\ Len(todo) = IF lastApplied[n] < i THEN i - lastApplied[n] ELSE 0
          /\ \A h \in 1 .. Len(todo) : todo[h].index = lastApplied[n] + h
      BY <3>1, <3>2, UnappliedFacts
    <3>4. /\ lastApplied' = [lastApplied EXCEPT ![n] = a] /\ UNCHANGED applied
          /\ UNCHANGED tasks \/ tasks' = [tasks EXCEPT ![n] = @ \cup {k}]
      BY <1>2, <2>2 DEF LeaderCommit, Taken
    <3> HIDE DEF i, todo
    <3>5. a \in Index /\ lastApplied[n] <= a /\ i <= a
      BY <3>1, LargerType
    <3>6. k \in Task /\ k.todo = todo
      BY <3>3 DEF Task
    <3>7. \A x \in Indices(todo) : lastApplied[n] < x /\ x <= a
      BY <3>1, <3>3, <3>5, ConstantTypes DEF Indices
    <3> HIDE DEF a, k
    <3>8. QED BY <3>4, <3>5, <3>6, <3>7, OnceTake
  <2>3. QED BY <2>1, <2>2
<1>3. ASSUME NEW n \in Node, NEW q \in reqs, AppendEntries(n, q) PROVE OnceInv'
  <2> DEFINE l == Splice(log[n], q.prevIndex, q.entries)
             c == IF q.commit > commit[n] THEN Smaller(q.commit, Len(l)) ELSE commit[n]
             todo == Unapplied(l, lastApplied[n], c)
             r == [term |-> q.term, success |-> TRUE, match |-> Len(l)]
             k == [todo |-> todo, call |-> q, resp |-> r]
             a == Larger(lastApplied[n], Smaller(c, Len(l)))
  <2>1. /\ PrevMatches(n, q)
        /\ lastApplied' = [lastApplied EXCEPT ![n] = a]
        /\ UNCHANGED applied
        /\ UNCHANGED tasks \/ tasks' = [tasks EXCEPT ![n] = @ \cup {k}]
    BY <1>3 DEF AppendEntries, Taken
  <2>2. /\ q \in Req /\ q.term \in Term
        /\ l \in Seq(Entry) /\ Indexed(l) /\ Len(l) \in Index
        /\ c \in Index /\ (c <= Len(l) \/ c = commit[n])
    BY <2>1, AppendFacts
  <2> HIDE DEF l, c
  <2>3. lastApplied[n] \in Index /\ commit[n] \in Index /\ commit[n] <= lastApplied[n]
    BY TypeInvType
  <2>4. a \in Index /\ lastApplied[n] <= a /\ (lastApplied[n] < c => c <= a)
    BY <2>2, <2>3, ConstantTypes DEF Larger, Smaller
  <2>5. /\ todo \in Seq(Entry)
        /\ Len(todo) = IF lastApplied[n] < c THEN c - lastApplied[n] ELSE 0
        /\ \A h \in 1 .. Len(todo) : todo[h].index = lastApplied[n] + h
    <3>1. c <= Len(l) \/ c <= lastApplied[n]
      BY <2>2, <2>3, ConstantTypes
    <3>2. QED BY <2>2, <2>3, <3>1, UnappliedFacts
  <2> HIDE DEF a, todo
  <2>6. k \in Task /\ k.todo = todo
    BY <2>2, <2>5 DEF Task, Resp
  <2>7. \A x \in Indices(todo) : lastApplied[n] < x /\ x <= a
    <3> SUFFICES ASSUME NEW h \in 1 .. Len(todo)
                 PROVE  lastApplied[n] < todo[h].index /\ todo[h].index <= a
      BY DEF Indices
    <3>1. c \in Nat /\ a \in Nat /\ lastApplied[n] \in Nat
      BY <2>2, <2>3, <2>4, ConstantTypes
    <3>2. lastApplied[n] < c /\ h \in 1 .. c - lastApplied[n]
      BY <3>1, <2>5
    <3>3. todo[h].index = lastApplied[n] + h
      BY <2>5
    <3>4. QED BY <3>1, <3>2, <3>3, <2>4
  <2> HIDE DEF k
  <2>8. QED BY <2>1, <2>3, <2>4, <2>6, <2>7, OnceTake
<1>4. ASSUME LoseElection \/ \E n \in Node : TakeLead(n) PROVE OnceInv'
  BY <1>1, <1>4 DEF LoseElection, TakeLead, Vote
<1>5. ASSUME NEW n \in Node, LeaderAppend(n) \/ Heartbeat(n) PROVE OnceInv'
  BY <1>1, <1>5 DEF LeaderAppend, Heartbeat, logVars
<1>6. ASSUME NEW n \in Node, LeaderStep(n) PROVE OnceInv'
  BY <1>1, <1>2, <1>6 DEF LeaderStep, Send, CallFails, AdoptTerm, FollowerAccepts,
     FollowerRefuses, ChooseCommit, EndRound, logVars
<1>7. ASSUME NEW n \in Node, NEW q \in reqs, RefuseStale(n, q) \/ RefuseMismatch(n, q)
      PROVE  OnceInv'
  BY <1>1, <1>7 DEF RefuseStale, RefuseMismatch, logVars
<1>8. ASSUME UNCHANGED vars PROVE OnceInv'
  BY <1>1, <1>8 DEF vars, logVars
<1>9. QED BY <1>3, <1>4, <1>5, <1>6, <1>7, <1>8, OnceApply DEF Next, ApplyStep

(* No position of the log is applied twice on a node: in every mode, with   *)
(* any leaders, overlapping handlers and failing appliers.                  *)
THEOREM AppliedOnce == Spec => []NeverAppliedTwice
<1>1. Init => TypeInv /\ OnceInv
  <2> SUFFICES ASSUME Init PROVE OnceInv
    BY InitType
  <2>1. \A n \in Node : applied[n] = <<>> /\ tasks[n] = {}
    BY DEF Init
  <2>2. Len(<<>>) = 0
    BY EmptySeq
  <2>3. QED BY <2>1, <2>2 DEF OnceInv, NeverAppliedTwice, TakenOnly, TasksApart, Indices
<1>2. TypeInv /\ OnceInv /\ [Next]_vars => (TypeInv /\ OnceInv)'
  BY TypeStep, OnceStep
<1>3. OnceInv => NeverAppliedTwice
  BY DEF OnceInv
<1>4. QED BY <1>1, <1>2, <1>3, PTL DEF Spec
=============================================================================
