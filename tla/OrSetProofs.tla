---------------------------- MODULE OrSetProofs ----------------------------
(***************************************************************************)
(* The observed-remove set, for every number of devices, elements and      *)
(* insertions: type correctness, and that a replica holds exactly what it  *)
(* has heard of.                                                           *)
(*                                                                         *)
(* What is inductive speaks of one value of a set (Sound) and holds of     *)
(* every value a replica ever had, since any of them may be merged: the    *)
(* identifiers an entry holds are insertions of that element, every        *)
(* insertion heard of is held or a tombstone, and the tombstones are the   *)
(* insertions that a removal had seen.  Each operation keeps Sound, so the *)
(* order and the age of what is merged play no part.                       *)
(***************************************************************************)
EXTENDS OrSet, TLAPS

(* The tombstones are what the removals had seen, and each entry, with the  *)
(* tombstones, accounts for the insertions of its element.                  *)
Sound(r) ==
    /\ r.tombstones = r.removed
    /\ \A e \in Elem :
        /\ r.elements[e] \subseteq AddsOf(r, e)
        /\ AddsOf(r, e) \subseteq r.elements[e] \union r.tombstones
        /\ r.elements[e] = {} \/ Holds(r, e)

(* Nothing is known of identifiers that were not drawn. *)
Drawn(r, n) ==
    /\ r.tombstones \subseteq 1..n
    /\ \A e \in Elem : AddsOf(r, e) \subseteq 1..n

(* One identifier, one element. *)
Apart(r, s) ==
    \A e, x \in Elem : e # x => AddsOf(r, e) \intersect AddsOf(s, x) = {}

IInv ==
    /\ issued \in 0..MaxAdds
    /\ replica \in [Device -> copies]
    /\ copies \subseteq Replica
    /\ \A r \in copies : Sound(r) /\ Drawn(r, issued)
    /\ \A r, s \in copies : Apart(r, s)

---------------------------------------------------------------------------
(* What each operation returns. *)

LEMMA EmptySetIsSound ==
    EmptySet \in Replica /\ Sound(EmptySet) /\ Drawn(EmptySet, 0)
BY DEF EmptySet, Replica, Sound, Drawn, AddsOf, Holds

(* An identifier that no removal has seen makes its entry live. *)
LEMMA InsertKeepsSound ==
    ASSUME NEW r \in Replica, NEW e \in Elem, NEW t \in Tag,
           Sound(r), t \notin r.tombstones
    PROVE  WithInsert(r, e, t) \in Replica /\ Sound(WithInsert(r, e, t))
<1> DEFINE s == WithInsert(r, e, t)
<1>1. s \in Replica
  <2>1. r.elements \in [Elem -> SUBSET Tag] /\ r.adds \in SUBSET (Elem \X Tag)
    BY DEF Replica
  <2>2. [r.elements EXCEPT ![e] = r.elements[e] \union {t}] \in [Elem -> SUBSET Tag]
    BY <2>1
  <2>3. r.adds \union {<<e, t>>} \in SUBSET (Elem \X Tag)
    BY <2>1
  <2> QED
    BY <2>2, <2>3 DEF WithInsert, Replica
<1>2. /\ s.tombstones = r.tombstones
      /\ s.removed = r.removed
      /\ s.adds = r.adds \union {<<e, t>>}
      /\ \A x \in Elem : s.elements[x] = IF x = e THEN r.elements[x] \union {t}
                                                  ELSE r.elements[x]
  BY DEF WithInsert, Replica
<1>3. \A x \in Elem : AddsOf(s, x) = IF x = e THEN AddsOf(r, x) \union {t}
                                              ELSE AddsOf(r, x)
  BY <1>2 DEF AddsOf
<1> HIDE DEF s
<1>4. Sound(s)
  BY <1>2, <1>3 DEF Sound, Holds
<1> QED
  BY <1>1, <1>4 DEF s

(* An entry differs from the insertions of its element by tombstones only,   *)
(* so the tombstones grow by exactly the insertions the replica had heard of; *)
(* the entries that stay keep their live identifier, which is nobody else's.  *)
LEMMA RemovalKeepsSound ==
    ASSUME NEW r \in Replica, NEW E \in SUBSET Elem, Sound(r), Apart(r, r)
    PROVE  /\ Without(r, E) \in Replica
           /\ Sound(Without(r, E))
           /\ \A e \in Elem : AddsOf(Without(r, E), e) = AddsOf(r, e)
           /\ \A n \in Nat : Drawn(r, n) => Drawn(Without(r, E), n)
<1> DEFINE s == Without(r, E)
<1>1. s \in Replica
  <2>1. \A x \in Elem : r.elements[x] \in SUBSET Tag /\ AddsOf(r, x) \in SUBSET Tag
    BY DEF Replica, AddsOf
  <2>2. UNION {r.elements[x] : x \in E} \in SUBSET Tag
    BY <2>1
  <2>3. UNION {AddsOf(r, x) : x \in E} \in SUBSET Tag
    BY <2>1
  <2> QED
    BY <2>2, <2>3 DEF Without, Replica
<1>2. /\ s.tombstones = r.tombstones \union UNION {r.elements[x] : x \in E}
      /\ s.removed = r.removed \union UNION {AddsOf(r, x) : x \in E}
      /\ s.adds = r.adds
      /\ \A x \in Elem : s.elements[x] = IF x \in E THEN {} ELSE r.elements[x]
  BY DEF Without, Replica
<1>3. \A x \in Elem : AddsOf(s, x) = AddsOf(r, x)
  BY <1>2 DEF AddsOf
<1> HIDE DEF s
<1>4. s.tombstones = s.removed
  BY <1>2 DEF Sound
<1>5. ASSUME NEW x \in Elem
      PROVE  /\ s.elements[x] \subseteq AddsOf(s, x)
             /\ AddsOf(s, x) \subseteq s.elements[x] \union s.tombstones
  BY <1>2, <1>3 DEF Sound
<1>6. ASSUME NEW x \in Elem, s.elements[x] # {}
      PROVE  Holds(s, x)
  <2>1. x \notin E /\ s.elements[x] = r.elements[x]
    BY <1>2, <1>6
  <2>2. PICK t \in r.elements[x] : t \notin r.tombstones
    BY <1>6, <2>1 DEF Sound, Holds
  <2>3. \A e \in E : t \notin r.elements[e]
    BY <2>1, <2>2 DEF Sound, Apart
  <2> QED
    BY <1>2, <2>1, <2>2, <2>3 DEF Holds
<1>7. Sound(s)
  BY <1>4, <1>5, <1>6 DEF Sound
<1>8. ASSUME NEW n \in Nat, Drawn(r, n)
      PROVE  Drawn(s, n)
  <2>1. \A e \in E : r.elements[e] \subseteq 1..n
    BY <1>8 DEF Drawn, Sound
  <2> QED
    BY <1>2, <1>3, <1>8, <2>1 DEF Drawn
<1> QED
  BY <1>1, <1>3, <1>7, <1>8 DEF s

(* The union of two entries accounts for the union of the insertions, and   *)
(* the cleanup drops only what the tombstones account for.                  *)
LEMMA MergeKeepsSound ==
    ASSUME NEW r \in Replica, NEW s \in Replica, Sound(r), Sound(s)
    PROVE  /\ Merged(r, s) \in Replica
           /\ Sound(Merged(r, s))
           /\ \A e \in Elem :
                AddsOf(Merged(r, s), e) = AddsOf(r, e) \union AddsOf(s, e)
           /\ \A n \in Nat : Drawn(r, n) /\ Drawn(s, n) => Drawn(Merged(r, s), n)
<1> DEFINE m == Merged(r, s)
           both(e) == r.elements[e] \union s.elements[e]
           tombs == r.tombstones \union s.tombstones
<1>1. /\ m.tombstones = tombs
      /\ m.removed = r.removed \union s.removed
      /\ m.adds = r.adds \union s.adds
      /\ m.elements = [e \in Elem |-> IF both(e) \subseteq tombs THEN {} ELSE both(e)]
  BY DEF Merged, Retained
<1>2. m \in Replica
  <2>1. \A e \in Elem : both(e) \in SUBSET Tag
    BY DEF Replica
  <2>2. /\ tombs \in SUBSET Tag
        /\ r.removed \union s.removed \in SUBSET Tag
        /\ r.adds \union s.adds \in SUBSET (Elem \X Tag)
    BY DEF Replica
  <2>3. [e \in Elem |-> IF both(e) \subseteq tombs THEN {} ELSE both(e)]
          \in [Elem -> SUBSET Tag]
    BY <2>1
  <2> QED
    BY <2>2, <2>3 DEF Merged, Retained, Replica
<1>3. \A e \in Elem : AddsOf(m, e) = AddsOf(r, e) \union AddsOf(s, e)
  BY <1>1 DEF AddsOf
<1> HIDE DEF m
<1>4. ASSUME NEW e \in Elem
      PROVE  /\ m.elements[e] \subseteq AddsOf(m, e)
             /\ AddsOf(m, e) \subseteq m.elements[e] \union m.tombstones
             /\ m.elements[e] = {} \/ Holds(m, e)
  <2>1. m.elements[e] = IF both(e) \subseteq tombs THEN {} ELSE both(e)
    BY <1>1
  <2>2. both(e) \subseteq AddsOf(m, e) /\ AddsOf(m, e) \subseteq both(e) \union tombs
    BY <1>3 DEF Sound
  <2> QED
    BY <1>1, <2>1, <2>2 DEF Holds
<1>5. Sound(m)
  BY <1>1, <1>4 DEF Sound
<1>6. \A n \in Nat : Drawn(r, n) /\ Drawn(s, n) => Drawn(m, n)
  BY <1>1, <1>3 DEF Drawn
<1> QED
  BY <1>2, <1>3, <1>5, <1>6 DEF m

---------------------------------------------------------------------------
(* The invariant. *)

LEMMA InitHolds == Init => IInv
<1> SUFFICES ASSUME Init PROVE IInv
  OBVIOUS
<1>1. /\ issued = 0
      /\ copies = {EmptySet}
      /\ replica = [d \in Device |-> EmptySet]
  BY DEF Init
<1>2. 0 \in 0..MaxAdds
  BY MaxAddsAssumption
<1>3. Apart(EmptySet, EmptySet)
  BY DEF Apart, AddsOf, EmptySet
<1> QED
  BY <1>1, <1>2, <1>3, EmptySetIsSound DEF IInv

(* A step of one replica keeps the invariant when the new value is sound    *)
(* and shares no identifier of another element with any value there was.    *)
LEMMA BecomesKeeps ==
    ASSUME IInv, NEW d \in Device, NEW r \in Replica, Becomes(d, r),
           issued' \in 0..MaxAdds, issued <= issued',
           Sound(r), Drawn(r, issued'), Apart(r, r),
           \A s \in copies : Apart(r, s)
    PROVE  IInv'
<1>1. copies' = copies \union {r} /\ replica' = [replica EXCEPT ![d] = r]
  BY DEF Becomes
<1>2. replica' \in [Device -> copies']
  BY <1>1 DEF IInv
<1>3. \A s \in copies' : Sound(s) /\ Drawn(s, issued')
  <2>1. ASSUME NEW s \in copies
        PROVE  Drawn(s, issued')
    <3>1. 1..issued \subseteq 1..(issued')
      BY MaxAddsAssumption DEF IInv
    <3> QED
      BY <3>1 DEF IInv, Drawn
  <2> QED
    BY <1>1, <2>1 DEF IInv
<1>4. \A s, t \in copies' : Apart(s, t)
  <2>1. \A s \in copies : Apart(s, r)
    BY DEF Apart
  <2> QED
    BY <1>1, <2>1 DEF IInv
<1>5. copies' \subseteq Replica
  BY <1>1 DEF IInv
<1> QED
  BY <1>2, <1>3, <1>4, <1>5 DEF IInv

LEMMA NextKeeps == IInv /\ [Next]_vars => IInv'
<1> SUFFICES ASSUME IInv, [Next]_vars PROVE IInv'
  OBVIOUS
<1>1. /\ issued \in 0..MaxAdds
      /\ issued \in Nat
      /\ copies \subseteq Replica
      /\ \A d \in Device : replica[d] \in copies
      /\ \A r \in copies : Sound(r) /\ Drawn(r, issued)
      /\ \A r, s \in copies : Apart(r, s)
  BY MaxAddsAssumption DEF IInv
<1>2. ASSUME NEW d \in Device, NEW e \in Elem, Insert(d, e)
      PROVE  IInv'
  <2> DEFINE r == replica[d]
             t == issued + 1
             s == WithInsert(r, e, t)
  <2>1. /\ issued' = t
        /\ t \in Tag
        /\ t \in 0..MaxAdds
        /\ t \notin 1..issued
        /\ 1..issued \subseteq 1..t
        /\ t \in 1..t
        /\ issued <= t
        /\ Becomes(d, s)
    BY <1>1, <1>2, MaxAddsAssumption DEF Insert, Tag
  <2>2. r \in Replica /\ r \in copies /\ Sound(r) /\ Drawn(r, issued)
    BY <1>1
  <2>3. t \notin r.tombstones
    BY <2>1, <2>2 DEF Drawn
  <2>4. s \in Replica /\ Sound(s)
    BY <2>1, <2>2, <2>3, InsertKeepsSound
  <2>5. /\ s.tombstones = r.tombstones
        /\ \A x \in Elem : AddsOf(s, x) = IF x = e THEN AddsOf(r, x) \union {t}
                                                  ELSE AddsOf(r, x)
    BY <2>1, <2>2 DEF WithInsert, Replica, AddsOf
  <2> HIDE DEF s
  <2>6. Drawn(s, t)
    BY <2>1, <2>2, <2>5 DEF Drawn
  <2>7. \A c \in copies : Apart(s, c)
    <3> SUFFICES ASSUME NEW c \in copies, NEW x \in Elem, NEW y \in Elem, x # y
                 PROVE  AddsOf(s, x) \intersect AddsOf(c, y) = {}
      BY DEF Apart
    <3>1. AddsOf(r, x) \intersect AddsOf(c, y) = {}
      BY <1>1, <2>2 DEF Apart
    <3>2. t \notin AddsOf(c, y)
      BY <1>1, <2>1 DEF Drawn
    <3> QED
      BY <2>5, <3>1, <3>2
  <2>8. Apart(s, s)
    <3> SUFFICES ASSUME NEW x \in Elem, NEW y \in Elem, x # y
                 PROVE  AddsOf(s, x) \intersect AddsOf(s, y) = {}
      BY DEF Apart
    <3>1. AddsOf(r, x) \intersect AddsOf(r, y) = {}
      BY <1>1, <2>2 DEF Apart
    <3>2. t \notin AddsOf(r, x) /\ t \notin AddsOf(r, y)
      BY <2>1, <2>2 DEF Drawn
    <3> QED
      BY <2>5, <3>1, <3>2
  <2> QED
    BY <2>1, <2>4, <2>6, <2>7, <2>8, BecomesKeeps
<1>3. ASSUME NEW d \in Device, NEW E \in SUBSET Elem,
             Becomes(d, Without(replica[d], E)), UNCHANGED issued
      PROVE  IInv'
  <2> DEFINE r == replica[d]
             s == Without(r, E)
  <2>1. r \in Replica /\ r \in copies /\ Sound(r) /\ Drawn(r, issued) /\ Apart(r, r)
    BY <1>1
  <2>2. /\ s \in Replica
        /\ Sound(s)
        /\ Drawn(s, issued)
        /\ \A x \in Elem : AddsOf(s, x) = AddsOf(r, x)
    BY <1>1, <2>1, RemovalKeepsSound
  <2>3. Becomes(d, s)
    BY <1>3
  <2> HIDE DEF s
  <2>4. Apart(s, s) /\ \A c \in copies : Apart(s, c)
    BY <1>1, <2>1, <2>2 DEF Apart
  <2>5. issued' = issued /\ issued <= issued
    BY <1>1, <1>3
  <2> QED
    BY <1>1, <2>2, <2>3, <2>4, <2>5, BecomesKeeps
<1>4. ASSUME NEW d \in Device, NEW copy \in copies, Merge(d, copy)
      PROVE  IInv'
  <2> DEFINE r == replica[d]
             s == Merged(r, copy)
  <2>1. /\ r \in Replica /\ r \in copies /\ Sound(r) /\ Drawn(r, issued)
        /\ copy \in Replica /\ Sound(copy) /\ Drawn(copy, issued)
    BY <1>1
  <2>2. /\ s \in Replica
        /\ Sound(s)
        /\ Drawn(s, issued)
        /\ \A x \in Elem : AddsOf(s, x) = AddsOf(r, x) \union AddsOf(copy, x)
    BY <1>1, <2>1, MergeKeepsSound
  <2>3. Becomes(d, s) /\ issued' = issued /\ issued <= issued
    BY <1>1, <1>4 DEF Merge
  <2> HIDE DEF s
  <2>4. \A c \in copies : Apart(s, c)
    <3> SUFFICES ASSUME NEW c \in copies, NEW x \in Elem, NEW y \in Elem, x # y
                 PROVE  AddsOf(s, x) \intersect AddsOf(c, y) = {}
      BY DEF Apart
    <3>1. /\ AddsOf(r, x) \intersect AddsOf(c, y) = {}
          /\ AddsOf(copy, x) \intersect AddsOf(c, y) = {}
      BY <1>1, <2>1 DEF Apart
    <3> QED
      BY <2>2, <3>1
  <2>5. Apart(s, s)
    <3> SUFFICES ASSUME NEW x \in Elem, NEW y \in Elem, x # y
                 PROVE  AddsOf(s, x) \intersect AddsOf(s, y) = {}
      BY DEF Apart
    <3>1. /\ AddsOf(s, x) \intersect AddsOf(r, y) = {}
          /\ AddsOf(s, x) \intersect AddsOf(copy, y) = {}
      BY <2>1, <2>4 DEF Apart
    <3> QED
      BY <2>2, <3>1
  <2> QED
    BY <1>1, <2>2, <2>3, <2>4, <2>5, BecomesKeeps
<1>5. ASSUME UNCHANGED vars
      PROVE  IInv'
  BY <1>5 DEF vars, IInv
<1>6. ASSUME NEW d \in Device, NEW e \in Elem, Remove(d, e)
      PROVE  IInv'
  <2>1. Becomes(d, Without(replica[d], {e})) /\ UNCHANGED issued
    BY <1>6 DEF Remove
  <2>2. {e} \in SUBSET Elem
    OBVIOUS
  <2> QED
    BY <1>3, <2>1, <2>2
<1>7. ASSUME NEW d \in Device, Clear(d)
      PROVE  IInv'
  <2>1. Becomes(d, Without(replica[d], Elem)) /\ UNCHANGED issued
    BY <1>7 DEF Clear
  <2> QED
    BY <1>3, <2>1
<1> QED
  BY <1>2, <1>4, <1>5, <1>6, <1>7 DEF Next

LEMMA AlwaysIInv == Spec => []IInv
BY InitHolds, NextKeeps, PTL DEF Spec

---------------------------------------------------------------------------

(* Type correctness: every value a set may take keeps only identifiers that  *)
(* were drawn, and no entry whose identifiers are all tombstones.            *)
THEOREM TypeCorrect == Spec => []TypeOK
<1>1. IInv => TypeOK
  <2> SUFFICES ASSUME IInv PROVE TypeOK
    OBVIOUS
  <2>1. replica \in [Device -> Replica]
    BY DEF IInv
  <2>2. \A r \in copies :
          /\ r.tombstones \subseteq 1..issued
          /\ \A e \in Elem : r.elements[e] = {} \/ Holds(r, e)
    BY DEF IInv, Sound, Drawn
  <2> QED
    BY <2>1, <2>2 DEF TypeOK, IInv
<1> QED
  BY <1>1, AlwaysIInv, PTL

(* What a sound set holds follows from what it has heard of. *)
LEMMA SoundHoldsWhatWasSeen ==
    ASSUME NEW r, Sound(r), NEW e \in Elem
    PROVE  Holds(r, e) <=> AddsOf(r, e) \ r.removed # {}
BY DEF Sound, Holds

(* A replica holds exactly the elements with an insertion it has heard of    *)
(* and no removal it has heard of had seen.                                  *)
THEOREM RemovalsAreObserved == Spec => []HoldsWhatWasSeen
<1>1. IInv => HoldsWhatWasSeen
  <2> SUFFICES ASSUME IInv, NEW d \in Device
               PROVE  Contents(replica[d]) =
                        {e \in Elem : AddsOf(replica[d], e) \ replica[d].removed # {}}
    BY DEF HoldsWhatWasSeen
  <2>1. Sound(replica[d])
    BY DEF IInv
  <2> QED
    BY <2>1, SoundHoldsWhatWasSeen DEF Contents
<1> QED
  BY <1>1, AlwaysIInv, PTL

(* Strong convergence: two replicas that have heard of the same insertions   *)
(* and removals show the same elements, whatever each of them merged, and    *)
(* when.                                                                     *)
THEOREM SameNewsSameContents ==
    Spec => [](\A d, other \in Device :
                  /\ replica[d].adds = replica[other].adds
                  /\ replica[d].removed = replica[other].removed
                  => Contents(replica[d]) = Contents(replica[other]))
<1>1. HoldsWhatWasSeen =>
        \A d, other \in Device :
            /\ replica[d].adds = replica[other].adds
            /\ replica[d].removed = replica[other].removed
            => Contents(replica[d]) = Contents(replica[other])
  BY DEF HoldsWhatWasSeen, AddsOf
<1> QED
  BY <1>1, RemovalsAreObserved, PTL
=============================================================================
