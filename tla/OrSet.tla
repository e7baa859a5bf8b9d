------------------------------- MODULE OrSet -------------------------------
(***************************************************************************)
(* The observed-remove set of the sync crate                               *)
(* (crates/oxigeo-sync/src/crdt/or_set.rs), one replica on each device,    *)
(* with the embedder that brings two replicas together through             *)
(* SyncCoordinator::sync_crdt: it hands `merge` a copy of another device's *)
(* set, made at any earlier time and possibly merged before.               *)
(*                                                                         *)
(* Each replica also carries what the devices did, as far as this replica  *)
(* has heard of it: `adds`, every insertion, and `removed`, the insertions *)
(* a removal had seen.  The code never reads them.                         *)
(***************************************************************************)
EXTENDS Naturals

CONSTANTS
    Device,   \* the devices
    Elem,     \* what a set may hold
    MaxAdds   \* bound: insertions, all devices together

ASSUME MaxAddsAssumption == MaxAdds \in Nat

VARIABLES
    replica,  \* replica[d]: the set of device d
    copies,   \* every value a replica has had: what may still be merged
    issued    \* insertions so far: each one draws an identifier of its own

vars == <<replica, copies, issued>>

Tag == 1..MaxAdds

Replica == [elements   : [Elem -> SUBSET Tag],  \* {} where the map has no entry
            tombstones : SUBSET Tag,
            adds       : SUBSET (Elem \X Tag),
            removed    : SUBSET Tag]

EmptySet == [elements   |-> [e \in Elem |-> {}],
             tombstones |-> {},
             adds       |-> {},
             removed    |-> {}]

(* contains, iter: an element with an insertion that no removal has seen. *)
Holds(r, e) == r.elements[e] \ r.tombstones # {}
Contents(r) == {e \in Elem : Holds(r, e)}

AddsOf(r, e) == {t \in Tag : <<e, t>> \in r.adds}

---------------------------------------------------------------------------

WithInsert(r, e, t) ==
    [r EXCEPT !.elements[e] = @ \union {t},
              !.adds        = @ \union {<<e, t>>}]

(* Mutant: a removal that keeps no tombstones. *)
Without_NoTombstones(r, E) ==
    [r EXCEPT !.elements = [e \in Elem |-> IF e \in E THEN {} ELSE @[e]],
              !.removed  = @ \union UNION {AddsOf(r, e) : e \in E}]

(* remove on one element, clear on all of them: the identifiers the replica *)
(* holds become tombstones and the entries go.                              *)
Without(r, E) ==
    [r EXCEPT !.elements   = [e \in Elem |-> IF e \in E THEN {} ELSE @[e]],
              !.tombstones = @ \union UNION {r.elements[e] : e \in E},
              !.removed    = @ \union UNION {AddsOf(r, e) : e \in E}]

(* Mutant: a cleanup that drops an entry as soon as one identifier of it is gone. *)
Retained_AnyTombstone(entries, tombs) ==
    [e \in Elem |-> IF entries[e] \intersect tombs = {} THEN entries[e] ELSE {}]

(* Mutant: a merge without the cleanup. *)
Retained_Everything(entries, tombs) == entries

(* The cleanup that ends every merge. *)
Retained(entries, tombs) ==
    [e \in Elem |-> IF entries[e] \subseteq tombs THEN {} ELSE entries[e]]

Merged(r, s) ==
    LET tombs == r.tombstones \union s.tombstones
    IN  [elements   |-> Retained([e \in Elem |-> r.elements[e] \union s.elements[e]],
                                 tombs),
         tombstones |-> tombs,
         adds       |-> r.adds \union s.adds,
         removed    |-> r.removed \union s.removed]

---------------------------------------------------------------------------

Init ==
    /\ replica = [d \in Device |-> EmptySet]
    /\ copies = {EmptySet}
    /\ issued = 0

Becomes(d, r) ==
    /\ replica' = [replica EXCEPT ![d] = r]
    /\ copies' = copies \union {r}

Insert(d, e) ==
    /\ issued < MaxAdds
    /\ issued' = issued + 1
    /\ Becomes(d, WithInsert(replica[d], e, issued + 1))

Remove(d, e) ==
    /\ replica[d].elements[e] # {}
    /\ Becomes(d, Without(replica[d], {e}))
    /\ UNCHANGED issued

Clear(d) ==
    /\ Becomes(d, Without(replica[d], Elem))
    /\ UNCHANGED issued

Merge(d, copy) ==
    /\ Becomes(d, Merged(replica[d], copy))
    /\ UNCHANGED issued

Next ==
    \E d \in Device :
        \/ \E e \in Elem : Insert(d, e) \/ Remove(d, e)
        \/ Clear(d)
        \/ \E copy \in copies : Merge(d, copy)

Spec == Init /\ [][Next]_vars

(* The embedder goes on bringing the replicas together, each with each, as *)
(* they are at the time; nothing obliges a device to change its set.       *)
FairSpec ==
    /\ Spec
    /\ \A d, other \in Device : WF_vars(Merge(d, replica[other]))

---------------------------------------------------------------------------

(* Every replica and every copy keeps only identifiers that were drawn, and *)
(* no entry all of whose identifiers are tombstones: `remove` answers that  *)
(* an element was present wherever the map has an entry.                    *)
TypeOK ==
    /\ replica \in [Device -> Replica]
    /\ copies \subseteq Replica
    /\ issued \in 0..MaxAdds
    /\ \A r \in copies :
        /\ r.tombstones \subseteq 1..issued
        /\ \A e \in Elem : r.elements[e] = {} \/ Holds(r, e)

(* A replica holds exactly the elements of which it has heard of an        *)
(* insertion that no removal it has heard of had seen: whatever the order  *)
(* and the age of the copies merged, an old copy brings no removed element *)
(* back, a removal takes no insertion along that it had not seen, and the  *)
(* cleanup of fully tombstoned entries loses nothing (or_set.rs, remove    *)
(* and merge).                                                             *)
HoldsWhatWasSeen ==
    \A d \in Device :
        Contents(replica[d]) =
            {e \in Elem : AddsOf(replica[d], e) \ replica[d].removed # {}}

(* Once the devices leave their sets alone, as they must when the bounded  *)
(* insertions are used up, merging each with each makes all of them show   *)
(* the same elements, for good: the convergence Crdt::merge is there for.  *)
EventuallyAlike ==
    <>[](\A d, other \in Device : Contents(replica[d]) = Contents(replica[other]))
=============================================================================
