----------------------------- MODULE LwwRegister -----------------------------
(***************************************************************************)
(* The last-write-wins register of the sync crate                          *)
(* (crates/oxigeo-sync/src/crdt/lww_register.rs) with the vector clock it  *)
(* is ordered by (vector_clock.rs): one register on each device, created   *)
(* with one common value, and the embedder that merges the register of one *)
(* device into that of another through SyncCoordinator::sync_crdt.         *)
(*                                                                         *)
(* A clock carries the device it counts for, its owner.  `seen` is what    *)
(* the code never keeps: the writes a device has made or merged.           *)
(***************************************************************************)
EXTENDS Naturals

CONSTANTS
    Device,    \* the devices, as numbers: the order of their identifiers
    MaxWrites  \* bound: writes, all devices together

VARIABLES
    register,  \* register[d]: value, the clock's counts and the clock's owner
    seen,      \* seen[d]: the writes that have reached device d
    written    \* writes so far: each one writes a value of its own

vars == <<register, seen, written>>

Larger(m, n) == IF m > n THEN m ELSE n

(* compare: a device that is missing from a clock counts as 0. *)
Before(c, other) ==
    /\ \A d \in Device : c[d] <= other[d]
    /\ c # other

Concurrent(c, other) ==
    /\ \E d \in Device : c[d] < other[d]
    /\ \E d \in Device : c[d] > other[d]

MergedClock(c, other) == [d \in Device |-> Larger(c[d], other[d])]

(* tie_break: the owner of the other clock against this register's device. *)
TieBreak(d, other) == other.owner > d

---------------------------------------------------------------------------

Init ==
    /\ register = [d \in Device |-> [value |-> 0,
                                     clock |-> [e \in Device |-> 0],
                                     owner |-> d]]
    /\ seen = [d \in Device |-> {}]
    /\ written = 0

(* set: `tick` counts for the clock's owner. *)
Set(d) ==
    /\ written < MaxWrites
    /\ written' = written + 1
    /\ register' = [register EXCEPT ![d].value = written + 1,
                                    ![d].clock[register[d].owner] = @ + 1]
    /\ seen' = [seen EXCEPT ![d] = @ \union {written + 1}]

(* merge: a newer register is adopted with its whole clock, owner included. *)
Merge(d, e) ==
    LET mine  == register[d]
        other == register[e]
        kept  == [mine EXCEPT !.clock = MergedClock(mine.clock, other.clock)]
    IN  /\ \/ /\ Before(mine.clock, other.clock)
              /\ register' = [register EXCEPT ![d] = other]
           \/ /\ Concurrent(mine.clock, other.clock)
              /\ register' = [register EXCEPT ![d] =
                     [kept EXCEPT !.value = IF TieBreak(d, other) THEN other.value ELSE @]]
           \/ /\ ~Before(mine.clock, other.clock)
              /\ ~Concurrent(mine.clock, other.clock)
              /\ register' = [register EXCEPT ![d] = kept]
        /\ seen' = [seen EXCEPT ![d] = @ \union seen[e]]
        /\ UNCHANGED written

Next == \E d \in Device : Set(d) \/ \E e \in Device \ {d} : Merge(d, e)

Spec == Init /\ [][Next]_vars

---------------------------------------------------------------------------

(* Two devices that the same writes have reached show the same value, which *)
(* is what merging is documented to guarantee (crdt/mod.rs).  It fails with *)
(* two devices: one adopts the other's newer register and, with it, the     *)
(* other's place in the clock; when both then write once, both count the    *)
(* write for the same device, the clocks are equal, and every later merge   *)
(* keeps both values.                                                       *)
SameWritesSameValue ==
    \A d, e \in Device :
        seen[d] = seen[e] => register[d].value = register[e].value
=============================================================================
