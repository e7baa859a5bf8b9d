---------------------- MODULE StateMachineReplication ----------------------
(***************************************************************************)
(* What the replicated log of oxigeo-ha promises                           *)
(* (crates/oxigeo-ha/src/failover/log_replication.rs): commands are chosen *)
(* once and for all, in one order; "a committed entry is applied exactly   *)
(* once and in order" on every node; a client is told of success only for  *)
(* a command that is chosen.                                               *)
(***************************************************************************)
EXTENDS Sequences, SequencesExt

CONSTANT Node

VARIABLES
    chosen,     \* the commands chosen so far
    applied,    \* what each node's state machine was given
    answered    \* commands whose client was told of success

vars == <<chosen, applied, answered>>

Init ==
    /\ chosen = <<>>
    /\ applied = [n \in Node |-> <<>>]
    /\ answered = {}

(* One or more commands are chosen; what was chosen before stays. *)
Choose ==
    /\ IsStrictPrefix(chosen, chosen')
    /\ UNCHANGED <<applied, answered>>

Apply(n) ==
    /\ Len(applied[n]) < Len(chosen)
    /\ applied' = [applied EXCEPT ![n] = Append(@, chosen[Len(@) + 1])]
    /\ UNCHANGED <<chosen, answered>>

Answer ==
    /\ \E c \in ToSet(chosen) : answered' = answered \cup {c}
    /\ UNCHANGED <<chosen, applied>>

Next == Choose \/ Answer \/ \E n \in Node : Apply(n)

Spec == Init /\ [][Next]_vars
=============================================================================
