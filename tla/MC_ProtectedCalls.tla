-------------------------- MODULE MC_ProtectedCalls --------------------------
(* Instances of ProtectedCalls for TLC. *)
EXTENDS ProtectedCalls

CONSTANT Few   \* the callers in the modes with more interleavings

(* On one thread, every caller patient, every operation timed out early, and  *)
(* nobody intervenes.                                                        *)
Plain == [threads |-> FALSE, cancels |-> FALSE, drains |-> TRUE, callers |-> Call,
          forces |-> 0]

SomeModes ==
    {Plain, [Plain EXCEPT !.cancels = TRUE],
            [Plain EXCEPT !.callers = Few, !.forces = MaxForced],
            [Plain EXCEPT !.callers = Few, !.forces = MaxForced, !.drains = FALSE],
            [Plain EXCEPT !.callers = Few, !.threads = TRUE]}
=============================================================================
