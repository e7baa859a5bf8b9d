------------------------------- MODULE Calls -------------------------------
(* The concurrent calls that the fault-tolerance modules have in common: a  *)
(* fixed number of slots, each used by one call after another.              *)
EXTENDS FiniteSets

CONSTANT Call

ASSUME CallAssumption == IsFiniteSet(Call)
=============================================================================
