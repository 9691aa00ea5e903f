---------------------------- MODULE MCScopePool ----------------------------
(* ScopePool with the values of the run Pool.                              *)
EXTENDS ScopePool, TLC

\* Units and slots are alike.
UnitsAndSlots == Permutations(Unit) \cup Permutations(Slot)
=============================================================================
