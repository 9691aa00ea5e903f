--------------------------- MODULE ScopedInstances ---------------------------
(***************************************************************************)
(* What diwire promises of a SCOPED provider (docs/core/lifetimes.rst,     *)
(* docs/core/scopes.rst): in every open scope there is one cell for it; a  *)
(* build fills the cell once, and everybody who resolves the provider in   *)
(* that scope is handed what the cell holds.  How concurrent callers get   *)
(* there is the business of the module that implements this one.           *)
(***************************************************************************)
EXTENDS Naturals

CONSTANTS Scope, Slot

VARIABLES
    cell,    \* cell[r][s]: the instance of s in scope r, 0 before it is built
    handed   \* handed[r][s]: the instances callers have got for it

Init ==
    /\ cell = [r \in Scope |-> [s \in Slot |-> 0]]
    /\ handed = [r \in Scope |-> [s \in Slot |-> {}]]

Publish(r, s) ==
    /\ cell[r][s] = 0
    /\ cell'[r][s] \in Nat \ {0}
    /\ cell' = [cell EXCEPT ![r][s] = cell'[r][s]]
    /\ UNCHANGED handed

Hand(r, s) ==
    /\ cell[r][s] # 0
    /\ handed' = [handed EXCEPT ![r][s] = @ \cup {cell[r][s]}]
    /\ UNCHANGED cell

Next == \E r \in Scope, s \in Slot : Publish(r, s) \/ Hand(r, s)

Spec == Init /\ [][Next]_<<cell, handed>>
=============================================================================
