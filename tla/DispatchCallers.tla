-------------------------- MODULE DispatchCallers --------------------------
(***************************************************************************)
(* Callers that dispatch a dependency to the method that provides it: what *)
(* the memo of a generated resolver (DispatchMemo) and the caches of the   *)
(* open generic wrappers (WrapperDispatch) have in common.  A method bears *)
(* the name of the dependency it provides.                                 *)
(***************************************************************************)
EXTENDS Naturals

CONSTANTS
    Caller,       \* concurrent callers: threads, or tasks of an event loop
    Dependency,   \* what the generated resolvers know
    None,         \* _MISSING_DEP_SLOT, _MISSING_CACHE, and None for a method
    MaxCalls      \* bound: calls of each caller

ASSUME CallersAssumption == None \notin Dependency /\ MaxCalls \in Nat

VARIABLES
    pc,       \* pc[c]: where caller c is
    asked,    \* asked[c]: the dependency c resolves
    method,   \* method[c]: the method c is about to call
    calls

Goto(c, label) == pc' = [pc EXCEPT ![c] = label]

\* The method a dispatch has come to is what its caller calls next.
Choose(c, m) == method' = [method EXCEPT ![c] = m] /\ Goto(c, "call")
=============================================================================
