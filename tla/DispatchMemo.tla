---------------------------- MODULE DispatchMemo ----------------------------
(***************************************************************************)
(* The generated resolve(dependency) of a resolver class that keeps a memo *)
(* of its last dispatch in two fields, `_last_sync_dependency` and         *)
(* `_last_sync_method` (diwire/_internal/resolvers/assembly/compiler.py,   *)
(* _compile_dispatch_method; the asynchronous one has two fields alike).   *)
(*                                                                         *)
(* The callers share one resolver, the root resolver for instance.  With   *)
(* the GIL a thread is never switched between the two reads of a hit, nor  *)
(* between the two writes that replace the memo; on a free-threaded build  *)
(* each of them is a step.  What a slot's method does is in SlotResolution.*)
(***************************************************************************)
EXTENDS DispatchCallers

CONSTANTS
    Transient,    \* dependencies that are not cached: only they enter the memo
    Fused         \* those whose construction is inlined in the method (at most one)

ASSUME MemoAssumption ==
    Transient \subseteq Dependency /\ Fused \subseteq Transient

VARIABLES
    freeThreaded,   \* the build of the interpreter has no GIL
    lastDependency, \* `_last_sync_dependency`
    lastMethod      \* `_last_sync_method`

memo == <<lastDependency, lastMethod>>
memoVars == <<freeThreaded, memo, pc, asked, method, calls>>

MemoInit ==
    /\ freeThreaded \in BOOLEAN
    /\ lastDependency = None /\ lastMethod = None
    /\ pc = [c \in Caller |-> "idle"]
    /\ asked = [c \in Caller |-> None]
    /\ method = [c \in Caller |-> None]
    /\ calls = [c \in Caller |-> 0]

-----------------------------------------------------------------------------
Resolve(c, d) ==
    /\ pc[c] = "idle" /\ calls[c] < MaxCalls
    /\ Goto(c, "enter")
    /\ asked' = [asked EXCEPT ![c] = d]
    /\ calls' = [calls EXCEPT ![c] = @ + 1]
    /\ UNCHANGED <<memo, method>>

\* The inlined dependency is tested before the memo; it takes its first field.
Inlined(c) ==
    /\ pc[c] = "enter" /\ asked[c] \in Fused
    /\ lastDependency' = asked[c]
    /\ Choose(c, asked[c])
    /\ UNCHANGED <<lastMethod, asked, calls>>

Hits(c) == asked[c] \notin Fused /\ asked[c] = lastDependency

\* `if dependency is self._last_sync_dependency: return self._last_sync_method()`
Hit(c) ==
    /\ ~freeThreaded
    /\ pc[c] = "enter" /\ Hits(c)
    /\ Choose(c, lastMethod)
    /\ UNCHANGED <<memo, asked, calls>>

CompareHit(c) ==
    /\ freeThreaded
    /\ pc[c] = "enter" /\ Hits(c)
    /\ Goto(c, "hit")
    /\ UNCHANGED <<memo, asked, method, calls>>

ReadMethod(c) ==
    /\ pc[c] = "hit"
    /\ Choose(c, lastMethod)
    /\ UNCHANGED <<memo, asked, calls>>

\* No hit: the tests of the other dependencies follow.
Miss(c) ==
    /\ pc[c] = "enter" /\ asked[c] \notin Fused /\ ~Hits(c)
    /\ Goto(c, "dispatch")
    /\ UNCHANGED <<memo, asked, method, calls>>

Remembers(c) == asked[c] \in Transient

DispatchCached(c) ==
    /\ pc[c] = "dispatch" /\ ~Remembers(c)
    /\ Choose(c, asked[c])
    /\ UNCHANGED <<memo, asked, calls>>

Remember_Half(c) ==   \* mutant: only the dependency is remembered
    /\ ~freeThreaded
    /\ pc[c] = "dispatch" /\ Remembers(c)
    /\ lastDependency' = asked[c]
    /\ Choose(c, asked[c])
    /\ UNCHANGED <<lastMethod, asked, calls>>

Remember(c) ==
    /\ ~freeThreaded
    /\ pc[c] = "dispatch" /\ Remembers(c)
    /\ lastDependency' = asked[c] /\ lastMethod' = asked[c]
    /\ Choose(c, asked[c])
    /\ UNCHANGED <<asked, calls>>

WriteDependency(c) ==
    /\ freeThreaded
    /\ pc[c] = "dispatch" /\ Remembers(c)
    /\ lastDependency' = asked[c]
    /\ Goto(c, "write")
    /\ UNCHANGED <<lastMethod, asked, method, calls>>

WriteMethod(c) ==
    /\ pc[c] = "write"
    /\ lastMethod' = asked[c]
    /\ Choose(c, asked[c])
    /\ UNCHANGED <<lastDependency, asked, calls>>

\* The method is called and its value, or its error, is the caller's.
ReturnCall(c) ==
    /\ pc[c] = "call"
    /\ Goto(c, "idle")
    /\ asked' = [asked EXCEPT ![c] = None]
    /\ method' = [method EXCEPT ![c] = None]
    /\ UNCHANGED <<memo, calls>>

MemoDone == (\A c \in Caller : pc[c] = "idle" /\ calls[c] = MaxCalls) /\ UNCHANGED memoVars

MemoStep(c) ==
    \/ \E d \in Dependency : Resolve(c, d)
    \/ Inlined(c) \/ Hit(c) \/ CompareHit(c) \/ ReadMethod(c) \/ Miss(c)
    \/ DispatchCached(c) \/ Remember(c) \/ WriteDependency(c) \/ WriteMethod(c)
    \/ ReturnCall(c)

MemoNext ==
    \/ /\ \E c \in Caller : MemoStep(c)
       /\ UNCHANGED freeThreaded
    \/ MemoDone

MemoSpec == MemoInit /\ [][MemoNext]_memoVars

-----------------------------------------------------------------------------
MemoTypeOK ==
    /\ freeThreaded \in BOOLEAN
    /\ lastDependency \in Transient \cup {None}
    /\ lastMethod \in (Transient \ Fused) \cup {None}
    /\ pc \in [Caller -> {"idle", "enter", "hit", "dispatch", "write", "call"}]
    /\ asked \in [Caller -> Dependency \cup {None}]
    /\ method \in [Caller -> Dependency \cup {None}]
    /\ calls \in [Caller -> 0..MaxCalls]

(* resolvers/protocol.py:25, "Resolve the given dependency and return its  *)
(* instance": whatever other threads resolve meanwhile on the resolver, a  *)
(* caller ends up in the method of the dependency it asked for.            *)
AnswersTheQuestion == \A c \in Caller : pc[c] = "call" => method[c] = asked[c]

\* A build with the GIL keeps that promise.
AnswersWithGil == ~freeThreaded => AnswersTheQuestion

(* Without the GIL it is still kept for every cached dependency and for    *)
(* the inlined one: they never go through the memo.                        *)
AnswersOutsideMemo ==
    \A c \in Caller : pc[c] = "call" /\ asked[c] \notin Transient \ Fused => method[c] = asked[c]
=============================================================================
