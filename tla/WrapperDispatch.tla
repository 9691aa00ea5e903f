--------------------------- MODULE WrapperDispatch ---------------------------
(***************************************************************************)
(* How the open generic wrappers remember the dependencies that their      *)
(* generated resolvers know (diwire/_internal/open_generics.py).           *)
(*                                                                         *)
(* A wrapper skips the dispatch of its resolver in three ways: an inline   *)
(* pair (dependency, bound method) of its own, a hot pair (dependency,     *)
(* slot function of the class) that children take from the root, and an    *)
(* index of slot functions that all wrappers share.  A step ends where     *)
(* CPython may switch threads under the GIL: at the call of a function.    *)
(* Two attribute stores in a row are one step, a store and the call that   *)
(* yields the value of the next one are two.                               *)
(***************************************************************************)
EXTENDS DispatchCallers

CONSTANTS
    Child,       \* wrappers of the scopes that can be opened
    Root,        \* the root wrapper
    Slotted,     \* the dependencies found in dep_eq_slot_by_key
    Unset        \* _UNSET_CACHE

ASSUME DispatchAssumption ==
    /\ Slotted \subseteq Dependency
    /\ Root \notin Child /\ None \notin Caller
    /\ Unset \notin Dependency /\ None # Unset

VARIABLES
    kind,       \* "sync" for a caller of resolve, "async" for one of aresolve
    oneLoop,    \* all asynchronous callers are tasks of one event loop
    opened,     \* wrappers that exist
    functions,  \* functions[m]: dependencies with a known slot function and index, m = sync, async
    dispatched, \* dispatched[m]: dependencies known to need the resolver's own dispatch
    hot,        \* hot[m]: the root's hot pair
    snapshot,   \* the synchronous hot pair in the state that new children copy
    childHot,   \* childHot[w]: the synchronous hot pair a child was made with
    asyncHot,   \* asyncHot[w]: the asynchronous hot pair, taken from the root at first use
    inline,     \* inline[m][w]: the inline pair of a wrapper
    bound,      \* bound[m][w]: dependencies with a bound method in the wrapper
    locked,     \* who is inside the shared state lock
    on          \* on[c]: the wrapper c calls

shared == <<opened, functions, dispatched, hot, snapshot, childHot, asyncHot, inline, bound, locked>>
deployment == <<kind, oneLoop>>
vars == <<deployment, shared, pc, on, asked, method, calls>>

Mode == {"sync", "async"}
ModeOf(c) == kind[c]
IsAsync(c) == kind[c] = "async"

Pair(d, f) == [dep |-> d, fn |-> f]
NoPair == Pair(None, None)
Wrapper == Child \cup {Root}

Init ==
    /\ kind \in [Caller -> Mode] /\ oneLoop \in BOOLEAN
    /\ opened = {Root}
    /\ functions = [m \in Mode |-> {}] /\ dispatched = [m \in Mode |-> {}]
    /\ hot = [m \in Mode |-> NoPair] /\ snapshot = NoPair
    /\ childHot = [w \in Child |-> NoPair] /\ asyncHot = [w \in Child |-> Pair(Unset, None)]
    /\ inline = [m \in Mode |-> [w \in Wrapper |-> NoPair]]
    /\ bound = [m \in Mode |-> [w \in Wrapper |-> {}]]
    /\ locked = None
    /\ pc = [c \in Caller |-> "idle"] /\ on = [c \in Caller |-> Root]
    /\ asked = [c \in Caller |-> None] /\ method = [c \in Caller |-> None]
    /\ calls = [c \in Caller |-> 0]

-----------------------------------------------------------------------------
\* The tasks of one loop are not switched between the steps of a dispatch.
Busy(c) == pc[c] \notin {"idle", "call", "learn"}
MayRun(c) == oneLoop /\ IsAsync(c) => \A d \in Caller \ {c} : IsAsync(d) => ~Busy(d)

At(c, label) == pc[c] = label /\ MayRun(c)

\* A child copies the state its root shares at that moment.
\* mutant: the fields of the root are copied one by one instead of its last whole state
SharedHotPair_Live == hot["sync"]
SharedHotPair == snapshot

EnterScope(w) ==
    /\ w \in Child \ opened
    /\ opened' = opened \cup {w}
    /\ childHot' = [childHot EXCEPT ![w] = SharedHotPair]
    /\ UNCHANGED <<functions, dispatched, hot, snapshot, asyncHot, inline, bound, locked,
                   pc, on, asked, method, calls>>

Call(c, w, d) ==
    /\ pc[c] = "idle" /\ calls[c] < MaxCalls /\ w \in opened /\ MayRun(c)
    /\ calls' = [calls EXCEPT ![c] = @ + 1]
    /\ on' = [on EXCEPT ![c] = w] /\ asked' = [asked EXCEPT ![c] = d]
    /\ Goto(c, IF IsAsync(c) THEN "aresolve" ELSE "resolve")
    /\ UNCHANGED <<shared, method>>

\* Only a child uses the hot pair it was made with.
HotPair(w) == IF w = Root THEN NoPair ELSE childHot[w]

\* resolve: the inline pair, then the hot pair of a child, then the slow path.
ResolveSync(c) ==
    /\ At(c, "resolve")
    /\ LET d == asked[c]  mine == inline["sync"][on[c]]
       IN  IF d = mine.dep THEN Choose(c, mine.fn)
           ELSE IF d = HotPair(on[c]).dep /\ HotPair(on[c]).fn # None
           THEN Choose(c, HotPair(on[c]).fn)
           ELSE Goto(c, "slow") /\ UNCHANGED method
    /\ UNCHANGED <<shared, on, asked, calls>>

\* aresolve: the inline pair; a child that has no hot pair yet asks the root for it.
ResolveAsync(c) ==
    /\ At(c, "aresolve")
    /\ LET d == asked[c]  mine == inline["async"][on[c]]
       IN  IF d = mine.dep THEN Choose(c, mine.fn)
           ELSE /\ Goto(c, IF on[c] = Root THEN "slow"
                           ELSE IF asyncHot[on[c]].dep = Unset THEN "hotdep" ELSE "hot")
                /\ UNCHANGED method
    /\ UNCHANGED <<shared, on, asked, calls>>

\* root.async_hot_base_dependency(), then root.async_hot_slot_function(): two calls.
TakeHotDependency(c) ==
    /\ At(c, "hotdep")
    /\ asyncHot' = [asyncHot EXCEPT ![on[c]].dep = hot["async"].dep]
    /\ Goto(c, "hotfn")
    /\ UNCHANGED <<opened, functions, dispatched, hot, snapshot, childHot, inline, bound, locked,
                   on, asked, method, calls>>

TakeHotFunction(c) ==
    /\ At(c, "hotfn")
    /\ asyncHot' = [asyncHot EXCEPT ![on[c]].fn = hot["async"].fn]
    /\ Goto(c, "hot")
    /\ UNCHANGED <<opened, functions, dispatched, hot, snapshot, childHot, inline, bound, locked,
                   on, asked, method, calls>>

UseHot(c) ==
    /\ At(c, "hot")
    /\ LET pair == asyncHot[on[c]]
       IN  IF asked[c] = pair.dep /\ pair.fn # None THEN Choose(c, pair.fn)
           ELSE Goto(c, "slow") /\ UNCHANGED method
    /\ UNCHANGED <<shared, on, asked, calls>>

-----------------------------------------------------------------------------
(* The slow path: the wrapper's bound methods, the shared index, the set   *)
(* of dispatched dependencies, and at last the resolver itself.            *)

SetInline(m, w, d, f) == inline' = [inline EXCEPT ![m][w] = Pair(d, f)]
ForgetInline(m, w) == inline' = [inline EXCEPT ![m][w].dep = None]

UseBound(c) ==
    /\ At(c, "slow") /\ asked[c] \in bound[ModeOf(c)][on[c]]
    /\ SetInline(ModeOf(c), on[c], asked[c], asked[c])
    /\ Choose(c, asked[c])
    /\ UNCHANGED <<opened, functions, dispatched, hot, snapshot, childHot, asyncHot, bound, locked,
                   on, asked, calls>>

\* Under the lock: a method is bound and the dependency becomes the hot one.
Bind(c) ==
    /\ bound' = [bound EXCEPT ![ModeOf(c)][on[c]] = @ \cup {asked[c]}]
    /\ locked' = c

SharedIndex(c) ==
    /\ At(c, "slow") /\ locked = None
    /\ asked[c] \notin bound[ModeOf(c)][on[c]] /\ asked[c] \in functions[ModeOf(c)]
    /\ Bind(c) /\ Goto(c, "sethot")
    /\ UNCHANGED <<opened, functions, dispatched, hot, snapshot, childHot, asyncHot, inline,
                   on, asked, method, calls>>

\* set_*_hot_base_dependency: the dependency, then the function looked up by a call.
SetHotDependency(c) ==
    /\ At(c, "sethot") \/ At(c, "learnhot")
    /\ hot' = [hot EXCEPT ![ModeOf(c)].dep = asked[c]]
    /\ LET known == hot[ModeOf(c)].dep = asked[c]
       IN  Goto(c, IF pc[c] = "sethot" THEN IF known THEN "bound" ELSE "setfn"
                   ELSE IF known THEN "learnt" ELSE "learnfn")
    /\ UNCHANGED <<opened, functions, dispatched, snapshot, childHot, asyncHot, inline, bound, locked,
                   on, asked, method, calls>>

\* mutant: the function of the first hot dependency is kept
HotFunction_Kept(c) == IF hot[ModeOf(c)].fn = None THEN asked[c] ELSE hot[ModeOf(c)].fn
HotFunction(c) == asked[c]

SetHotFunction(c) ==
    /\ At(c, "setfn") \/ At(c, "learnfn")
    /\ hot' = [hot EXCEPT ![ModeOf(c)].fn = HotFunction(c)]
    /\ snapshot' = hot'["sync"]
    /\ Goto(c, IF pc[c] = "setfn" THEN "bound" ELSE "learnt")
    /\ UNCHANGED <<opened, functions, dispatched, childHot, asyncHot, inline, bound, locked,
                   on, asked, method, calls>>

\* Out of the lock the inline pair is set and the bound method called.
LeaveIndex(c) ==
    /\ At(c, "bound")
    /\ locked' = None
    /\ SetInline(ModeOf(c), on[c], asked[c], asked[c])
    /\ Choose(c, asked[c])
    /\ UNCHANGED <<opened, functions, dispatched, hot, snapshot, childHot, asyncHot, bound,
                   on, asked, calls>>

Unindexed(c) == asked[c] \notin bound[ModeOf(c)][on[c]] \cup functions[ModeOf(c)]

\* The resolver's own dispatch (DispatchMemo) finds the dependency.
UseDispatch(c) ==
    /\ At(c, "slow") /\ locked = None /\ Unindexed(c)
    /\ IF asked[c] \in dispatched[ModeOf(c)]
       THEN /\ ForgetInline(ModeOf(c), on[c])
            /\ Choose(c, asked[c])
       ELSE Goto(c, "learn") /\ UNCHANGED <<inline, method>>
    /\ UNCHANGED <<opened, functions, dispatched, hot, snapshot, childHot, asyncHot, bound, locked,
                   on, asked, calls>>

\* _resolve_base_slot_index and the bound method: found for a slot's own key only.
HasSlot(d) == d \in Slotted

(* cache_*_base_resolver, after the value came back: a dependency with a   *)
(* slot enters the shared index, another one the dispatched set.           *)
Learn(c) ==
    /\ At(c, "learn") /\ locked = None
    /\ IF HasSlot(asked[c])
       THEN /\ functions' = [functions EXCEPT ![ModeOf(c)] = @ \cup {asked[c]}]
            /\ Bind(c) /\ Goto(c, "learnhot")
            /\ UNCHANGED <<dispatched, method>>
       ELSE /\ dispatched' = [dispatched EXCEPT ![ModeOf(c)] = @ \cup {asked[c]}]
            /\ Choose(c, asked[c])
            /\ UNCHANGED <<functions, bound, locked>>
    /\ UNCHANGED <<opened, hot, snapshot, childHot, asyncHot, inline, on, asked, calls>>

LeaveLearning(c) ==
    /\ At(c, "learnt")
    /\ locked' = None
    /\ Choose(c, asked[c])
    /\ UNCHANGED <<opened, functions, dispatched, hot, snapshot, childHot, asyncHot, inline, bound,
                   on, asked, calls>>

\* The chosen method runs and its value is the caller's.
Return(c) ==
    /\ pc[c] = "call"
    /\ Goto(c, "idle")
    /\ asked' = [asked EXCEPT ![c] = None] /\ method' = [method EXCEPT ![c] = None]
    /\ on' = [on EXCEPT ![c] = Root]
    /\ UNCHANGED <<shared, calls>>

Done ==
    /\ opened = Wrapper /\ \A c \in Caller : pc[c] = "idle" /\ calls[c] = MaxCalls
    /\ UNCHANGED vars

CallerStep(c) ==
    \/ \E w \in Wrapper, d \in Dependency : Call(c, w, d)
    \/ ResolveSync(c) \/ ResolveAsync(c) \/ TakeHotDependency(c) \/ TakeHotFunction(c) \/ UseHot(c)
    \/ UseBound(c) \/ SharedIndex(c) \/ SetHotDependency(c) \/ SetHotFunction(c) \/ LeaveIndex(c)
    \/ UseDispatch(c) \/ Learn(c) \/ LeaveLearning(c) \/ Return(c)

Next ==
    \/ /\ \E w \in Child : EnterScope(w)
       /\ UNCHANGED deployment
    \/ \E c \in Caller : CallerStep(c) /\ UNCHANGED deployment
    \/ Done

Spec == Init /\ [][Next]_vars

-----------------------------------------------------------------------------
Inside == {"sethot", "setfn", "bound", "learnhot", "learnfn", "learnt"}   \* the lock is held
Place == {"idle", "resolve", "aresolve", "hotdep", "hotfn", "hot", "slow", "learn", "call"} \cup Inside

PairType(none) == [dep : Dependency \cup none, fn : Dependency \cup {None}]

TypeOK ==
    /\ kind \in [Caller -> Mode] /\ oneLoop \in BOOLEAN
    /\ opened \subseteq Wrapper /\ Root \in opened
    /\ functions \in [Mode -> SUBSET Slotted]
    /\ dispatched \in [Mode -> SUBSET (Dependency \ Slotted)]
    /\ hot \in [Mode -> PairType({None})] /\ snapshot \in PairType({None})
    /\ childHot \in [Child -> PairType({None})]
    /\ asyncHot \in [Child -> PairType({None, Unset})]
    /\ inline \in [Mode -> [Wrapper -> PairType({None})]]
    /\ bound \in [Mode -> [Wrapper -> SUBSET Slotted]]
    /\ locked \in Caller \cup {None}
    /\ pc \in [Caller -> Place] /\ on \in [Caller -> Wrapper]
    /\ asked \in [Caller -> Dependency \cup {None}]
    /\ method \in [Caller -> Dependency \cup {None}]
    /\ calls \in [Caller -> 0..MaxCalls]

(* resolvers/protocol.py:25, "Resolve the given dependency and return its  *)
(* instance": a synchronous caller ends up in the method of the dependency *)
(* it asked for, whatever other threads resolve through the wrappers.      *)
Answered(c) == pc[c] = "call" => method[c] = asked[c]
SyncAnswers == \A c \in Caller : ~IsAsync(c) => Answered(c)

(* An asynchronous caller does too when all of them share one event loop:  *)
(* the hot pair is read from the root in two steps and is only whole if    *)
(* nobody replaces it between them.                                        *)
AsyncAnswersOnOneLoop == oneLoop => \A c \in Caller : IsAsync(c) => Answered(c)

(* With several event loops a wrong answer needs a torn hot pair: a caller *)
(* on the root, which never uses one, is always answered.                  *)
RootAnswers == \A c \in Caller : on[c] = Root => Answered(c)

(* The hot pairs that are passed on never name the function of another     *)
(* dependency: the one children copy, and the root's outside the lock.     *)
Whole(pair) == pair.dep # None /\ pair.fn # None => pair.dep = pair.fn
HotPairsWhole ==
    /\ Whole(snapshot) /\ \A w \in Child : Whole(childHot[w])
    /\ locked = None => \A m \in Mode : Whole(hot[m])
=============================================================================
