--------------------------- MODULE SlotResolution ---------------------------
(***************************************************************************)
(* Resolution of provider slots by concurrent callers: the generated       *)
(* methods resolve_<slot> / aresolve_<slot> of                             *)
(* diwire/_internal/resolvers/assembly/compiler.py, for the plan made by   *)
(* planner.py.                                                             *)
(*                                                                         *)
(* A caller is an OS thread, or an asyncio task that shares an OS thread   *)
(* with the other tasks of its event loop.  A call runs one frame per slot *)
(* of the dependency graph: it looks the slot up in the cache of the       *)
(* resolver that owns it and, on a miss, resolves the provider's arguments *)
(* (one nested frame each), calls the provider and publishes the value.    *)
(* The planner rejects circular graphs, so one caller never has two frames *)
(* of one slot and a frame is addressed by its caller and its slot.        *)
(*                                                                         *)
(* Every read and write of shared state (cache attribute, rebound method,  *)
(* slot lock) is a step of its own.  An instance is its serial number      *)
(* among those its provider has built; 0 is _MISSING_CACHE.                *)
(***************************************************************************)
EXTENDS Naturals, Sequences, FiniteSets

CONSTANTS
    Task,          \* concurrent callers
    Thread,        \* OS threads
    ThreadOf,      \* the OS thread a caller runs on
    Scope,         \* opened resolvers, the root among them
    Root,          \* the root resolver
    NoScope,       \* _MISSING_RESOLVER: that level was not opened
    LevelOf,       \* scope level of each resolver
    ScopeRef,      \* ScopeRef[r][l]: r's attribute for the scope of level l
    Slot,          \* provider slots
    Args,          \* Args[s]: the slots of s's provider arguments, in order
    SlotLevel,     \* scope level each slot is registered at
    Cached,        \* slots that are not TRANSIENT
    AsyncProvider, \* slots whose own provider is asynchronous
    LockModeOf,    \* registered lock mode of each slot
    Nobody,        \* no caller, no goal
    MaxCalls,      \* bound: calls each caller makes
    MaxFaults      \* bound: provider failures and cancellations in a behaviour

LockMode == {"auto", "thread", "async", "none"}

ASSUME ScopesAssumption ==
    /\ Root \in Scope /\ NoScope \notin Scope
    /\ LevelOf \in [Scope -> Nat]
    /\ \A r \in Scope : LevelOf[Root] <= LevelOf[r]
    /\ \A r \in Scope : /\ ScopeRef[r] \in [LevelOf[Root]..LevelOf[r] -> Scope \cup {NoScope}]
                        /\ ScopeRef[r][LevelOf[r]] = r
                        /\ ScopeRef[r][LevelOf[Root]] = Root

ASSUME SlotsAssumption ==
    /\ Args \in [Slot -> Seq(Slot)]
    /\ SlotLevel \in [Slot -> Nat]
    /\ \A s \in Slot : LevelOf[Root] <= SlotLevel[s]
    /\ Cached \subseteq Slot /\ AsyncProvider \subseteq Slot
    /\ LockModeOf \in [Slot -> LockMode]

ASSUME CallersAssumption ==
    /\ ThreadOf \in [Task -> Thread]
    /\ Nobody \notin Task /\ Nobody \notin Scope \X Slot

\* What the planner checks: no slot depends on itself, at any distance.
Ranks(rank) == \A s \in Slot : \A i \in DOMAIN Args[s] : rank[Args[s][i]] < rank[s]

ASSUME AcyclicAssumption == \E rank \in [Slot -> 0..Cardinality(Slot)] : Ranks(rank)

\* A topological order of the graph: arguments before the slots they serve.
Rank == CHOOSE rank \in [Slot -> 0..Cardinality(Slot)] : Ranks(rank)

-----------------------------------------------------------------------------
(* The plan: what the planner derives for every slot from its graph. *)

DepsOf(s) == {Args[s][i] : i \in DOMAIN Args[s]}

RequiresAsync[s \in Slot] ==
    s \in AsyncProvider \/ \E d \in DepsOf(s) : RequiresAsync[d]

MaxRequiredLevel[s \in Slot] ==
    LET levels == {SlotLevel[s]} \cup {MaxRequiredLevel[d] : d \in DepsOf(s)}
    IN  CHOOSE l \in levels : \A k \in levels : k <= l

EffectiveLockMode(s) ==
    IF LockModeOf[s] # "auto" THEN LockModeOf[s]
    ELSE IF AsyncProvider # {} THEN "async" ELSE "thread"

UsesThreadLock(s) == s \in Cached /\ EffectiveLockMode(s) = "thread" /\ ~RequiresAsync[s]
UsesAsyncLock(s)  == s \in Cached /\ EffectiveLockMode(s) = "async" /\ RequiresAsync[s]
Locked(s) == UsesThreadLock(s) \/ UsesAsyncLock(s)

(* The resolver in which the method of slot s called on r does its work:   *)
(* the cache owner of a cached slot, the slot's own scope for a transient  *)
(* that needs nothing deeper, r itself otherwise.                          *)
RefAt_Sibling(r, l) ==   \* mutant: any resolver of that level will do
    IF \E q \in Scope : LevelOf[q] = l
    THEN CHOOSE q \in Scope : LevelOf[q] = l ELSE NoScope

RefAt(r, l) == IF l > LevelOf[r] THEN NoScope ELSE ScopeRef[r][l]

Home(r, s) ==
    IF \/ s \in Cached
       \/ SlotLevel[s] > LevelOf[r]
       \/ RefAt(r, SlotLevel[s]) = NoScope
       \/ MaxRequiredLevel[s] <= SlotLevel[s]
    THEN RefAt(r, SlotLevel[s])
    ELSE r

-----------------------------------------------------------------------------
VARIABLES
    cache,      \* cache[r][s]: attribute _cache_<s> of resolver r
    rebound,    \* rebound[s]: value of the method _replace_*_cache put on the root, or 0
    slotLock,   \* slotLock[s]: the caller inside the slot's lock
    pc,         \* pc[t][s]: where the frame of slot s in caller t is
    self,       \* self[t][s]: the resolver the frame runs on
    got,        \* got[t][s]: the argument values resolved so far
    value,      \* value[t][s]: the frame's local `value`
    goal,       \* goal[t]: the <<resolver, slot>> t called resolve for
    running,    \* running[h]: the task that has control of thread h
    born,       \* history: every instance, with its resolver and arguments
    delivered,  \* history: the instances handed to a caller, by home and slot
    calls, faults

shared == <<cache, rebound, slotLock>>
frame  == <<pc, self, got, value>>
vars   == <<shared, frame, goal, running, born, delivered, calls, faults>>

PC == {"idle", "enter", "look", "lock", "relook", "args", "wait", "await",
       "store", "rebind", "release", "unwind", "done", "failed"}

Init ==
    /\ cache = [r \in Scope |-> [s \in Slot |-> 0]]
    /\ rebound = [s \in Slot |-> 0]
    /\ slotLock = [s \in Slot |-> Nobody]
    /\ pc = [t \in Task |-> [s \in Slot |-> "idle"]]
    /\ self = [t \in Task |-> [s \in Slot |-> Root]]
    /\ got = [t \in Task |-> [s \in Slot |-> <<>>]]
    /\ value = [t \in Task |-> [s \in Slot |-> 0]]
    /\ goal = [t \in Task |-> Nobody]
    /\ running = [h \in Thread |-> Nobody]
    /\ born = [s \in Slot |-> <<>>]
    /\ delivered = [r \in Scope |-> [s \in Slot |-> {}]]
    /\ calls = [t \in Task |-> 0]
    /\ faults = 0

-----------------------------------------------------------------------------
(* Control of an OS thread: a caller keeps it until it awaits something    *)
(* that is not ready, or until its call returns.                           *)
Control(t, next) ==
    /\ running[ThreadOf[t]] \in {t, Nobody}
    /\ running' = [running EXCEPT ![ThreadOf[t]] = next]

Runs(t)   == Control(t, t)
Yields(t) == Control(t, Nobody)

Goto(t, s, label) == pc' = [pc EXCEPT ![t][s] = label]
At(t, s, label)   == pc[t][s] = label

\* Where a frame goes once it has its value, and once it has failed.
Finish(s) == IF Locked(s) THEN "release" ELSE "done"
Abort_Leaking(s) == "failed"   \* mutant: an error leaves the lock taken
Abort(s)  == IF Locked(s) THEN "unwind" ELSE "failed"

(* The application calls resolve (aresolve) on an open resolver. *)
Call(t, r, s) ==
    /\ goal[t] = Nobody /\ calls[t] < MaxCalls
    /\ Runs(t)
    /\ goal' = [goal EXCEPT ![t] = <<r, s>>]
    /\ calls' = [calls EXCEPT ![t] = @ + 1]
    /\ Goto(t, s, "enter")
    /\ self' = [self EXCEPT ![t][s] = r]
    /\ UNCHANGED <<shared, got, value, born, delivered, faults>>

Delegate_Unchecked(t, s) ==   \* mutant: _MISSING_RESOLVER is taken for an owner
    /\ At(t, s, "enter") /\ Runs(t)
    /\ self' = [self EXCEPT ![t][s] = Home(self[t][s], s)]
    /\ Goto(t, s, IF s \in Cached THEN "look" ELSE "args")
    /\ UNCHANGED <<shared, got, value, goal, born, delivered, calls, faults>>

(* The method finds the resolver that owns the slot; when that scope is    *)
(* not open, or lies deeper than the resolver, it raises a mismatch.       *)
Delegate(t, s) ==
    /\ At(t, s, "enter") /\ Runs(t)
    /\ LET home == Home(self[t][s], s)
       IN  IF home = NoScope
           THEN Goto(t, s, "failed") /\ UNCHANGED self
           ELSE /\ self' = [self EXCEPT ![t][s] = home]
                /\ Goto(t, s, IF s \in Cached THEN "look" ELSE "args")
    /\ UNCHANGED <<shared, got, value, goal, born, delivered, calls, faults>>

(* A root-owned slot whose method was already replaced by `lambda: value`. *)
CallRebound(t, s) ==
    /\ At(t, s, "enter") /\ Runs(t)
    /\ Home(self[t][s], s) = Root /\ rebound[s] # 0
    /\ self' = [self EXCEPT ![t][s] = Root]
    /\ value' = [value EXCEPT ![t][s] = rebound[s]]
    /\ Goto(t, s, "done")
    /\ UNCHANGED <<shared, got, goal, born, delivered, calls, faults>>

\* cached_value = self._cache_<slot>, before any lock.
Look(t, s) ==
    /\ At(t, s, "look") /\ Runs(t)
    /\ LET cached == cache[self[t][s]][s]
       IN  IF cached # 0
           THEN value' = [value EXCEPT ![t][s] = cached] /\ Goto(t, s, "done")
           ELSE UNCHANGED value /\ Goto(t, s, IF Locked(s) THEN "lock" ELSE "args")
    /\ UNCHANGED <<shared, self, got, goal, born, delivered, calls, faults>>

Acquire(t, s) ==
    /\ At(t, s, "lock") /\ slotLock[s] = Nobody /\ Runs(t)
    /\ slotLock' = [slotLock EXCEPT ![s] = t]
    /\ Goto(t, s, "relook")
    /\ UNCHANGED <<cache, rebound, self, got, value, goal, born, delivered, calls, faults>>

\* `async with lock` on a taken asyncio.Lock gives the event loop to others.
AwaitLock(t, s) ==
    /\ At(t, s, "lock") /\ UsesAsyncLock(s) /\ slotLock[s] # Nobody
    /\ running[ThreadOf[t]] = t /\ Yields(t)
    /\ UNCHANGED <<shared, frame, goal, born, delivered, calls, faults>>

Relook_Never(t, s) ==   \* mutant: the lock is taken but the cache not read again
    /\ At(t, s, "relook") /\ Runs(t)
    /\ Goto(t, s, "args")
    /\ UNCHANGED <<shared, self, got, value, goal, born, delivered, calls, faults>>

\* The second check, under the lock.
Relook(t, s) ==
    /\ At(t, s, "relook") /\ Runs(t)
    /\ LET cached == cache[self[t][s]][s]
       IN  IF cached # 0
           THEN value' = [value EXCEPT ![t][s] = cached] /\ Goto(t, s, "release")
           ELSE UNCHANGED value /\ Goto(t, s, "args")
    /\ UNCHANGED <<shared, self, got, goal, born, delivered, calls, faults>>

HasAllArgs(t, s) == Len(got[t][s]) = Len(Args[s])
NextArg(t, s) == Args[s][Len(got[t][s]) + 1]

\* The next argument is resolved in a nested frame on the same resolver.
CallArg(t, s) ==
    /\ At(t, s, "args") /\ ~HasAllArgs(t, s) /\ Runs(t)
    /\ LET d == NextArg(t, s)
       IN  /\ pc' = [pc EXCEPT ![t][s] = "wait", ![t][d] = "enter"]
           /\ self' = [self EXCEPT ![t][d] = self[t][s]]
    /\ UNCHANGED <<shared, got, value, goal, born, delivered, calls, faults>>

\* A frame that has returned or raised leaves nothing behind.
Pop(t, s) ==
    /\ self' = [self EXCEPT ![t][s] = Root]
    /\ value' = [value EXCEPT ![t][s] = 0]

Deliver(t, s) ==
    delivered' = [delivered EXCEPT ![self[t][s]][s] = @ \cup {value[t][s]}]

TakeArg(t, s) ==
    /\ At(t, s, "wait") /\ Runs(t)
    /\ LET d == NextArg(t, s)
       IN  /\ At(t, d, "done")
           /\ got' = [got EXCEPT ![t][s] = Append(@, value[t][d]), ![t][d] = <<>>]
           /\ pc' = [pc EXCEPT ![t][s] = "args", ![t][d] = "idle"]
           /\ Deliver(t, d)
           /\ Pop(t, d)
    /\ UNCHANGED <<shared, goal, born, calls, faults>>

\* The argument's error propagates through this frame, and out of its lock.
ArgFailed(t, s) ==
    /\ At(t, s, "wait") /\ Runs(t)
    /\ LET d == NextArg(t, s)
       IN  /\ At(t, d, "failed")
           /\ got' = [got EXCEPT ![t][d] = <<>>]
           /\ pc' = [pc EXCEPT ![t][s] = Abort(s), ![t][d] = "idle"]
           /\ Pop(t, d)
    /\ UNCHANGED <<shared, goal, born, delivered, calls, faults>>

\* An asynchronous provider is called and its awaitable awaited.
AwaitProvider(t, s) ==
    /\ At(t, s, "args") /\ HasAllArgs(t, s) /\ s \in AsyncProvider
    /\ Yields(t)
    /\ Goto(t, s, "await")
    /\ UNCHANGED <<shared, self, got, value, goal, born, delivered, calls, faults>>

ProviderTurn(t, s) ==
    IF s \in AsyncProvider THEN At(t, s, "await") ELSE At(t, s, "args") /\ HasAllArgs(t, s)

Build_Yielding(t, s) ==   \* mutant: control is given up between building and caching
    /\ ProviderTurn(t, s) /\ Yields(t)
    /\ born' = [born EXCEPT ![s] = Append(@, [scope |-> self[t][s], args |-> got[t][s]])]
    /\ value' = [value EXCEPT ![t][s] = Len(born[s]) + 1]
    /\ Goto(t, s, IF s \in Cached THEN "store" ELSE "done")
    /\ UNCHANGED <<shared, self, got, goal, delivered, calls, faults>>

\* The provider returns a new instance wired with the resolved arguments.
Build(t, s) ==
    /\ ProviderTurn(t, s) /\ Runs(t)
    /\ born' = [born EXCEPT ![s] = Append(@, [scope |-> self[t][s], args |-> got[t][s]])]
    /\ value' = [value EXCEPT ![t][s] = Len(born[s]) + 1]
    /\ Goto(t, s, IF s \in Cached THEN "store" ELSE "done")
    /\ UNCHANGED <<shared, self, got, goal, delivered, calls, faults>>

\* The provider raises, or the awaiting task is cancelled.
Raise(t, s) ==
    /\ ProviderTurn(t, s) /\ faults < MaxFaults /\ Runs(t)
    /\ faults' = faults + 1
    /\ Goto(t, s, Abort(s))
    /\ UNCHANGED <<shared, self, got, value, goal, born, delivered, calls>>

\* A task is cancelled while it waits for an asyncio.Lock.
CancelWait(t, s) ==
    /\ At(t, s, "lock") /\ UsesAsyncLock(s) /\ running[ThreadOf[t]] = Nobody
    /\ faults < MaxFaults /\ Runs(t)
    /\ faults' = faults + 1
    /\ Goto(t, s, "failed")
    /\ UNCHANGED <<shared, self, got, value, goal, born, delivered, calls>>

\* _replace_sync_cache / _replace_async_cache: the cache attribute first ...
Store(t, s) ==
    /\ At(t, s, "store") /\ Runs(t)
    /\ cache' = [cache EXCEPT ![self[t][s]][s] = value[t][s]]
    /\ Goto(t, s, IF self[t][s] = Root THEN "rebind" ELSE Finish(s))
    /\ UNCHANGED <<rebound, slotLock, self, got, value, goal, born, delivered, calls, faults>>

\* ... and, for a root-owned slot, the method of the root resolver after it.
Rebind(t, s) ==
    /\ At(t, s, "rebind") /\ Runs(t)
    /\ rebound' = [rebound EXCEPT ![s] = value[t][s]]
    /\ Goto(t, s, Finish(s))
    /\ UNCHANGED <<cache, slotLock, self, got, value, goal, born, delivered, calls, faults>>

\* The `with` block ends, by a return or by an error.
Release(t, s) ==
    /\ At(t, s, "release") \/ At(t, s, "unwind")
    /\ Runs(t)
    /\ slotLock' = [slotLock EXCEPT ![s] = Nobody]
    /\ Goto(t, s, IF At(t, s, "release") THEN "done" ELSE "failed")
    /\ UNCHANGED <<cache, rebound, self, got, value, goal, born, delivered, calls, faults>>

\* The call the application made returns its value or raises.
Return(t) ==
    /\ goal[t] # Nobody /\ Yields(t)
    /\ LET s == goal[t][2]
       IN  /\ At(t, s, "done") \/ At(t, s, "failed")
           /\ IF At(t, s, "done") THEN Deliver(t, s) ELSE UNCHANGED delivered
           /\ Goto(t, s, "idle")
           /\ got' = [got EXCEPT ![t][s] = <<>>]
           /\ Pop(t, s)
    /\ goal' = [goal EXCEPT ![t] = Nobody]
    /\ UNCHANGED <<shared, born, calls, faults>>

-----------------------------------------------------------------------------
\* The steps the container itself takes in a frame.
FrameStep(t, s) ==
    \/ Delegate(t, s) \/ CallRebound(t, s) \/ Look(t, s) \/ Acquire(t, s)
    \/ AwaitLock(t, s) \/ Relook(t, s) \/ CallArg(t, s) \/ TakeArg(t, s)
    \/ ArgFailed(t, s) \/ AwaitProvider(t, s) \/ Build(t, s) \/ Store(t, s)
    \/ Rebind(t, s) \/ Release(t, s)

TaskStep(t) == Return(t) \/ \E s \in Slot : FrameStep(t, s)

Fault(t) == \E s \in Slot : Raise(t, s) \/ CancelWait(t, s)

\* Every call the bound allows has returned: the only way to stop.
Done ==
    /\ \A t \in Task : goal[t] = Nobody /\ calls[t] = MaxCalls
    /\ UNCHANGED vars

Next ==
    \/ \E t \in Task :
        \/ \E r \in Scope, s \in Slot : Call(t, r, s)
        \/ TaskStep(t)
        \/ Fault(t)
    \/ Done

Spec == Init /\ [][Next]_vars

(* A caller that can take a step is eventually scheduled (OS scheduler or  *)
(* event loop) and provider calls terminate; nothing obliges the           *)
(* application to call, nor a provider to fail.                            *)
FairSpec == Spec /\ \A t \in Task : WF_vars(TaskStep(t))

-----------------------------------------------------------------------------
Instance == [scope : Scope, args : Seq(Nat)]

TypeOK ==
    /\ cache \in [Scope -> [Slot -> Nat]]
    /\ rebound \in [Slot -> Nat]
    /\ slotLock \in [Slot -> Task \cup {Nobody}]
    /\ pc \in [Task -> [Slot -> PC]]
    /\ self \in [Task -> [Slot -> Scope]]
    /\ got \in [Task -> [Slot -> Seq(Nat)]]
    /\ value \in [Task -> [Slot -> Nat]]
    /\ goal \in [Task -> (Scope \X Slot) \cup {Nobody}]
    /\ running \in [Thread -> Task \cup {Nobody}]
    /\ born \in [Slot -> Seq(Instance)]
    /\ delivered \in [Scope -> [Slot -> SUBSET Nat]]
    /\ calls \in [Task -> Nat]
    /\ faults \in Nat

(* Two callers that resolve a locked slot in one scope, at any time and    *)
(* through any path (cache attribute, lock, rebound method, argument of    *)
(* another provider), get the same instance: docs/core/lifetimes.rst,      *)
(* "cached per active scope".                                              *)
SameInstance(r, s) == \A v, w \in delivered[r][s] : v = w

OneInstancePerScope == \A r \in Scope, s \in Slot : Locked(s) => SameInstance(r, s)

(* A mixed graph in "auto" mode takes no lock for its synchronous slots.   *)
(* When all callers are tasks of one event loop those are still built once *)
(* per scope: building them never gives up control of the thread           *)
(* (docs/howto/advanced/concurrency.rst, the note under LockMode).         *)
OneLoop == \A t, u \in Task : ThreadOf[t] = ThreadOf[u]
LoopGuarded == {s \in Cached : ~Locked(s) /\ OneLoop /\ ~RequiresAsync[s]}

OneInstanceOnOneLoop == \A r \in Scope, s \in LoopGuarded : SameInstance(r, s)

Guarded == {s \in Slot : Locked(s)} \cup LoopGuarded

(* The objects of one scope are wired to each other: whatever instance a   *)
(* provider was given for a cached slot is the one that slot's owner       *)
(* caches, so no two components hold different copies of a shared          *)
(* dependency.                                                             *)
SharedWiring ==
    \A s \in Slot : \A n \in DOMAIN born[s] :
        \A i \in DOMAIN Args[s] :
            LET d == Args[s][i]
            IN  d \in Guarded => born[s][n].args[i] = cache[Home(born[s][n].scope, d)][d]

(* Scopes do not leak: an instance built in scope r is wired only with     *)
(* instances of r and of the scopes r was opened in, never of a sibling    *)
(* (another request) or of a deeper scope that will be closed first.       *)
Enclosing(r) == {ScopeRef[r][l] : l \in DOMAIN ScopeRef[r]} \ {NoScope}

ScopeIsolation ==
    \A s \in Slot : \A n \in DOMAIN born[s] :
        \A i \in DOMAIN Args[s] :
            born[Args[s][i]][born[s][n].args[i]].scope \in Enclosing(born[s][n].scope)

(* A lock asked for while others are held always comes earlier in one      *)
(* order of the slots than every lock held: callers cannot wait for each   *)
(* other in a circle, although all scopes share one lock per slot.         *)
LockOrder ==
    \A t \in Task, s, d \in Slot :
        slotLock[s] = t /\ At(t, d, "lock") => Rank[d] < Rank[s]

(* A caller that is between calls holds no lock, also after its provider   *)
(* failed or its task was cancelled on the way.                            *)
NoLockLeft ==
    \A t \in Task : goal[t] = Nobody => \A s \in Slot : slotLock[s] # t

(* The container implements what it promises: one cell per scope and slot, *)
(* written once, and only its content handed out.                          *)
Promise == INSTANCE ScopedInstances WITH
    Slot <- Guarded,
    cell <- [r \in Scope |-> [s \in Guarded |-> cache[r][s]]],
    handed <- [r \in Scope |-> [s \in Guarded |-> delivered[r][s]]]

ImplementsPromise == Promise!Spec

(* The locks alone keep it for the slots that have one, on any threads and *)
(* event loops.                                                            *)
LockedSlot == {s \in Slot : Locked(s)}

Kept == INSTANCE ScopedInstances WITH
    Slot <- LockedSlot,
    cell <- [r \in Scope |-> [s \in LockedSlot |-> cache[r][s]]],
    handed <- [r \in Scope |-> [s \in LockedSlot |-> delivered[r][s]]]

LocksKeepPromise == Kept!Spec

(* Every call returns or raises: no caller is stuck behind a lock, a       *)
(* failed provider or a cancelled task.                                    *)
CallsReturn == \A t \in Task : goal[t] # Nobody ~> goal[t] = Nobody
=============================================================================
