----------------------------- MODULE ScopePool -----------------------------
(***************************************************************************)
(* Reuse of scope resolvers between units of work.  The root resolver      *)
(* keeps one resolver of its default next level in `_scope_resolver_<l>`;  *)
(* its generated enter_scope hands that one out while it is not `_active`  *)
(* and makes a fresh one otherwise (diwire/_internal/resolvers/assembly/   *)
(* compiler.py).                                                           *)
(*                                                                         *)
(* A unit of work is one `with container.enter_scope()` block (a request), *)
(* in a thread or task of its own: it enters, resolves SCOPED resources    *)
(* some times, and leaves the block once.  Its cleanups, and its other     *)
(* tasks while one of them runs, may resolve too.  On CPython with the GIL *)
(* the generated code between reading and setting `_active` calls nothing  *)
(* itself, so entering is one step as long as what it overwrites runs no   *)
(* code when it is dropped; else, and without the GIL, it is not.          *)
(*                                                                         *)
(* What the resolution of one slot does is in SlotResolution and what the  *)
(* exit does in CleanupStack; here one is a step and the other a loop.     *)
(***************************************************************************)
EXTENDS Naturals, Sequences

CONSTANTS
    Unit,          \* units of work, one concurrent caller each
    Pooled,        \* the pooled resolver
    Slot,          \* SCOPED slots with a cleanup
    MaxResolves    \* bound: resolutions in all units of work

ASSUME PoolAssumption ==
    Pooled \notin Unit /\ MaxResolves \in Nat

\* The fresh resolver of a unit bears its name.
Resolver == Unit \cup {Pooled}

VARIABLES
    freeThreaded, \* the build of the interpreter has no GIL
    finalisers,   \* what enter_scope overwrites can let another unit in when dropped:
                  \* a value's `__del__` or weakref callback, a suspended generator
    active,    \* active[r]: `_active`
    cache,     \* cache[r][s]: `_cache_<s>`, 0 when missing
    single,    \* single[r]: `_cleanup_callback_single`, 0 when None
    callbacks, \* callbacks[r]: `_cleanup_callbacks`
    handle,    \* handle[u]: the resolver that enter_scope returned to u
    pc,        \* pc[u]: what u is doing
    resolves,  \* resolutions made
    built,     \* history: built[n]: unit and slot of instance n, and whether it is
               \* late: built when the exit of its unit had begun
    got,       \* history: got[u]: instances handed to u
    cleaner    \* history: cleaner[n]: the unit that cleaned n up, or 0

pool   == <<active, cache, single, callbacks>>
events == <<built, got, cleaner>>
vars   == <<freeThreaded, finalisers, pool, handle, pc, resolves, events>>

Init ==
    /\ freeThreaded \in BOOLEAN /\ finalisers \in BOOLEAN
    /\ active = [r \in Resolver |-> FALSE]
    /\ cache = [r \in Resolver |-> [s \in Slot |-> 0]]
    /\ single = [r \in Resolver |-> 0]
    /\ callbacks = [r \in Resolver |-> <<>>]
    /\ handle = [u \in Unit |-> Pooled]
    /\ pc = [u \in Unit |-> "idle"]
    /\ resolves = 0
    /\ built = <<>> /\ got = [u \in Unit |-> {}] /\ cleaner = <<>>

Goto(u, label) == pc' = [pc EXCEPT ![u] = label]

-----------------------------------------------------------------------------
\* The field is emptied: a generator in it that was not run is dropped, which closes it.
DropField(u, r) ==
    /\ single' = [single EXCEPT ![r] = 0]
    /\ cleaner' = [n \in DOMAIN cleaner |->
                     IF n = single[r] /\ cleaner[n] = 0 THEN u ELSE cleaner[n]]

Reset_KeepingCache(u) ==   \* mutant: the cached values are not reset
    DropField(u, Pooled) /\ UNCHANGED cache

(* enter_scope: the fields it resets in the pooled resolver. The list of   *)
(* cleanups is not one of them.                                            *)
Reset(u) ==
    /\ DropField(u, Pooled)
    /\ cache' = [cache EXCEPT ![Pooled] = [s \in Slot |-> 0]]

\* The reset drops something of the unit that had the pooled resolver before.
Drops == single[Pooled] # 0 \/ \E s \in Slot : cache[Pooled][s] # 0

OneStep == ~freeThreaded /\ (finalisers => ~Drops)

Take(u) ==
    /\ active' = [active EXCEPT ![Pooled] = TRUE]
    /\ handle' = [handle EXCEPT ![u] = Pooled]
    /\ Goto(u, "open")

EnterPooled(u) ==
    /\ OneStep
    /\ pc[u] = "idle" /\ ~active[Pooled]
    /\ Reset(u) /\ Take(u)
    /\ UNCHANGED <<callbacks, resolves, built, got>>

EnterFresh(u) ==
    /\ pc[u] = "idle" /\ active[Pooled]
    /\ active' = [active EXCEPT ![u] = TRUE]
    /\ handle' = [handle EXCEPT ![u] = u]
    /\ Goto(u, "open")
    /\ UNCHANGED <<cache, single, callbacks, resolves, events>>

(* Otherwise: read `_active`, reset, set `_active`, with other units        *)
(* between.                                                                *)
CheckPooled(u) ==
    /\ ~OneStep
    /\ pc[u] = "idle" /\ ~active[Pooled]
    /\ Goto(u, "checked")
    /\ UNCHANGED <<pool, handle, resolves, events>>

ResetPooled(u) ==
    /\ pc[u] = "checked"
    /\ Reset(u) /\ Goto(u, "reset")
    /\ UNCHANGED <<active, callbacks, handle, resolves, built, got>>

TakePooled(u) ==
    /\ pc[u] = "reset"
    /\ Take(u)
    /\ UNCHANGED <<cache, single, callbacks, resolves, events>>

-----------------------------------------------------------------------------
(* A resource is resolved in the unit's scope, in its block or while a     *)
(* cleanup of its exit runs: handed out of the cache, or built, its        *)
(* cleanup kept and the value cached.                                      *)
Cleaning == {"single", "lone", "running"}

CanResolve(u) == pc[u] \in {"open"} \cup Cleaning /\ resolves < MaxResolves

ResolveCached(u, s) ==
    /\ CanResolve(u)
    /\ cache[handle[u]][s] # 0
    /\ resolves' = resolves + 1
    /\ got' = [got EXCEPT ![u] = @ \cup {cache[handle[u]][s]}]
    /\ UNCHANGED <<pool, handle, pc, built, cleaner>>

\* inField: by a specialised method, which uses the field when both are empty.
ResolveNew(u, s, inField) ==
    LET r == handle[u]
        n == Len(built) + 1
    IN  /\ CanResolve(u)
        /\ cache[r][s] = 0
        /\ inField => single[r] = 0 /\ callbacks[r] = <<>>
        /\ IF inField
           THEN single' = [single EXCEPT ![r] = n] /\ UNCHANGED callbacks
           ELSE callbacks' = [callbacks EXCEPT ![r] = Append(@, n)] /\ UNCHANGED single
        /\ cache' = [cache EXCEPT ![r][s] = n]
        /\ resolves' = resolves + 1
        /\ built' = Append(built, [unit |-> u, slot |-> s, late |-> pc[u] # "open"])
        /\ cleaner' = Append(cleaner, 0)
        /\ got' = [got EXCEPT ![u] = @ \cup {n}]
        /\ UNCHANGED <<active, handle, pc>>

-----------------------------------------------------------------------------
BeginExit_Free(u) ==   \* mutant: `_active` is cleared before the cleanups have run
    /\ pc[u] = "open"
    /\ Goto(u, "closing")
    /\ active' = [active EXCEPT ![handle[u]] = FALSE]
    /\ callbacks' = IF single[handle[u]] = 0 THEN callbacks
                    ELSE [callbacks EXCEPT ![handle[u]] = Append(@, single[handle[u]])]
    /\ single' = [single EXCEPT ![handle[u]] = 0]
    /\ UNCHANGED <<cache, handle, resolves, events>>

BeginExit_Dropping(u) ==   \* mutant: the field is cleared but not executed
    /\ pc[u] = "open"
    /\ Goto(u, "closing")
    /\ single' = [single EXCEPT ![handle[u]] = 0]
    /\ UNCHANGED <<active, cache, callbacks, handle, resolves, events>>

\* The block ends: the cleanup in the field joins the list.
BeginExit(u) ==
    LET r == handle[u]
    IN  /\ pc[u] = "open"
        /\ Goto(u, "closing")
        /\ callbacks' = IF single[r] = 0 THEN callbacks
                        ELSE [callbacks EXCEPT ![r] = Append(@, single[r])]
        /\ single' = [single EXCEPT ![r] = 0]
        /\ UNCHANGED <<active, cache, handle, resolves, events>>

(* A block that ends without an error runs a cleanup that is alone by      *)
(* itself: from the field, where it stays meanwhile, or popped from the    *)
(* list.                                                                   *)
CleanField(u) ==
    LET r == handle[u]
    IN  /\ pc[u] = "open"
        /\ single[r] # 0 /\ callbacks[r] = <<>>
        /\ Goto(u, "single")
        /\ cleaner' = [cleaner EXCEPT ![single[r]] = u]
        /\ UNCHANGED <<pool, handle, resolves, built, got>>

Alone(r) == single[r] = 0 /\ Len(callbacks[r]) = 1

PopTo(u, label) ==
    LET list == callbacks[handle[u]]
    IN  /\ list # <<>>
        /\ Goto(u, label)
        /\ callbacks' = [callbacks EXCEPT ![handle[u]] = SubSeq(@, 1, Len(@) - 1)]
        /\ cleaner' = [cleaner EXCEPT ![list[Len(list)]] = u]
        /\ UNCHANGED <<active, cache, single, handle, resolves, built, got>>

CleanAlone(u) ==
    /\ IF freeThreaded THEN pc[u] = "alone" ELSE pc[u] = "open" /\ Alone(handle[u])
    /\ PopTo(u, "lone")

(* `while cleanup_callbacks: cleanup_callbacks.pop()`.  Others run between  *)
(* cleanups; one that fails changes nothing here.                          *)
InLoop(u) == pc[u] \in {"closing", "running"}

CleanOne(u) ==
    /\ IF freeThreaded THEN pc[u] = "popping" ELSE InLoop(u)
    /\ PopTo(u, "running")

\* Without the GIL others run between the look at the list and the pop too.
SeeCallback(u) ==
    /\ freeThreaded
    /\ \/ InLoop(u) /\ callbacks[handle[u]] # <<>> /\ Goto(u, "popping")
       \/ pc[u] = "open" /\ Alone(handle[u]) /\ Goto(u, "alone")
    /\ UNCHANGED <<pool, handle, resolves, events>>

\* Another exit of the same resolver was faster: the IndexError ends this one.
PopFails(u) ==
    /\ pc[u] \in {"popping", "alone"} /\ callbacks[handle[u]] = <<>>
    /\ Goto(u, "closed")
    /\ UNCHANGED <<pool, handle, resolves, events>>

AtEnd(u) == pc[u] \in {"single", "lone"} \/ (InLoop(u) /\ callbacks[handle[u]] = <<>>)

EndExit_Active(u) ==   \* mutant: `_active` is not cleared
    /\ AtEnd(u)
    /\ Goto(u, "closed")
    /\ UNCHANGED <<pool, handle, resolves, events>>

(* `_active = False` is the last thing an exit does.  What was kept while  *)
(* the last cleanup ran, or while the one that was alone did, stays.       *)
EndExit(u) ==
    /\ AtEnd(u)
    /\ active' = [active EXCEPT ![handle[u]] = FALSE]
    /\ Goto(u, "closed")
    /\ IF pc[u] = "single" THEN DropField(u, handle[u]) ELSE UNCHANGED <<single, cleaner>>
    /\ UNCHANGED <<cache, callbacks, handle, resolves, built, got>>

Done == (\A u \in Unit : pc[u] = "closed") /\ UNCHANGED vars

UnitStep(u) ==
    \/ EnterPooled(u) \/ EnterFresh(u)
    \/ CheckPooled(u) \/ ResetPooled(u) \/ TakePooled(u)
    \/ \E s \in Slot : ResolveCached(u, s) \/ \E inField \in BOOLEAN : ResolveNew(u, s, inField)
    \/ BeginExit(u) \/ CleanField(u) \/ CleanAlone(u) \/ CleanOne(u)
    \/ SeeCallback(u) \/ PopFails(u) \/ EndExit(u)

Next ==
    \/ /\ \E u \in Unit : UnitStep(u)
       /\ UNCHANGED <<freeThreaded, finalisers>>
    \/ Done

Spec == Init /\ [][Next]_vars

-----------------------------------------------------------------------------
Instance == DOMAIN built

TypeOK ==
    /\ freeThreaded \in BOOLEAN /\ finalisers \in BOOLEAN
    /\ active \in [Resolver -> BOOLEAN]
    /\ cache \in [Resolver -> [Slot -> Instance \cup {0}]]
    /\ single \in [Resolver -> Instance \cup {0}]
    /\ callbacks \in [Resolver -> Seq(Instance)]
    /\ handle \in [Unit -> Resolver]
    /\ pc \in [Unit -> {"idle", "checked", "reset", "open", "single", "alone", "lone",
                        "closing", "popping", "running", "closed"}]
    /\ resolves \in 0..MaxResolves
    /\ built \in Seq([unit : Unit, slot : Slot, late : BOOLEAN])
    /\ got \in [Unit -> SUBSET Instance]
    /\ cleaner \in [Instance -> Unit \cup {0}]

\* A unit is handed what was built in it, and always the same instance of a slot.
Isolated(u) ==
    \A n \in got[u] :
        /\ built[n].unit = u
        /\ \A m \in got[u] : built[m].slot = built[n].slot => m = n

(* docs/howto/patterns/request-scope.rst:31, "Scoped services are reused   *)
(* within a single request, but not across requests".                      *)
RequestIsolation == \A u \in Unit : Isolated(u)

(* The builds and programs in which enter_scope is one step: with the GIL, *)
(* and on one event loop or with nothing that runs code when it is         *)
(* dropped.                                                                *)
Undisturbed == ~freeThreaded /\ ~finalisers

\* There that promise is kept.
IsolationWithGil == Undisturbed => RequestIsolation

(* On every build, whatever the units did to the pooled resolver, it is    *)
(* free again when none of them is in its block: it is never lost for good *)
(* to enter_scope.                                                         *)
PoolGivenBack == (\A u \in Unit : pc[u] \in {"idle", "closed"}) => ~active[Pooled]

(* Where entering is one step no unit of work works with a resource that   *)
(* was already cleaned up, by itself or by another unit that had the same  *)
(* resolver before or has it at the same time.                             *)
AliveWhileOpen ==
    Undisturbed =>
        \A u \in Unit : pc[u] = "open" => \A n \in got[u] : cleaner[n] = 0

(* Where entering is one step a unit of work that has left its block has   *)
(* cleaned up what was built in the block, and nothing of an open unit was *)
(* taken away.  What was built during the exit can be left in the pooled   *)
(* resolver; a later unit cleans that up, and only when the unit it was    *)
(* built in is over.                                                       *)
CleanedByOwner ==
    Undisturbed =>
        \A n \in Instance :
            LET owner == built[n].unit
            IN  /\ cleaner[n] \notin {0, owner} => built[n].late /\ pc[owner] = "closed"
                /\ pc[owner] = "closed" /\ ~built[n].late => cleaner[n] = owner
=============================================================================
