---------------------------- MODULE OpenGenerics ----------------------------
(***************************************************************************)
(* Resolution of closed keys from open generic templates by concurrent     *)
(* callers (diwire/_internal/open_generics.py, class _OpenGenericResolver, *)
(* with the container's materialisation callback).                         *)
(*                                                                         *)
(* Every opened scope has a wrapper around its generated resolver.  A key  *)
(* the generated resolver does not know is matched against the registry;   *)
(* the template's provider is then run by the wrapper of the template's    *)
(* scope, which caches the instance under the closed key and keeps one     *)
(* lock per key.  A call is a stack of frames, one per nested key.  An     *)
(* instance is its serial number; 0 stands for anything that is not built  *)
(* from a template.                                                        *)
(*                                                                         *)
(* What the registry finds for a key is given here, since registrations    *)
(* are over when calls begin; GenericApplication computes it.              *)
(***************************************************************************)
EXTENDS Naturals, SequencesExt

CONSTANTS
    AnyKey,         \* the keys that callers and providers ask for, as asked and closed
    Closing,        \* Closing[k]: k with the defaults of its TypeVars
    MaybeOf,        \* MaybeOf[k]: what a key Maybe[T] among them asks for
    BestMatch,      \* BestMatch[k]: the template and the TypeVars' mapping found for a closed key
    Arguments,      \* Arguments[m]: what each parameter of a matched provider gets
    Quiet,          \* keys that a task resolves without ever being suspended
    Caller,         \* concurrent callers
    Wrapper,        \* wrappers of the opened scopes, Root among them
    Root,
    Parent,         \* Parent[w]: the wrapper w was entered from
    LevelOf,        \* scope level of each wrapper
    Transient,      \* templates that are TRANSIENT; the others are SCOPED
    AsyncTemplate,  \* templates whose provider is asynchronous
    TemplateLevel,  \* scope level of each template
    TemplateLock,   \* lock mode of each template
    BaseLevel,      \* BaseLevel[k]: level of the keys the generated resolver knows
    AsyncBase,      \* those of them that require asynchronous resolution
    Requests,       \* bound: the keys callers ask a wrapper for
    Deployments,    \* how the callers run: "threads", "tasks" of one event loop
    Nobody,
    MaxCalls,       \* bound: calls of each caller
    MaxFaults       \* bound: failing providers and materialisations

NoEntry == [kind |-> "none"]
ClosedKey == {Closing[k] : k \in AnyKey}
Matches == {BestMatch[k] : k \in {c \in ClosedKey : BestMatch[c].kind = "match"}}

(* A parameter gets the type argument itself, a key, or nothing when its   *)
(* type has TypeVars that the match leaves open.                           *)
TypeArgument == [is |-> "type"]
OpenArgument == [is |-> "open"]
KeyArgument(k) == [is |-> "key", key |-> k]

ASSUME KeysAssumption ==
    /\ Requests \subseteq AnyKey /\ Closing \in [AnyKey -> AnyKey]
    /\ \A k \in AnyKey : Closing[Closing[k]] = Closing[k]
    /\ DOMAIN MaybeOf \subseteq AnyKey /\ \A k \in DOMAIN MaybeOf : Closing[k] = k /\ MaybeOf[k] \in AnyKey
    /\ \A k \in AnyKey : Closing[k] \in DOMAIN MaybeOf => k = Closing[k]
    /\ \A m \in Matches :
        Arguments[m] \in Seq({TypeArgument, OpenArgument} \cup {KeyArgument(k) : k \in AnyKey})

ASSUME WrappersAssumption ==
    /\ Root \in Wrapper /\ Nobody \notin Caller /\ MaxCalls \in Nat /\ MaxFaults \in Nat
    /\ \A w \in Wrapper \ {Root} : Parent[w] \in Wrapper /\ LevelOf[Parent[w]] < LevelOf[w]

VARIABLES
    deployment,    \* how the callers run
    entries,       \* the shared dispatch caches
    attempted,     \* _materialization_attempted_dependencies
    materialized,  \* closed keys the callback has registered in the container
    cache,         \* cache[w]: instances by closed key
    held,          \* locks: [owner, key, by]
    stack,         \* stack[c]: the frames of c's call, innermost last
    running,       \* the task in control of the event loop
    born,          \* history: every instance, in the order they were built
    given,         \* history: what was handed out for a cached key
    calls, faults

shared == <<entries, attempted, materialized, cache, held>>
vars == <<deployment, shared, stack, running, born, given, calls, faults>>

Init ==
    /\ deployment \in Deployments
    /\ entries = <<>> /\ attempted = {} /\ materialized = {}
    /\ cache = [w \in Wrapper |-> <<>>] /\ held = {}
    /\ stack = [c \in Caller |-> <<>>] /\ running = Nobody
    /\ born = <<>> /\ given = {}
    /\ calls = [c \in Caller |-> 0] /\ faults = 0

-----------------------------------------------------------------------------
(* Scopes and locks of a template. *)

\* The wrappers on the way up to the root: the least set that holds w and their parents.
Above(set) == \A w \in set \ {Root} : Parent[w] \in set
Chain == [w \in Wrapper |-> {o \in Wrapper : \A set \in SUBSET Wrapper : w \in set /\ Above(set) => o \in set}]

\* _scope_owner_for_level: the wrappers of that level w stands in (none if skipped).
OwnersAt(w, level) == {o \in Chain[w] : LevelOf[o] = level}

Owner(w, p) == CHOOSE o \in OwnersAt(w, TemplateLevel[p]) : TRUE

HasAsyncSpecs == AsyncBase # {} \/ AsyncTemplate # {}

EffectiveLockMode(p) ==
    IF TemplateLock[p] # "auto" THEN TemplateLock[p]
    ELSE IF HasAsyncSpecs THEN "async" ELSE "thread"

UsesThreadLock(p) == p \notin AsyncTemplate /\ EffectiveLockMode(p) = "thread"
UsesAsyncLock(p) == p \in AsyncTemplate /\ EffectiveLockMode(p) = "async"

Async == deployment = "tasks"
LocksIn(d, p) == p \notin Transient /\ IF d = "tasks" THEN UsesAsyncLock(p) ELSE UsesThreadLock(p)
Locks(p) == LocksIn(deployment, p)

-----------------------------------------------------------------------------
(* Frames. *)

Frame(key, w) == [at |-> "dispatch", key |-> key, on |-> w, entry |-> NoEntry,
                  args |-> <<>>, value |-> 0]

Top(c) == Last(stack[c])
At(c, label) == stack[c] # <<>> /\ Top(c).at = label

SpecOf(f) == f.entry.template
KeyOf(f) == Closing[f.key]
OwnerOf(f) == Owner(f.on, SpecOf(f))

Put(c, f) == stack' = [stack EXCEPT ![c] = Append(Front(@), f)]
Goto(c, label) == Put(c, [Top(c) EXCEPT !.at = label])
Done(c, v) == Put(c, [Top(c) EXCEPT !.at = "done", !.value = v])

Control(c, next) ==
    IF Async THEN running \in {c, Nobody} /\ running' = next ELSE UNCHANGED running
Runs(c) == Control(c, c)
Yields(c) == Control(c, Nobody)

\* An error leaves through the frame's lock.
Abort_Leaking(f) == "failed"   \* mutant: the lock stays taken
Abort(f) == IF Locks(SpecOf(f)) THEN "unwind" ELSE "failed"

Lookup(w, key) == IF key \in DOMAIN cache[w] THEN cache[w][key] ELSE 0

-----------------------------------------------------------------------------
\* resolve / aresolve of a key on a wrapper.
Ask(c, w, d) ==
    /\ stack[c] = <<>> /\ calls[c] < MaxCalls /\ Runs(c)
    /\ calls' = [calls EXCEPT ![c] = @ + 1]
    /\ stack' = [stack EXCEPT ![c] = <<Frame(d, w)>>]
    /\ UNCHANGED <<deployment, shared, born, given, faults>>

Known(d) == d \in DOMAIN BaseLevel
BaseAnswers(w, d) == OwnersAt(w, BaseLevel[d]) # {} /\ (Async \/ d \notin AsyncBase)

IsMaybe(k) == k \in DOMAIN MaybeOf
IsRegistered(k) == Known(k) \/ BestMatch[k].kind = "match"

(* The generated resolver knows the key, or its default-closed form: what  *)
(* it does is SlotResolution's business; it may suspend the task.          *)
BaseKnows(c) == At(c, "dispatch") /\ ~IsMaybe(Top(c).key) /\ Known(KeyOf(Top(c)))

ResolveBase(c) ==
    /\ BaseKnows(c)
    /\ Goto(c, IF BaseAnswers(Top(c).on, KeyOf(Top(c))) THEN "done" ELSE "failed")
    /\ Runs(c)
    /\ UNCHANGED <<deployment, shared, born, given, calls, faults>>

AwaitBase(c) ==
    /\ BaseKnows(c) /\ Async /\ KeyOf(Top(c)) \in AsyncBase
    /\ BaseAnswers(Top(c).on, KeyOf(Top(c)))
    /\ Goto(c, "done") /\ Yields(c)
    /\ UNCHANGED <<deployment, shared, born, given, calls, faults>>

\* Maybe[T]: None when T is not registered, T itself otherwise.
ResolveMaybe(c) ==
    /\ At(c, "dispatch") /\ IsMaybe(Top(c).key) /\ Runs(c)
    /\ LET inner == MaybeOf[Top(c).key]
       IN  IF IsRegistered(Closing[inner]) THEN Put(c, Frame(inner, Top(c).on))
           ELSE IF BestMatch[Closing[inner]].kind = "invalid" THEN Goto(c, "failed")
           ELSE Done(c, 0)
    /\ UNCHANGED <<deployment, shared, born, given, calls, faults>>

\* The dispatch cache answers.
Dispatch(c) ==
    /\ At(c, "dispatch") /\ Top(c).key \in DOMAIN entries /\ Runs(c)
    /\ Put(c, [Top(c) EXCEPT !.at = "open", !.entry = entries[Top(c).key]])
    /\ UNCHANGED <<deployment, shared, born, given, calls, faults>>

\* The generated resolver does not know the key: the registry is searched.
AfterBaseMiss(c) ==
    /\ At(c, "dispatch") /\ Top(c).key \notin DOMAIN entries
    /\ ~IsMaybe(Top(c).key) /\ ~Known(KeyOf(Top(c))) /\ Runs(c)
    /\ LET best == BestMatch[KeyOf(Top(c))]
       IN  IF best.kind = "match"
           THEN /\ Put(c, [Top(c) EXCEPT !.at = "once", !.entry = best])
                /\ entries' = [k \in {Top(c).key, KeyOf(Top(c))} \cup DOMAIN entries |->
                                  IF k \in {Top(c).key, KeyOf(Top(c))} THEN best ELSE entries[k]]
           ELSE Goto(c, "failed") /\ UNCHANGED entries
    /\ UNCHANGED <<deployment, attempted, materialized, cache, held, born, given, calls, faults>>

\* The first caller of a key runs the materialisation callback, the others go on.
MaterializeOnce(c) ==
    /\ At(c, "once") /\ Runs(c)
    /\ attempted' = attempted \cup {KeyOf(Top(c))}
    /\ Goto(c, IF KeyOf(Top(c)) \in attempted THEN "open" ELSE "materialize")
    /\ UNCHANGED <<deployment, entries, materialized, cache, held, born, given, calls, faults>>

\* _materialize_closed_open_generic_spec registers the closed key, unless a need stays open.
Materialize(c) ==
    /\ At(c, "materialize") /\ Runs(c)
    /\ materialized' = IF OpenArgument \in Range(Arguments[Top(c).entry]) THEN materialized
                       ELSE materialized \cup {KeyOf(Top(c))}
    /\ Goto(c, "open")
    /\ UNCHANGED <<deployment, entries, attempted, cache, held, born, given, calls, faults>>

\* The callback raises: only the caller that ran it gets the error.
MaterializeFails(c) ==
    /\ At(c, "materialize") /\ faults < MaxFaults /\ Runs(c)
    /\ faults' = faults + 1
    /\ Goto(c, "failed")
    /\ UNCHANGED <<deployment, shared, born, given, calls>>

-----------------------------------------------------------------------------
(* _resolve_open_match_sync and _resolve_open_match_async. *)

Mismatch(f) == OwnersAt(f.on, TemplateLevel[SpecOf(f)]) = {}

\* Errors first, then the owner's cache, before any lock.
OpenMatch(c) ==
    /\ At(c, "open") /\ Runs(c)
    /\ LET f == Top(c)  p == SpecOf(f)
       IN  IF Mismatch(f) \/ (p \in AsyncTemplate /\ ~Async) THEN Goto(c, "failed")
           ELSE IF p \in Transient THEN Goto(c, "args")
           ELSE IF Lookup(OwnerOf(f), KeyOf(f)) # 0 THEN Done(c, Lookup(OwnerOf(f), KeyOf(f)))
           ELSE Goto(c, IF Locks(p) THEN "lock" ELSE "args")
    /\ UNCHANGED <<deployment, shared, born, given, calls, faults>>

LockOf_Asker(c) ==   \* mutant: the lock of the wrapper that was asked, not of the owner
    [owner |-> Top(c).on, key |-> KeyOf(Top(c))]

LockOf(c) == [owner |-> OwnerOf(Top(c)), key |-> KeyOf(Top(c))]
Taken(lock) == \E h \in held : h.lock = lock

Acquire(c) ==
    /\ At(c, "lock") /\ ~Taken(LockOf(c)) /\ Runs(c)
    /\ held' = held \cup {[lock |-> LockOf(c), by |-> c]}
    /\ Goto(c, "relook")
    /\ UNCHANGED <<deployment, entries, attempted, materialized, cache, born, given, calls, faults>>

AwaitLock(c) ==
    /\ At(c, "lock") /\ Async /\ Taken(LockOf(c))
    /\ running = c /\ Yields(c)
    /\ UNCHANGED <<deployment, shared, stack, born, given, calls, faults>>

Relook(c) ==
    /\ At(c, "relook") /\ Runs(c)
    /\ LET hit == Lookup(OwnerOf(Top(c)), KeyOf(Top(c)))
       IN  IF hit # 0 THEN Put(c, [Top(c) EXCEPT !.at = "release", !.value = hit])
           ELSE Goto(c, "args")
    /\ UNCHANGED <<deployment, shared, born, given, calls, faults>>

HasAllArguments(f) == Len(f.args) = Len(Arguments[f.entry])
NextArgument(f) == Arguments[f.entry][Len(f.args) + 1]
Lacks(c, argument) == At(c, "args") /\ ~HasAllArguments(Top(c)) /\ NextArgument(Top(c)) = argument

\* A TypeVar or type[TypeVar] parameter gets the type argument itself.
BindTypeArgument(c) ==
    /\ Lacks(c, TypeArgument) /\ Runs(c)
    /\ Put(c, [Top(c) EXCEPT !.args = Append(@, 0)])
    /\ UNCHANGED <<deployment, shared, born, given, calls, faults>>

ResolveArgument_OnAsker(c) ==   \* mutant: on the wrapper the application asked
    \E k \in AnyKey :
        /\ Lacks(c, KeyArgument(k)) /\ Runs(c)
        /\ stack' = [stack EXCEPT ![c] = Append(@, Frame(k, Top(c).on))]
        /\ UNCHANGED <<deployment, shared, born, given, calls, faults>>

\* Any other parameter is closed and resolved by the wrapper that runs the provider.
ResolveArgument(c) ==
    \E k \in AnyKey :
        /\ Lacks(c, KeyArgument(k)) /\ Runs(c)
        /\ stack' = [stack EXCEPT ![c] = Append(@, Frame(k, OwnerOf(Top(c))))]
        /\ UNCHANGED <<deployment, shared, born, given, calls, faults>>

\* A parameter that stays open is an error.
ArgumentOpen(c) ==
    /\ Lacks(c, OpenArgument) /\ Runs(c)
    /\ Goto(c, Abort(Top(c)))
    /\ UNCHANGED <<deployment, shared, born, given, calls, faults>>

IsCached(f) == f.entry.kind = "match" /\ SpecOf(f) \notin Transient
Hands(f) == IF IsCached(f) THEN {[owner |-> OwnerOf(f), key |-> KeyOf(f), value |-> f.value]} ELSE {}

Waiting(c) == stack[c][Len(stack[c]) - 1]   \* the frame that waits for the top one
IsNested(c) == Len(stack[c]) > 1
Return(c, f) == stack' = [stack EXCEPT ![c] = Append(Front(Front(@)), f)]

TakeArgument(c) ==
    /\ At(c, "done") /\ IsNested(c) /\ Runs(c)
    /\ Return(c, [Waiting(c) EXCEPT !.args = Append(@, Top(c).value)])
    /\ given' = given \cup Hands(Top(c))
    /\ UNCHANGED <<deployment, shared, born, calls, faults>>

ArgumentFailed(c) ==
    /\ At(c, "failed") /\ IsNested(c) /\ Runs(c)
    /\ Return(c, [Waiting(c) EXCEPT !.at = Abort(Waiting(c))])
    /\ UNCHANGED <<deployment, shared, born, given, calls, faults>>

AwaitProvider(c) ==
    /\ At(c, "args") /\ HasAllArguments(Top(c)) /\ SpecOf(Top(c)) \in AsyncTemplate
    /\ Goto(c, "await") /\ Yields(c)
    /\ UNCHANGED <<deployment, shared, born, given, calls, faults>>

ProviderTurn(c) ==
    \/ At(c, "await")
    \/ At(c, "args") /\ HasAllArguments(Top(c)) /\ SpecOf(Top(c)) \notin AsyncTemplate

\* The provider returns a new instance.
Build(c) ==
    /\ ProviderTurn(c) /\ Runs(c)
    /\ born' = Append(born, [key |-> KeyOf(Top(c)), owner |-> OwnerOf(Top(c)), args |-> Top(c).args])
    /\ Put(c, [Top(c) EXCEPT !.value = Len(born) + 1,
                             !.at = IF SpecOf(Top(c)) \in Transient THEN "done" ELSE "store"])
    /\ UNCHANGED <<deployment, shared, given, calls, faults>>

ProviderFails(c) ==
    /\ ProviderTurn(c) /\ faults < MaxFaults /\ Runs(c)
    /\ faults' = faults + 1
    /\ Goto(c, Abort(Top(c)))
    /\ UNCHANGED <<deployment, shared, born, given, calls>>

\* set_cached
Store(c) ==
    /\ At(c, "store") /\ Runs(c)
    /\ cache' = [cache EXCEPT ![OwnerOf(Top(c))] =
                    [k \in {KeyOf(Top(c))} \cup DOMAIN @ |-> IF k = KeyOf(Top(c)) THEN Top(c).value ELSE @[k]]]
    /\ Goto(c, IF Locks(SpecOf(Top(c))) THEN "release" ELSE "done")
    /\ UNCHANGED <<deployment, entries, attempted, materialized, held, born, given, calls, faults>>

\* The `with` block ends, by a return or by an error.
Release(c) ==
    /\ At(c, "release") \/ At(c, "unwind")
    /\ Runs(c)
    /\ held' = held \ {[lock |-> LockOf(c), by |-> c]}
    /\ Goto(c, IF At(c, "release") THEN "done" ELSE "failed")
    /\ UNCHANGED <<deployment, entries, attempted, materialized, cache, born, given, calls, faults>>

\* The call returns its value to the application, or raises.
Answer(c) ==
    /\ At(c, "done") \/ At(c, "failed")
    /\ ~IsNested(c) /\ Yields(c)
    /\ given' = IF At(c, "done") THEN given \cup Hands(Top(c)) ELSE given
    /\ stack' = [stack EXCEPT ![c] = <<>>]
    /\ UNCHANGED <<deployment, shared, born, calls, faults>>

-----------------------------------------------------------------------------
CallerStep(c) ==
    \/ ResolveBase(c) \/ AwaitBase(c) \/ ResolveMaybe(c) \/ Dispatch(c) \/ AfterBaseMiss(c)
    \/ MaterializeOnce(c) \/ Materialize(c) \/ OpenMatch(c) \/ Acquire(c) \/ AwaitLock(c)
    \/ Relook(c) \/ BindTypeArgument(c) \/ ResolveArgument(c) \/ ArgumentOpen(c)
    \/ TakeArgument(c) \/ ArgumentFailed(c) \/ AwaitProvider(c) \/ Build(c) \/ Store(c) \/ Release(c) \/ Answer(c)

AllAnswered ==
    /\ \A c \in Caller : stack[c] = <<>> /\ calls[c] = MaxCalls
    /\ UNCHANGED vars

CallerMoves(c) ==
    \/ \E w \in Wrapper, d \in Requests : Ask(c, w, d)
    \/ CallerStep(c)
    \/ MaterializeFails(c) \/ ProviderFails(c)

Next == (\E c \in Caller : CallerMoves(c)) \/ AllAnswered

Spec == Init /\ [][Next]_vars

-----------------------------------------------------------------------------
(* The closed keys that are built from a template, and the keys that a key *)
(* asks for next.                                                          *)
FromTemplate(k) == k \in ClosedKey /\ ~Known(k) /\ ~IsMaybe(k) /\ BestMatch[k].kind = "match"
TemplateOf(k) == BestMatch[k].template

Below ==
    [k \in ClosedKey |->
        IF IsMaybe(k) THEN {Closing[MaybeOf[k]]} \cap {c \in ClosedKey : IsRegistered(c)}
        ELSE IF FromTemplate(k) THEN {Closing[a.key] : a \in {b \in Range(Arguments[BestMatch[k]]) : b.is = "key"}}
        ELSE {}]

\* The closed keys whose instances the wrappers cache.
CachedKey == {k \in ClosedKey : FromTemplate(k) /\ TemplateOf(k) \notin Transient}

\* Nothing below the keys suspends the task that builds one of them.
Suspends(k) == k \in AsyncBase \/ (FromTemplate(k) /\ TemplateOf(k) \in AsyncTemplate)
Settled(keys) == \A k \in keys : ~Suspends(k) /\ Below[k] \subseteq keys

ASSUME QuietAssumption == Quiet \subseteq ClosedKey /\ Settled(Quiet)

-----------------------------------------------------------------------------
TypeOK ==
    /\ deployment \in Deployments
    /\ \A d \in DOMAIN entries : entries[d] \in Matches
    /\ attempted \cup materialized \subseteq ClosedKey
    /\ \A w \in Wrapper : DOMAIN cache[w] \subseteq ClosedKey /\ Range(cache[w]) \subseteq DOMAIN born
    /\ running \in Caller \cup {Nobody}
    /\ \A c \in Caller : calls[c] \in 0..MaxCalls
    /\ faults \in 0..MaxFaults

(* When concurrent callers are safe from building a key twice: its         *)
(* template takes a lock, or all are tasks of one loop and it is quiet.    *)
Guarded(k) == Locks(TemplateOf(k)) \/ (Async /\ k \in Quiet)

(* Callers that ask for one closed key in one scope, in whatever way,      *)
(* share one instance: docs/core/lifetimes.rst, "cached per active scope". *)
SameInstance(promised(_)) ==
    \A g, h \in given :
        g.owner = h.owner /\ g.key = h.key /\ promised(g.key) => g.value = h.value

OneInstancePerKey == SameInstance(Guarded)

(* Objects of one scope are wired to each other: the instance a provider   *)
(* was given for a guarded key is the one its owner's cache holds.         *)
SharedWiring ==
    \A n \in DOMAIN born :
        \A i \in DOMAIN born[n].args :
            LET need == Closing[Arguments[BestMatch[born[n].key]][i].key]
                d    == IF IsMaybe(need) THEN Closing[MaybeOf[need]] ELSE need
            IN  born[n].args[i] # 0 /\ d \in CachedKey /\ Guarded(d) =>
                    born[n].args[i] = Lookup(Owner(born[n].owner, TemplateOf(d)), d)

(* Scopes do not leak: whatever is built in a scope is wired only with     *)
(* instances of that scope and of the scopes it was entered from.          *)
ScopeIsolation ==
    \A n \in DOMAIN born :
        \A i \in DOMAIN born[n].args :
            born[n].args[i] # 0 => born[born[n].args[i]].owner \in Chain[born[n].owner]

WiredWithinScope == ScopeIsolation /\ SharedWiring

(* A caller between two calls holds no lock, also after a failure.         *)
NoLockLeft == \A h \in held : stack[h.by] # <<>>

(* The cached keys are cells of the promise in each wrapper, written once  *)
(* and the only thing handed out for the key.                              *)
Promise == INSTANCE ScopedInstances WITH
    Scope <- Wrapper, Slot <- CachedKey,
    cell <- [w \in Wrapper |-> [k \in CachedKey |-> IF Guarded(k) THEN Lookup(w, k) ELSE 0]],
    handed <- [w \in Wrapper |-> [k \in CachedKey |->
                  IF Guarded(k) THEN {g.value : g \in {h \in given : h.owner = w /\ h.key = k}} ELSE {}]]

ImplementsPromise == Promise!Spec

(* Every call returns or raises.                                           *)
CallsReturn == \A c \in Caller : stack[c] # <<>> ~> stack[c] = <<>>

(* A caller never waits for a lock it holds itself: docs/core/errors.rst,  *)
(* "Circular dependencies are detected during planning".                   *)
NoSelfWait == \A c \in Caller : At(c, "lock") => [lock |-> LockOf(c), by |-> c] \notin held
=============================================================================
