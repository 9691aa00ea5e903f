# diwire in TLA+

Specifications of [diwire](../src/README.md), a dependency-injection container for Python: TLA+
modules of its concurrent and stateful parts, TLC configurations that check them on small
instances, and TLAPS proofs of what matters most for every instance. Source paths below are
relative to `src/src/diwire/_internal/`; `compiler.py` and `planner.py` are in `resolvers/assembly/`.

## 1. The system

An application registers *providers* with a container. On the first resolution the container
*compiles* the registrations: the planner turns each provider into a *slot* with a scope level, a
lifetime, a lock mode and a list of argument slots, and the assembly compiler generates one
resolver class per scope level, with one `resolve_<slot>` and `aresolve_<slot>` method per slot.
From then on resolution is method calls on resolver objects: the root resolver, and the resolvers
that `enter_scope` creates for sessions, requests, actions and steps. Threads share the root
resolver and often the resolvers of a scope; asyncio tasks share all of them.

| Component | State | Operations | What is hard | Correct when | Model |
|---|---|---|---|---|---|
| Slot resolution (`compiler.py`) | `_cache_<slot>`, the rebound method, one lock per slot | `resolve_<slot>`, `aresolve_<slot>` | double-checked locking by threads and tasks, arguments resolved inside the lock, failure and cancellation | one instance per scope and slot; all objects of a scope share it; no deadlock, no lock left behind | `SlotResolution`, `ScopedInstances` |
| Planner (`planner.py`) | none (a function of the registrations) | asynchronous need, deepest required level, effective lock mode, cycle check | the plan decides which slots are locked and where they live | as above | functions in `SlotResolution`, `ScopeTree` |
| Cleanup (`compiler.py`, `open_generics.py`) | `_cleanup_callback_single`, `_cleanup_callbacks`, `_owned_scope_resolvers` | generator and context-manager providers, `__exit__`, `__aexit__`, `close`, `aclose` | three places of registration, failing and interrupted cleanups, asynchronous cleanups in a synchronous exit, resolution while closing | every resource cleaned up once, deeper scopes first, whatever else fails | `CleanupStack` |
| Pool of scope resolvers (`compiler.py`) | `_active`, and all fields of the pooled resolver | `enter_scope` on the root, the exits | overlapping requests, stale fields, finalisers, resolution while closing, free-threaded Python | requests share nothing | `ScopePool` |
| Scope tree (`compiler.py`, `scope.py`, `open_generics.py`) | references to the enclosing resolvers, owned resolvers | `enter_scope`, constructors, exits | skippable levels, explicit targets, chains of resolvers, wrappers that work the way out again | a resolver's references are the scopes around it; slots resolve exactly where those are open | `ScopeTree` |
| Dispatch (`compiler.py`) | memo of the last dependency and its method | `resolve(dependency)`, `aresolve` | threads that share the memo | the method called is that of the dependency asked for | `DispatchMemo` |
| Dispatch of wrappers (`open_generics.py`) | inline pair, hot pairs, shared slot index | `resolve`, `aresolve` of a wrapper, `enter_scope` | caches copied from root to children while others replace them | as above | `WrapperDispatch` |
| Open generics (`open_generics.py`) | templates; caches, locks and materialised keys | registration, match, closed resolution | nested type arguments, overlapping templates, one lock per key of the owner | the narrowest template serves; one instance per closed key and scope; scopes do not leak | `GenericKeys`, `GenericRegistry`, `OpenGenerics`, `GenericApplication` |
| Container graph (`container.py`, `providers.py`, `resolvers/manager.py`, `autoregistration.py`) | registrations, graph revision, compiled root, bound entry points, snapshot | `add*`, `compile`, `resolve` with autoregistration, rollback, `with container` | resolution changes the registrations, roots are discarded, registrations fail half way | the root in use is the one of the registrations; a refused registration leaves no trace | `ContainerGraph`, `Container` |
| Decorators (`container.py`) | rules, chains of alias keys | `decorate`, registration of a decorated key | order, re-registration, rollback | decorators in order around the binding | `ContainerGraph`, `Container` |
| Resolver context (`resolver_context.py`) | two ContextVars per task, the fallback container | blocks, `inject`, `resolve` | nested blocks, tasks that inherit a context | each task sees its innermost binding | `Injection` |
| Function injection (`container.py`, `injection.py`) | the inferred scope of a callable, the scope of a call | injected functions and coroutines; generator functions, whose call ends when it returns the generator | registrations after decoration, failures between scope and body | the scope is deep enough and lives as long as the call | `Injection` |
| Signatures, markers, validators, exceptions | none | inspection | – | – | not modelled: data of the interpreter |
| Code generation (AST and source building) | none | – | – | – | not modelled as such: the modules model the generated code |
| Framework integrations (`integrations/`), `tools/` | none between requests | adapters, measurements | – | – | not modelled: code outside the repository, scripts |

The components interact by direct calls. An entry point of the container (`Container`) or an
injected call (`Injection`) gets the compiled root and enters scopes (`ScopeTree`). With open
generics each resolver has a wrapper, whose dispatch (`WrapperDispatch`) ends in a slot method of
the resolver or, for a closed key, in a template (`OpenGenerics`); without them the resolver's own
dispatch (`DispatchMemo`) does. A slot method (`SlotResolution`) finds the owner of the slot
through the references of its resolver, builds the value, keeps its cleanup with the resolver of
the slot's scope (`CleanupStack`) and publishes it in that resolver's cache, which `enter_scope`
may have used for another request before (`ScopePool`).

## 2. The modules

| Module | About |
|---|---|
| `SlotResolution` | concurrent resolution of slots: a detailed specification |
| `OpenGenerics` | concurrent resolution of closed keys from templates, over what the registry finds for each key: another |
| `GenericKeys`, `GenericRegistry` | keys, matching, substitution, the choice of a template |
| `GenericApplication` | registration and resolution together: computes what `OpenGenerics` is given, and composes the two |
| `ScopedInstances` | what the container promises of a cached provider: the abstract specification of both |
| `CleanupStack` | registration of cleanups and the exits of a chain of resolvers or wrappers |
| `ScopePool` | units of work over the pooled and fresh resolvers |
| `ScopeTree` | scopes, references, and the lookup of slots |
| `DispatchMemo`, `WrapperDispatch`, over `DispatchCallers` | the dispatch caches of resolvers and of wrappers; the callers of both |
| `ContainerGraph` | what one registration does to the registrations: functions of a graph |
| `Container` | threads that register, resolve and enter a container |
| `Injection` | the resolver context and injected calls of tasks |
| `MCSlotResolution`, `MCScopeTree`, `MCOpenGenerics`, `MCContainer` | applications for TLC |
| `MCScopePool` | the symmetry of the `Pool` run |
| `SlotResolution_proofs`, `ScopeTree_proofs`, `Container_proofs`, `CleanupStack_proofs`, `Dispatch_proofs`, `OpenGenerics_proofs`, `ScopePool_proofs`, `Injection_proofs` | theorems |

A definition marked `\* mutant` is a plausible error in the definition after it. No specification
uses it; substituted for the original it breaks the property that `PROJECT.json` names beside it,
which shows that the property depends on that part of the code.

### SlotResolution

A caller is an OS thread or an asyncio task (`ThreadOf` maps it to its thread; tasks of one loop
share one). A call runs one frame per slot. `self[t][s]` is the resolver the frame runs on, `pc`
where it is, `got` the arguments it has, `value` its local. Because the planner rejects circular
graphs (`AcyclicAssumption`), a caller has at most one frame of a slot, and no stack is needed.

| Action | Code |
|---|---|
| `Call`, `Return` | the application's call of a generated method |
| `Delegate`, `CallRebound` | finding the owner, scope mismatch, the method replaced on the root |
| `Look`, `Acquire`, `Relook`, `Release` | `cached_value = ...`, `with lock:`, the second check, the end of the block (also by an error: `unwind`) |
| `AwaitLock`, `CancelWait` | `async with lock` on a taken lock; its cancellation |
| `CallArg`, `TakeArg`, `ArgFailed` | `_build_argument_parts_*` |
| `AwaitProvider`, `Build`, `Raise` | `_build_local_value_*` and the provider |
| `Store`, `Rebind` | `_replace_sync_cache`, `_replace_async_cache`: two writes, two steps |

Each read or write of shared state is one step, for threads; a task keeps its thread until it
awaits something that is not ready (`Control`). The specification lets a waiter of an
`asyncio.Lock` be overtaken, which the real lock does not: it has more behaviours than the code,
never fewer.

`ImplementsPromise` is the refinement: `ScopedInstances`, with the cache of guarded slots as its
cell and the values that callers got as what was handed out. Guarded slots are the locked ones,
and, when all callers share one loop, the synchronous cached ones of a mixed graph: these have no
lock, and are safe only because building them never gives up the thread. `LocksKeepPromise` is the
same refinement for the slots that have a lock.

### CleanupStack

Resolvers 1..`Depth` are what one `enter_scope` over several levels creates; the deepest owns the
others and is the handle. `Register` keeps a cleanup in the field or in the list by the rule of the
method that called the provider; `Exit` is `__exit__`, `close`, `__aexit__` or `aclose`, with or
without an exception of the body. A cleanup takes time (`running`): `RegisterLate` resolves
something in the scope meanwhile. `BeginExit` has the three ways an exit can go: the lone cleanup
in the field, the lone one in the list, and the loop. `CloseOwned` calls the exits of the owned
resolvers, deepest first, and keeps the first error. The path "context" is registered exactly as
"generator" is; the run has the latter.

A cleanup returns, raises, or is interrupted (`Outcome`): ended by a `CancelledError`, a
`KeyboardInterrupt` or another error that is no `Exception`. The generated exits catch
`BaseException` and go on; the loops of wrappers catch `Exception`, so an interruption leaves them
and the exit of the handle at once (`CutShort`, `cut`). What a wrapper's own list then still holds
is cleaned up if the handle is closed again, as are the owned wrappers whose exits are in that list
(`left`, `CloseLeft`). A loop that pops from another list forgets those exits, and the next exit
starts with all owned wrappers again.

`keeper` is chosen at the start: no open generics (`"resolver"`); wrappers that use the lists of
the resolvers they wrap (`"wrapped"`, where the handle's exit runs the wrapped exit and then closes
what the wrapper owns); and wrappers with lists of their own, because the generated resolvers need
no cleanup (`"wrapper"`, whose loop also takes what is registered while owned wrappers close).

### ScopePool

Units of work (requests) enter, resolve SCOPED resources, and leave once. A unit resolves in its
block, or while one of its cleanups runs: by the cleanup itself or by another of its tasks.

Between reading `_active` and setting it `enter_scope` overwrites the caches and the field of the
pooled resolver. CPython with the GIL switches threads at calls and backward jumps, and the
generated code has none there. But what is overwritten may be the last reference to a value of the
request before, or to a generator that was not run; dropping it can run a `__del__`, a weakref
callback or the rest of the generator, and those are calls. So `freeThreaded` and `finalisers` are
chosen at the start, and entering is one step (`EnterPooled`) with the GIL when nothing is dropped
(`Drops`) or nothing that is dropped runs code; otherwise it is three (`CheckPooled`,
`ResetPooled`, `TakePooled`), with other units between them. Without the GIL `while callbacks` and
`pop` are two steps as well (`SeeCallback`). `Undisturbed` are the behaviours where entering is
always one step; on one event loop nothing else runs in a finaliser, so `finalisers` is false there.

An exit runs the cleanup in the field directly (`CleanField`), the lone one of the list directly
(`CleanAlone`), or loops (`CleanOne`). The loop also takes what is registered while a cleanup runs;
the two direct ways do not, and `enter_scope` resets the field but not the list. So what was
registered late stays in the pooled resolver: in the list until the next exit of a unit that has
this resolver, in the field until the next `enter_scope` drops it (`DropField`), which closes the
generator.

### ScopeTree

Every way to enter scopes from every open resolver, to levels by default or by name, and to leave
the blocks in any order. `Open` is the constructor with its references, `TransitionPlan` the loop
of `_build_transition_plan_to_target`, `Chain` the resolvers it creates and their ownership.
`Resolve` is how a slot's method looks its scope up, for generic and for specialised methods; it is
compared with `Provided`, which defines where a slot can be resolved from the parents alone.
`WrapperPath` and `WrapperOpened` are the way open generic wrappers enter the same scope, one
level at a time. Reuse of pooled resolvers is left to `ScopePool`.

### DispatchMemo

`DispatchCallers` has the callers that this module and `WrapperDispatch` share: what each has asked
for and the method it is about to call. Here callers ask one resolver for dependencies. `Hit` and
`Remember` are the memo with the GIL; `CompareHit`, `ReadMethod`, `WriteDependency`, `WriteMethod`
the same accesses without it. Only transient slots enter the memo; one of them may have its
construction inlined (`Fused`).

### WrapperDispatch

A caller (`kind`: of `resolve` or `aresolve`) asks the root wrapper or a child for a dependency;
what it calls in the end is named after the dependency it provides (`method`). `inline` is the pair
of attributes of a wrapper, `hot` the root's pairs, `childHot` and `asyncHot` what a child copied,
`snapshot` the state that new children start from (`_refresh_shared_child_state`), `functions`,
`bound` and `dispatched` the index. A step ends where CPython may switch threads: at a call.
`_set_sync_hot_base_dependency` looks a function up between its two stores, so `SetHotDependency`
and `SetHotFunction` are two steps, inside the shared lock; `TakeHotDependency` and
`TakeHotFunction` are the two calls of `aresolve` that read the asynchronous pair without it.
`oneLoop` says that the asynchronous callers are tasks of one event loop (`MayRun`).

### GenericKeys, GenericRegistry, OpenGenerics, GenericApplication

A key is a tree `[of, args]`; a TypeVar is a leaf. `Normalize`, `Substitute`, `CloseWithDefaults`,
`Specificity` and `MatchNode` are the functions of the same names in `open_generics.py`,
`FindBestMatch` the choice of the template. Their reference is `InstanceBy`: a template serves a
key if some assignment of its TypeVars to subterms of the key makes it that key (`MatchExact`,
`NarrowestServes`, for every order of registration).

In `OpenGenerics` the wrappers of the open scopes are given (`Parent`, `LevelOf`). `stack[c]` holds
the frames of a call: `dispatch` (`ResolveBase`, `ResolveMaybe`, `Dispatch`, `AfterBaseMiss`), `once` and
`materialize` (`_materialize_closed_dependency_once` and the container's callback), `open`, `lock`,
`relook`, `args`, `await`, `store`, `release` (`_resolve_open_match_sync` / `_async`). The owner of
a template's instances is the wrapper of its level around the one that was asked; cache, lock and
provider are the owner's. Callers are threads or tasks (`deployment`).

Matching is recursive over the arguments of a key, and proofs cannot reach a recursive operator.
So `OpenGenerics` is given the registry's answers: `BestMatch` for each closed key, `Closing` (its
TypeVars' defaults), `MaybeOf`, and `Arguments`, what each parameter of a matched provider gets: the
type argument, a key, or nothing because a TypeVar stays open. Registrations are over when calls
begin, so these are constants. `GenericApplication` registers with `GenericRegistry` and computes
the answers from it; `ServedAssumption` compares them with the tables that `MCOpenGenerics` writes
out, when TLC starts. Each of its steps is a registration, which leaves the variables of
`OpenGenerics` alone, or a step of `OpenGenerics`.

### ContainerGraph, Container

A key is `<<name, i>>`, `<<name, 0>>` the application's and the others alias keys of decorations.
`ContainerGraph` has the functions: the specs the registration methods make, `Refresh` (the cleanup
flags), `ApplyPending`, `EnsureKeys`, `Rebuild` (decoration chains), `AutoClosure` and
`AutoregisterOne` (classes that are registered because something asks for them), `Materialized`
(closed keys made at compilation). `Decorates` and `AcyclicAssumption` bound the applications to
those whose constructors and decorators do not ask for each other in a circle: on a circular graph
`_refresh_needs_cleanup_flags` need not end (section 4), and there is no graph to speak of.

`Container` runs them. A mutation is `FindTarget` (outside the lock), `Begin` (the lock, the purge
of closed keys, the snapshot), `Body`, `Finalize`, and `Commit` or `Rollback`; `BodyFails` is the
error that is not rolled back (`torn`). A resolution is `Entry`, `Compile`, and `Known`,
`Materialize`, `Refuse` or `Missing`; the last leads to `ReadRevision`, `EnsureAutoregistration`,
a nested mutation, and `CompareRevision`, which compiles again or raises. `CallEnter`,
`EnterContainer` and `ExitContainer` are one `with container` block. A root is the revision and
the graph it was compiled from. Threads that do not hold the lock see its steps.

### Injection

Tasks of one event loop; a step is what a task runs without an await. `context[t]` holds the two
ContextVars, `frames[t]` the blocks and injected calls it is in. The graph is reduced to the level
of the injected dependency (`need`), which `Register` moves. `CallInjected` and `CallExplicit`
choose the resolver (context, fallback container, or the `diwire_resolver` argument), the scope
(`TargetLevel`: inferred and kept per revision, explicit, or none) and open it; `ResolveArguments`
finds the resolver too shallow or enters the body; `Exit` leaves, with or without an error of the
cleanup. `inject` has no branch for generator functions, synchronous or not: the wrapper is that of a
plain function, which returns the generator object and closes the scope (`Resolved`). Its body runs
in whatever task takes the next value, in that task's context (`Iterate`), with arguments of a scope
that may have closed.

## 3. What is checked

| Run | Properties | Instance | Result |
|---|---|---|---|
| `SlotThreads` | `TypeOK`, `OneInstancePerScope`, `SharedWiring`, `LockOrder`, `NoLockLeft`, `LocksKeepPromise`, `CallsReturn` | 2 threads, 2 calls each, app and 2 requests, chain of 3 cached slots, 1 failure | holds |
| `SlotTasks` | `OneInstanceOnOneLoop`, `ScopeIsolation`, `ImplementsPromise`, `CallsReturn` | 2 tasks of a loop, 2 calls each, 6 slots at other levels than they need, a skipped level, 1 failure or cancellation | holds |
| `Cleanup` | `CleanedOnce`, `EveryCleanupTaken`, `CleanupOrder`, `FirstErrorRaised` | chain of 3, with and without wrappers, 3 resources of 3 kinds, 2 closes, failing and interrupted cleanups, late registration | holds |
| `Pool` | `IsolationWithGil`, `PoolGivenBack`, `AliveWhileOpen`, `CleanedByOwner` | 3 units, 2 slots, 3 resolutions in all, both builds, with and without finalisers; units and slots are symmetric | holds |
| `Scopes` | `ReferencesEnclose`, `MandatoryLevelsOpen`, `AllClosed`, `ResolvesWhereOpen`, `WrappersOpenTheSame` | 4 levels, every set of skippable ones, 6 resolvers, 3 blocks, 6 slots | holds |
| `Dispatch` | `AnswersWithGil` | 3 threads, 2 calls each, 4 dependencies | holds |
| `WrapperDispatch` | `SyncAnswers`, `AsyncAnswersOnOneLoop`, `HotPairsWhole` | 2 callers of any kind, 2 calls each, root and a child, 3 dependencies of which one has no slot | holds |
| `OpenGenerics` | `RegistryServes`, `WiredWithinScope`, `ImplementsPromise`, `CallsReturn` | up to 3 registrations of 11 templates in any order against 16 keys; then 2 threads or tasks, 6 templates, app and 2 requests, 1 failure | holds |
| `Container` | `DecoratedInOrder`, `RootIsCurrent`, `ContractsKept`, `CleanupFlagsExact`, `MissingIsJustified` | 2 threads, one of them registers and opens the block; 2 calls each, 3 names, 2 decorators, a generic that may refuse its argument, 2 injected callables | holds |
| `Injection` | `ContextFollowsBlocks`, `ScopesGivenBack`, `CallsDeepEnough` | 2 tasks, 5 operations in all, 3 levels, 1 registration, 4 kinds of callable, one of them a generator function | holds |
| `OpenCircular` | `NoSelfWait` | 2 threads, two templates that need each other | **violated**, finding 1 |
| `ContainerSingleton` | `SingletonKept` | 2 threads that only resolve | **violated**, finding 2 |

Deadlock is checked in every run: a specification stops only in a step that says that the calls,
closes, units or operations its bounds allow are over.

What the less obvious ones say:

- `EveryCleanupTaken` and `FirstErrorRaised` are of exits that ran to their end, whatever failed in
  them; of one that an interruption cut short they say that closing the handle again takes up
  the rest, and that the error it raised is such an interruption (section 4, finding 19).
  `CleanedOnce` holds for all exits, and so does the order within one resolver.
- `CleanedByOwner`: where entering is one step, what a unit built in its block is cleaned up by that
  unit. What it built during its exit may be cleaned up by a later unit, never before the first is
  over (section 4, finding 4).
- `IsolationWithGil` and `AliveWhileOpen` are of the behaviours where entering is one step
  (`Undisturbed`); of the others they are false (section 4, finding 6). `PoolGivenBack` is of all.
- `ScopesGivenBack` is about calls: the call of a generator function is over, and its scope closed,
  before the body of the generator begins (section 4, finding 20).
- `MissingIsJustified` is an action property: a thread is told that a dependency is missing only if
  it cannot be provided, or another registration is incomplete, unless another thread registered
  something during its call (`alone`). The exemptions are real divergences, see section 4.
- `RootIsCurrent` compares the compiled root, and what the entry points are bound to, with the
  registrations after every commit, rollback and run-time materialisation.
- `ContractsKept` is the promise to injected callables with a fixed scope: a registration that
  makes them need a deeper one is refused, and `Rollback` undoes all of it. It is about what is
  registered without the keys that were made at run time, which no registration sees (section 4).
- `WiredWithinScope`: whatever a template's provider gets belongs to the scope of the instance or
  one around it, and is the instance its scope's cache holds.
- `HotPairsWhole` is why `SyncAnswers` holds: the pairs that are passed on never mix two dependencies.
- `CallsDeepEnough` is about callables whose scope was inferred before a registration; it exempts a
  context-bound resolver that was compiled from an older graph (`asked`), see section 4.

Bounds. `MaxCalls`, `MaxFaults`, `MaxResources`, `MaxCloses`, `MaxResolves`, `MaxNodes`,
`MaxBlocks`, `MaxRules`, `MaxOps` and `MaxChanges` bound the length of a behaviour, nothing else;
`MaxRegistered` how many templates are registered in an arbitrary order (after that the served
application registers its own in its order). Two callers are enough to race for a slot, and two
calls of each to meet what a first one left behind: a value, a rebound method, a lock after a
failure. The chain `work -> repo -> config`, `work -> config` has a lock taken inside a lock, a
slot shared by two providers and slots of two levels. Three resources in a chain of three resolvers
include one per resolver, all in one, and two in one around a late one. Three units are needed for
one in the pooled resolver, one fresh, and one that takes the pooled resolver over; three
resolutions for a unit that has two cleanups, or one and a late one, and a next one that meets what
is left. Four levels
with any set of them skippable give every shape of transition of the five-level default. In
`OpenGenerics` one call is enough, as it makes up to five nested ones. In `Container` two calls of
the registrar make a registration and a decoration in either order, two decorations, or a
registration over a decoration; `Kind` is an instance and a generator, as kinds differ in nothing
else that the properties see (a resource, a deeper scope, arguments). In `Injection` five
operations make a block, a task started inside it and calls of both, one inside the other; a
generator that one task makes and another runs; or a registration between two calls.

Fairness. `FairSpec` is weak fairness of each caller's own steps (`TaskStep`, `CallerStep`): the OS
scheduler runs a runnable thread in the end, an event loop runs its ready tasks in turn, and
provider calls terminate. Nothing obliges the application to call or a provider to fail, and no
fairness is put on `Call`, `Ask`, `Raise`, `CancelWait` or the failures. Weak fairness is enough
although lock acquisition can be enabled and disabled again: each caller makes finitely many
calls, so in the end nobody competes.

## 4. Findings

Shown by runs that TLC ends with a violation, and by running the code:

1. **Circular open generics hang** (`OpenCircular`, `open_generics.py:1006`). `docs/core/errors.rst:36`:
   circular dependencies are detected during planning. Templates are not planned: two SCOPED ones
   that need each other make the resolving thread wait for a lock it holds.
2. **Singletons are rebuilt** (`ContainerSingleton`, `container.py:3367`). `docs/core/lifetimes.rst:18`:
   the value of a root-scoped SCOPED provider is cached for the lifetime of the container. Every
   change of the registrations discards the root with its caches, and resolving a class that is not
   registered yet is one. The cleanups that the old root keeps are then run by nobody.

Known divergences that other properties, defined in the modules but in no run, state. TLC finds
each of them violated in the configuration of the component's run (for finding 7 with
`Registrar = {}` and `Generic = {}`):

3. `LastInFirstOut` (`compiler.py:1951`, against `test_resolver_runtime_assembly.py:1703`): the
   cleanup in the field is appended to the list last and popped first, so it runs before those in
   the list though it was registered before them.
4. `CleanedAtClose` (`compiler.py:2775`, against `docs/core/lifetimes.rst:40`): what is provided
   while a lone cleanup runs is not cleaned up by that exit. When the resolver is the pooled one the
   exit of a later request runs it, or, for a generator in the field, the next `enter_scope`
   (`ScopePool`). Confirmed by running the code.
5. `MismatchReported` (`compiler.py:2187`, against `docs/core/errors.rst:23`): a specialised method
   ends in an `AttributeError` where a skipped level was needed.
6. `RequestIsolation` (`compiler.py:839`, against `docs/howto/patterns/request-scope.rst:31`) and
   `AnswersTheQuestion` (`compiler.py:1120`): on free-threaded builds two threads can take the
   pooled resolver at once, and read a half-replaced memo. `README.md:13` supports such builds. By
   the model only. The pooled resolver is also taken twice with the GIL, when a finaliser of what
   the reset overwrites (`compiler.py:845`, `849`) lets another thread enter: both requests then get
   the same SCOPED instances, and the exit of one cleans up what the other uses. Confirmed by
   running the code with a `__del__` that waits.
7. `MissingMeansUnprovidable` (`planner.py:925`, `container.py:3568`, against
   `docs/core/errors.rst:15`): an autoregistration that fails because an argument cannot be
   provided leaves its spec behind; from then on every compilation raises, whatever is asked for.
8. `ContractsSeeTemplates` (`container.py:2866`, against `test_container_inject.py:714`): a
   registration is accepted although an injected callable with an explicit scope comes to need a
   deeper one by it. A key that a template serves is judged by the scope of the template alone
   (`container.py:2249`); the closed key is registered when it is first resolved
   (`container.py:3371`), which revalidates nothing, and the call raises `DIWireScopeMismatchError`.
   Confirmed by running the code. Defined in `Container`, violated in the configuration of its run.

Seen while modelling, without a property of their own (19 and 20 are in the models, and exempt from
the properties named in section 3):

9. The lookup of a missing class compares the revision before and after; a second thread that
   registers the same class in between makes the first one raise (`container.py:3561-3569`).
   `docs/howto` advises against mutating while resolving, but here both only resolve.
10. An error of a type argument (`container.py:2619`) is not rolled back: the new binding stays, the
   compiled root too (`torn`).
11. A template pair such as `Pair[T, T]` and `Pair[T, U]` has equal specificity, and the later
    registration serves `Pair[int, int]` (`NarrowestServes` leaves repeated TypeVars out).
12. The asynchronous hot pair can be torn by callers on different event loops
    (`open_generics.py:556-558`); `AsyncAnswersOnOneLoop` states when it cannot.
13. An async template with a synchronous provider that waits for an asynchronous argument takes no
    lock: two tasks build it twice (`Guarded` in `OpenGenerics` leaves such keys out).
14. Only the first caller of a closed key sees a failure of its materialisation.
15. `Container._entered_root_resolver` is one field: nested or overlapping `with container` blocks
    close the wrong root (`Container` has one block at a time).
16. A context-bound resolver of a discarded root knows the old scope of a dependency: an injected
    call may open no scope for it and raise `DIWireScopeMismatchError`.
17. Containers share one resolver context: inside `with b:`, `a.resolve` may answer from `b`.
18. A circular graph can hang a registration (`providers.py:264-283`): the cleanup flags are
    recomputed until none changes; in `A -> B -> C -> A`, once `B`, a generator, is replaced by a
    class, its cleared flag goes round for ever. The thread keeps the graph lock.
    `docs/core/errors.rst:36` has circles detected, but only during planning.
19. The loops that run a wrapper's own cleanups catch `Exception` only (`open_generics.py:2246`,
   `2268`), the generated exits `BaseException` (`compiler.py:2794`, `2804`, `2861`, `2869`). When a
   cleanup of an open generic ends with a `CancelledError` or `KeyboardInterrupt`, the remaining
   cleanups of that exit are skipped and an earlier error is masked. A second `close` runs them,
   but nothing makes one. Confirmed by running the code.
20. The scope of an injected generator function is closed before the first line of its body runs
   (`container.py:2806-2814`): the body works with resources that were already cleaned up.
   Confirmed by running the code, for synchronous and asynchronous generators.
21. The scope of an injected callable is inferred (`container.py:3129`) before the revision is read
   that it is kept for (`container.py:3140`). When another thread registers in between, the call at
   hand succeeds, and every later one raises `DIWireScopeMismatchError` until the registrations
   change again. Confirmed by running the code. `Injection` is about the tasks of one loop, where
   the two are one step, so `CallsDeepEnough` says nothing of it.
22. Dependencies are registered in nested mutations whose errors are suppressed
   (`container.py:2624`), but an error inside the nested mutation has already marked the outer one
   as failed: the whole registration is rolled back while the call returns normally. Confirmed by
   forcing an error. No sequence of calls was found that raises there (what a nested call
   validates, it validates before its mutation begins), so `Container` does not have the case.

## 5. What is proved

Theorems hold for every value of the constants that satisfies the named assumptions, which TLC
evaluates on every instance.

| Module | Theorem | States |
|---|---|---|
| `SlotResolution_proofs` | `TypeCorrect`, `OneInstance`, `OneInstanceOnLoop`, `WiringShared`, `ScopesIsolated`, `LocksReleased`, `LocksOrdered`, `LocksImplement`, `Implements` | `TypeOK`, `OneInstancePerScope`, `OneInstanceOnOneLoop`, `SharedWiring`, `ScopeIsolation`, `NoLockLeft`, `LockOrder`, `LocksKeepPromise`, `ImplementsPromise` |
| `ScopeTree_proofs` | `TypeCorrect`, `ReferencesCorrect`, `MandatoryOpen`, `BlocksClose`, `ResolvesCorrectly`, `WrappersAgree`; `AssumedOfScopes` | `TypeOK`, `ReferencesEnclose`, `MandatoryLevelsOpen`, `AllClosed`, `ResolvesWhereOpen`, `WrappersOpenTheSame`; what `SlotResolution` assumes of scopes |
| `Container_proofs` | `TypeCorrect`, `FlagsExact`, `DecoratedCorrectly`, `RootCurrent`, `ContractsOutlast`, `MissingJustified` | `TypeOK`, `CleanupFlagsExact`, `DecoratedInOrder`, `RootIsCurrent`, `ContractsKept`, `MissingIsJustified` |
| `OpenGenerics_proofs` | `TypeCorrect`, `WiringWithinScope`, `OneInstance`, `LocksReleased`, `CirclesOnly`, `Implements` | `TypeOK`, `WiredWithinScope`, `OneInstancePerKey`, `NoLockLeft`, `NoSelfWait` of templates without circles, `ImplementsPromise` |
| `Dispatch_proofs` | `MemoTypeCorrect`, `Answers`, `AnswersElsewhere`; `TypeCorrect`, `SyncAnswered`, `RootAnswered`, `HotPairsAreWhole`, `AsyncAnswered` | of the memo `MemoTypeOK`, `AnswersWithGil`, `AnswersOutsideMemo`; of the wrappers `TypeOK`, `SyncAnswers`, `RootAnswers`, `HotPairsWhole`, `AsyncAnswersOnOneLoop` |
| `ScopePool_proofs` | `TypeCorrect`, `GivenBack`, `Isolation`, `Alive`, `Owned` | `TypeOK`, `PoolGivenBack`, `IsolationWithGil`, `AliveWhileOpen`, `CleanedByOwner` |
| `CleanupStack_proofs` | `TypeCorrect`, `Once`, `Taken`, `Order`, `FirstRaised` | `TypeOK`, `CleanedOnce`, `EveryCleanupTaken`, `CleanupOrder`, `FirstErrorRaised` |
| `Injection_proofs` | `TypeCorrect`, `DeepEnough`, `GivenBack`, `Context` | `TypeOK`, `CallsDeepEnough`, `ScopesGivenBack`, `ContextFollowsBlocks` |

**Slots.** Assumptions: `ScopesAssumption` (a resolver's references cover the levels from the
root's to its own, hold itself at its own and the root at the root's: `AssumedOfScopes` proves it
of the trees that `ScopeTree` builds), `SlotsAssumption` (types), `CallersAssumption` (each caller
is on one thread), `AcyclicAssumption` (the planner's check). None of the properties is inductive.
`IInv` is the conjunction of:

- `TypeInv`: the types, and that a frame never has more arguments than its slot (`FrameInv`);
- `ChainInv`: the live frames of a caller are one chain from its goal, each waiting for the next
  argument of the one before, so ranks decrease along it: without it a frame could be re-entered,
  and nothing could be said about the locks of a caller that has returned;
- `LockInv`: a slot's lock is held by exactly the callers whose frame is between `Acquire` and
  `Release`;
- `AsyncInv`: whatever waits for an asynchronous frame is asynchronous, so a synchronous one has
  only synchronous frames below it;
- `LoopInv`: a task that builds a slot that only the event loop guards keeps running its thread,
  because by `AsyncInv` nothing below it awaits; so one task at a time builds it (`OneBuilder`);
- `OnceInv`: for a guarded slot, whatever was handed out, rebound or is about to be is what the
  owner's cache holds, and a frame that may still write it is the only one and finds it empty;
- `NestInv`: the frame of an argument runs on the resolver where its caller expects it;
- `WireInv`: the arguments that an instance was built with, and those a frame has collected, are
  what the caches of their owners hold; caches are never overwritten, so it stays so.

`LEMMA Inductive` is `Spec => []IInv`, one lemma per conjunct with one step per action.
`LocksOrdered` follows from `ChainInv`: a held lock belongs to a frame further up the chain, which
has a higher rank. `OneInstance` and `OneInstanceOnLoop` are `OnceInv` for the slots that a lock and
that the loop guards, `WiringShared` and `ScopesIsolated` follow from `WireInv` and `OnceInv`.
`LocksImplement` and `Implements`: a step that writes the cache of a guarded slot writes an empty
cell, and a step that delivers a value delivers what the cell holds; each is a step of
`ScopedInstances` (`HandStep`), and every other step stutters.

**Open generics.** Assumptions: `KeysAssumption` (closing a key closes it, a `Maybe` is closed, and
what parameters get is of the three kinds), `WrappersAssumption` (a wrapper's parent is one of a
shallower level) and `QuietAssumption` (`Quiet` holds no key that suspends, nor any key that needs
one). Nothing excludes circles of templates: the code does not refuse them (finding 1), so unlike
slots a call may have any number of frames of one key. `IInv` is about every frame at every place of
every caller's stack:

- `SoundInv`: what the label of a frame says of its match, its lock and the arguments it has;
- `LinkInv`, `UnderInv`: each frame waits for the next argument of the one before, which runs it on
  its own owner, and its key is below the keys of all frames before it (`Leads`);
- `CurrentInv`: while a frame may still store a guarded key, the owner's cache has none; from then
  on it has the frame's value; and the arguments it has are of its scope, and cached (`Wired`);
- `EntriesInv`, `CacheInv`, `BornInv`, `GivenInv`: the same of the dispatch caches, the owners'
  caches, the instances and what was handed out;
- `HeldInv`: a lock is held by one frame only, one between `Acquire` and `Release`;
- `LoopInv`: a task that builds a quiet key has run ever since, as nothing below the key suspends.

The crux is `OneBuild`: two builds of a guarded key in one scope never overlap until the first has
stored it. A lock keeps them apart, one event loop does for quiet keys, and one caller might still
meet a quiet key, which has no lock, again on the way to its own arguments. In a circle it does,
but then never stores anything: a value exists only for a `Founded` key, one of the least set that
holds a key when it holds all keys below it, and no such key is below itself. Both sets are defined
as intersections, so no recursion is needed; whatever a frame has built is `Founded` because its
arguments were. `Implements` follows: a `Store` of a guarded key fills an empty cell, what is handed
out is what the cell holds, and `Grows` says that no other step changes a filled cell.
`CirclesOnly`: a caller that waits for its own lock has two frames of one key, so the key is below
itself; without a circle of templates, as in the application of the `OpenGenerics` run, `NoSelfWait`
holds: finding 1 has no other cause. The run's own specification, `FairSpec` of
`GenericApplication`, behaves on the variables of `OpenGenerics` as `Spec` does or stutters.

**Scopes.** Assumptions: `TreeAssumption` and what else `ScopeTree` says of its levels and slots.
`IInv`: `Tree`, every node's references are those of its parent, with itself at its own level
(`Fits`); `Known`, blocks name nodes; `Held`, an open resolver belongs to a block that was not left.
What is said of it rests on recursive functions over numbers (`TransitionPlan`, `Enclosing`, the
stages of a chain, the resolution of a slot by rank). Each is first shown to have a solution, built
up over the naturals, and then what it computes follows by taking the least counterexample
(`Least`). So a plan goes strictly down, passes over no level that must not be skipped, and the
plans of a wrapper, made one level at a time, compose to the plan of the resolver
(`WrappersAgree`); and the references, set from the parent's, are the scopes on the way up.

**The container.** Assumptions: those of `ContainerGraph`, of which `AcyclicAssumption` matters
most, and `ContainerAssumption`. The functions of `ContainerGraph` come first. In a graph of the
application the keys are ordered (`Below`: by the rank of the name, then by the position in its
chain), so `Refresh` is at its fixed point after as many passes as there are keys, and that fixed
point is `CleanupFlagsExact`; `Reach`, `AutoClosure` and `Materialized` likewise end within their
bounds. `Good(g, n)` says that `n` is in order: undecorated, or a chain of layers (`Layered`) around
a binding; `Rebuild`, `EnsureKeys` and `ApplyPending` put `n` in order and leave the others alone.
`IInv`:

- `ThreadsInv`, `GraphInv`: types, who holds the lock, and that a graph is one of the application;
- `GraphOrder`: outside the lock all names are `Good` and the contracts hold; between the two halves
  of a registration all but the one under way are, and that one can be put in order (`Pending`);
  the snapshot is in order too, so `Rollback` restores it;
- `RootInv`: the entry points are bound to the root, and the root is current unless a registration
  has moved the graph and not yet invalidated it (`Unmoved`);
- `NamesInv`, `BlockInv`: names of resolvers, and the one `with container` block.

`GraphOrder` and the second half of `RootInv` are for containers that no error has torn (finding
10): after one, decorations and the root really are out of order. `ContractsOutlast` needs that a
compilation and a key made at run time only add generic keys (`Extended`), and that discarding them
gives a graph that is `Alike` to the one the contracts were checked on.

`MissingJustified` has an invariant of its own, `SearchInv`: what a resolving thread knows at each
place of its search, as long as nobody else registers (`Lone`, `Searching`). Its resolver lacks only
keys made at run time (`Covers`), what it misses stays unserved while others compile and make keys
(`Grows`, `StillUnserved`), its own registration moves the revision past what it had read, and at
the second lookup an eligible class is registered (`Tried`); so what is then missing is a need that
nothing provides (`Unprovidable`).

**The memo.** `AnswerInv`: with the GIL both fields name one dependency, unless the first is the
inlined one, which no hit compares with (`MemoWhole`), and nobody is between two accesses.

**Wrappers.** `Places` says where a caller can be and that being inside the critical section is
holding the lock. `Remembered`: the pairs that are copied are whole (`CopiesWhole`), every inline
pair names its own dependency (`InlineRight`), the root's hot pair is whole but between the two
stores of the caller that holds the lock (`HotRight`), and every caller that does not depend on a
copied asynchronous pair is answered (`Trusted`). `AsyncAnswered` needs more: with one event loop
at most one asynchronous caller is between its awaits (`Alone`), so nobody replaces the pair
between the two reads (`CopiesRight`). `OneLoop` is that conjunction.

**The pool.** `GivenBack` holds on all builds, with and without finalisers, by `Taken`: while the
pooled resolver is marked, some unit is in its block or exit, or is about to pop a cleanup that is
still there. For the other three, `GilKept` is `Spec => [](Undisturbed => Gil)`: a resolver serves at
most one unit (`Serving`); whatever it still holds belongs to that unit, or was built in the exit of
a unit that is over (`Tidy`), and the same goes for whatever a unit cleans up (`Credit`); and each
unit's instances are those it built, one per slot, in the cache of its resolver, with the cleanups
of those built in its block where its exit will look for them (`Orderly`). Late cleanups are why
`Tidy` cannot say that an inactive resolver is empty.

**Cleanup.** `ChainInv` says how the exits of a chain nest: while the handle closes what it owns, at
most one owned resolver is busy and those it has passed have closed; after an exit that was not cut
short all have. `UncutInv`: as long as none was, they close in order and nothing is left over from
an earlier exit. `Placed`: every resource is in the field of its resolver, in its list, or taken up,
and in one of these only; `CleanedOnce` is part of it. `LateInv`: what an exit has emptied holds only
resources that were registered since; a resolver whose loop was cut is not emptied. `ErrorInv`: the
first failure is carried by the exit that has met it until the handle raises it, unless an
interruption takes its place. For the order,
`Sorted`: the regular resources of a list are in the order of their registration, the one kept in
the field comes after them; so what is taken up next leaves nothing behind that has to be first
(`NothingBehind`), which keeps `OrderInv`.

**Injection.** `DeepInv`: the kept scope is the level of the graph it was inferred from
(`TargetFits`), resolvers know the level of the graph of their revision (`ResolversFit`), and the
resolver of each frame is deep enough for what it was compiled with (`FramesDeep`).
For `ScopesGivenBack`, `OpenHasFrame`: an open scope has a frame that opened it, and only the end
of that frame removes it; and `FramesInv`: what a frame opened is open (`Held`), no two frames
opened the same scope (`Distinct`), and the root is at level 0, so only the end of its own frame
closes a scope. The body of a generator opens nothing. For `ContextFollowsBlocks`, `ContextInv`: from the value a task started with on, the
token stack has one value for each frame that has opened a scope, in the order of the frames
(`Matches`); binding and restoring keep that, whatever ends with an error.

Only model-checked: `RegistryServes`, as matching, substitution and specificity are recursive over
the arguments of a key, in operators that the prover cannot use, and with it that the answers of the
registry are those `OpenGenerics` is given (`ServedAssumption`, on the instance). Liveness
(`CallsReturn`) and the absence of deadlock are out of the prover's reach and stay with TLC.

## 6. What could come next

Theorems: that `SlotResolution` and `OpenGenerics` keep their promises together, when a template's
provider asks for a slot and a slot for a closed key; each takes the other's answers as given.
Models: `Provider[T]` handles in `SlotResolution`, which may resolve a slot whose lock is held;
decorated open generics; cleanup by the scope of the provider on top of `ScopeTree`, for transients
of a shallow level that need a deeper one.

## 7. What is not modelled, and why

- What a provider does, besides returning, raising, awaiting and being cancelled: it is the
  application's. A provider that never returns breaks the fairness assumption.
- Argument formatting (`omit`, `literal`, positional or keyword) and `All[T]`: they choose the
  arguments, which are given (`Args`, `Needs`). `Maybe[T]` is modelled for open generics only.
- The error of a synchronous call of an asynchronous slot: it is raised before any state is touched.
- Tasks of different event loops on one `asyncio.Lock`: CPython raises `RuntimeError` there.
- A pooled handle used or closed again after its block: the documentation promises nothing of it.
  Closing a handle again is in `CleanupStack`, for resolvers that are not pooled.
- Threads that resolve in a scope while another closes it: in `ScopePool` and `CleanupStack` a late
  resolution happens while a cleanup runs, not between the statements of the exit.
- Injected calls from several threads: `Injection` has the tasks of one loop (finding 21).
- Bodies of generators that yield inside a `with` block of a scope: the block would end in the
  context of another step or task. In `Injection` a body leaves its blocks before it yields.
- Errors inside a nested registration after its validation (finding 22).
- Decorators of open generics, and `on_missing` given to a single call: the first repeats the chain
  rules on templates, the second chooses a branch per call that `strict` chooses per container.
- Inspection of Python signatures, annotations and types, code generation, integrations and tools.
- Memory reordering on free-threaded builds: CPython's attribute accesses are sequentially
  consistent, and the divergences above need no weaker memory.
