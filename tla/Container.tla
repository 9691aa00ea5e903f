----------------------------- MODULE Container -----------------------------
(***************************************************************************)
(* A container used by several threads: registrations as transactions      *)
(* under the graph lock, lazy compilation, resolution with registration of *)
(* missing classes, materialisation of closed generics, and the block that *)
(* opens and closes the root resolver (diwire/_internal/container.py).     *)
(*                                                                         *)
(* What a thread does under the lock is split where others, who read the   *)
(* root resolver, the revision, the registrations and the chains without   *)
(* it, can tell.  A root resolver is named by the revision it was compiled *)
(* at; what it resolves is abstracted to that and the spec used.           *)
(***************************************************************************)
EXTENDS ContainerGraph

CONSTANTS
    Thread,     \* application threads
    Registrar,  \* threads that also register and decorate
    Opener,     \* threads that use the container as a block
    None,       \* no thread, no resolver's name
    Contract,   \* dependencies of callables injected with the root scope
    Unstable,   \* generic keys whose template is TRANSIENT
    Kind,       \* bound: the registration methods that are called
    MaxCalls,   \* bound: calls of each thread
    MaxRules    \* bound: decorators of one dependency

ASSUME ContainerAssumption ==
    /\ Registrar \subseteq Thread /\ Opener \subseteq Thread /\ None \notin Thread \cup Nat
    /\ Kind \subseteq Providing \ {"open"}
    /\ Contract \subseteq Name /\ Unstable \subseteq Generic

VARIABLES
    strict,   \* MissingPolicy.ERROR without resolver context: entry points are rebound
    refused,  \* closed keys that violate a constraint of their template
    graph,    \* the registrations, templates, rules and chains
    materialized, \* _runtime_materialized_closed_keys
    told,     \* the generic keys that the wrapper of a root resolver told the container of
    revision, \* _graph_revision
    root,     \* _root_resolver
    bound,    \* the resolver the entry points are rebound to
    entered,  \* _entered_root_resolver
    lock,     \* the thread that has the graph lock
    snapshot, \* _registration_mutation_snapshot
    torn,     \* a mutation ended with an error that is not rolled back
    alone,    \* history: no other thread registered anything since the call of the thread began
    block,    \* the root resolver of the `with container` block, and the one its exit closed
    pc, job, using, answer, calls

deployment == <<strict, refused>>
state == <<graph, materialized, told, revision, root, bound, entered, lock, snapshot, torn, block>>
threads == <<pc, job, using, answer, calls, alone>>
vars == <<deployment, state, threads>>

Resolver(id, g) == [id |-> id, graph |-> g, wrapped |-> g.open # {}]
NoResolver == Resolver(0, EmptyGraph)
Answer(outcome, n, id, spec) == [outcome |-> outcome, name |-> n, root |-> id, spec |-> spec]
NoAnswer == Answer("none", None, 0, None)
NoJob == [kind |-> "none", name |-> None, version |-> 0, deep |-> FALSE, decorator |-> None,
          target |-> TargetOf(EmptyGraph, CHOOSE n \in Name : TRUE), seen |-> 0, retried |-> FALSE]

Init ==
    /\ strict \in BOOLEAN /\ refused \in SUBSET Generic
    /\ graph = EmptyGraph /\ materialized = {} /\ told = {} /\ revision = 1   \* 0 is the name of NoResolver
    /\ root = NoResolver /\ bound = NoResolver /\ entered = NoResolver
    /\ lock = None /\ snapshot = None /\ torn = FALSE
    /\ block = [opened |-> None, closed |-> None]
    /\ pc = [t \in Thread |-> "idle"] /\ job = [t \in Thread |-> NoJob]
    /\ using = [t \in Thread |-> NoResolver] /\ answer = [t \in Thread |-> NoAnswer]
    /\ calls = [t \in Thread |-> 0] /\ alone = [t \in Thread |-> TRUE]

-----------------------------------------------------------------------------
Goto(t, label) == pc' = [pc EXCEPT ![t] = label]

\* The call ends; the thread forgets what it worked with.
End(t, a) ==
    /\ answer' = [answer EXCEPT ![t] = a]
    /\ job' = [job EXCEPT ![t] = NoJob] /\ using' = [using EXCEPT ![t] = NoResolver]
    /\ alone' = [alone EXCEPT ![t] = TRUE]
    /\ Goto(t, "idle")

\* mutant: the compiled root outlives the change
Invalidate_KeepingRoot == revision' = revision + 1 /\ bound' = NoResolver /\ UNCHANGED root
Invalidate == revision' = revision + 1 /\ root' = NoResolver /\ bound' = NoResolver

Call(t, label, work) ==
    /\ pc[t] = "idle" /\ calls[t] < MaxCalls
    /\ calls' = [calls EXCEPT ![t] = @ + 1]
    /\ job' = [job EXCEPT ![t] = work]
    /\ answer' = [answer EXCEPT ![t] = NoAnswer]
    /\ alone' = [alone EXCEPT ![t] = lock = None]
    /\ Goto(t, label)
    /\ UNCHANGED <<state, using>>

\* Versions of explicit registrations differ.
Version(t) == 10 * calls[t] + 1

Registration(kind, n, v, deep) ==
    [NoJob EXCEPT !.kind = kind, !.name = n, !.version = v, !.deep = deep]

CallAdd(t, kind, n, deep) ==
    /\ kind = "instance" => ~deep
    /\ Call(t, "target", Registration(kind, n, Version(t), deep))
CallAddTemplate(t, n) == n \notin graph.open /\ Call(t, "begin", Registration("open", n, 0, FALSE))
CallDecorate(t, n, d) ==
    /\ Len(graph.rules[n]) < MaxRules
    /\ Call(t, "begin", [NoJob EXCEPT !.kind = "decorate", !.name = n, !.decorator = d])
CallResolve(t, n) == Call(t, "entry", [NoJob EXCEPT !.kind = "resolve", !.name = n])

-----------------------------------------------------------------------------
(* A registration: the key to register at is looked up without the lock.   *)
FindTarget(t) ==
    /\ pc[t] = "target"
    /\ job' = [job EXCEPT ![t].target = TargetOf(graph, job[t].name)]
    /\ Goto(t, "begin")
    /\ UNCHANGED <<state, using, answer, calls, alone>>

\* _registration_mutation: closed keys made at run time go, the rest is remembered.
Begin(t) ==
    /\ pc[t] = "begin" /\ lock = None
    /\ lock' = t
    /\ LET purged == IF materialized = {} THEN graph ELSE Without(graph, OwnKeys(materialized))
       IN  graph' = purged /\ snapshot' = purged
    /\ materialized' = {}
    /\ IF materialized = {} THEN UNCHANGED <<revision, root, bound>> ELSE Invalidate
    /\ Goto(t, "body")
    /\ alone' = [o \in Thread |-> alone[o] /\ (o = t \/ pc[o] = "idle")]
    /\ UNCHANGED <<told, entered, torn, block, job, using, answer, calls>>

SpecOf(j) ==
    CASE j.kind = "instance" -> InstanceSpec(j.version)
      [] j.kind \in {"class", "resolve"} -> ConcreteSpec(j.name, j.version, j.deep)
      [] j.kind = "factory" -> FactorySpec(j.name, j.version, j.deep)
      [] j.kind = "generator" -> GeneratorSpec(j.name, j.version, j.deep)
      [] j.kind = "context_manager" -> ContextManagerSpec(j.name, j.version, j.deep)
      [] j.kind = "factory_class" -> FactoryClassSpec(j.name, j.version, j.deep)
      [] j.kind = "generator_class" -> GeneratorClassSpec(j.name, j.version, j.deep)
      [] j.kind = "context_manager_class" -> ContextManagerClassSpec(j.name, j.version, j.deep)

Arguments(j) == IF j.kind \in {"instance", "decorate"} THEN {} ELSE DepsOf[j.name]

Bind(g, j) ==
    CASE j.kind = "open" -> [g EXCEPT !.open = @ \cup {j.name}]
      [] j.kind = "decorate" -> AddRule(g, j.name, j.decorator)
      [] OTHER -> Put(g, j.target.key, SpecOf(j))

Autoregister(g, names, deep) ==
    /\ graph' = AutoregisterAll(g, names, deep)
    /\ IF AutoClosure(g, names) = {} THEN UNCHANGED <<revision, root, bound>> ELSE Invalidate

RefusedArguments(t) == Arguments(job[t]) \cap refused \cap graph.open

\* The new binding, and the classes it asks for.
Body(t) ==
    /\ pc[t] = "body" /\ RefusedArguments(t) = {}
    /\ Autoregister(Bind(graph, job[t]), Arguments(job[t]), job[t].deep)
    /\ Goto(t, "finalize")
    /\ UNCHANGED <<materialized, told, entered, lock, snapshot, torn, block, job, using, answer, calls, alone>>

(* The template of an argument refuses the key: the error is no            *)
(* DIWireInvalidRegistrationError, and what was done so far stays.         *)
BodyFails(t) ==
    /\ pc[t] = "body" /\ RefusedArguments(t) # {}
    /\ \E before \in SUBSET (Arguments(job[t]) \ refused) :
        Autoregister(Bind(graph, job[t]), before, job[t].deep)
    /\ torn' = TRUE
    /\ lock' = None /\ snapshot' = None
    /\ End(t, Answer("refused", job[t].name, 0, None))
    /\ UNCHANGED <<materialized, told, entered, block, calls>>

\* _finalize_registration_after_binding, and the second half of decorate.
Finalize(t) ==
    /\ pc[t] = "finalize"
    /\ LET j == job[t]
           waits == j.kind = "decorate" /\ graph.chain[j.name] = NoChain /\ ~HasBinding(graph, j.name)
           wired == IF j.kind = "decorate" THEN Decorated(graph, j.name)
                    ELSE Finalized(graph, j.name, j.target.chained)
           wants == IF wired.chain[j.name] = NoChain THEN {} ELSE RuleWants(wired, j.name)
       IN  IF waits \/ j.kind = "open"
           THEN graph' = graph /\ IF waits THEN UNCHANGED <<revision, root, bound>> ELSE Invalidate
           ELSE graph' = AutoregisterAll(wired, wants, wired.reg[Own(j.name)].deep) /\ Invalidate
    /\ Goto(t, "commit")
    /\ UNCHANGED <<materialized, told, entered, lock, snapshot, torn, block, job, using, answer, calls, alone>>

\* _revalidate_injected_scope_contracts
ContractBroken(g) == \E n \in Contract : InferLevel(g, n)

Leave == lock' = None /\ snapshot' = None

Commit(t) ==
    /\ pc[t] = "commit" /\ ~ContractBroken(graph)
    /\ Leave
    /\ IF job[t].kind = "resolve" THEN Goto(t, "compare") /\ UNCHANGED <<job, using, answer, alone>>
       ELSE End(t, Answer("registered", job[t].name, 0, None))
    /\ UNCHANGED <<graph, materialized, told, revision, root, bound, entered, torn, block, calls>>

\* mutant: the rules go back, the registrations do not
Restored_RulesOnly == [graph EXCEPT !.rules = snapshot.rules, !.chain = snapshot.chain]
Restored == [snapshot EXCEPT !.reg = Refresh(@)]

Rollback(t) ==
    /\ pc[t] = "commit" /\ ContractBroken(graph)
    /\ graph' = Restored
    /\ Invalidate /\ Leave
    /\ End(t, Answer("invalid", job[t].name, 0, None))
    /\ UNCHANGED <<materialized, told, entered, torn, block, calls>>

-----------------------------------------------------------------------------
(* resolve: the entry point that was rebound, or the root resolver.        *)
Entry(t) ==
    /\ pc[t] = "entry"
    /\ using' = [using EXCEPT ![t] = IF bound # NoResolver THEN bound ELSE root]
    /\ Goto(t, IF using'[t] = NoResolver THEN "compile" ELSE "ask")
    /\ UNCHANGED <<state, job, answer, calls, alone>>

(* Closed keys are registered first; one of a TRANSIENT template           *)
(* invalidates what there is, even during a compilation.                   *)
MaterializeRegistered ==
    LET closed == Materialized(graph)
        new == {n \in Generic : IsRegistered(closed, n) /\ ~IsRegistered(graph, n)}
    IN  /\ graph' = closed
        /\ materialized' = materialized \cup new
        /\ revision' = revision + Cardinality(new \cap Unstable)

Compile(t) ==
    /\ pc[t] = "compile" /\ lock = None
    /\ IF root # NoResolver THEN UNCHANGED <<graph, materialized, revision, root>>
       ELSE MaterializeRegistered /\ Complete(graph') /\ root' = Resolver(revision', graph')
    /\ bound' = IF strict THEN root' ELSE bound
    /\ using' = [using EXCEPT ![t] = root']
    /\ Goto(t, IF job[t].kind = "enter" THEN "enter" ELSE "ask")
    /\ UNCHANGED <<told, entered, lock, snapshot, torn, block, job, answer, calls, alone>>

\* The planner finds an argument that has no provider.
CompileFails(t) ==
    /\ pc[t] = "compile" /\ lock = None /\ root = NoResolver
    /\ MaterializeRegistered /\ ~Complete(graph')
    /\ End(t, Answer("missing", job[t].name, 0, None))
    /\ UNCHANGED <<told, root, bound, entered, lock, snapshot, torn, block, calls>>

ScopeOutcome(g, n) == IF InferLevel(g, n) THEN "mismatch" ELSE "ok"

\* The compiled resolver knows the key.
Known(t) ==
    /\ pc[t] = "ask" /\ IsRegistered(using[t].graph, job[t].name)
    /\ LET n == job[t].name  g == using[t].graph
       IN  End(t, Answer(ScopeOutcome(g, n), n, using[t].id, g.reg[Own(n)]))
    /\ UNCHANGED <<state, calls>>

Matched(t) == using[t].wrapped /\ job[t].name \in graph.open
Misses(t) == pc[t] = "ask" /\ ~IsRegistered(using[t].graph, job[t].name)

\* Its wrapper finds a template, and tells the container before it builds.
Tells(t) == <<using[t].id, job[t].name>>

Materialize(t) ==
    /\ Misses(t) /\ Matched(t) /\ job[t].name \notin refused
    /\ Tells(t) \in told \/ lock = None
    /\ told' = told \cup {Tells(t)}
    /\ LET n == job[t].name
       IN  /\ IF Tells(t) \in told \/ IsRegistered(graph, n)
              THEN UNCHANGED <<graph, materialized, revision, root, bound>>
              ELSE /\ graph' = Put(graph, Own(n), ClosedSpec(n))
                   /\ materialized' = materialized \cup {n}
                   /\ IF n \in Unstable THEN Invalidate ELSE UNCHANGED <<revision, root, bound>>
           /\ End(t, Answer("ok", n, using[t].id, ClosedSpec(n)))
    /\ UNCHANGED <<entered, lock, snapshot, torn, block, calls>>

Refuse(t) ==
    /\ Misses(t) /\ Matched(t) /\ job[t].name \in refused
    /\ End(t, Answer("refused", job[t].name, using[t].id, None))
    /\ UNCHANGED <<state, calls>>

Missing(t) ==
    /\ Misses(t) /\ ~Matched(t)
    /\ IF strict \/ job[t].retried THEN End(t, Answer("missing", job[t].name, using[t].id, None))
       ELSE Goto(t, "revision") /\ UNCHANGED <<job, using, answer, alone>>
    /\ UNCHANGED <<state, calls>>

\* The missing class is registered, unless somebody has done it.
ReadRevision(t) ==
    /\ pc[t] = "revision"
    /\ job' = [job EXCEPT ![t].seen = revision]
    /\ Goto(t, "ensure")
    /\ UNCHANGED <<state, using, answer, calls, alone>>

EnsureAutoregistration(t) ==
    /\ pc[t] = "ensure"
    /\ Goto(t, IF Unserved(graph, job[t].name) /\ job[t].name \in Concrete THEN "target" ELSE "compare")
    /\ UNCHANGED <<state, job, using, answer, calls, alone>>

\* mutant: the error stands whatever was registered
GraphChanged_Never(t) == FALSE
GraphChanged(t) == revision # job[t].seen

CompareRevision(t) ==
    /\ pc[t] = "compare"
    /\ IF GraphChanged(t)
       THEN job' = [job EXCEPT ![t].retried = TRUE] /\ Goto(t, "compile") /\ UNCHANGED <<using, answer, alone>>
       ELSE End(t, Answer("missing", job[t].name, using[t].id, None))
    /\ UNCHANGED <<state, calls>>

-----------------------------------------------------------------------------
(* `with container:` once, by any of these threads.                        *)
CallEnter(t) ==
    /\ block.opened = None /\ \A o \in Thread : job[o].kind # "enter"
    /\ Call(t, "compile", [NoJob EXCEPT !.kind = "enter"])

EnterContainer(t) ==
    /\ pc[t] = "enter"
    /\ entered' = using[t]
    /\ block' = [block EXCEPT !.opened = using[t].id]
    /\ End(t, NoAnswer)
    /\ UNCHANGED <<graph, materialized, told, revision, root, bound, lock, snapshot, torn, calls>>

ActiveRoot == IF entered # NoResolver THEN entered ELSE root

ExitContainer(t) ==
    /\ pc[t] = "idle" /\ block.opened # None /\ block.closed = None
    /\ block' = [block EXCEPT !.closed = ActiveRoot.id]
    /\ entered' = NoResolver
    /\ UNCHANGED <<graph, materialized, told, revision, root, bound, lock, snapshot, torn, threads>>

-----------------------------------------------------------------------------
Done == (\A t \in Thread : pc[t] = "idle" /\ calls[t] = MaxCalls) /\ UNCHANGED vars

Register(t) ==
    \/ \E kind \in Kind, n \in Name, deep \in BOOLEAN : CallAdd(t, kind, n, deep)
    \/ \E n \in Generic : CallAddTemplate(t, n)
    \/ \E n \in Name : \E d \in Decorates[n] : CallDecorate(t, n, d)

Step(t) ==
    \/ FindTarget(t) \/ Begin(t) \/ Body(t) \/ BodyFails(t) \/ Finalize(t) \/ Commit(t) \/ Rollback(t)
    \/ Entry(t) \/ Compile(t) \/ CompileFails(t) \/ Known(t) \/ Materialize(t) \/ Refuse(t)
    \/ Missing(t) \/ ReadRevision(t) \/ EnsureAutoregistration(t) \/ CompareRevision(t)
    \/ EnterContainer(t)

ThreadStep(t) ==
    \/ t \in Registrar /\ Register(t)
    \/ \E n \in Name : CallResolve(t, n)
    \/ t \in Opener /\ (CallEnter(t) \/ ExitContainer(t))
    \/ Step(t)

Next == (\E t \in Thread : ThreadStep(t) /\ UNCHANGED deployment) \/ Done

Spec == Init /\ [][Next]_vars

-----------------------------------------------------------------------------
Key == Name \X Nat

TypeOK ==
    /\ DOMAIN graph.reg \subseteq Key /\ graph.open \subseteq Generic
    /\ materialized \subseteq Generic /\ revision \in Nat
    /\ lock \in Thread \cup {None} /\ torn \in BOOLEAN
    /\ \A t \in Thread : pc[t] \in {"idle", "target", "begin", "body", "finalize", "commit", "entry",
                                     "compile", "ask", "revision", "ensure", "compare", "enter"}
    /\ \A t \in Thread : (pc[t] \in {"body", "finalize", "commit"}) <=> (lock = t)

\* No registration is under way, and none ended half way.
Settled == lock = None /\ ~torn

(* However registrations, decorations and rollbacks follow each other, an  *)
(* application that asks for a decorated key gets the decorators in the    *)
(* order they were added, the last outermost, each around the one before   *)
(* and the first around the binding, which is no decorator.                *)
DecoratedInOrder ==
    Settled =>
        \A n \in Name :
            LET g == graph
                wires(k, d, inner) == k \in DOMAIN g.reg /\ g.reg[k].by = d /\ inner \in g.reg[k].deps
            IN  IF g.rules[n] = <<>> \/ ~IsRegistered(g, n)
                THEN IsRegistered(g, n) => g.reg[Own(n)].by \notin Decorator
                ELSE /\ g.chain[n] # NoChain /\ Last(g.chain[n].layers) = Own(n)
                     /\ \A i \in DOMAIN g.rules[n] :
                            wires(g.chain[n].layers[i], g.rules[n][i],
                                  IF i = 1 THEN g.chain[n].base ELSE g.chain[n].layers[i - 1])
                     /\ g.reg[g.chain[n].base].by \notin Decorator

(* The compiled root, and the entry points bound to it, resolve what is    *)
(* registered: a change, its rollback or a key made at run time leaves no  *)
(* root behind that answers from before it.  A `with container` block      *)
(* closes the root it entered, though that is no longer the current one.   *)
RootIsCurrent ==
    /\ Settled /\ root # NoResolver =>
        /\ root.wrapped <=> graph.open # {}
        /\ \A k \in DOMAIN root.graph.reg :
            k \in DOMAIN graph.reg /\ graph.reg[k] = root.graph.reg[k]
        /\ \A k \in DOMAIN graph.reg \ DOMAIN root.graph.reg : k \in OwnKeys(materialized)
    /\ bound # NoResolver => bound = root
    /\ block.closed \in {None, block.opened}

(* A callable injected with the root scope never comes to need a deeper    *)
(* one by what is registered: the registration that would make it so is    *)
(* undone with all it did.  The keys made at run time, which every         *)
(* registration discards first, are looked at by nobody.                   *)
ContractsKept == Settled => ~ContractBroken(Without(graph, OwnKeys(materialized)))

(* The flag that decides if a scope is asked to clean a provider up says   *)
(* that it, or something it is wired with, is a resource.                  *)
CleanupFlagsExact ==
    \A k \in DOMAIN graph.reg :
        graph.reg[k].cleanup <=> \E j \in Reach(graph.reg, k) : graph.reg[j].resource

\* What can be provided: registered, or to be registered, with all it asks for.
Providable(g, n) ==
    LET needs[i \in 0..Cardinality(Name)] ==
            IF i = 0 THEN {n}
            ELSE LET found == needs[i - 1] IN found \cup UNION {DepsOf[m] : m \in found}
    IN  \A m \in needs[Cardinality(Name)] :
            IsRegistered(g, m) \/ m \in g.open \/ (~strict /\ m \in Concrete)

(* A dependency is reported missing only if it cannot be provided or some  *)
(* other provider cannot; the exception is a call during which another     *)
(* thread registered something.                                            *)
MissingIsJustified ==
    [][\A t \in Thread :
        /\ job[t].kind = "resolve" /\ answer'[t].outcome = "missing"
        /\ alone[t] /\ ~torn
        => ~Providable(graph, job[t].name) \/ ~Complete(Materialized(graph))]_vars

\* docs/core/errors.rst: DIWireDependencyNotRegisteredError is for a key that is not
\* registered, and that cannot be registered on the fly.
MissingMeansUnprovidable ==
    \A t \in Thread : answer[t].outcome = "missing" /\ answer[t].name \in Name => ~Providable(graph, answer[t].name)

\* docs/core/lifetimes.rst: "the value is cached for the lifetime of the container".
SingletonKept ==
    \A t, o \in Thread :
        /\ {answer[t].outcome, answer[o].outcome} = {"ok"}
        /\ answer[t].name = answer[o].name /\ answer[t].spec = answer[o].spec
        /\ answer[t].name \notin Unstable
        => answer[t].root = answer[o].root

\* test_container_inject.py:714: a scope that was given explicitly is revalidated after late
\* registrations.  What a key made at run time needs, no registration sees.
ContractsSeeTemplates == Settled => ~ContractBroken(graph)
=============================================================================
