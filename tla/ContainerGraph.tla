--------------------------- MODULE ContainerGraph ---------------------------
(***************************************************************************)
(* What a container knows and how one registration changes it: the         *)
(* providers by key, the open generic templates, the decoration rules and  *)
(* the chains of keys that put the decorators around a binding             *)
(* (diwire/_internal/container.py, providers.py).                          *)
(*                                                                         *)
(* A key is <<name, 0>> for the dependency an application asks for, and    *)
(* <<name, i>>, i > 0, for the i-th alias key a decoration made for it.    *)
(* A provider is abstracted to what the graph tells apart: who it is, the  *)
(* keys of its arguments, if it is registered deeper than the root scope,  *)
(* if it is a generator or context manager, and its needs_cleanup flag.    *)
(***************************************************************************)
EXTENDS Naturals, Sequences, FiniteSets, SequencesExt

CONSTANTS
    Name,      \* dependencies
    Concrete,  \* those that are eligible concrete classes
    Generic,   \* those that are closed keys of an open generic template
    DepsOf,    \* DepsOf[n]: what the constructor of n asks for
    Decorator, \* decorator callables
    Wants,     \* Wants[d]: what decorator d asks for besides the inner value
    Decorates, \* bound: Decorates[n]: the decorators that an application puts on n
    NoChain    \* no decoration chain

Providing == {"instance", "class", "factory", "generator", "context_manager", "factory_class",
              "generator_class", "context_manager_class", "open"}

ASSUME GraphAssumption ==
    /\ IsFiniteSet(Name)
    /\ Concrete \subseteq Name /\ Generic \subseteq Name /\ Concrete \cap Generic = {}
    /\ DepsOf \in [Name -> SUBSET Name] /\ Decorator \cap Providing = {}
    /\ NoChain \notin [base : Name \X Nat, layers : Seq(Name \X Nat)]
    /\ Wants \in [Decorator -> SUBSET (Name \ Generic)]
    /\ Decorates \in [Name -> SUBSET Decorator] /\ \A n \in Generic : Decorates[n] = {}
    \* bound: a class that asks for a generic is not itself autoregistered for another
    /\ \A n \in Name : DepsOf[n] \cap Generic # {} =>
            \A m \in Name, d \in Decorator : n \notin DepsOf[m] \cup Wants[d]

Asks(n) == DepsOf[n] \cup UNION {Wants[d] : d \in Decorates[n]}
Ranks(rank) == \A n \in Name : \A m \in Asks(n) : rank[m] < rank[n]

\* Bound: what is registered and decorated is not circular.
ASSUME AcyclicAssumption == \E rank \in [Name -> 0..Cardinality(Name)] : Ranks(rank)

Own(n) == <<n, 0>>
OwnKeys(names) == {Own(n) : n \in names}

EmptyGraph ==
    [reg |-> <<>>, open |-> {}, rules |-> [n \in Name |-> <<>>],
     chain |-> [n \in Name |-> NoChain], aliases |-> 0]

-----------------------------------------------------------------------------
(* The specs that the registration methods make.                           *)
ProviderSpec(by, version, deps, deep, resource) ==
    [by |-> by, version |-> version, deps |-> deps, deep |-> deep, resource |-> resource,
     cleanup |-> resource]

InstanceSpec(v) == ProviderSpec("instance", v, {}, FALSE, FALSE)
ConcreteSpec(n, v, deep) == ProviderSpec("class", v, OwnKeys(DepsOf[n]), deep, FALSE)
FactorySpec(n, v, deep) == ProviderSpec("factory", v, OwnKeys(DepsOf[n]), deep, FALSE)
GeneratorSpec(n, v, deep) == ProviderSpec("generator", v, OwnKeys(DepsOf[n]), deep, TRUE)
ContextManagerSpec(n, v, deep) ==
    ProviderSpec("context_manager", v, OwnKeys(DepsOf[n]), deep, TRUE)

\* Of a factory class the constructor asks for the dependencies, and __call__ provides.
FactoryClassSpec(n, v, deep) == ProviderSpec("factory_class", v, OwnKeys(DepsOf[n]), deep, FALSE)
GeneratorClassSpec(n, v, deep) == ProviderSpec("generator_class", v, OwnKeys(DepsOf[n]), deep, TRUE)
ContextManagerClassSpec(n, v, deep) ==
    ProviderSpec("context_manager_class", v, OwnKeys(DepsOf[n]), deep, TRUE)
ClosedSpec(n) == ProviderSpec("open", 0, OwnKeys(DepsOf[n]), FALSE, FALSE)

-----------------------------------------------------------------------------
(* ProvidersRegistrations: adding a spec replaces the one of its key and   *)
(* recomputes the cleanup flags of all until none changes.                 *)
NeedsCleanup(reg, k) ==
    reg[k].resource \/ \E d \in reg[k].deps \cap DOMAIN reg : reg[d].cleanup

RefreshOnce(reg) == [k \in DOMAIN reg |-> [reg[k] EXCEPT !.cleanup = NeedsCleanup(reg, k)]]

Refresh_OnePass(reg) == RefreshOnce(reg)   \* mutant: one pass over the specs

Refresh(reg) ==
    LET pass[i \in 0..Cardinality(DOMAIN reg)] ==
            IF i = 0 THEN reg ELSE RefreshOnce(pass[i - 1])
    IN  pass[Cardinality(DOMAIN reg)]

Put(g, k, spec) ==
    [g EXCEPT !.reg = Refresh([j \in DOMAIN @ \cup {k} |-> IF j = k THEN spec ELSE @[j]])]
Without(g, keys) ==
    [g EXCEPT !.reg = Refresh([k \in DOMAIN g.reg \ keys |-> g.reg[k]])]

IsRegistered(g, n) == Own(n) \in DOMAIN g.reg
HasBinding(g, n) == IsRegistered(g, n)

-----------------------------------------------------------------------------
(* Decoration: the binding moves to an alias key, each decorator provides  *)
(* the next key from the one before, the last one the application's key.   *)
BuildChain(g, n) ==
    LET count == Len(g.rules[n])
    IN  [base |-> <<n, g.aliases + 1>>,
         layers |-> [i \in 1..count |-> IF i = count THEN Own(n) ELSE <<n, g.aliases + 1 + i>>]]

Inner(c, i) == IF i = 1 THEN c.base ELSE c.layers[i - 1]

LayerSpec(g, n, c, i) ==
    ProviderSpec(g.rules[n][i], 0, {Inner(c, i)} \cup OwnKeys(Wants[g.rules[n][i]]),
                 g.reg[c.base].deep, FALSE)

Rebuild(g, n, c) ==
    LET wired[i \in 0..Len(c.layers)] ==
            IF i = 0 THEN g ELSE Put(wired[i - 1], c.layers[i], LayerSpec(g, n, c, i))
    IN  wired[Len(c.layers)]

ApplyPending(g, n) ==
    IF g.rules[n] = <<>> \/ ~HasBinding(g, n) THEN g
    ELSE LET c == BuildChain(g, n)
             moved == Put([g EXCEPT !.aliases = @ + Len(g.rules[n])], c.base, g.reg[Own(n)])
         IN  [Rebuild(moved, n, c) EXCEPT !.chain[n] = c]

\* mutant: the key of the new layer goes after the application's
EnsureKeys_Last(g, n) ==
    IF Len(g.chain[n].layers) = Len(g.rules[n]) THEN g
    ELSE [g EXCEPT !.aliases = @ + 1,
                   !.chain[n].layers = Append(@, <<n, g.aliases + 1>>)]

\* A chain one layer short gets an alias key before the last, the application's.
EnsureKeys(g, n) ==
    IF Len(g.chain[n].layers) = Len(g.rules[n]) THEN g
    ELSE [g EXCEPT !.aliases = @ + 1,
                   !.chain[n].layers = Front(@) \o <<<<n, g.aliases + 1>>, Last(@)>>]

AddRule(g, n, d) == [g EXCEPT !.rules[n] = Append(@, d)]

\* decorate: the chain grows, or is made if there is something to decorate.
Decorated(g, n) ==
    IF g.chain[n] # NoChain
    THEN LET longer == EnsureKeys(g, n) IN Rebuild(longer, n, longer.chain[n])
    ELSE ApplyPending(g, n)

\* A binding was put at its key, or at the base of the chain it was found to have.
Finalized(g, n, hadChain) ==
    IF hadChain THEN IF g.chain[n] = NoChain THEN g ELSE Rebuild(g, n, g.chain[n])
    ELSE ApplyPending(g, n)

TargetOf(g, n) ==
    IF g.chain[n] = NoChain THEN [key |-> Own(n), chained |-> FALSE]
    ELSE [key |-> g.chain[n].base, chained |-> TRUE]

-----------------------------------------------------------------------------
(* Autoregistration of what a provider or a decorator asks for, and of     *)
(* what that asks for: eligible classes that are not registered nor served *)
(* by a template, at the scope of the provider.                            *)
Unserved(g, n) == ~IsRegistered(g, n) /\ n \notin g.open
Wanted(g, names) == {n \in names \cap Concrete : Unserved(g, n)}
RuleWants(g, n) == UNION {Wants[g.rules[n][i]] : i \in DOMAIN g.rules[n]}

AutoClosure(g, names) ==
    LET grow[i \in 0..Cardinality(Name)] ==
            IF i = 0 THEN Wanted(g, names)
            ELSE LET found == grow[i - 1]
                 IN  found \cup UNION {Wanted(g, DepsOf[n] \cup RuleWants(g, n)) : n \in found}
    IN  grow[Cardinality(Name)]

AutoregisterOne(g, n, deep) == Finalized(Put(g, Own(n), ConcreteSpec(n, 0, deep)), n, FALSE)

AutoregisterAll(g, names, deep) ==
    LET closure == AutoClosure(g, names)
        done[i \in 0..Cardinality(Name)] ==
            IF i = 0 THEN g
            ELSE LET acc == done[i - 1]
                     left == {n \in closure : Unserved(acc, n)}
                 IN  IF left = {} THEN acc ELSE AutoregisterOne(acc, CHOOSE n \in left : TRUE, deep)
    IN  done[Cardinality(Name)]

-----------------------------------------------------------------------------
(* The deepest scope that resolving a key needs: its own or that of what   *)
(* it is wired with.                                                       *)
Reach(reg, k) ==
    LET within[i \in 0..Cardinality(DOMAIN reg)] ==
            IF i = 0 THEN {k} \cap DOMAIN reg
            ELSE LET found == within[i - 1]
                 IN  found \cup {d \in DOMAIN reg : \E j \in found : d \in reg[j].deps}
    IN  within[Cardinality(DOMAIN reg)]

InferLevel(g, n) == \E k \in Reach(g.reg, Own(n)) : g.reg[k].deep

-----------------------------------------------------------------------------
(* Compilation: closed keys that specs ask for and templates serve are     *)
(* registered until there are no more, and every argument needs a spec.    *)
Closable(g) ==
    {n \in Generic \cap g.open :
        ~IsRegistered(g, n) /\ \E k \in DOMAIN g.reg : Own(n) \in g.reg[k].deps}

Materialized(g) ==
    LET closed[i \in 0..Cardinality(Generic)] ==
            IF i = 0 THEN g
            ELSE LET acc == closed[i - 1]
                     left == Closable(acc)
                 IN  IF left = {} THEN acc
                     ELSE LET n == CHOOSE n \in left : TRUE IN Put(acc, Own(n), ClosedSpec(n))
    IN  closed[Cardinality(Generic)]

Complete(g) == \A k \in DOMAIN g.reg : g.reg[k].deps \subseteq DOMAIN g.reg
=============================================================================
