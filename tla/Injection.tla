----------------------------- MODULE Injection -----------------------------
(***************************************************************************)
(* The resolver context and the callables it injects, used by the tasks of *)
(* an event loop: blocks that bind a resolver to the context of a task,    *)
(* tasks that start with a copy of their parent's context, and injected    *)
(* calls that choose a resolver, open the scope their dependencies need    *)
(* and close it when they end (diwire/_internal/resolver_context.py and    *)
(* the inject functions of container.py).                                  *)
(*                                                                         *)
(* A step is what a task runs without an await.  The wrapper of a          *)
(* generator function, synchronous or not, is that of a plain function: it *)
(* leaves the scope when it returns the generator object, whose body runs  *)
(* when some task takes its next value.  The graph is abstracted           *)
(* to the level that the injected dependency needs.  Blocks are structured *)
(* and go deeper: entering the level one is at is left to ScopeTree.       *)
(***************************************************************************)
EXTENDS Naturals, Sequences, FiniteSets, SequencesExt

CONSTANTS
    Task,       \* tasks
    Main,       \* the task that runs first
    None,       \* no resolver
    MaxLevel,   \* scope levels 0..MaxLevel, the root is 0
    MaxOps,     \* bound: operations in all
    MaxChanges  \* bound: registrations

ASSUME InjectionAssumption ==
    /\ Main \in Task /\ None \notin Nat /\ MaxLevel \in Nat \ {0}
    /\ MaxOps \in Nat /\ MaxChanges \in Nat

Level == 0..MaxLevel
(* inject(scope="infer"), inject(scope=<the deepest>) of a function or     *)
(* coroutine and of a generator function, inject(auto_open_scope=False).   *)
Callable == {"infer", "explicit", "generator", "no_open"}

VARIABLES
    need,      \* the level that the injected dependency needs
    revision,  \* _graph_revision
    root,      \* _root_resolver
    resolvers, \* the resolvers made: level, the need and revision they were compiled with, open
    target,    \* cached_target_scope and revision of the "infer" callable
    running,   \* tasks that were started
    context,   \* the two ContextVars of a task: the current resolver and the token stack
    inherited, \* the current resolver a task started with
    frames,    \* blocks, calls and generator bodies a task is in, innermost last
    generators, \* the resolvers with which a generator object was made
    ops        \* operations done

graph == <<need, revision>>
vars == <<need, revision, root, resolvers, target, running, context, inherited, frames, generators, ops>>

EmptyContext == [current |-> None, tokens |-> <<>>]

Init ==
    /\ need \in Level /\ revision = 0 /\ root = None /\ resolvers = <<>>
    /\ target = [level |-> need, revision |-> 0]
    /\ running = {Main}
    /\ context = [t \in Task |-> EmptyContext]
    /\ inherited = [t \in Task |-> None]
    /\ frames = [t \in Task |-> <<>>] /\ generators = {}
    /\ ops = 0

-----------------------------------------------------------------------------
(* ContextVar: a token remembers the value that set replaced.              *)
Push(c, r) == [current |-> r, tokens |-> Append(c.tokens, c.current)]
Pop(c) ==
    IF c.tokens = <<>> THEN c ELSE [current |-> Last(c.tokens), tokens |-> Front(c.tokens)]

\* compile(): the root resolver, made for the graph there is if there is none.
Compiled ==
    IF root # None THEN [id |-> root, all |-> resolvers]
    ELSE [id |-> Len(resolvers) + 1,
          all |-> Append(resolvers, [level |-> 0, need |-> need, revision |-> revision, open |-> TRUE])]

\* The resolver a call or an entry point starts from.
Base(t) ==
    IF context[t].current # None THEN [id |-> context[t].current, all |-> resolvers] ELSE Compiled

Deepened(all, id, level) ==
    Append(all, [all[id] EXCEPT !.level = level, !.open = TRUE])

KeepRoot(t) == root' = IF context[t].current # None THEN root ELSE Compiled.id

Top(t) == Last(frames[t])
Idle(t) == frames[t] # <<>> => Top(t).state = "body"

Act(t) ==
    /\ t \in running /\ Idle(t) /\ ops < MaxOps
    /\ ops' = ops + 1

Frame(kind, r, opened, asked) ==
    [kind |-> kind, resolver |-> r, opened |-> opened, asked |-> asked, state |-> "body"]

-----------------------------------------------------------------------------
\* A registration moves the dependency to another level.
Register(t, level) ==
    /\ Act(t) /\ revision < MaxChanges /\ level # need
    /\ need' = level /\ revision' = revision + 1 /\ root' = None
    /\ UNCHANGED <<resolvers, target, running, context, inherited, frames, generators>>

\* `with container:`, one block at a time (Container has what registrations do to it).
EnterContainer(t) ==
    /\ Act(t)
    /\ \A o \in Task : \A i \in DOMAIN frames[o] : frames[o][i].kind # "container"
    /\ resolvers' = Compiled.all /\ root' = Compiled.id
    /\ context' = [context EXCEPT ![t] = Push(@, Compiled.id)]
    /\ frames' = [frames EXCEPT ![t] = Append(@, Frame("container", Compiled.id, TRUE, revision))]
    /\ UNCHANGED <<graph, target, running, inherited, generators>>

\* `with container.enter_scope(level):`
EnterScope(t, level) ==
    /\ Act(t)
    /\ LET b == Base(t)
           id == Len(b.all) + 1
       IN  /\ level > b.all[b.id].level
           /\ resolvers' = Deepened(b.all, b.id, level)
           /\ context' = [context EXCEPT ![t] = Push(@, id)]
           /\ frames' = [frames EXCEPT ![t] = Append(@, Frame("block", id, TRUE, revision))]
    /\ KeepRoot(t)
    /\ UNCHANGED <<graph, target, running, inherited, generators>>

\* A task starts with a copy of the context of its parent.
Spawn(t, child) ==
    /\ Act(t) /\ child \notin running
    /\ running' = running \cup {child}
    /\ context' = [context EXCEPT ![child] = context[t]]
    /\ inherited' = [inherited EXCEPT ![child] = context[t].current]
    /\ UNCHANGED <<graph, root, resolvers, target, frames, generators>>

-----------------------------------------------------------------------------
\* mutant: the scope that was inferred first is kept
TargetIsFresh_Always == TRUE
TargetIsFresh == target.revision = revision

TargetLevel(c) ==
    CASE c = "infer" -> IF TargetIsFresh THEN target.level ELSE need
      [] c \in {"explicit", "generator"} -> MaxLevel
      [] c = "no_open" -> 0

Inferred == IF TargetIsFresh THEN target ELSE [level |-> need, revision |-> revision]

\* _enter_scope_if_needed: a resolver that is deep enough is taken as it is.
NeedsScope(all, id, level) == level # 0 /\ level > all[id].level

\* An injected call, with diwire_resolver or from the context or the fallback container.
CallFrom(t, c, b) ==
    /\ target' = IF c = "infer" THEN Inferred ELSE target
    /\ LET opens == NeedsScope(b.all, b.id, TargetLevel(c))
           id == IF opens THEN Len(b.all) + 1 ELSE b.id
       IN  /\ resolvers' = IF opens THEN Deepened(b.all, b.id, TargetLevel(c)) ELSE b.all
           /\ context' = IF opens THEN [context EXCEPT ![t] = Push(@, id)] ELSE context
           /\ frames' = [frames EXCEPT ![t] =
                  Append(@, [Frame(c, id, opens, revision) EXCEPT !.state = "arguments"])]

CallInjected(t, c) ==
    /\ Act(t)
    /\ CallFrom(t, c, Base(t))
    /\ KeepRoot(t)
    /\ UNCHANGED <<graph, running, inherited, generators>>

CallExplicit(t, c, r) ==
    /\ Act(t)
    /\ CallFrom(t, c, [id |-> r, all |-> resolvers])
    /\ UNCHANGED <<graph, root, running, inherited, generators>>

(* The arguments are resolved, or the resolver is too shallow for them;    *)
(* then the body runs, but that of a generator has yet to start.           *)
Resolved(f) ==
    IF resolvers[f.resolver].level < resolvers[f.resolver].need THEN "mismatch"
    ELSE IF f.kind = "generator" THEN "returned" ELSE "body"

ResolveArguments(t) ==
    /\ t \in running /\ frames[t] # <<>> /\ Top(t).state = "arguments"
    /\ frames' = [frames EXCEPT ![t] = Append(Front(@), [Top(t) EXCEPT !.state = Resolved(Top(t))])]
    /\ generators' = IF Resolved(Top(t)) = "returned" THEN generators \cup {Top(t).resolver}
                     ELSE generators
    /\ UNCHANGED <<graph, root, resolvers, target, running, context, inherited, ops>>

\* A task takes the next value of a generator: its body runs in the context of that task.
Iterate(t, r) ==
    /\ Act(t)
    /\ frames' = [frames EXCEPT ![t] = Append(@, Frame("iteration", r, FALSE, revision))]
    /\ UNCHANGED <<graph, root, resolvers, target, running, context, inherited, generators>>

\* mutant: the context is left only if the cleanup raised nothing
Unbound_OnSuccess(t, fails) == IF fails THEN context[t] ELSE Pop(context[t])
Unbound(t, fails) == Pop(context[t])
\* mutant: a call that fails before its body does not close its scope
Closes_OnSuccess(frame) == frame.opened /\ frame.state # "mismatch"
Closes(frame) == frame.opened

(* A block or call ends, normally or with an error, or a generator yields; *)
(* what the scope cleans up may raise another error.                       *)
Exit(t, fails) ==
    /\ t \in running /\ frames[t] # <<>> /\ Top(t).state # "arguments"
    /\ IF Closes(Top(t))
       THEN /\ resolvers' = [resolvers EXCEPT ![Top(t).resolver].open = FALSE]
            /\ context' = [context EXCEPT ![t] = Unbound(t, fails)]
       ELSE UNCHANGED <<resolvers, context>>
    /\ frames' = [frames EXCEPT ![t] = Front(@)]
    /\ UNCHANGED <<graph, root, target, running, inherited, generators, ops>>

-----------------------------------------------------------------------------
Done ==
    /\ ops = MaxOps /\ \A t \in running : frames[t] = <<>>
    /\ UNCHANGED vars

Next ==
    \/ \E t \in Task :
        \/ \E level \in Level : Register(t, level) \/ EnterScope(t, level)
        \/ EnterContainer(t)
        \/ \E child \in Task : Spawn(t, child)
        \/ \E c \in Callable : CallInjected(t, c)
        \/ \E c \in Callable, i \in DOMAIN frames[t] : CallExplicit(t, c, frames[t][i].resolver)
        \/ ResolveArguments(t)
        \/ \E r \in generators : Iterate(t, r)
        \/ \E fails \in BOOLEAN : Exit(t, fails)
    \/ Done

Spec == Init /\ [][Next]_vars

-----------------------------------------------------------------------------
Resolver == 1..Len(resolvers)

Value == Resolver \cup {None}   \* of a ContextVar

ResolverState == [level : Level, need : Level, revision : 0..MaxChanges, open : BOOLEAN]
FrameState ==
    [kind : Callable \cup {"container", "block", "iteration"}, resolver : Resolver, opened : BOOLEAN,
     asked : 0..MaxChanges, state : {"arguments", "body", "mismatch", "returned"}]

TypeOK ==
    /\ need \in Level /\ revision \in 0..MaxChanges /\ root \in Value
    /\ resolvers \in Seq(ResolverState)
    /\ target \in [level : Level, revision : 0..MaxChanges]
    /\ running \subseteq Task
    /\ context \in [Task -> [current : Value, tokens : Seq(Value)]]
    /\ inherited \in [Task -> Value]
    /\ frames \in [Task -> Seq(FrameState)]
    /\ generators \subseteq Resolver
    /\ ops \in 0..MaxOps

(* The context of a task is always the resolver of the innermost block or  *)
(* call that opened one, or what the task started with: whatever other     *)
(* tasks enter and leave meanwhile, and whatever fails.                    *)
Innermost(t, i) ==
    frames[t][i].opened /\ \A j \in (i + 1)..Len(frames[t]) : ~frames[t][j].opened
ContextFollowsBlocks ==
    \A t \in running :
        \/ \E i \in DOMAIN frames[t] : Innermost(t, i) /\ context[t].current = frames[t][i].resolver
        \/ /\ \A i \in DOMAIN frames[t] : ~frames[t][i].opened
           /\ context[t].current = inherited[t]

(* A scope is open exactly while a block or call that opened it has not    *)
(* ended: it is given back when that ends, be it with an error, and no     *)
(* other block or call, of this task or another, closes it before.  The    *)
(* call of a generator function ends when it returns, so the body of the   *)
(* generator finds that scope closed.                                      *)
OpenedBy(t, i, r) == frames[t][i].opened /\ frames[t][i].resolver = r
ScopesGivenBack ==
    \A r \in Resolver :
        resolvers[r].level > 0 =>
            (resolvers[r].open <=>
                \E t \in running : \E i \in DOMAIN frames[t] : OpenedBy(t, i, r))

(* A call whose resolver was compiled from the graph it found resolves its *)
(* dependency: the scope it opens is deep enough, also after registrations *)
(* have moved the dependency since the callable was decorated.             *)
CallsDeepEnough ==
    \A t \in running : \A i \in DOMAIN frames[t] :
        LET f == frames[t][i]
        IN  f.state = "mismatch" /\ f.kind # "no_open" => resolvers[f.resolver].revision # f.asked
=============================================================================
