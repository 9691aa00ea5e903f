-------------------------- MODULE Injection_proofs --------------------------
(***************************************************************************)
(* Proofs about Injection, for any number of tasks, scope levels and       *)
(* registrations: why an injected call finds its dependency, gives its     *)
(* scope back, and leaves the context of its task as it found it.          *)
(***************************************************************************)
EXTENDS Injection, TLAPS

-----------------------------------------------------------------------------
(* Sequences: what Append, Front and Last give, and a changed last element.*)
LEMMA Appended ==
    ASSUME NEW S, NEW s \in Seq(S), NEW e \in S
    PROVE  /\ Append(s, e) \in Seq(S) /\ Len(Append(s, e)) = Len(s) + 1
           /\ Append(s, e)[Len(s) + 1] = e
           /\ \A i \in 1..Len(s) : Append(s, e)[i] = s[i]
           /\ Len(s) \in Nat /\ DOMAIN s = 1..Len(s)
OBVIOUS

LEMMA Fronted ==
    ASSUME NEW S, NEW s \in Seq(S), s # <<>>
    PROVE  /\ Front(s) \in Seq(S) /\ Len(Front(s)) = Len(s) - 1 /\ Len(s) \in Nat \ {0}
           /\ \A i \in 1..(Len(s) - 1) : Front(s)[i] = s[i]
           /\ Last(s) = s[Len(s)] /\ Last(s) \in S
<1>1. Len(s) \in Nat \ {0}
  OBVIOUS
<1>2. Front(s) = SubSeq(s, 1, Len(s) - 1) /\ Last(s) = s[Len(s)]
  BY DEF Front, Last
<1>3. /\ SubSeq(s, 1, Len(s) - 1) \in Seq(S) /\ Len(SubSeq(s, 1, Len(s) - 1)) = Len(s) - 1
      /\ \A i \in 1..(Len(s) - 1) : SubSeq(s, 1, Len(s) - 1)[i] = s[i]
  <2>1. SubSeq(s, 1, Len(s) - 1) = [i \in 1..(Len(s) - 1) |-> s[i]]
    BY <1>1
  <2>2. \A i \in 1..(Len(s) - 1) : s[i] \in S
    BY <1>1
  <2>3. [i \in 1..(Len(s) - 1) |-> s[i]] \in Seq(S) /\ Len([i \in 1..(Len(s) - 1) |-> s[i]]) = Len(s) - 1
    BY <1>1, <2>2
  <2> QED BY <2>1, <2>3
<1>4. s[Len(s)] \in S
  BY <1>1
<1> QED BY <1>1, <1>2, <1>3, <1>4

LEMMA Replaced ==
    ASSUME NEW S, NEW s \in Seq(S), s # <<>>, NEW e \in S
    PROVE  LET t == Append(Front(s), e)
           IN  /\ t \in Seq(S) /\ Len(t) = Len(s) /\ t[Len(s)] = e
               /\ \A i \in 1..(Len(s) - 1) : t[i] = s[i]
<1>1. Front(s) \in Seq(S) /\ Len(Front(s)) = Len(s) - 1 /\ Len(s) \in Nat \ {0}
  BY Fronted
<1>2. \A i \in 1..(Len(s) - 1) : Front(s)[i] = s[i]
  BY Fronted
<1> QED BY <1>1, <1>2, Appended

LEMMA MoreIn ==
    ASSUME NEW S, NEW T, S \subseteq T
    PROVE  Seq(S) \subseteq Seq(T)
OBVIOUS

-----------------------------------------------------------------------------
(* The resolvers that a step makes: those there were stay as they are, the *)
(* root is made for the current graph.                                     *)
Rooted(b) ==
    /\ b.all \in Seq(ResolverState) /\ b.id \in 1..Len(b.all) /\ Len(b.all) >= Len(resolvers)
    /\ \A r \in Resolver : b.all[r] = resolvers[r]
    /\ \A r \in 1..Len(b.all) :
          r > Len(resolvers) =>
              b.all[r].level = 0 /\ b.all[r].need = need /\ b.all[r].revision = revision

LEMMA CompiledRooted ==
    ASSUME TypeOK
    PROVE  Rooted(Compiled) /\ (root # None => Compiled.id = root)
<1> USE InjectionAssumption DEF Rooted, Compiled, TypeOK, Resolver, Value
<1>1. CASE root # None
  BY <1>1
<1>2. CASE root = None
  <2> DEFINE e == [level |-> 0, need |-> need, revision |-> revision, open |-> TRUE]
  <2>1. e \in ResolverState
    BY DEF ResolverState, Level
  <2>2. Compiled = [id |-> Len(resolvers) + 1, all |-> Append(resolvers, e)]
    BY <1>2
  <2>3. e.level = 0 /\ e.need = need /\ e.revision = revision
    OBVIOUS
  <2> HIDE DEF e, Compiled
  <2> QED BY <1>2, <2>1, <2>2, <2>3, Appended
<1> QED BY <1>1, <1>2

LEMMA BaseRooted ==
    ASSUME TypeOK, NEW t \in Task
    PROVE  Rooted(Base(t))
<1>1. CASE context[t].current # None
  BY <1>1 DEF Rooted, Base, TypeOK, Value, Resolver
<1>2. CASE context[t].current = None
  BY <1>2, CompiledRooted DEF Base
<1> QED BY <1>1, <1>2

LEMMA RootKept ==
    ASSUME TypeOK, NEW t \in Task, KeepRoot(t), Len(resolvers') >= Len(Base(t).all)
    PROVE  root' \in Value'
<1>1. CASE context[t].current # None
  BY <1>1, BaseRooted DEF KeepRoot, TypeOK, Value, Resolver, Rooted
<1>2. CASE context[t].current = None
  BY <1>2, CompiledRooted DEF KeepRoot, Base, Value, Resolver, Rooted, TypeOK
<1> QED BY <1>1, <1>2

(* A scope is opened below a resolver, which stays as it is.               *)
LEMMA DeepenedRooted ==
    ASSUME NEW all \in Seq(ResolverState), NEW id \in 1..Len(all), NEW level \in Level
    PROVE  LET d == Deepened(all, id, level)
           IN  /\ d \in Seq(ResolverState) /\ Len(d) = Len(all) + 1
               /\ \A r \in 1..Len(all) : d[r] = all[r]
               /\ d[Len(d)].level = level /\ d[Len(d)].need = all[id].need
               /\ d[Len(d)].revision = all[id].revision /\ d[Len(d)].open
<1> DEFINE e == [all[id] EXCEPT !.level = level, !.open = TRUE]
<1>1. all[id] \in ResolverState
  OBVIOUS
<1>2. /\ e \in ResolverState /\ e.level = level /\ e.need = all[id].need
      /\ e.revision = all[id].revision /\ e.open
  BY <1>1 DEF ResolverState
<1> HIDE DEF e
<1>3. Deepened(all, id, level) = Append(all, e)
  BY DEF Deepened, e
<1> QED BY <1>2, <1>3, Appended

(* With more resolvers, everything that names one still does.              *)
LEMMA Grown ==
    ASSUME TypeOK, resolvers' \in Seq(ResolverState), Len(resolvers') >= Len(resolvers)
    PROVE  /\ Resolver \subseteq Resolver' /\ Value \subseteq Value'
           /\ FrameState \subseteq FrameState'
           /\ context \in [Task -> [current : Value', tokens : Seq(Value')]]
           /\ inherited \in [Task -> Value']
           /\ frames \in [Task -> Seq(FrameState')] /\ generators \subseteq Resolver'
<1>1. Resolver \subseteq Resolver' /\ Value \subseteq Value' /\ FrameState \subseteq FrameState'
  BY DEF Resolver, Value, FrameState, TypeOK
<1>2. Seq(Value) \subseteq Seq(Value') /\ Seq(FrameState) \subseteq Seq(FrameState')
  BY <1>1, MoreIn
<1>3. context \in [Task -> [current : Value', tokens : Seq(Value')]]
  BY <1>1, <1>2 DEF TypeOK
<1>4. inherited \in [Task -> Value'] /\ frames \in [Task -> Seq(FrameState')]
  BY <1>1, <1>2 DEF TypeOK
<1>5. generators \subseteq Resolver'
  BY <1>1 DEF TypeOK
<1> QED BY <1>1, <1>3, <1>4, <1>5

LEMMA Pushed ==
    ASSUME NEW V, NEW c \in [current : V, tokens : Seq(V)], NEW r \in V
    PROVE  /\ Push(c, r) \in [current : V, tokens : Seq(V)]
           /\ Push(c, r).current = r /\ Push(c, r).tokens = Append(c.tokens, c.current)
<1>1. Append(c.tokens, c.current) \in Seq(V)
  BY Appended
<1> QED BY <1>1 DEF Push

LEMMA Popped ==
    ASSUME NEW V, NEW c \in [current : V, tokens : Seq(V)]
    PROVE  /\ Pop(c) \in [current : V, tokens : Seq(V)]
           /\ c.tokens # <<>> => Pop(c) = [current |-> Last(c.tokens), tokens |-> Front(c.tokens)]
<1>1. CASE c.tokens = <<>>  BY <1>1 DEF Pop
<1>2. CASE c.tokens # <<>>
  <2>1. Last(c.tokens) \in V /\ Front(c.tokens) \in Seq(V)
    BY <1>2, Fronted
  <2> QED BY <1>2, <2>1 DEF Pop
<1> QED BY <1>1, <1>2

-----------------------------------------------------------------------------
LEMMA TypeInitial == Init => TypeOK
BY InjectionAssumption
   DEF Init, TypeOK, Level, ResolverState, FrameState, Value, Resolver, EmptyContext

(* What a call or a block does to the resolvers, the context and the       *)
(* frames of its task, wherever its resolver comes from.                   *)
LEMMA FramePushed ==
    ASSUME TypeOK, NEW t \in Task, NEW f, resolvers' \in Seq(ResolverState),
           Len(resolvers') >= Len(resolvers), f \in FrameState',
           frames' = [frames EXCEPT ![t] = Append(@, f)]
    PROVE  frames' \in [Task -> Seq(FrameState')]
<1>1. frames \in [Task -> Seq(FrameState')]
  BY Grown
<1>2. Append(frames[t], f) \in Seq(FrameState')
  BY <1>1, Appended
<1> QED BY <1>1, <1>2

LEMMA ContextPushed ==
    ASSUME TypeOK, NEW t \in Task, NEW r, resolvers' \in Seq(ResolverState),
           Len(resolvers') >= Len(resolvers), r \in Resolver',
           context' = [context EXCEPT ![t] = Push(@, r)]
    PROVE  context' \in [Task -> [current : Value', tokens : Seq(Value')]]
<1>1. context \in [Task -> [current : Value', tokens : Seq(Value')]] /\ r \in Value'
  BY Grown DEF Value
<1>2. Push(context[t], r) \in [current : Value', tokens : Seq(Value')]
  BY <1>1, Pushed
<1> QED BY <1>1, <1>2

LEMMA CallTyped ==
    ASSUME TypeOK, NEW t \in Task, NEW c \in Callable, NEW b, Rooted(b), CallFrom(t, c, b)
    PROVE  /\ resolvers' \in Seq(ResolverState) /\ Len(resolvers') >= Len(b.all)
           /\ target' \in [level : Level, revision : 0..MaxChanges]
           /\ context' \in [Task -> [current : Value', tokens : Seq(Value')]]
           /\ frames' \in [Task -> Seq(FrameState')]
<1> DEFINE opens == NeedsScope(b.all, b.id, TargetLevel(c))
           id == IF opens THEN Len(b.all) + 1 ELSE b.id
           deeper == Deepened(b.all, b.id, TargetLevel(c))
           f == [Frame(c, id, opens, revision) EXCEPT !.state = "arguments"]
<1>0. /\ target' = IF c = "infer" THEN Inferred ELSE target
      /\ resolvers' = IF opens THEN deeper ELSE b.all
      /\ context' = IF opens THEN [context EXCEPT ![t] = Push(@, id)] ELSE context
      /\ frames' = [frames EXCEPT ![t] = Append(@, f)]
  BY DEF CallFrom
<1>1. /\ b.all \in Seq(ResolverState) /\ b.id \in 1..Len(b.all) /\ Len(b.all) >= Len(resolvers)
      /\ Len(resolvers) \in Nat /\ Len(b.all) \in Nat
  BY DEF Rooted, TypeOK
<1>2. TargetLevel(c) \in Level /\ opens \in BOOLEAN
  BY InjectionAssumption DEF TargetLevel, TypeOK, Callable, Level, NeedsScope
<1>3. deeper \in Seq(ResolverState) /\ Len(deeper) = Len(b.all) + 1
  BY <1>1, <1>2, DeepenedRooted
<1>4. target' \in [level : Level, revision : 0..MaxChanges]
  BY <1>0 DEF Inferred, TypeOK
<1> HIDE DEF deeper, opens
<1>5. /\ resolvers' \in Seq(ResolverState) /\ Len(resolvers') >= Len(b.all)
      /\ Len(resolvers') >= Len(resolvers) /\ id \in Resolver'
  BY <1>0, <1>1, <1>3 DEF Resolver
<1>6. f \in FrameState'
  <2>1. f = [kind |-> c, resolver |-> id, opened |-> opens, asked |-> revision, state |-> "arguments"]
    BY DEF Frame
  <2> HIDE DEF id, f
  <2> QED BY <1>2, <1>5, <2>1 DEF FrameState, TypeOK
<1> HIDE DEF id, f
<1>7. frames' \in [Task -> Seq(FrameState')]
  BY <1>0, <1>5, <1>6, FramePushed
<1>8. context' \in [Task -> [current : Value', tokens : Seq(Value')]]
  BY <1>0, <1>5, ContextPushed, Grown
<1> QED BY <1>4, <1>5, <1>7, <1>8

(* The frame of a generator body: it opens nothing.                        *)
LEMMA Iterated ==
    ASSUME TypeOK, NEW t \in Task, NEW r \in generators, Iterate(t, r)
    PROVE  LET f == Frame("iteration", r, FALSE, revision)
           IN  /\ f \in FrameState /\ f \in FrameState' /\ f.resolver \in Nat /\ f.opened = FALSE
               /\ f.kind = "iteration" /\ f.state = "body" /\ t \in running
               /\ frames' = [frames EXCEPT ![t] = Append(@, f)]
               /\ UNCHANGED <<graph, root, resolvers, target, running, context, inherited, generators>>
<1>1. r \in Resolver /\ revision \in 0..MaxChanges
  BY DEF TypeOK
<1>2. /\ t \in running /\ frames' = [frames EXCEPT ![t] = Append(@, Frame("iteration", r, FALSE, revision))]
      /\ UNCHANGED <<graph, root, resolvers, target, running, context, inherited, generators>>
  BY DEF Iterate, Act
<1>3. FrameState' = FrameState
  BY <1>2 DEF FrameState, Resolver
<1> QED BY <1>1, <1>2, <1>3 DEF Frame, FrameState, Resolver

LEMMA TypeStep ==
    ASSUME TypeOK, [Next]_vars
    PROVE  TypeOK'
<1> USE InjectionAssumption
<1>0. ASSUME NEW t \in Task, Act(t)
      PROVE  t \in running /\ ops' \in 0..MaxOps
  BY <1>0 DEF Act, TypeOK
<1>1. ASSUME NEW t \in Task, NEW level \in Level, Register(t, level)
      PROVE  TypeOK'
  <2>1. need' \in Level /\ revision' \in 0..MaxChanges /\ ops' \in 0..MaxOps
    BY <1>0, <1>1 DEF Register, TypeOK
  <2>2. Resolver' = Resolver /\ Value' = Value /\ FrameState' = FrameState
    BY <1>1 DEF Register, Value, Resolver, FrameState
  <2>3. root' \in Value'
    BY <1>1, <2>2 DEF Register, Value
  <2> HIDE DEF Value, FrameState
  <2> QED BY <1>1, <2>1, <2>2, <2>3 DEF Register, TypeOK
<1>2. ASSUME NEW t \in Task, EnterContainer(t)
      PROVE  TypeOK'
  <2>1. /\ resolvers' \in Seq(ResolverState) /\ Len(resolvers') >= Len(resolvers)
        /\ Compiled.id \in Resolver' /\ root' \in Value'
    BY <1>2, CompiledRooted DEF EnterContainer, Rooted, Resolver, Value
  <2>2. context' \in [Task -> [current : Value', tokens : Seq(Value')]]
    BY <1>2, <2>1, ContextPushed DEF EnterContainer
  <2>3. frames' \in [Task -> Seq(FrameState')]
    <3>1. Frame("container", Compiled.id, TRUE, revision) \in FrameState'
      BY <1>2, <2>1 DEF EnterContainer, Frame, FrameState, TypeOK
    <3> QED BY <1>2, <2>1, <3>1, FramePushed DEF EnterContainer
  <2>4. inherited' \in [Task -> Value'] /\ generators' \subseteq Resolver'
    BY <1>2, <2>1, Grown DEF EnterContainer
  <2> QED BY <1>0, <1>2, <2>1, <2>2, <2>3, <2>4 DEF EnterContainer, graph, TypeOK
<1>3. ASSUME NEW t \in Task, NEW level \in Level, EnterScope(t, level)
      PROVE  TypeOK'
  <2> DEFINE b == Base(t)
             id == Len(b.all) + 1
  <2>0. /\ resolvers' = Deepened(b.all, b.id, level)
        /\ context' = [context EXCEPT ![t] = Push(@, id)]
        /\ frames' = [frames EXCEPT ![t] = Append(@, Frame("block", id, TRUE, revision))]
        /\ KeepRoot(t) /\ Act(t) /\ UNCHANGED <<graph, target, running, inherited, generators>>
    BY <1>3 DEF EnterScope
  <2>1. Rooted(b)
    BY BaseRooted
  <2> HIDE DEF b
  <2>2. /\ resolvers' \in Seq(ResolverState) /\ Len(resolvers') = Len(b.all) + 1
        /\ Len(resolvers') >= Len(resolvers) /\ id \in Resolver'
    <3>1. /\ b.all \in Seq(ResolverState) /\ b.id \in 1..Len(b.all) /\ Len(b.all) >= Len(resolvers)
          /\ Len(b.all) \in Nat /\ Len(resolvers) \in Nat
      BY <2>1 DEF Rooted, TypeOK
    <3>2. resolvers' \in Seq(ResolverState) /\ Len(resolvers') = Len(b.all) + 1
      BY <2>0, <3>1, DeepenedRooted
    <3> QED BY <3>1, <3>2 DEF Resolver
  <2>3. Frame("block", id, TRUE, revision) \in FrameState'
    BY <2>0, <2>2 DEF Frame, FrameState, TypeOK
  <2> HIDE DEF id
  <2>4. context' \in [Task -> [current : Value', tokens : Seq(Value')]]
    BY <2>0, <2>2, ContextPushed
  <2>5. frames' \in [Task -> Seq(FrameState')]
    BY <2>0, <2>2, <2>3, FramePushed
  <2>6. root' \in Value'
    BY <2>0, <2>2, RootKept DEF b, TypeOK
  <2>7. inherited' \in [Task -> Value'] /\ generators' \subseteq Resolver'
    BY <2>0, <2>2, Grown
  <2> QED BY <1>0, <2>0, <2>2, <2>4, <2>5, <2>6, <2>7 DEF graph, TypeOK
<1>4. ASSUME NEW t \in Task, NEW child \in Task, Spawn(t, child)
      PROVE  TypeOK'
  <2>1. context' \in [Task -> [current : Value, tokens : Seq(Value)]]
    BY <1>4 DEF Spawn, TypeOK
  <2>2. inherited' \in [Task -> Value] /\ running' \subseteq Task
    BY <1>4 DEF Spawn, TypeOK
  <2> QED BY <1>0, <1>4, <2>1, <2>2 DEF Spawn, graph, TypeOK, Value, Resolver, FrameState
<1>5. ASSUME NEW t \in Task, NEW c \in Callable, CallInjected(t, c)
      PROVE  TypeOK'
  <2>1. /\ resolvers' \in Seq(ResolverState) /\ Len(resolvers') >= Len(Base(t).all)
        /\ target' \in [level : Level, revision : 0..MaxChanges]
        /\ context' \in [Task -> [current : Value', tokens : Seq(Value')]]
        /\ frames' \in [Task -> Seq(FrameState')]
    BY <1>5, BaseRooted, CallTyped DEF CallInjected
  <2>2. Len(resolvers') >= Len(resolvers)
    <3>1. Len(Base(t).all) >= Len(resolvers) /\ Base(t).all \in Seq(ResolverState)
      BY BaseRooted DEF Rooted
    <3> QED BY <2>1, <3>1 DEF TypeOK
  <2>3. root' \in Value' /\ inherited' \in [Task -> Value'] /\ generators' \subseteq Resolver'
    BY <1>5, <2>1, <2>2, RootKept, Grown DEF CallInjected
  <2> QED BY <1>0, <1>5, <2>1, <2>3 DEF CallInjected, graph, TypeOK
<1>6. ASSUME NEW t \in Task, NEW c \in Callable, NEW i \in DOMAIN frames[t],
             CallExplicit(t, c, frames[t][i].resolver)
      PROVE  TypeOK'
  <2> DEFINE b == [id |-> frames[t][i].resolver, all |-> resolvers]
  <2>1. Rooted(b)
    <3>1. frames[t][i] \in FrameState
      BY DEF TypeOK
    <3>2. b.id \in 1..Len(resolvers) /\ b.all = resolvers
      BY <3>1 DEF FrameState, Resolver
    <3> HIDE DEF b
    <3> QED BY <3>2 DEF Rooted, TypeOK, Resolver
  <2>2. CallFrom(t, c, b) /\ Act(t) /\ UNCHANGED <<graph, root, running, inherited, generators>>
    BY <1>6 DEF CallExplicit
  <2>3. b.all = resolvers
    OBVIOUS
  <2> HIDE DEF b
  <2>4. /\ resolvers' \in Seq(ResolverState) /\ Len(resolvers') >= Len(resolvers)
        /\ target' \in [level : Level, revision : 0..MaxChanges]
        /\ context' \in [Task -> [current : Value', tokens : Seq(Value')]]
        /\ frames' \in [Task -> Seq(FrameState')]
    BY <2>1, <2>2, <2>3, CallTyped
  <2>5. root' \in Value' /\ inherited' \in [Task -> Value'] /\ generators' \subseteq Resolver'
    BY <2>2, <2>4, Grown DEF TypeOK
  <2> QED BY <1>0, <2>2, <2>4, <2>5 DEF graph, TypeOK
<1>7. ASSUME NEW t \in Task, ResolveArguments(t)
      PROVE  TypeOK'
  <2>1. frames' \in [Task -> Seq(FrameState)]
    <3>1. frames[t] \in Seq(FrameState) /\ frames[t] # <<>>
      BY <1>7 DEF ResolveArguments, TypeOK
    <3>2. ASSUME NEW state \in {"mismatch", "returned", "body"}
          PROVE  Append(Front(frames[t]), [Top(t) EXCEPT !.state = state]) \in Seq(FrameState)
      <4>1. [Top(t) EXCEPT !.state = state] \in FrameState
        <5>1. Top(t) \in FrameState
          BY <3>1, Fronted DEF Top
        <5> QED BY <5>1 DEF FrameState
      <4> QED BY <3>1, <4>1, Replaced
    <3>3. \E state \in {"mismatch", "returned", "body"} :
            frames' = [frames EXCEPT ![t] = Append(Front(frames[t]), [Top(t) EXCEPT !.state = state])]
      BY <1>7 DEF ResolveArguments, Resolved
    <3> QED BY <3>2, <3>3 DEF TypeOK
  <2>2. generators' \subseteq Resolver
    <3>1. Top(t) \in FrameState
      BY <1>7, Fronted DEF ResolveArguments, TypeOK, Top
    <3>2. Top(t).resolver \in Resolver
      BY <3>1 DEF FrameState
    <3> QED BY <1>7, <3>2 DEF ResolveArguments, TypeOK
  <2> QED BY <1>7, <2>1, <2>2 DEF ResolveArguments, graph, TypeOK, Value, Resolver, FrameState
<1>8. ASSUME NEW t \in Task, NEW fails \in BOOLEAN, Exit(t, fails)
      PROVE  TypeOK'
  <2>0. frames[t] \in Seq(FrameState) /\ frames[t] # <<>> /\ Top(t) \in FrameState
    BY <1>8, Fronted DEF Exit, TypeOK, Top
  <2>1. resolvers' \in Seq(ResolverState) /\ Len(resolvers') = Len(resolvers)
    <3>1. Top(t).resolver \in 1..Len(resolvers)
      BY <2>0 DEF FrameState, Resolver
    <3>2. \/ resolvers' = resolvers
          \/ resolvers' = [resolvers EXCEPT ![Top(t).resolver] = [resolvers[Top(t).resolver] EXCEPT !.open = FALSE]]
      BY <1>8 DEF Exit
    <3>3. [resolvers[Top(t).resolver] EXCEPT !.open = FALSE] \in ResolverState
      <4>1. resolvers[Top(t).resolver] \in ResolverState
        BY <3>1 DEF TypeOK
      <4> QED BY <4>1 DEF ResolverState
    <3> DEFINE e == [resolvers[Top(t).resolver] EXCEPT !.open = FALSE]
    <3>4. resolvers \in Seq(ResolverState) /\ e \in ResolverState
      BY <3>3 DEF TypeOK
    <3>5. resolvers' = resolvers \/ resolvers' = [resolvers EXCEPT ![Top(t).resolver] = e]
      BY <3>2
    <3> HIDE DEF e
    <3> QED BY <3>1, <3>4, <3>5
  <2>2. context' \in [Task -> [current : Value, tokens : Seq(Value)]]
    <3>1. Pop(context[t]) \in [current : Value, tokens : Seq(Value)]
      BY Popped DEF TypeOK
    <3>2. context' = context \/ context' = [context EXCEPT ![t] = Pop(context[t])]
      BY <1>8 DEF Exit, Unbound
    <3> QED BY <3>1, <3>2 DEF TypeOK
  <2>3. frames' \in [Task -> Seq(FrameState)]
    <3>1. Front(frames[t]) \in Seq(FrameState)
      BY <2>0, Fronted
    <3> QED BY <1>8, <3>1 DEF Exit, TypeOK
  <2> QED BY <1>8, <2>1, <2>2, <2>3 DEF Exit, graph, TypeOK, Value, Resolver, FrameState
<1>9. CASE UNCHANGED vars
  BY <1>9 DEF vars, graph, TypeOK, Value, Resolver, FrameState
<1>10. ASSUME NEW t \in Task, NEW r \in generators, Iterate(t, r)
       PROVE  TypeOK'
  <2> DEFINE f == Frame("iteration", r, FALSE, revision)
  <2>0. /\ f \in FrameState /\ f \in FrameState' /\ f.resolver \in Nat /\ f.opened = FALSE
        /\ f.kind = "iteration" /\ f.state = "body" /\ t \in running
        /\ frames' = [frames EXCEPT ![t] = Append(@, f)]
        /\ UNCHANGED <<graph, root, resolvers, target, running, context, inherited, generators>>
    BY <1>10, Iterated
  <2> HIDE DEF f
  <2>1. /\ ops' \in 0..MaxOps /\ resolvers' \in Seq(ResolverState)
        /\ Len(resolvers') >= Len(resolvers)
    <3>1. ops' \in 0..MaxOps
      BY <1>0, <1>10 DEF Iterate
    <3>2. resolvers' = resolvers /\ resolvers \in Seq(ResolverState)
      BY <2>0 DEF TypeOK
    <3> QED BY <3>1, <3>2
  <2>2. frames' \in [Task -> Seq(FrameState')]
    BY <2>0, <2>1, FramePushed
  <2>3. Resolver' = Resolver /\ Value' = Value
    BY <2>0 DEF Resolver, Value
  <2> QED BY <2>0, <2>1, <2>2, <2>3 DEF graph, TypeOK
<1> QED BY <1>1, <1>2, <1>3, <1>4, <1>5, <1>6, <1>7, <1>8, <1>9, <1>10 DEF Next, Done

(* Every variable has its type, the resolvers that frames and contexts     *)
(* name among them (resolver_context.py and the inject functions of        *)
(* container.py).                                                          *)
THEOREM TypeCorrect == Spec => []TypeOK
<1>1. TypeOK /\ [Next]_vars => TypeOK'  BY TypeStep
<1> QED BY TypeInitial, <1>1, PTL DEF Spec

-----------------------------------------------------------------------------
(* A resolver knows the graph of its revision, and so does the scope that  *)
(* was inferred.  Therefore a call that finds the revision its resolver    *)
(* was compiled from opens a scope that is deep enough.                    *)
Fits(r) == r.revision <= revision /\ (r.revision = revision => r.need = need)
ResolversFit == \A r \in Resolver : Fits(resolvers[r])
TargetFits == target.revision <= revision /\ (target.revision = revision => target.level = need)

Deep(all, f) ==
    LET r == all[f.resolver]
    IN  /\ f.kind \in {"infer", "explicit", "generator"} /\ r.revision = f.asked => r.level >= r.need
        /\ f.state = "mismatch" => r.level < r.need
        /\ f.kind \notin Callable => f.state = "body"
FramesDeep == \A t \in Task : \A i \in DOMAIN frames[t] : Deep(resolvers, frames[t][i])

DeepInv == ResolversFit /\ TargetFits /\ FramesDeep

\* What was compiled into a resolver stays.
CompiledStays ==
    /\ Len(resolvers') >= Len(resolvers)
    /\ \A r \in Resolver : /\ resolvers'[r].level = resolvers[r].level
                           /\ resolvers'[r].need = resolvers[r].need
                           /\ resolvers'[r].revision = resolvers[r].revision

LEMMA DeepStays ==
    ASSUME TypeOK, CompiledStays, NEW f \in FrameState, Deep(resolvers, f)
    PROVE  Deep(resolvers', f)
<1>1. f.resolver \in Resolver
  BY DEF FrameState
<1> QED BY <1>1 DEF CompiledStays, Deep

LEMMA FramesStay ==
    ASSUME TypeOK, FramesDeep, CompiledStays, frames' = frames
    PROVE  FramesDeep'
<1>1. ASSUME NEW t \in Task, NEW i \in DOMAIN frames[t]
      PROVE  Deep(resolvers', frames[t][i])
  BY <1>1, DeepStays DEF FramesDeep, TypeOK
<1> QED BY <1>1 DEF FramesDeep, Deep

LEMMA FrameAdded ==
    ASSUME TypeOK, FramesDeep, CompiledStays, NEW t \in Task, NEW f \in FrameState', Deep(resolvers', f),
           resolvers' \in Seq(ResolverState), frames' = [frames EXCEPT ![t] = Append(@, f)]
    PROVE  FramesDeep'
<1>1. frames \in [Task -> Seq(FrameState')] /\ frames \in [Task -> Seq(FrameState)]
  BY Grown DEF CompiledStays, TypeOK
<1>2. ASSUME NEW s \in Task, NEW i \in DOMAIN frames'[s]
      PROVE  Deep(resolvers', frames'[s][i])
  <2>1. CASE i \in DOMAIN frames[s] /\ frames'[s][i] = frames[s][i]
    <3>1. Deep(resolvers, frames[s][i]) /\ frames[s][i] \in FrameState
      BY <1>1, <2>1 DEF FramesDeep
    <3> QED BY <2>1, <3>1, DeepStays
  <2>2. CASE s = t /\ frames'[s][i] = f
    BY <2>2
  <2>3. \/ i \in DOMAIN frames[s] /\ frames'[s][i] = frames[s][i]
        \/ s = t /\ frames'[s][i] = f
    BY <1>1, <1>2, Appended
  <2> QED BY <2>1, <2>2, <2>3
<1> QED BY <1>2 DEF FramesDeep

LEMMA RootedFit ==
    ASSUME TypeOK, ResolversFit, NEW b, Rooted(b)
    PROVE  \A r \in 1..Len(b.all) : Fits(b.all[r])
<1>1. ASSUME NEW r \in 1..Len(b.all)
      PROVE  Fits(b.all[r])
  <2>1. CASE r \in Resolver  BY <2>1 DEF ResolversFit, Rooted
  <2>2. CASE r \notin Resolver  BY <2>2 DEF Rooted, Fits, Resolver, TypeOK
  <2> QED BY <2>1, <2>2
<1> QED BY <1>1

LEMMA CallDeep ==
    ASSUME TypeOK, DeepInv, NEW t \in Task, NEW c \in Callable, NEW b, Rooted(b),
           CallFrom(t, c, b), need' = need, revision' = revision
    PROVE  DeepInv'
<1> DEFINE opens == NeedsScope(b.all, b.id, TargetLevel(c))
           id == IF opens THEN Len(b.all) + 1 ELSE b.id
           deeper == Deepened(b.all, b.id, TargetLevel(c))
           f == [Frame(c, id, opens, revision) EXCEPT !.state = "arguments"]
<1> USE InjectionAssumption
<1>0. /\ target' = IF c = "infer" THEN Inferred ELSE target
      /\ resolvers' = IF opens THEN deeper ELSE b.all
      /\ frames' = [frames EXCEPT ![t] = Append(@, f)]
      /\ f = [kind |-> c, resolver |-> id, opened |-> opens, asked |-> revision, state |-> "arguments"]
  BY DEF CallFrom, Frame
<1>1. /\ b.all \in Seq(ResolverState) /\ b.id \in 1..Len(b.all) /\ Len(b.all) >= Len(resolvers)
      /\ Len(resolvers) \in Nat /\ Len(b.all) \in Nat
      /\ \A r \in Resolver : b.all[r] = resolvers[r]
      /\ \A r \in 1..Len(b.all) : Fits(b.all[r])
  <2>1. \A r \in 1..Len(b.all) : Fits(b.all[r])
    BY RootedFit DEF DeepInv
  <2> QED BY <2>1 DEF Rooted, TypeOK
<1>2. /\ TargetLevel(c) \in Level /\ opens \in BOOLEAN /\ revision \in Nat /\ need \in Level
      /\ c = "infer" => TargetLevel(c) = need
      /\ c \in {"explicit", "generator"} => TargetLevel(c) >= need
  BY DEF TargetLevel, TargetIsFresh, TypeOK, Callable, Level, NeedsScope, DeepInv, TargetFits
<1>3. /\ deeper \in Seq(ResolverState) /\ Len(deeper) = Len(b.all) + 1
      /\ \A r \in 1..Len(b.all) : deeper[r] = b.all[r]
      /\ deeper[Len(b.all) + 1].level = TargetLevel(c) /\ deeper[Len(b.all) + 1].need = b.all[b.id].need
      /\ deeper[Len(b.all) + 1].revision = b.all[b.id].revision
  BY <1>1, <1>2, DeepenedRooted
<1>4. TargetFits'
  BY <1>0, <1>2 DEF Inferred, TargetIsFresh, TargetFits, DeepInv
<1>5. b.all[b.id] \in ResolverState /\ Fits(b.all[b.id])
  BY <1>1
<1>6. ~opens => TargetLevel(c) = 0 \/ TargetLevel(c) <= b.all[b.id].level
  BY <1>2, <1>5 DEF NeedsScope, ResolverState, Level
<1> HIDE DEF deeper, opens
<1>7. /\ resolvers' \in Seq(ResolverState) /\ id \in Resolver' /\ id \in 1..Len(resolvers')
      /\ resolvers'[id].need = b.all[b.id].need /\ resolvers'[id].revision = b.all[b.id].revision
      /\ resolvers'[id].level = IF opens THEN TargetLevel(c) ELSE b.all[b.id].level
  BY <1>0, <1>1, <1>3 DEF Resolver
<1>8. CompiledStays
  <2>1. Len(resolvers') >= Len(resolvers)
    BY <1>0, <1>1, <1>3
  <2>2. ASSUME NEW r \in Resolver
        PROVE  resolvers'[r] = resolvers[r]
    <3>1. r \in 1..Len(b.all) /\ b.all[r] = resolvers[r]
      BY <1>1, <2>2 DEF Resolver
    <3> QED BY <1>0, <1>3, <3>1
  <2> QED BY <2>1, <2>2 DEF CompiledStays
<1>9. ResolversFit'
  <2>1. ASSUME NEW r \in 1..Len(resolvers')
        PROVE  Fits(resolvers'[r])
    <3>1. CASE r \in 1..Len(b.all)  BY <1>0, <1>1, <1>3, <3>1
    <3>2. CASE r \notin 1..Len(b.all)
      <4>1. opens /\ r = Len(b.all) + 1
        BY <1>0, <1>1, <1>3, <2>1, <3>2
      <4> QED BY <1>0, <1>3, <1>5, <4>1 DEF Fits
    <3> QED BY <3>1, <3>2
  <2> QED BY <2>1 DEF ResolversFit, Resolver, Fits
<1>10. Deep(resolvers', f) /\ f \in FrameState'
  <2> HIDE DEF id, f
  <2>1. f.resolver = id /\ f.kind = c /\ f.asked = revision /\ f.state = "arguments"
    BY <1>0
  <2>2. c \in {"infer", "explicit", "generator"} /\ resolvers'[id].revision = revision => resolvers'[id].level >= resolvers'[id].need
    <3>1. ASSUME c \in {"infer", "explicit", "generator"}, resolvers'[id].revision = revision
          PROVE  resolvers'[id].level >= resolvers'[id].need
      <4>1. resolvers'[id].need = need /\ TargetLevel(c) >= need
        BY <1>2, <1>5, <1>7, <3>1 DEF Fits, Level
      <4>2. CASE opens  BY <1>7, <4>1, <4>2
      <4>3. CASE ~opens
        <5>1. b.all[b.id].level \in Nat /\ TargetLevel(c) \in Nat /\ need \in Nat
          BY <1>2, <1>5 DEF ResolverState, Level
        <5> QED BY <1>6, <1>7, <4>1, <4>3, <5>1
      <4> QED BY <4>2, <4>3
    <3> QED BY <3>1
  <2>3. Deep(resolvers', f)
    BY <2>1, <2>2 DEF Deep
  <2> QED BY <1>0, <1>2, <1>7, <2>3 DEF FrameState, TypeOK
<1>11. FramesDeep'
  <2> HIDE DEF f, id
  <2> QED BY <1>0, <1>7, <1>8, <1>10, FrameAdded DEF DeepInv
<1> QED BY <1>4, <1>9, <1>11 DEF DeepInv

LEMMA DeepStep ==
    ASSUME TypeOK, DeepInv, [Next]_vars
    PROVE  DeepInv'
<1> USE InjectionAssumption
<1>1. ASSUME NEW t \in Task, NEW level \in Level, Register(t, level)
      PROVE  DeepInv'
  <2>1. /\ revision' = revision + 1 /\ revision \in Nat
        /\ UNCHANGED <<resolvers, target, frames>>
    BY <1>1 DEF Register, TypeOK
  <2>2. \A r \in Resolver : Fits(resolvers[r])'
    <3>1. \A r \in Resolver : resolvers[r].revision \in Nat
      <4>1. \A r \in Resolver : resolvers[r] \in ResolverState
        BY DEF TypeOK, Resolver
      <4> QED BY <4>1 DEF ResolverState
    <3> QED BY <2>1, <3>1 DEF DeepInv, ResolversFit, Fits
  <2>3. TargetFits'
    BY <2>1 DEF DeepInv, TargetFits, TypeOK
  <2>4. FramesDeep'
    BY <2>1 DEF DeepInv, FramesDeep
  <2> QED BY <2>1, <2>2, <2>3, <2>4 DEF DeepInv, ResolversFit, Resolver, Fits
<1>2. ASSUME NEW t \in Task, EnterContainer(t)
      PROVE  DeepInv'
  <2> DEFINE f == Frame("container", Compiled.id, TRUE, revision)
  <2>0. /\ resolvers' = Compiled.all /\ frames' = [frames EXCEPT ![t] = Append(@, f)]
        /\ need' = need /\ revision' = revision /\ target' = target
    BY <1>2 DEF EnterContainer, graph
  <2>1. Rooted(Compiled)
    BY CompiledRooted
  <2>2. CompiledStays /\ resolvers' \in Seq(ResolverState)
    BY <2>0, <2>1 DEF Rooted, CompiledStays
  <2>3. ResolversFit'
    <3>1. \A r \in 1..Len(Compiled.all) : Fits(Compiled.all[r])
      BY <2>1, RootedFit DEF DeepInv
    <3> QED BY <2>0, <3>1 DEF ResolversFit, Resolver, Fits
  <2>4. f \in FrameState' /\ Deep(resolvers', f)
    BY <2>0, <2>1 DEF Frame, FrameState, Deep, Callable, Rooted, Resolver, TypeOK
  <2> HIDE DEF f
  <2>5. FramesDeep'
    BY <2>0, <2>2, <2>4, FrameAdded DEF DeepInv
  <2> QED BY <2>0, <2>3, <2>5 DEF DeepInv, TargetFits
<1>3. ASSUME NEW t \in Task, NEW level \in Level, EnterScope(t, level)
      PROVE  DeepInv'
  <2> DEFINE b == Base(t)
             id == Len(b.all) + 1
             f == Frame("block", id, TRUE, revision)
             d == Deepened(b.all, b.id, level)
  <2>0. /\ resolvers' = d /\ frames' = [frames EXCEPT ![t] = Append(@, f)]
        /\ need' = need /\ revision' = revision /\ target' = target
    BY <1>3 DEF EnterScope, graph
  <2>1. /\ b.all \in Seq(ResolverState) /\ b.id \in 1..Len(b.all) /\ Len(b.all) >= Len(resolvers)
        /\ Len(b.all) \in Nat /\ Len(resolvers) \in Nat
        /\ \A r \in Resolver : b.all[r] = resolvers[r]
    BY BaseRooted DEF Rooted, TypeOK
  <2>2. \A r \in 1..Len(b.all) : Fits(b.all[r])
    BY BaseRooted, RootedFit DEF DeepInv
  <2>3. /\ d \in Seq(ResolverState) /\ Len(d) = id /\ \A r \in 1..Len(b.all) : d[r] = b.all[r]
        /\ d[id].need = b.all[b.id].need /\ d[id].revision = b.all[b.id].revision
    BY <2>1, DeepenedRooted
  <2> HIDE DEF b, d
  <2>4. CompiledStays
    <3>1. ASSUME NEW r \in Resolver
          PROVE  resolvers'[r] = resolvers[r]
      <4>1. r \in 1..Len(b.all) /\ b.all[r] = resolvers[r]
        BY <2>1 DEF Resolver
      <4> QED BY <2>0, <2>3, <4>1
    <3> QED BY <2>0, <2>1, <2>3, <3>1 DEF CompiledStays
  <2>5. ResolversFit'
    <3>1. ASSUME NEW r \in 1..Len(d)
          PROVE  Fits(d[r])
      BY <2>1, <2>2, <2>3 DEF Fits
    <3> QED BY <2>0, <3>1 DEF ResolversFit, Resolver, Fits
  <2>6. f \in FrameState' /\ Deep(resolvers', f)
    BY <2>0, <2>1, <2>3 DEF Frame, FrameState, Deep, Callable, Resolver, TypeOK
  <2> HIDE DEF f, id
  <2>7. FramesDeep'
    BY <2>0, <2>3, <2>4, <2>6, FrameAdded DEF DeepInv
  <2> QED BY <2>0, <2>5, <2>7 DEF DeepInv, TargetFits
<1>4. ASSUME NEW t \in Task, NEW child \in Task, Spawn(t, child)
      PROVE  DeepInv'
  BY <1>4 DEF Spawn, graph, DeepInv, ResolversFit, Resolver, Fits, TargetFits, FramesDeep
<1>5. ASSUME NEW t \in Task, NEW c \in Callable, CallInjected(t, c)
      PROVE  DeepInv'
  BY <1>5, BaseRooted, CallDeep DEF CallInjected, graph
<1>6. ASSUME NEW t \in Task, NEW c \in Callable, NEW i \in DOMAIN frames[t],
             CallExplicit(t, c, frames[t][i].resolver)
      PROVE  DeepInv'
  <2> DEFINE b == [id |-> frames[t][i].resolver, all |-> resolvers]
  <2>1. Rooted(b)
    <3>1. frames[t][i] \in FrameState
      BY DEF TypeOK
    <3>2. b.id \in 1..Len(resolvers) /\ b.all = resolvers
      BY <3>1 DEF FrameState, Resolver
    <3> HIDE DEF b
    <3> QED BY <3>2 DEF Rooted, TypeOK, Resolver
  <2> QED BY <1>6, <2>1, CallDeep DEF CallExplicit, graph
<1>7. ASSUME NEW t \in Task, ResolveArguments(t)
      PROVE  DeepInv'
  <2> DEFINE f == Top(t)
             shallow == resolvers[f.resolver].level < resolvers[f.resolver].need
             g == [f EXCEPT !.state = Resolved(f)]
             n == Len(frames[t])
  <2>0. /\ frames' = [frames EXCEPT ![t] = Append(Front(frames[t]), g)]
        /\ frames[t] # <<>> /\ f.state = "arguments" /\ UNCHANGED <<graph, resolvers, target>>
    BY <1>7 DEF ResolveArguments
  <2>1. /\ f = frames[t][n] /\ f \in FrameState /\ n \in DOMAIN frames[t] /\ frames[t] \in Seq(FrameState)
        /\ n \in Nat \ {0} /\ DOMAIN frames[t] = 1..n
    <3>1. frames[t] \in Seq(FrameState) /\ frames[t] # <<>>
      BY <2>0 DEF TypeOK
    <3>2. f = Last(frames[t])
      BY DEF Top
    <3>3. Last(frames[t]) = frames[t][n] /\ Last(frames[t]) \in FrameState /\ n \in Nat \ {0}
      BY <3>1, Fronted
    <3> HIDE DEF f
    <3> QED BY <3>1, <3>2, <3>3
  <2>2. Deep(resolvers, f)
    BY <2>1 DEF DeepInv, FramesDeep
  <2>3. Deep(resolvers, g) /\ g \in FrameState
    <3>1. /\ g.kind = f.kind /\ g.resolver = f.resolver /\ g.asked = f.asked
          /\ g.state = Resolved(f) /\ g \in FrameState
      BY <2>1 DEF FrameState, Resolved
    <3>2. /\ Resolved(f) = "mismatch" => shallow
          /\ f.kind \in Callable
      BY <2>0, <2>2 DEF Resolved, Deep
    <3> HIDE DEF f, g
    <3> QED BY <2>2, <3>1, <3>2 DEF Deep
  <2> HIDE DEF f, g
  <2>4. FramesDeep'
    <3>1. /\ Len(Append(Front(frames[t]), g)) = n /\ Append(Front(frames[t]), g)[n] = g
          /\ \A i \in 1..(n - 1) : Append(Front(frames[t]), g)[i] = frames[t][i]
          /\ DOMAIN Append(Front(frames[t]), g) = 1..n
      BY <2>0, <2>1, <2>3, Replaced
    <3>2. ASSUME NEW i \in 1..n
          PROVE  Deep(resolvers, Append(Front(frames[t]), g)[i])
      <4>1. CASE i = n  BY <2>3, <3>1, <4>1
      <4>2. CASE i # n  BY <2>1, <3>1, <4>2 DEF DeepInv, FramesDeep
      <4> QED BY <4>1, <4>2
    <3> HIDE DEF n
    <3> QED BY <2>0, <3>1, <3>2 DEF FramesDeep, DeepInv, TypeOK
  <2> QED BY <2>0, <2>4 DEF DeepInv, graph, ResolversFit, Resolver, Fits, TargetFits
<1>8. ASSUME NEW t \in Task, NEW fails \in BOOLEAN, Exit(t, fails)
      PROVE  DeepInv'
  <2> DEFINE q == Top(t).resolver
  <2>0. /\ frames[t] \in Seq(FrameState) /\ frames[t] # <<>> /\ q \in Resolver
        /\ frames' = [frames EXCEPT ![t] = Front(@)] /\ UNCHANGED <<graph, target>>
        /\ \/ resolvers' = resolvers
           \/ resolvers' = [resolvers EXCEPT ![q] = [resolvers[q] EXCEPT !.open = FALSE]]
    <3>1. Top(t) \in FrameState
      BY <1>8, Fronted DEF Exit, TypeOK, Top
    <3> QED BY <1>8, <3>1 DEF Exit, TypeOK, FrameState
  <2>1. /\ Len(resolvers') = Len(resolvers)
        /\ \A r \in Resolver : /\ resolvers'[r].level = resolvers[r].level
                               /\ resolvers'[r].need = resolvers[r].need
                               /\ resolvers'[r].revision = resolvers[r].revision
    <3> HIDE DEF q
    <3>1. \A r \in Resolver : resolvers[r] \in ResolverState
      BY DEF TypeOK, Resolver
    <3>2. CASE resolvers' = resolvers  BY <3>2
    <3>3. CASE resolvers' = [resolvers EXCEPT ![q] = [resolvers[q] EXCEPT !.open = FALSE]]
      <4> DEFINE e == [resolvers[q] EXCEPT !.open = FALSE]
      <4>1. /\ e.level = resolvers[q].level /\ e.need = resolvers[q].need
            /\ e.revision = resolvers[q].revision /\ e \in ResolverState
        BY <2>0, <3>1 DEF ResolverState
      <4> HIDE DEF e
      <4>2. resolvers' = [resolvers EXCEPT ![q] = e]
        BY <3>3 DEF e
      <4> QED BY <2>0, <4>1, <4>2 DEF Resolver, TypeOK
    <3> QED BY <2>0, <3>2, <3>3
  <2>2. CompiledStays
    BY <2>1 DEF CompiledStays, TypeOK
  <2>3. ResolversFit' /\ TargetFits'
    BY <2>0, <2>1 DEF DeepInv, ResolversFit, Fits, TargetFits, Resolver, graph
  <2>4. FramesDeep'
    <3>1. ASSUME NEW s \in Task, NEW i \in DOMAIN frames'[s]
          PROVE  i \in DOMAIN frames[s] /\ frames'[s][i] = frames[s][i]
      <4>1. /\ Front(frames[t]) \in Seq(FrameState) /\ Len(frames[t]) \in Nat \ {0}
            /\ DOMAIN Front(frames[t]) = 1..(Len(frames[t]) - 1) /\ DOMAIN frames[t] = 1..Len(frames[t])
            /\ \A j \in 1..(Len(frames[t]) - 1) : Front(frames[t])[j] = frames[t][j]
        <5>1. /\ Front(frames[t]) \in Seq(FrameState) /\ Len(frames[t]) \in Nat \ {0}
              /\ Len(Front(frames[t])) = Len(frames[t]) - 1
              /\ \A j \in 1..(Len(frames[t]) - 1) : Front(frames[t])[j] = frames[t][j]
          BY <2>0, Fronted
        <5>2. DOMAIN Front(frames[t]) = 1..Len(Front(frames[t])) /\ DOMAIN frames[t] = 1..Len(frames[t])
          BY <2>0, <5>1
        <5> QED BY <5>1, <5>2
      <4>2. CASE s = t
        <5>1. frames'[s] = Front(frames[t])
          BY <2>0, <4>2 DEF TypeOK
        <5> QED BY <3>1, <4>1, <4>2, <5>1
      <4>3. CASE s # t
        <5>1. frames'[s] = frames[s]
          BY <2>0, <4>3 DEF TypeOK
        <5> QED BY <3>1, <5>1
      <4> QED BY <4>2, <4>3
    <3>2. ASSUME NEW s \in Task, NEW i \in DOMAIN frames'[s]
          PROVE  Deep(resolvers', frames'[s][i])
      <4>1. frames[s][i] \in FrameState /\ Deep(resolvers, frames[s][i])
        BY <3>1, <3>2 DEF DeepInv, FramesDeep, TypeOK
      <4> QED BY <2>2, <3>1, <3>2, <4>1, DeepStays
    <3> QED BY <3>2 DEF FramesDeep
  <2> QED BY <2>3, <2>4 DEF DeepInv
<1>9. CASE UNCHANGED vars
  BY <1>9 DEF vars, graph, DeepInv, ResolversFit, Resolver, Fits, TargetFits, FramesDeep
<1>10. ASSUME NEW t \in Task, NEW r \in generators, Iterate(t, r)
       PROVE  DeepInv'
  <2> DEFINE f == Frame("iteration", r, FALSE, revision)
  <2>0. /\ f \in FrameState /\ f \in FrameState' /\ f.resolver \in Nat /\ f.opened = FALSE
        /\ f.kind = "iteration" /\ f.state = "body" /\ t \in running
        /\ frames' = [frames EXCEPT ![t] = Append(@, f)]
        /\ UNCHANGED <<graph, root, resolvers, target, running, context, inherited, generators>>
    BY <1>10, Iterated
  <2> HIDE DEF f
  <2>1. Deep(resolvers', f) /\ CompiledStays /\ resolvers' \in Seq(ResolverState)
    BY <2>0 DEF Deep, CompiledStays, TypeOK, Callable
  <2>2. FramesDeep'
    BY <2>0, <2>1, FrameAdded DEF DeepInv
  <2> QED BY <2>0, <2>2 DEF DeepInv, graph, ResolversFit, Resolver, Fits, TargetFits
<1> QED BY <1>1, <1>2, <1>3, <1>4, <1>5, <1>6, <1>7, <1>8, <1>9, <1>10 DEF Next, Done

(* container.py:3095-3150, the scope an injected callable infers: a call   *)
(* whose resolver was compiled from the graph it found resolves its        *)
(* dependency, whatever is registered since the callable was decorated.    *)
THEOREM DeepEnough == Spec => []CallsDeepEnough
<1>1. Init => DeepInv
  BY InjectionAssumption DEF Init, DeepInv, ResolversFit, TargetFits, FramesDeep, Resolver
<1>2. TypeOK /\ DeepInv /\ [Next]_vars => DeepInv'
  BY DeepStep
<1>3. TypeOK /\ DeepInv => CallsDeepEnough
  <2> SUFFICES ASSUME TypeOK, DeepInv, NEW t \in running, NEW i \in DOMAIN frames[t],
                      frames[t][i].state = "mismatch", frames[t][i].kind # "no_open"
               PROVE  resolvers[frames[t][i].resolver].revision # frames[t][i].asked
    BY DEF CallsDeepEnough
  <2>1. frames[t][i] \in FrameState /\ Deep(resolvers, frames[t][i])
    BY DEF TypeOK, DeepInv, FramesDeep
  <2>2. resolvers[frames[t][i].resolver] \in ResolverState
    BY <2>1 DEF FrameState, Resolver, TypeOK
  <2> QED BY <2>1, <2>2, InjectionAssumption DEF Deep, Callable, ResolverState, Level, FrameState
<1> QED BY <1>1, <1>2, <1>3, TypeCorrect, PTL DEF Spec

-----------------------------------------------------------------------------
(* An open scope has a frame that opened it, which stays until it closes   *)
(* the scope.                                                              *)
HasFrame(fs, r) == \E t \in running : \E i \in DOMAIN fs[t] : fs[t][i].opened /\ fs[t][i].resolver = r

OpenHasFrame ==
    \A r \in Resolver : resolvers[r].open /\ resolvers[r].level > 0 => HasFrame(frames, r)

LEMMA FrameFound ==
    ASSUME TypeOK, NEW t \in running, NEW f, NEW r, running' = running,
           frames' = [frames EXCEPT ![t] = Append(@, f)],
           HasFrame(frames, r) \/ (f.opened /\ f.resolver = r)
    PROVE  HasFrame(frames', r)
<1>1. t \in Task /\ frames[t] \in Seq(FrameState)
  BY DEF TypeOK
<1>2. /\ frames'[t] = Append(frames[t], f) /\ \A s \in Task \ {t} : frames'[s] = frames[s]
      /\ DOMAIN frames[t] = 1..Len(frames[t]) /\ DOMAIN frames'[t] = 1..(Len(frames[t]) + 1)
      /\ Len(frames[t]) \in Nat
      /\ frames'[t][Len(frames[t]) + 1] = f
      /\ \A i \in 1..Len(frames[t]) : frames'[t][i] = frames[t][i]
  BY <1>1 DEF TypeOK
<1>3. CASE f.opened /\ f.resolver = r
  BY <1>2, <1>3 DEF HasFrame
<1>4. CASE HasFrame(frames, r)
  <2>0. PICK s \in running :
          \E i \in DOMAIN frames[s] : frames[s][i].opened /\ frames[s][i].resolver = r
    BY <1>4 DEF HasFrame
  <2>1. PICK i \in DOMAIN frames[s] : frames[s][i].opened /\ frames[s][i].resolver = r
    BY <2>0
  <2>2. i \in DOMAIN frames'[s] /\ frames'[s][i] = frames[s][i]
    BY <1>2, <2>1 DEF TypeOK
  <2> QED BY <2>1, <2>2 DEF HasFrame
<1> QED BY <1>3, <1>4

LEMMA RootedNew ==
    ASSUME TypeOK, NEW b, Rooted(b), NEW r \in 1..Len(b.all)
    PROVE  IF r \in Resolver THEN b.all[r] = resolvers[r] ELSE b.all[r].level = 0
<1>1. CASE r \in Resolver
  BY <1>1 DEF Rooted
<1>2. CASE r \notin Resolver
  <2>1. Len(resolvers) \in Nat /\ Len(b.all) \in Nat
    BY DEF TypeOK, Rooted
  <2>2. r > Len(resolvers)
    BY <1>2, <2>1 DEF Resolver
  <2> QED BY <1>2, <2>2 DEF Rooted
<1> QED BY <1>1, <1>2

(* The resolvers that are open after a step that adds a frame are the ones *)
(* that were, roots, and the one of the frame.                             *)
LEMMA BackAdded ==
    ASSUME TypeOK, OpenHasFrame, NEW t \in running, NEW f, running' = running,
           frames' = [frames EXCEPT ![t] = Append(@, f)],
           \A r \in Resolver' : resolvers'[r].open /\ resolvers'[r].level > 0 =>
               \/ r \in Resolver /\ resolvers[r].open /\ resolvers[r].level > 0
               \/ f.opened /\ f.resolver = r
    PROVE  OpenHasFrame'
<1>1. ASSUME NEW r \in Resolver', resolvers'[r].open, resolvers'[r].level > 0
      PROVE  HasFrame(frames', r)
  <2>1. HasFrame(frames, r) \/ (f.opened /\ f.resolver = r)
    BY <1>1 DEF OpenHasFrame, HasFrame
  <2> QED BY <2>1, FrameFound
<1> QED BY <1>1 DEF OpenHasFrame, HasFrame

LEMMA CallBack ==
    ASSUME TypeOK, OpenHasFrame, NEW t \in running, NEW c \in Callable, NEW b, Rooted(b),
           CallFrom(t, c, b), running' = running
    PROVE  OpenHasFrame'
<1> DEFINE opens == NeedsScope(b.all, b.id, TargetLevel(c))
           id == IF opens THEN Len(b.all) + 1 ELSE b.id
           deeper == Deepened(b.all, b.id, TargetLevel(c))
           f == [Frame(c, id, opens, revision) EXCEPT !.state = "arguments"]
<1> USE InjectionAssumption
<1>0. /\ resolvers' = IF opens THEN deeper ELSE b.all
      /\ frames' = [frames EXCEPT ![t] = Append(@, f)]
      /\ f.opened = opens /\ f.resolver = id
  BY DEF CallFrom, Frame
<1>1. /\ b.all \in Seq(ResolverState) /\ b.id \in 1..Len(b.all) /\ Len(b.all) \in Nat
  BY DEF Rooted
<1>2. TargetLevel(c) \in Level /\ opens \in BOOLEAN
  BY DEF TargetLevel, TypeOK, Callable, Level, NeedsScope
<1>3. /\ Len(deeper) = Len(b.all) + 1 /\ \A r \in 1..Len(b.all) : deeper[r] = b.all[r]
  BY <1>1, <1>2, DeepenedRooted
<1> HIDE DEF f, deeper, opens
<1>4. ASSUME NEW r \in Resolver', resolvers'[r].level > 0
      PROVE  (r \in Resolver /\ resolvers'[r] = resolvers[r]) \/ (f.opened /\ f.resolver = r)
  <2>1. CASE r \in Resolver
    <3>1. b.all[r] = resolvers[r] /\ r \in 1..Len(b.all)
      BY <2>1 DEF Rooted, Resolver, TypeOK
    <3> QED BY <1>0, <1>3, <2>1, <3>1
  <2>2. CASE r \in 1..Len(b.all) /\ r \notin Resolver
    <3>1. b.all[r].level = 0
      BY <2>2, RootedNew
    <3> QED BY <1>0, <1>3, <1>4, <2>2, <3>1
  <2>3. CASE r \notin 1..Len(b.all) /\ r \notin Resolver
    BY <1>0, <1>1, <1>2, <1>3, <1>4, <2>3 DEF Resolver
  <2> QED BY <2>1, <2>2, <2>3
<1> HIDE DEF id
<1> QED BY <1>0, <1>4, BackAdded

LEMMA BackStep ==
    ASSUME TypeOK, OpenHasFrame, [Next]_vars
    PROVE  OpenHasFrame'
<1> USE InjectionAssumption
<1>1. ASSUME NEW t \in Task, NEW level \in Level, Register(t, level)
      PROVE  OpenHasFrame'
  BY <1>1 DEF Register, OpenHasFrame, HasFrame, Resolver
<1>2. ASSUME NEW t \in Task, EnterContainer(t)
      PROVE  OpenHasFrame'
  <2> DEFINE f == Frame("container", Compiled.id, TRUE, revision)
  <2>0. /\ resolvers' = Compiled.all /\ frames' = [frames EXCEPT ![t] = Append(@, f)]
        /\ t \in running /\ running' = running
    BY <1>2 DEF EnterContainer, Act
  <2>1. ASSUME NEW r \in Resolver', resolvers'[r].level > 0
        PROVE  r \in Resolver /\ resolvers'[r] = resolvers[r]
    <3>1. Rooted(Compiled)
      BY CompiledRooted
    <3>2. r \in 1..Len(Compiled.all)
      BY <2>0, <2>1 DEF Resolver
    <3>3. IF r \in Resolver THEN Compiled.all[r] = resolvers[r] ELSE Compiled.all[r].level = 0
      BY <3>1, <3>2, RootedNew
    <3>4. resolvers'[r] = Compiled.all[r]
      BY <2>0
    <3> HIDE DEF Compiled
    <3>5. CASE r \in Resolver
      BY <3>3, <3>4, <3>5
    <3>6. CASE r \notin Resolver
      BY <2>1, <3>3, <3>4, <3>6
    <3> QED BY <3>5, <3>6
  <2> HIDE DEF f
  <2> QED BY <2>0, <2>1, BackAdded
<1>3. ASSUME NEW t \in Task, NEW level \in Level, EnterScope(t, level)
      PROVE  OpenHasFrame'
  <2> DEFINE b == Base(t)
             id == Len(b.all) + 1
             f == Frame("block", id, TRUE, revision)
             d == Deepened(b.all, b.id, level)
  <2>0. /\ resolvers' = d /\ frames' = [frames EXCEPT ![t] = Append(@, f)]
        /\ t \in running /\ running' = running /\ f.opened /\ f.resolver = id
    BY <1>3 DEF EnterScope, Act, Frame
  <2>1. Rooted(b)
    BY BaseRooted
  <2> HIDE DEF b
  <2>2. b.all \in Seq(ResolverState) /\ b.id \in 1..Len(b.all) /\ Len(b.all) \in Nat
    BY <2>1 DEF Rooted
  <2>3. Len(d) = Len(b.all) + 1 /\ \A r \in 1..Len(b.all) : d[r] = b.all[r]
    BY <2>2, DeepenedRooted
  <2> HIDE DEF d, f
  <2>4. ASSUME NEW r \in Resolver', resolvers'[r].level > 0
        PROVE  (r \in Resolver /\ resolvers'[r] = resolvers[r]) \/ (f.opened /\ f.resolver = r)
    <3>1. CASE r \in Resolver
      <4>1. b.all[r] = resolvers[r] /\ r \in 1..Len(b.all)
        BY <2>1, <3>1 DEF Rooted, Resolver, TypeOK
      <4> QED BY <2>0, <2>3, <3>1, <4>1
    <3>2. CASE r \in 1..Len(b.all) /\ r \notin Resolver
      <4>1. b.all[r].level = 0
        BY <2>1, <3>2, RootedNew
      <4> QED BY <2>0, <2>3, <2>4, <3>2, <4>1
    <3>3. CASE r \notin 1..Len(b.all) /\ r \notin Resolver
      BY <2>0, <2>2, <2>3, <2>4, <3>3 DEF Resolver
    <3> QED BY <3>1, <3>2, <3>3
  <2> HIDE DEF id
  <2> QED BY <2>0, <2>4, BackAdded
<1>4. ASSUME NEW t \in Task, NEW child \in Task, Spawn(t, child)
      PROVE  OpenHasFrame'
  BY <1>4 DEF Spawn, OpenHasFrame, HasFrame, Resolver
<1>5. ASSUME NEW t \in Task, NEW c \in Callable, CallInjected(t, c)
      PROVE  OpenHasFrame'
  BY <1>5, BaseRooted, CallBack DEF CallInjected, Act
<1>6. ASSUME NEW t \in Task, NEW c \in Callable, NEW i \in DOMAIN frames[t],
             CallExplicit(t, c, frames[t][i].resolver)
      PROVE  OpenHasFrame'
  <2> DEFINE b == [id |-> frames[t][i].resolver, all |-> resolvers]
  <2>1. Rooted(b)
    <3>1. frames[t][i] \in FrameState
      BY DEF TypeOK
    <3>2. b.id \in 1..Len(resolvers) /\ b.all = resolvers
      BY <3>1 DEF FrameState, Resolver
    <3> HIDE DEF b
    <3> QED BY <3>2 DEF Rooted, TypeOK, Resolver
  <2> QED BY <1>6, <2>1, CallBack DEF CallExplicit, Act
<1>7. ASSUME NEW t \in Task, ResolveArguments(t)
      PROVE  OpenHasFrame'
  <2> DEFINE n == Len(frames[t])
  <2>1. PICK state \in {"mismatch", "returned", "body"} :
          frames' = [frames EXCEPT ![t] = Append(Front(frames[t]), [Top(t) EXCEPT !.state = state])]
    BY <1>7 DEF ResolveArguments, Resolved
  <2> DEFINE g == [Top(t) EXCEPT !.state = state]
  <2>2. /\ frames[t] \in Seq(FrameState) /\ frames[t] # <<>> /\ Top(t) = frames[t][n]
        /\ Top(t) \in FrameState /\ n \in Nat \ {0}
    BY <1>7, Fronted DEF ResolveArguments, TypeOK, Top
  <2>3. g.opened = frames[t][n].opened /\ g.resolver = frames[t][n].resolver /\ g \in FrameState
    BY <2>2 DEF FrameState
  <2> HIDE DEF g
  <2>4. /\ \A s \in Task \ {t} : frames'[s] = frames[s]
        /\ DOMAIN frames'[t] = DOMAIN frames[t]
        /\ \A i \in DOMAIN frames[t] : /\ frames'[t][i].opened = frames[t][i].opened
                                       /\ frames'[t][i].resolver = frames[t][i].resolver
    <3>1. frames'[t] = Append(Front(frames[t]), g) /\ \A s \in Task \ {t} : frames'[s] = frames[s]
      BY <2>1 DEF g, TypeOK
    <3>2. /\ Append(Front(frames[t]), g) \in Seq(FrameState) /\ Len(Append(Front(frames[t]), g)) = n
          /\ Append(Front(frames[t]), g)[n] = g
          /\ \A i \in 1..(n - 1) : Append(Front(frames[t]), g)[i] = frames[t][i]
      BY <2>2, <2>3, Replaced
    <3>3. DOMAIN Append(Front(frames[t]), g) = 1..n /\ DOMAIN frames[t] = 1..n
      BY <2>2, <3>2
    <3>4. \A i \in 1..n : i = n \/ i \in 1..(n - 1)
      BY <2>2
    <3> HIDE DEF n
    <3> QED BY <2>3, <3>1, <3>2, <3>3, <3>4
  <2>5. UNCHANGED <<resolvers, running>>
    BY <1>7 DEF ResolveArguments
  <2>6. ASSUME NEW r \in Resolver, HasFrame(frames, r)
        PROVE  HasFrame(frames', r)
    <3>0. PICK s \in running :
            \E i \in DOMAIN frames[s] : frames[s][i].opened /\ frames[s][i].resolver = r
      BY <2>6 DEF HasFrame
    <3>1. PICK i \in DOMAIN frames[s] : frames[s][i].opened /\ frames[s][i].resolver = r
      BY <3>0
    <3>2. s \in Task
      BY DEF TypeOK
    <3>3. i \in DOMAIN frames'[s] /\ frames'[s][i].opened /\ frames'[s][i].resolver = r
      BY <2>4, <3>1, <3>2
    <3> QED BY <3>3 DEF HasFrame
  <2> QED BY <2>5, <2>6 DEF OpenHasFrame, HasFrame, Resolver
<1>8. ASSUME NEW t \in Task, NEW fails \in BOOLEAN, Exit(t, fails)
      PROVE  OpenHasFrame'
  <2> DEFINE q == Top(t).resolver
             n == Len(frames[t])
  <2>0. /\ frames[t] \in Seq(FrameState) /\ frames[t] # <<>> /\ n \in Nat \ {0}
        /\ Top(t) = frames[t][n] /\ Top(t) \in FrameState
    BY <1>8, Fronted DEF Exit, TypeOK, Top
  <2>1. /\ frames' = [frames EXCEPT ![t] = Front(frames[t])] /\ running' = running
        /\ resolvers' = IF Top(t).opened
                        THEN [resolvers EXCEPT ![q] = [resolvers[q] EXCEPT !.open = FALSE]]
                        ELSE resolvers
    BY <1>8 DEF Exit, Closes
  <2>2. q \in Resolver
    BY <2>0 DEF FrameState
  <2>3. ASSUME NEW r \in Resolver', resolvers'[r].open, resolvers'[r].level > 0
        PROVE  /\ r \in Resolver /\ resolvers[r].open /\ resolvers[r].level > 0
               /\ ~(Top(t).opened /\ q = r)
    <3> DEFINE e == [resolvers[q] EXCEPT !.open = FALSE]
    <3>1. e \in ResolverState /\ e.open = FALSE /\ resolvers[q] \in ResolverState
      <4>1. resolvers[q] \in ResolverState
        BY <2>2 DEF TypeOK, Resolver
      <4> QED BY <4>1 DEF ResolverState
    <3> HIDE DEF e, q
    <3>2. resolvers' = IF Top(t).opened THEN [resolvers EXCEPT ![q] = e] ELSE resolvers
      BY <2>1 DEF e
    <3> QED BY <2>2, <2>3, <3>1, <3>2 DEF Resolver, TypeOK
  <2>4. ASSUME NEW r \in Resolver, HasFrame(frames, r), ~(Top(t).opened /\ q = r)
        PROVE  HasFrame(frames', r)
    <3>0. PICK s \in running :
            \E i \in DOMAIN frames[s] : frames[s][i].opened /\ frames[s][i].resolver = r
      BY <2>4 DEF HasFrame
    <3>1. PICK i \in DOMAIN frames[s] : frames[s][i].opened /\ frames[s][i].resolver = r
      BY <3>0
    <3>2. s \in Task
      BY DEF TypeOK
    <3>3. CASE s # t
      <4>1. frames'[s] = frames[s]
        BY <2>1, <3>2, <3>3 DEF TypeOK
      <4> QED BY <2>1, <3>1, <4>1 DEF HasFrame
    <3>4. CASE s = t
      <4>1. i # n /\ i \in 1..n
        BY <2>0, <2>4, <3>1, <3>4
      <4>2. /\ Front(frames[t]) \in Seq(FrameState) /\ Len(Front(frames[t])) = n - 1
            /\ \A j \in 1..(n - 1) : Front(frames[t])[j] = frames[t][j]
        BY <2>0, Fronted
      <4>3. frames'[t] = Front(frames[t])
        BY <2>1 DEF TypeOK
      <4>4. i \in 1..(n - 1) /\ DOMAIN Front(frames[t]) = 1..(n - 1)
        BY <2>0, <4>1, <4>2
      <4> HIDE DEF n
      <4>5. i \in DOMAIN frames'[s] /\ frames'[s][i] = frames[s][i]
        BY <3>4, <4>2, <4>3, <4>4
      <4> QED BY <2>1, <3>1, <4>5 DEF HasFrame
    <3> QED BY <3>3, <3>4
  <2> HIDE DEF q
  <2> QED BY <2>1, <2>3, <2>4 DEF OpenHasFrame, HasFrame
<1>9. CASE UNCHANGED vars
  BY <1>9 DEF vars, OpenHasFrame, HasFrame, Resolver
<1>10. ASSUME NEW t \in Task, NEW r \in generators, Iterate(t, r)
       PROVE  OpenHasFrame'
  <2> DEFINE f == Frame("iteration", r, FALSE, revision)
  <2>0. /\ f \in FrameState /\ f \in FrameState' /\ f.resolver \in Nat /\ f.opened = FALSE
        /\ f.kind = "iteration" /\ f.state = "body" /\ t \in running
        /\ frames' = [frames EXCEPT ![t] = Append(@, f)]
        /\ UNCHANGED <<graph, root, resolvers, target, running, context, inherited, generators>>
    BY <1>10, Iterated
  <2> HIDE DEF f
  <2>1. \A q \in Resolver' : q \in Resolver /\ resolvers'[q] = resolvers[q]
    BY <2>0 DEF Resolver
  <2> QED BY <2>0, <2>1, BackAdded
<1> QED BY <1>1, <1>2, <1>3, <1>4, <1>5, <1>6, <1>7, <1>8, <1>9, <1>10 DEF Next, Done

-----------------------------------------------------------------------------
(* What a frame opened is open, and no other frame opened it: so only the  *)
(* end of that frame closes it.  The root is at level 0.                   *)
Scoped(r) == resolvers[r].level > 0
Held ==
    \A t \in Task : \A i \in DOMAIN frames[t] :
        LET f == frames[t][i] IN f.opened /\ Scoped(f.resolver) => resolvers[f.resolver].open
Distinct ==
    \A s, t \in Task : \A i \in DOMAIN frames[s], j \in DOMAIN frames[t] :
        /\ frames[s][i].opened /\ frames[t][j].opened
        /\ frames[s][i].resolver = frames[t][j].resolver /\ Scoped(frames[s][i].resolver)
        => s = t /\ i = j
RootShallow == root # None => resolvers[root].level = 0
FramesInv == Held /\ Distinct /\ RootShallow

LEMMA CompiledShallow ==
    ASSUME TypeOK, RootShallow
    PROVE  Compiled.all[Compiled.id].level = 0
<1>1. CASE root # None
  BY <1>1 DEF Compiled, RootShallow
<1>2. CASE root = None
  <2> DEFINE e == [level |-> 0, need |-> need, revision |-> revision, open |-> TRUE]
  <2>1. Compiled.id = Len(resolvers) + 1 /\ Compiled.all = Append(resolvers, e)
    BY <1>2 DEF Compiled
  <2>2. Append(resolvers, e)[Len(resolvers) + 1] = e
    BY DEF TypeOK
  <2> QED BY <2>1, <2>2
<1> QED BY <1>1, <1>2

(* The root after a step that goes through the fallback container.         *)
LEMMA ShallowKept ==
    ASSUME TypeOK, RootShallow, NEW t \in Task, KeepRoot(t),
           \A r \in 1..Len(Base(t).all) : resolvers'[r] = Base(t).all[r]
    PROVE  RootShallow'
<1>1. CASE context[t].current # None
  <2>1. root' = root /\ Base(t).all = resolvers
    BY <1>1 DEF KeepRoot, Base
  <2>2. root # None => root \in 1..Len(resolvers)
    BY DEF TypeOK, Value, Resolver
  <2> QED BY <2>1, <2>2 DEF RootShallow
<1>2. CASE context[t].current = None
  <2>1. root' = Compiled.id /\ Base(t) = Compiled
    BY <1>2 DEF KeepRoot, Base
  <2>2. Compiled.id \in 1..Len(Compiled.all) /\ Compiled.all[Compiled.id].level = 0
    BY CompiledRooted, CompiledShallow DEF Rooted
  <2> HIDE DEF Compiled
  <2> QED BY <2>1, <2>2 DEF RootShallow
<1> QED BY <1>1, <1>2

(* A frame is added: what it opened is new.                                *)
LEMMA HeldAdded ==
    ASSUME TypeOK, Held, Distinct, NEW t \in Task, NEW f,
           frames' = [frames EXCEPT ![t] = Append(@, f)],
           \A r \in Resolver : resolvers'[r] = resolvers[r],
           f.opened /\ resolvers'[f.resolver].level > 0 =>
               f.resolver \notin Resolver /\ resolvers'[f.resolver].open
    PROVE  Held' /\ Distinct'
<1> DEFINE n == Len(frames[t]) + 1
           Old(s, i) == i \in DOMAIN frames[s]
           New(s, i) == s = t /\ i = n
<1>1. /\ frames'[t] = Append(frames[t], f) /\ \A s \in Task \ {t} : frames'[s] = frames[s]
      /\ Len(frames[t]) \in Nat /\ DOMAIN frames[t] = 1..Len(frames[t]) /\ DOMAIN frames'[t] = 1..n
      /\ Append(frames[t], f)[n] = f
      /\ \A i \in 1..Len(frames[t]) : Append(frames[t], f)[i] = frames[t][i]
  <2>1. frames[t] \in Seq(FrameState) /\ frames \in [Task -> Seq(FrameState)]
    BY DEF TypeOK
  <2> QED BY <2>1
<1>2. ASSUME NEW s \in Task, NEW i \in DOMAIN frames'[s]
      PROVE  \/ Old(s, i) /\ frames'[s][i] = frames[s][i]
             \/ New(s, i) /\ frames'[s][i] = f
  <2>1. CASE s = t
    BY <1>1, <1>2, <2>1
  <2>2. CASE s # t
    BY <1>1, <1>2, <2>2
  <2> QED BY <2>1, <2>2
<1> HIDE DEF n
<1>3. ASSUME NEW s \in Task, NEW i \in DOMAIN frames[s]
      PROVE  frames[s][i].resolver \in Resolver
  <2>1. frames[s][i] \in FrameState
    BY <1>3 DEF TypeOK
  <2> QED BY <2>1 DEF FrameState
<1>4. Held'
  <2> SUFFICES ASSUME NEW s \in Task, NEW i \in DOMAIN frames'[s], frames'[s][i].opened,
                      resolvers'[frames'[s][i].resolver].level > 0
               PROVE  resolvers'[frames'[s][i].resolver].open
    BY DEF Held, Scoped
  <2>1. CASE Old(s, i) /\ frames'[s][i] = frames[s][i]
    BY <1>3, <2>1 DEF Held, Scoped
  <2>2. CASE frames'[s][i] = f
    BY <2>2
  <2> QED BY <1>2, <2>1, <2>2
<1>5. Distinct'
  <2> SUFFICES ASSUME NEW s \in Task, NEW u \in Task, NEW i \in DOMAIN frames'[s],
                      NEW j \in DOMAIN frames'[u], frames'[s][i].opened, frames'[u][j].opened,
                      frames'[s][i].resolver = frames'[u][j].resolver,
                      resolvers'[frames'[s][i].resolver].level > 0
               PROVE  s = u /\ i = j
    BY DEF Distinct, Scoped
  <2>1. CASE Old(s, i) /\ frames'[s][i] = frames[s][i] /\ Old(u, j) /\ frames'[u][j] = frames[u][j]
    BY <1>3, <2>1 DEF Distinct, Scoped
  <2>2. CASE New(s, i) /\ New(u, j)
    BY <2>2
  <2>3. CASE frames'[s][i] = f /\ Old(u, j) /\ frames'[u][j] = frames[u][j]
    BY <1>3, <2>3
  <2>4. CASE frames'[u][j] = f /\ Old(s, i) /\ frames'[s][i] = frames[s][i]
    BY <1>3, <2>4
  <2> HIDE DEF Old, New
  <2> QED BY <1>2, <2>1, <2>2, <2>3, <2>4
<1> QED BY <1>4, <1>5

LEMMA CallHeld ==
    ASSUME TypeOK, FramesInv, NEW t \in Task, NEW c \in Callable, NEW b, Rooted(b),
           CallFrom(t, c, b)
    PROVE  /\ Held' /\ Distinct'
           /\ \A r \in 1..Len(b.all) : resolvers'[r] = b.all[r]
<1> DEFINE opens == NeedsScope(b.all, b.id, TargetLevel(c))
           id == IF opens THEN Len(b.all) + 1 ELSE b.id
           deeper == Deepened(b.all, b.id, TargetLevel(c))
           f == [Frame(c, id, opens, revision) EXCEPT !.state = "arguments"]
<1> USE InjectionAssumption
<1>0. /\ resolvers' = IF opens THEN deeper ELSE b.all
      /\ frames' = [frames EXCEPT ![t] = Append(@, f)]
      /\ f.opened = opens /\ f.resolver = id
  BY DEF CallFrom, Frame
<1>1. /\ b.all \in Seq(ResolverState) /\ b.id \in 1..Len(b.all) /\ Len(b.all) \in Nat
      /\ Len(resolvers) \in Nat /\ Len(b.all) >= Len(resolvers)
      /\ \A r \in Resolver : b.all[r] = resolvers[r]
  BY DEF Rooted, TypeOK
<1>2. TargetLevel(c) \in Level
  BY DEF TargetLevel, TypeOK, Callable, Level
<1>3. /\ Len(deeper) = Len(b.all) + 1 /\ deeper[Len(b.all) + 1].open
      /\ \A r \in 1..Len(b.all) : deeper[r] = b.all[r]
  BY <1>1, <1>2, DeepenedRooted
<1> HIDE DEF f, deeper, opens
<1>4. \A r \in 1..Len(b.all) : resolvers'[r] = b.all[r]
  BY <1>0, <1>3
<1>5. \A r \in Resolver : resolvers'[r] = resolvers[r]
  BY <1>1, <1>4 DEF Resolver
<1>6. f.opened => f.resolver \notin Resolver /\ resolvers'[f.resolver].open
  BY <1>0, <1>1, <1>3 DEF Resolver
<1> HIDE DEF id
<1> QED BY <1>0, <1>4, <1>5, <1>6, HeldAdded DEF FramesInv

LEMMA FramesStep ==
    ASSUME TypeOK, FramesInv, [Next]_vars
    PROVE  FramesInv'
<1> USE InjectionAssumption
<1>1. ASSUME NEW t \in Task, NEW level \in Level, Register(t, level)
      PROVE  FramesInv'
  BY <1>1 DEF Register, FramesInv, Held, Distinct, RootShallow, Scoped
<1>2. ASSUME NEW t \in Task, EnterContainer(t)
      PROVE  FramesInv'
  <2> DEFINE f == Frame("container", Compiled.id, TRUE, revision)
  <2>0. /\ resolvers' = Compiled.all /\ root' = Compiled.id
        /\ frames' = [frames EXCEPT ![t] = Append(@, f)] /\ f.resolver = Compiled.id
    BY <1>2 DEF EnterContainer, Frame
  <2>1. Rooted(Compiled) /\ Compiled.all[Compiled.id].level = 0
    BY CompiledRooted, CompiledShallow DEF FramesInv
  <2> HIDE DEF f
  <2>2. \A r \in Resolver : resolvers'[r] = resolvers[r]
    BY <2>0, <2>1 DEF Rooted
  <2>3. resolvers'[f.resolver].level = 0 /\ RootShallow'
    BY <2>0, <2>1 DEF RootShallow
  <2>4. ~(resolvers'[f.resolver].level > 0)
    BY <2>3
  <2> QED BY <2>0, <2>2, <2>3, <2>4, HeldAdded DEF FramesInv
<1>3. ASSUME NEW t \in Task, NEW level \in Level, EnterScope(t, level)
      PROVE  FramesInv'
  <2> DEFINE b == Base(t)
             id == Len(b.all) + 1
             f == Frame("block", id, TRUE, revision)
             d == Deepened(b.all, b.id, level)
  <2>0. /\ resolvers' = d /\ frames' = [frames EXCEPT ![t] = Append(@, f)]
        /\ f.resolver = id /\ KeepRoot(t)
    BY <1>3 DEF EnterScope, Frame
  <2>1. Rooted(b)
    BY BaseRooted
  <2> HIDE DEF b
  <2>2. /\ b.all \in Seq(ResolverState) /\ b.id \in 1..Len(b.all) /\ Len(b.all) \in Nat
        /\ Len(resolvers) \in Nat /\ Len(b.all) >= Len(resolvers)
        /\ \A r \in Resolver : b.all[r] = resolvers[r]
    BY <2>1 DEF Rooted, TypeOK
  <2>3. /\ Len(d) = Len(b.all) + 1 /\ d[Len(b.all) + 1].open
        /\ \A r \in 1..Len(b.all) : d[r] = b.all[r]
    BY <2>2, DeepenedRooted
  <2> HIDE DEF d, f
  <2>4. \A r \in 1..Len(b.all) : resolvers'[r] = b.all[r]
    BY <2>0, <2>3
  <2>5. \A r \in Resolver : resolvers'[r] = resolvers[r]
    BY <2>2, <2>4 DEF Resolver
  <2>6. f.resolver \notin Resolver /\ resolvers'[f.resolver].open
    BY <2>0, <2>2, <2>3 DEF Resolver
  <2>7. RootShallow'
    BY <2>0, <2>4, ShallowKept DEF FramesInv, b
  <2> HIDE DEF id
  <2> QED BY <2>0, <2>5, <2>6, <2>7, HeldAdded DEF FramesInv
<1>4. ASSUME NEW t \in Task, NEW child \in Task, Spawn(t, child)
      PROVE  FramesInv'
  BY <1>4 DEF Spawn, FramesInv, Held, Distinct, RootShallow, Scoped
<1>5. ASSUME NEW t \in Task, NEW c \in Callable, CallInjected(t, c)
      PROVE  FramesInv'
  <2>1. CallFrom(t, c, Base(t)) /\ KeepRoot(t) /\ Rooted(Base(t))
    BY <1>5, BaseRooted DEF CallInjected
  <2>2. Held' /\ Distinct' /\ \A r \in 1..Len(Base(t).all) : resolvers'[r] = Base(t).all[r]
    BY <2>1, CallHeld
  <2> QED BY <2>1, <2>2, ShallowKept DEF FramesInv
<1>6. ASSUME NEW t \in Task, NEW c \in Callable, NEW i \in DOMAIN frames[t],
             CallExplicit(t, c, frames[t][i].resolver)
      PROVE  FramesInv'
  <2> DEFINE b == [id |-> frames[t][i].resolver, all |-> resolvers]
  <2>1. Rooted(b)
    <3>1. frames[t][i] \in FrameState
      BY DEF TypeOK
    <3>2. b.id \in 1..Len(resolvers) /\ b.all = resolvers
      BY <3>1 DEF FrameState, Resolver
    <3> HIDE DEF b
    <3> QED BY <3>2 DEF Rooted, TypeOK, Resolver
  <2>2. CallFrom(t, c, b) /\ root' = root /\ b.all = resolvers
    BY <1>6 DEF CallExplicit
  <2> HIDE DEF b
  <2>3. Held' /\ Distinct' /\ \A r \in 1..Len(resolvers) : resolvers'[r] = resolvers[r]
    BY <2>1, <2>2, CallHeld
  <2>4. root # None => root \in 1..Len(resolvers)
    BY DEF TypeOK, Value, Resolver
  <2> QED BY <2>2, <2>3, <2>4 DEF FramesInv, RootShallow
<1>7. ASSUME NEW t \in Task, ResolveArguments(t)
      PROVE  FramesInv'
  <2> DEFINE n == Len(frames[t])
  <2>1. PICK state \in {"mismatch", "returned", "body"} :
          frames' = [frames EXCEPT ![t] = Append(Front(frames[t]), [Top(t) EXCEPT !.state = state])]
    BY <1>7 DEF ResolveArguments, Resolved
  <2> DEFINE g == [Top(t) EXCEPT !.state = state]
  <2>2. /\ frames[t] \in Seq(FrameState) /\ frames[t] # <<>> /\ Top(t) = frames[t][n]
        /\ Top(t) \in FrameState /\ n \in Nat \ {0}
    BY <1>7, Fronted DEF ResolveArguments, TypeOK, Top
  <2>3. g.opened = frames[t][n].opened /\ g.resolver = frames[t][n].resolver /\ g \in FrameState
    BY <2>2 DEF FrameState
  <2> HIDE DEF g
  <2>4. /\ \A s \in Task \ {t} : frames'[s] = frames[s]
        /\ DOMAIN frames'[t] = DOMAIN frames[t]
        /\ \A i \in DOMAIN frames[t] : /\ frames'[t][i].opened = frames[t][i].opened
                                       /\ frames'[t][i].resolver = frames[t][i].resolver
    <3>1. frames'[t] = Append(Front(frames[t]), g) /\ \A s \in Task \ {t} : frames'[s] = frames[s]
      BY <2>1 DEF g, TypeOK
    <3>2. /\ Append(Front(frames[t]), g) \in Seq(FrameState) /\ Len(Append(Front(frames[t]), g)) = n
          /\ Append(Front(frames[t]), g)[n] = g
          /\ \A i \in 1..(n - 1) : Append(Front(frames[t]), g)[i] = frames[t][i]
      BY <2>2, <2>3, Replaced
    <3>3. DOMAIN Append(Front(frames[t]), g) = 1..n /\ DOMAIN frames[t] = 1..n
      BY <2>2, <3>2
    <3>4. \A i \in 1..n : i = n \/ i \in 1..(n - 1)
      BY <2>2
    <3> HIDE DEF n
    <3> QED BY <2>3, <3>1, <3>2, <3>3, <3>4
  <2>5. UNCHANGED <<resolvers, root>>
    BY <1>7 DEF ResolveArguments
  <2>6. \A s \in Task : /\ DOMAIN frames'[s] = DOMAIN frames[s]
                        /\ \A i \in DOMAIN frames[s] :
                              /\ frames'[s][i].opened = frames[s][i].opened
                              /\ frames'[s][i].resolver = frames[s][i].resolver
    BY <2>4
  <2>7. Held' /\ Distinct'
    BY <2>5, <2>6 DEF FramesInv, Held, Distinct, Scoped
  <2> QED BY <2>5, <2>7 DEF FramesInv, RootShallow
<1>8. ASSUME NEW t \in Task, NEW fails \in BOOLEAN, Exit(t, fails)
      PROVE  FramesInv'
  <2> DEFINE q == Top(t).resolver
             n == Len(frames[t])
             e == [resolvers[q] EXCEPT !.open = FALSE]
  <2>0. /\ frames[t] \in Seq(FrameState) /\ frames[t] # <<>> /\ n \in Nat \ {0}
        /\ Top(t) = frames[t][n] /\ Top(t) \in FrameState
    BY <1>8, Fronted DEF Exit, TypeOK, Top
  <2>1. /\ frames' = [frames EXCEPT ![t] = Front(frames[t])] /\ root' = root
        /\ resolvers' = IF Top(t).opened THEN [resolvers EXCEPT ![q] = e] ELSE resolvers
    BY <1>8 DEF Exit, Closes
  <2>2. q \in Resolver /\ resolvers[q] \in ResolverState
    BY <2>0 DEF FrameState, TypeOK, Resolver
  <2>3. e.level = resolvers[q].level
    BY <2>2 DEF ResolverState
  <2> HIDE DEF e, q
  <2>4. /\ \A r \in Resolver : resolvers'[r].level = resolvers[r].level
        /\ \A r \in Resolver : (r = q /\ Top(t).opened) \/ resolvers'[r] = resolvers[r]
    BY <2>1, <2>2, <2>3 DEF TypeOK, Resolver
  <2>5. /\ \A s \in Task \ {t} : frames'[s] = frames[s]
        /\ DOMAIN frames'[t] = 1..(n - 1) /\ DOMAIN frames[t] = 1..n
        /\ \A i \in 1..(n - 1) : frames'[t][i] = frames[t][i]
    <3>1. /\ Front(frames[t]) \in Seq(FrameState) /\ Len(Front(frames[t])) = n - 1
          /\ \A j \in 1..(n - 1) : Front(frames[t])[j] = frames[t][j]
      BY <2>0, Fronted
    <3>2. frames'[t] = Front(frames[t]) /\ \A s \in Task \ {t} : frames'[s] = frames[s]
      BY <2>1 DEF TypeOK
    <3>3. DOMAIN Front(frames[t]) = 1..(n - 1) /\ DOMAIN frames[t] = 1..n
      BY <2>0, <3>1
    <3> QED BY <3>1, <3>2, <3>3
  <2>6. ASSUME NEW s \in Task, NEW i \in DOMAIN frames'[s]
        PROVE  /\ i \in DOMAIN frames[s] /\ frames'[s][i] = frames[s][i]
               /\ ~(s = t /\ i = n) /\ frames[s][i].resolver \in Resolver
    <3>1. i \in DOMAIN frames[s] /\ frames'[s][i] = frames[s][i] /\ ~(s = t /\ i = n)
      <4>1. CASE s = t
        BY <2>0, <2>5, <2>6, <4>1
      <4>2. CASE s # t
        BY <2>5, <2>6, <4>2
      <4> QED BY <4>1, <4>2
    <3>2. frames[s][i] \in FrameState
      BY <3>1 DEF TypeOK
    <3> QED BY <3>1, <3>2 DEF FrameState
  <2>7. Held'
    <3> SUFFICES ASSUME NEW s \in Task, NEW i \in DOMAIN frames'[s], frames'[s][i].opened,
                        resolvers'[frames'[s][i].resolver].level > 0
                 PROVE  resolvers'[frames'[s][i].resolver].open
      BY DEF Held, Scoped
    <3> DEFINE r == frames[s][i].resolver
    <3>1. /\ i \in DOMAIN frames[s] /\ frames'[s][i] = frames[s][i] /\ ~(s = t /\ i = n)
          /\ r \in Resolver
      BY <2>6
    <3>2. frames[s][i].opened /\ resolvers[r].level > 0
      BY <2>4, <3>1
    <3>3. resolvers[r].open
      BY <3>1, <3>2 DEF FramesInv, Held, Scoped
    <3>4. ~(r = q /\ Top(t).opened)
      <4>1. n \in DOMAIN frames[t] /\ q = frames[t][n].resolver
        BY <2>0, <2>5 DEF q
      <4>2. SUFFICES ASSUME r = q, frames[t][n].opened  PROVE FALSE
        BY <2>0
      <4> HIDE DEF n
      <4> QED BY <3>1, <3>2, <4>1, <4>2 DEF FramesInv, Distinct, Scoped
    <3> QED BY <2>4, <3>1, <3>3, <3>4
  <2>8. Distinct'
    <3> SUFFICES ASSUME NEW s \in Task, NEW u \in Task, NEW i \in DOMAIN frames'[s],
                        NEW j \in DOMAIN frames'[u], frames'[s][i].opened, frames'[u][j].opened,
                        frames'[s][i].resolver = frames'[u][j].resolver,
                        resolvers'[frames'[s][i].resolver].level > 0
                 PROVE  s = u /\ i = j
      BY DEF Distinct, Scoped
    <3>1. /\ i \in DOMAIN frames[s] /\ frames'[s][i] = frames[s][i]
          /\ frames[s][i].resolver \in Resolver
          /\ j \in DOMAIN frames[u] /\ frames'[u][j] = frames[u][j]
      BY <2>6
    <3>2. resolvers[frames[s][i].resolver].level > 0
      BY <2>4, <3>1
    <3> QED BY <3>1, <3>2 DEF FramesInv, Distinct, Scoped
  <2>9. RootShallow'
    <3>1. root # None => root \in Resolver
      BY DEF TypeOK, Value
    <3> QED BY <2>1, <2>4, <3>1 DEF FramesInv, RootShallow
  <2> QED BY <2>7, <2>8, <2>9 DEF FramesInv
<1>9. CASE UNCHANGED vars
  BY <1>9 DEF vars, FramesInv, Held, Distinct, RootShallow, Scoped
<1>10. ASSUME NEW t \in Task, NEW r \in generators, Iterate(t, r)
       PROVE  FramesInv'
  <2> DEFINE f == Frame("iteration", r, FALSE, revision)
  <2>0. /\ f \in FrameState /\ f \in FrameState' /\ f.resolver \in Nat /\ f.opened = FALSE
        /\ f.kind = "iteration" /\ f.state = "body" /\ t \in running
        /\ frames' = [frames EXCEPT ![t] = Append(@, f)]
        /\ UNCHANGED <<graph, root, resolvers, target, running, context, inherited, generators>>
    BY <1>10, Iterated
  <2> HIDE DEF f
  <2>1. Held' /\ Distinct'
    BY <2>0, HeldAdded DEF FramesInv
  <2> QED BY <2>0, <2>1 DEF FramesInv, RootShallow
<1> QED BY <1>1, <1>2, <1>3, <1>4, <1>5, <1>6, <1>7, <1>8, <1>9, <1>10 DEF Next, Done

(* container.py:2787-2816, resolver_context.py:120-161: a scope that a     *)
(* block or an injected call opened is open until that has ended, be it    *)
(* with an error, and no longer, whatever the other tasks do.              *)
THEOREM GivenBack == Spec => []ScopesGivenBack
<1>1. Init => OpenHasFrame /\ FramesInv
  BY DEF Init, OpenHasFrame, Resolver, FramesInv, Held, Distinct, RootShallow
<1>2. TypeOK /\ OpenHasFrame /\ [Next]_vars => OpenHasFrame'
  BY BackStep
<1>3. TypeOK /\ FramesInv /\ [Next]_vars => FramesInv'
  BY FramesStep
<1>4. TypeOK /\ OpenHasFrame /\ FramesInv => ScopesGivenBack
  <2> SUFFICES ASSUME TypeOK, OpenHasFrame, FramesInv, NEW r \in Resolver, resolvers[r].level > 0
               PROVE  resolvers[r].open <=>
                        \E t \in running : \E i \in DOMAIN frames[t] : OpenedBy(t, i, r)
    BY DEF ScopesGivenBack
  <2>1. ASSUME resolvers[r].open
        PROVE  \E t \in running : \E i \in DOMAIN frames[t] : OpenedBy(t, i, r)
    BY <2>1 DEF OpenHasFrame, HasFrame, OpenedBy
  <2>2. ASSUME NEW t \in running, NEW i \in DOMAIN frames[t], OpenedBy(t, i, r)
        PROVE  resolvers[r].open
    BY <2>2 DEF FramesInv, Held, Scoped, OpenedBy, TypeOK
  <2>3. resolvers[r].open \in BOOLEAN
    <3>1. resolvers[r] \in ResolverState
      BY DEF TypeOK, Resolver
    <3> QED BY <3>1 DEF ResolverState
  <2> QED BY <2>1, <2>2, <2>3
<1> QED BY <1>1, <1>2, <1>3, <1>4, TypeCorrect, PTL DEF Spec

-----------------------------------------------------------------------------
(* The context and the frames of a task: from the value at b on, which is  *)
(* what the task started with, there is one value for each frame that has  *)
(* opened a scope, in the order of the frames.                             *)
ValueAt(c, n) == IF n = Len(c.tokens) + 1 THEN c.current ELSE c.tokens[n]

Follows(c, fs, first, b, idx) ==
    /\ b \in Nat \ {0} /\ idx \in Seq(1..Len(fs)) /\ Len(c.tokens) + 1 = b + Len(idx)
    /\ ValueAt(c, b) = first
    /\ \A k \in 1..Len(idx) : fs[idx[k]].opened /\ ValueAt(c, b + k) = fs[idx[k]].resolver
    /\ \A k \in 1..Len(idx) : \A l \in 1..Len(idx) : k < l => idx[k] < idx[l]
    /\ \A i \in 1..Len(fs) : fs[i].opened => \E k \in 1..Len(idx) : idx[k] = i

Matches(c, fs, first) == \E b \in Nat \ {0} : \E idx \in Seq(1..Len(fs)) : Follows(c, fs, first, b, idx)

ContextOf(V) == [current : V, tokens : Seq(V)]

LEMMA PushedValues ==
    ASSUME NEW V, NEW c \in ContextOf(V), NEW r \in V
    PROVE  /\ Len(Push(c, r).tokens) = Len(c.tokens) + 1 /\ Len(c.tokens) \in Nat
           /\ ValueAt(Push(c, r), Len(c.tokens) + 2) = r
           /\ \A n \in 1..(Len(c.tokens) + 1) : ValueAt(Push(c, r), n) = ValueAt(c, n)
<1> DEFINE s == c.tokens
           p == Append(s, c.current)
<1>1. s \in Seq(V) /\ c.current \in V
  BY DEF ContextOf
<1>2. Push(c, r).current = r /\ Push(c, r).tokens = p
  BY DEF Push
<1>3. /\ Len(p) = Len(s) + 1 /\ p[Len(s) + 1] = c.current /\ Len(s) \in Nat
      /\ \A i \in 1..Len(s) : p[i] = s[i]
  BY <1>1, Appended
<1> HIDE DEF p
<1>4. ASSUME NEW n \in 1..(Len(s) + 1)
      PROVE  ValueAt(Push(c, r), n) = ValueAt(c, n)
  <2>1. ValueAt(Push(c, r), n) = p[n]
    BY <1>2, <1>3, <1>4 DEF ValueAt
  <2>2. CASE n = Len(s) + 1  BY <1>3, <2>1, <2>2 DEF ValueAt
  <2>3. CASE n # Len(s) + 1  BY <1>3, <1>4, <2>1, <2>3 DEF ValueAt
  <2> QED BY <2>2, <2>3
<1>5. ValueAt(Push(c, r), Len(s) + 2) = r
  BY <1>2, <1>3 DEF ValueAt
<1> QED BY <1>2, <1>3, <1>4, <1>5

LEMMA PoppedValues ==
    ASSUME NEW V, NEW c \in ContextOf(V), c.tokens # <<>>
    PROVE  /\ Len(Pop(c).tokens) = Len(c.tokens) - 1 /\ Len(c.tokens) \in Nat \ {0}
           /\ \A n \in 1..Len(c.tokens) : ValueAt(Pop(c), n) = ValueAt(c, n)
<1> DEFINE s == c.tokens
           p == Front(s)
<1>1. s \in Seq(V)
  BY DEF ContextOf
<1>2. Pop(c).current = Last(s) /\ Pop(c).tokens = p
  BY DEF Pop
<1>3. /\ Len(p) = Len(s) - 1 /\ Last(s) = s[Len(s)] /\ Len(s) \in Nat \ {0}
      /\ \A i \in 1..(Len(s) - 1) : p[i] = s[i]
  BY <1>1, Fronted
<1> HIDE DEF p
<1>4. ASSUME NEW n \in 1..Len(s)
      PROVE  ValueAt(Pop(c), n) = ValueAt(c, n)
  <2>1. ValueAt(c, n) = s[n]
    BY <1>3, <1>4 DEF ValueAt
  <2>2. CASE n = Len(s)  BY <1>2, <1>3, <2>1, <2>2 DEF ValueAt
  <2>3. CASE n # Len(s)  BY <1>2, <1>3, <1>4, <2>1, <2>3 DEF ValueAt
  <2> QED BY <2>2, <2>3
<1> QED BY <1>2, <1>3, <1>4

(* A frame that has opened a scope is added.                               *)
LEMMA MatchesPush ==
    ASSUME NEW V, NEW c \in ContextOf(V), NEW F, NEW fs \in Seq(F), NEW f \in F, NEW first,
           f.opened, f.resolver \in V, Matches(c, fs, first)
    PROVE  Matches(Push(c, f.resolver), Append(fs, f), first)
<1>1. PICK b \in Nat \ {0}, idx \in Seq(1..Len(fs)) : Follows(c, fs, first, b, idx)
  BY DEF Matches
<1> DEFINE n == Len(fs)
           gs == Append(fs, f)
           d == Push(c, f.resolver)
           jdx == Append(idx, n + 1)
           m == Len(idx)
           x == Len(c.tokens)
<1>2. /\ gs \in Seq(F) /\ Len(gs) = n + 1 /\ gs[n + 1] = f /\ n \in Nat
      /\ \A i \in 1..n : gs[i] = fs[i]
  BY Appended
<1>3. idx \in Seq(1..(n + 1)) /\ m \in Nat
  BY <1>2, MoreIn
<1>4. /\ jdx \in Seq(1..(n + 1)) /\ Len(jdx) = m + 1 /\ jdx[m + 1] = n + 1
      /\ \A k \in 1..m : jdx[k] = idx[k] /\ idx[k] \in 1..n
  <2>1. n + 1 \in 1..(n + 1)
    BY <1>2
  <2> QED BY <1>3, <2>1, Appended
<1>5. /\ Len(d.tokens) = x + 1 /\ x \in Nat
      /\ ValueAt(d, x + 2) = f.resolver
      /\ \A i \in 1..(x + 1) : ValueAt(d, i) = ValueAt(c, i)
  BY PushedValues
<1>6. /\ x + 1 = b + m /\ ValueAt(c, b) = first
      /\ \A k \in 1..m : fs[idx[k]].opened /\ ValueAt(c, b + k) = fs[idx[k]].resolver
      /\ \A k \in 1..m : \A l \in 1..m : k < l => idx[k] < idx[l]
      /\ \A i \in 1..n : fs[i].opened => \E k \in 1..m : idx[k] = i
  BY <1>1 DEF Follows
<1> HIDE DEF n, gs, d, jdx, m, x
<1>7. Len(d.tokens) + 1 = b + Len(jdx) /\ ValueAt(d, b) = first
  BY <1>3, <1>4, <1>5, <1>6
<1>8. ASSUME NEW k \in 1..Len(jdx)
      PROVE  gs[jdx[k]].opened /\ ValueAt(d, b + k) = gs[jdx[k]].resolver
  <2>1. CASE k \in 1..m
    <3>1. jdx[k] = idx[k] /\ idx[k] \in 1..n /\ gs[idx[k]] = fs[idx[k]]
      BY <1>2, <1>4, <2>1
    <3>2. b + k \in 1..(x + 1)
      BY <1>3, <1>5, <1>6, <2>1
    <3> QED BY <1>5, <1>6, <2>1, <3>1, <3>2
  <2>2. CASE k = m + 1
    <3>1. b + k = x + 2
      BY <1>3, <1>5, <1>6, <2>2
    <3> QED BY <1>2, <1>4, <1>5, <2>2, <3>1
  <2> QED BY <1>3, <1>4, <1>8, <2>1, <2>2
<1>9. ASSUME NEW k \in 1..Len(jdx), NEW l \in 1..Len(jdx), k < l
      PROVE  jdx[k] < jdx[l]
  <2>1. k \in 1..m /\ jdx[k] = idx[k] /\ idx[k] \in 1..n
    BY <1>3, <1>4, <1>9
  <2>2. CASE l \in 1..m  BY <1>4, <1>6, <1>9, <2>1, <2>2
  <2>3. CASE l = m + 1  BY <1>2, <1>4, <2>1, <2>3
  <2> QED BY <1>3, <1>4, <1>9, <2>2, <2>3
<1>10. ASSUME NEW i \in 1..(n + 1), gs[i].opened
       PROVE  \E k \in 1..Len(jdx) : jdx[k] = i
  <2>1. CASE i = n + 1  BY <1>3, <1>4, <2>1
  <2>2. CASE i \in 1..n
    <3>1. PICK k \in 1..m : idx[k] = i
      BY <1>2, <1>6, <1>10, <2>2
    <3> QED BY <1>3, <1>4, <3>1
  <2>3. i = n + 1 \/ i \in 1..n
    BY <1>2, <1>10
  <2> QED BY <2>1, <2>2, <2>3
<1>11. Follows(d, gs, first, b, jdx)
  BY <1>2, <1>4, <1>7, <1>8, <1>9, <1>10 DEF Follows
<1>12. jdx \in Seq(1..Len(gs))
  BY <1>2, <1>4
<1> QED BY <1>11, <1>12 DEF Matches, d, gs

(* The frames change, but not those that have opened a scope.              *)
LEMMA MatchesSame ==
    ASSUME NEW c, NEW fs, NEW gs, NEW first, Matches(c, fs, first), Len(fs) \in Nat, Len(gs) \in Nat,
           \A i \in 1..Len(fs) : fs[i].opened =>
               i \in 1..Len(gs) /\ gs[i].opened /\ gs[i].resolver = fs[i].resolver,
           \A i \in 1..Len(gs) : gs[i].opened => i \in 1..Len(fs) /\ fs[i].opened
    PROVE  Matches(c, gs, first)
<1>1. PICK b \in Nat \ {0}, idx \in Seq(1..Len(fs)) : Follows(c, fs, first, b, idx)
  BY DEF Matches
<1>2. /\ Len(c.tokens) + 1 = b + Len(idx) /\ ValueAt(c, b) = first
      /\ \A k \in 1..Len(idx) : fs[idx[k]].opened /\ ValueAt(c, b + k) = fs[idx[k]].resolver
      /\ \A k \in 1..Len(idx) : \A l \in 1..Len(idx) : k < l => idx[k] < idx[l]
      /\ \A i \in 1..Len(fs) : fs[i].opened => \E k \in 1..Len(idx) : idx[k] = i
  BY <1>1 DEF Follows
<1>3. \A k \in 1..Len(idx) : idx[k] \in 1..Len(fs)
  OBVIOUS
<1>4. \A k \in 1..Len(idx) : /\ idx[k] \in 1..Len(gs) /\ gs[idx[k]].opened
                             /\ gs[idx[k]].resolver = fs[idx[k]].resolver
  BY <1>2, <1>3
<1>5. idx \in Seq(1..Len(gs))
  <2>1. idx = [k \in 1..Len(idx) |-> idx[k]] /\ Len(idx) \in Nat
    OBVIOUS
  <2> QED BY <1>4, <2>1
<1>6. Follows(c, gs, first, b, idx)
  BY <1>2, <1>4, <1>5 DEF Follows
<1> QED BY <1>5, <1>6 DEF Matches

(* The last frame, which has opened a scope, ends.                         *)
LEMMA MatchesPop ==
    ASSUME NEW V, NEW c \in ContextOf(V), NEW F, NEW fs \in Seq(F), NEW first,
           fs # <<>>, Last(fs).opened, Matches(c, fs, first)
    PROVE  Matches(Pop(c), Front(fs), first)
<1>1. PICK b \in Nat \ {0}, idx \in Seq(1..Len(fs)) : Follows(c, fs, first, b, idx)
  BY DEF Matches
<1> DEFINE n == Len(fs)
           gs == Front(fs)
           d == Pop(c)
           jdx == Front(idx)
           m == Len(idx)
<1>2. /\ gs \in Seq(F) /\ Len(gs) = n - 1 /\ n \in Nat \ {0} /\ Last(fs) = fs[n]
      /\ \A i \in 1..(n - 1) : gs[i] = fs[i]
  BY Fronted
<1>3. /\ Len(c.tokens) + 1 = b + m /\ ValueAt(c, b) = first
      /\ \A k \in 1..m : fs[idx[k]].opened /\ ValueAt(c, b + k) = fs[idx[k]].resolver
      /\ \A k \in 1..m : \A l \in 1..m : k < l => idx[k] < idx[l]
      /\ \A i \in 1..n : fs[i].opened => \E k \in 1..m : idx[k] = i
  BY <1>1 DEF Follows
<1>4. m \in Nat /\ Len(c.tokens) \in Nat /\ \A k \in 1..m : idx[k] \in 1..n
  BY DEF ContextOf
<1>5. PICK last \in 1..m : idx[last] = n
  BY <1>2, <1>3
<1>6. m # 0 /\ idx # <<>> /\ c.tokens # <<>>
  BY <1>3, <1>4, <1>5
<1>7. /\ Len(jdx) = m - 1 /\ jdx \in Seq(1..n)
      /\ \A k \in 1..(m - 1) : jdx[k] = idx[k]
  BY <1>6, Fronted
<1>8. /\ Len(d.tokens) = Len(c.tokens) - 1
      /\ \A i \in 1..Len(c.tokens) : ValueAt(d, i) = ValueAt(c, i)
  BY <1>6, PoppedValues
<1> HIDE DEF n, gs, d, jdx, m
<1>9. idx[m] = n
  <2>1. last = m \/ idx[last] < idx[m]
    BY <1>3, <1>4, <1>5
  <2>2. idx[m] \in 1..n
    BY <1>4, <1>5
  <2> QED BY <1>2, <1>5, <2>1, <2>2
<1>10. \A k \in 1..(m - 1) : idx[k] \in 1..(n - 1) /\ jdx[k] = idx[k]
  <2>1. ASSUME NEW k \in 1..(m - 1)
        PROVE  idx[k] \in 1..(n - 1)
    <3>1. k \in 1..m /\ m \in 1..m /\ k < m
      BY <1>4, <1>5, <2>1
    <3>2. idx[k] < idx[m] /\ idx[k] \in 1..n
      BY <1>3, <1>4, <3>1
    <3> QED BY <1>2, <1>9, <3>2
  <2> QED BY <1>7, <2>1
<1>11. jdx \in Seq(1..Len(gs))
  <2>1. jdx = [k \in 1..Len(jdx) |-> jdx[k]] /\ Len(jdx) \in Nat
    BY <1>7
  <2>2. \A k \in 1..Len(jdx) : jdx[k] \in 1..Len(gs)
    BY <1>2, <1>7, <1>10
  <2> HIDE DEF jdx
  <2> QED BY <2>1, <2>2
<1>12. Len(d.tokens) + 1 = b + Len(jdx) /\ ValueAt(d, b) = first
  <2>1. b \in 1..Len(c.tokens)
    BY <1>3, <1>4, <1>6
  <2> QED BY <1>3, <1>4, <1>7, <1>8, <2>1
<1>13. ASSUME NEW k \in 1..Len(jdx)
       PROVE  gs[jdx[k]].opened /\ ValueAt(d, b + k) = gs[jdx[k]].resolver
  <2>1. k \in 1..(m - 1) /\ k \in 1..m
    BY <1>4, <1>7, <1>13
  <2>2. gs[jdx[k]] = fs[idx[k]]
    BY <1>2, <1>10, <2>1
  <2>3. b + k \in 1..Len(c.tokens)
    BY <1>3, <1>4, <2>1
  <2> QED BY <1>3, <1>8, <2>1, <2>2, <2>3
<1>14. ASSUME NEW k \in 1..Len(jdx), NEW l \in 1..Len(jdx), k < l
       PROVE  jdx[k] < jdx[l]
  <2>1. k \in 1..(m - 1) /\ k \in 1..m /\ l \in 1..(m - 1) /\ l \in 1..m
    BY <1>4, <1>7, <1>14
  <2> QED BY <1>3, <1>10, <1>14, <2>1
<1>15. ASSUME NEW i \in 1..Len(gs), gs[i].opened
       PROVE  \E k \in 1..Len(jdx) : jdx[k] = i
  <2>1. i \in 1..n /\ i # n /\ gs[i] = fs[i]
    BY <1>2, <1>15
  <2>2. PICK k \in 1..m : idx[k] = i
    BY <1>3, <1>15, <2>1
  <2>3. k \in 1..(m - 1)
    BY <1>4, <1>9, <2>1, <2>2
  <2> QED BY <1>7, <1>10, <2>2, <2>3
<1>16. Follows(d, gs, first, b, jdx)
  BY <1>11, <1>12, <1>13, <1>14, <1>15 DEF Follows
<1> QED BY <1>11, <1>16 DEF Matches, d, gs

(* Then the current resolver is that of the innermost frame that opened.   *)
LEMMA MatchesCurrent ==
    ASSUME NEW V, NEW c \in ContextOf(V), NEW F, NEW fs \in Seq(F), NEW first, Matches(c, fs, first)
    PROVE  \/ \E i \in 1..Len(fs) : /\ fs[i].opened /\ c.current = fs[i].resolver
                                    /\ \A j \in (i + 1)..Len(fs) : ~fs[j].opened
           \/ c.current = first /\ \A i \in 1..Len(fs) : ~fs[i].opened
<1>1. PICK b \in Nat \ {0}, idx \in Seq(1..Len(fs)) : Follows(c, fs, first, b, idx)
  BY DEF Matches
<1> DEFINE n == Len(fs)
           m == Len(idx)
<1>2. /\ Len(c.tokens) + 1 = b + m /\ ValueAt(c, b) = first
      /\ \A k \in 1..m : fs[idx[k]].opened /\ ValueAt(c, b + k) = fs[idx[k]].resolver
      /\ \A k \in 1..m : \A l \in 1..m : k < l => idx[k] < idx[l]
      /\ \A i \in 1..n : fs[i].opened => \E k \in 1..m : idx[k] = i
  BY <1>1 DEF Follows
<1>3. m \in Nat /\ n \in Nat /\ ValueAt(c, b + m) = c.current /\ \A k \in 1..m : idx[k] \in 1..n
  BY <1>2 DEF ValueAt
<1> HIDE DEF n, m
<1>4. CASE m = 0
  BY <1>2, <1>3, <1>4 DEF n
<1>5. CASE m # 0
  <2>1. m \in 1..m /\ idx[m] \in 1..n
    BY <1>3, <1>5
  <2>2. ASSUME NEW j \in (idx[m] + 1)..n, fs[j].opened
        PROVE  FALSE
    <3>1. j \in 1..n /\ j > idx[m]
      BY <1>3, <2>1, <2>2
    <3>2. PICK k \in 1..m : idx[k] = j
      BY <1>2, <2>2, <3>1
    <3>3. k = m \/ idx[k] < idx[m]
      BY <1>2, <1>3, <2>1, <3>2
    <3> QED BY <2>1, <3>1, <3>2, <3>3
  <2> QED BY <1>2, <1>3, <2>1, <2>2 DEF n
<1> QED BY <1>4, <1>5

-----------------------------------------------------------------------------
ContextInv ==
    \A t \in Task : /\ t \notin running => frames[t] = <<>>
                    /\ t \in running => Matches(context[t], frames[t], inherited[t])

LEMMA ContextTypes ==
    ASSUME TypeOK, NEW t \in Task
    PROVE  context[t] \in ContextOf(Nat \cup {None}) /\ frames[t] \in Seq(FrameState)
<1>1. context[t].tokens \in Seq(Nat \cup {None})
  <2>1. Value \subseteq Nat \cup {None}
    BY DEF Value, Resolver
  <2>2. Seq(Value) \subseteq Seq(Nat \cup {None})
    BY <2>1, MoreIn
  <2> QED BY <2>2 DEF TypeOK
<1>2. context[t].current \in Nat \cup {None}
  BY DEF TypeOK, Value, Resolver
<1>3. context[t] = [current |-> context[t].current, tokens |-> context[t].tokens]
  BY DEF TypeOK
<1> QED BY <1>1, <1>2, <1>3 DEF ContextOf, TypeOK

LEMMA ContextAdded ==
    ASSUME TypeOK, ContextInv, NEW t \in running, NEW f, f.resolver \in Nat,
           running' = running, inherited' = inherited,
           frames' = [frames EXCEPT ![t] = Append(@, f)],
           \/ f.opened /\ context' = [context EXCEPT ![t] = Push(context[t], f.resolver)]
           \/ ~f.opened /\ context' = context
    PROVE  ContextInv'
<1>0. t \in Task /\ context[t] \in ContextOf(Nat \cup {None}) /\ frames[t] \in Seq(FrameState \cup {f})
  <2>1. t \in Task
    BY DEF TypeOK
  <2>2. Seq(FrameState) \subseteq Seq(FrameState \cup {f})
    BY MoreIn
  <2> QED BY <2>1, <2>2, ContextTypes
<1>1. Matches(context[t], frames[t], inherited[t])
  BY <1>0 DEF ContextInv
<1>2. frames'[t] = Append(frames[t], f) /\ \A s \in Task \ {t} : frames'[s] = frames[s]
  BY <1>0 DEF TypeOK
<1>3. Matches(context'[t], frames'[t], inherited[t]) /\ \A s \in Task \ {t} : context'[s] = context[s]
  <2>1. CASE f.opened
    <3>1. context'[t] = Push(context[t], f.resolver) /\ \A s \in Task \ {t} : context'[s] = context[s]
      BY <1>0, <2>1 DEF TypeOK
    <3>2. Matches(Push(context[t], f.resolver), Append(frames[t], f), inherited[t])
      BY <1>0, <1>1, <2>1, MatchesPush
    <3> QED BY <1>2, <3>1, <3>2
  <2>2. CASE ~f.opened
    <3> DEFINE fs == frames[t]
               gs == Append(frames[t], f)
    <3>1. /\ Len(gs) = Len(fs) + 1 /\ gs[Len(fs) + 1] = f /\ Len(fs) \in Nat
          /\ \A i \in 1..Len(fs) : gs[i] = fs[i]
      BY <1>0, Appended
    <3> HIDE DEF fs, gs
    <3>2. \A i \in 1..Len(gs) : gs[i].opened => i \in 1..Len(fs) /\ fs[i].opened
      <4>1. ASSUME NEW i \in 1..Len(gs), gs[i].opened
            PROVE  i \in 1..Len(fs) /\ fs[i].opened
        <5>1. i \in 1..Len(fs) \/ i = Len(fs) + 1
          BY <3>1, <4>1
        <5> QED BY <2>2, <3>1, <4>1, <5>1
      <4> QED BY <4>1
    <3>3. Matches(context[t], gs, inherited[t])
      BY <1>1, <3>1, <3>2, MatchesSame DEF fs
    <3> QED BY <1>2, <2>2, <3>3 DEF gs
  <2> QED BY <2>1, <2>2
<1>4. ASSUME NEW s \in Task
      PROVE  /\ s \notin running' => frames'[s] = <<>>
             /\ s \in running' => Matches(context'[s], frames'[s], inherited'[s])
  <2>1. CASE s = t  BY <1>3, <2>1
  <2>2. CASE s # t  BY <1>2, <1>3, <2>2 DEF ContextInv
  <2> QED BY <2>1, <2>2
<1> QED BY <1>4 DEF ContextInv

(* A step that changes only the end of the frames of a task, and its       *)
(* context with them.                                                      *)
LEMMA ContextChanged ==
    ASSUME TypeOK, ContextInv, NEW t \in running, NEW c, NEW gs,
           running' = running, inherited' = inherited,
           frames' = [frames EXCEPT ![t] = gs], context' = [context EXCEPT ![t] = c],
           Matches(c, gs, inherited[t])
    PROVE  ContextInv'
<1>1. t \in Task
  BY DEF TypeOK
<1>2. ASSUME NEW s \in Task
      PROVE  /\ s \notin running' => frames'[s] = <<>>
             /\ s \in running' => Matches(context'[s], frames'[s], inherited'[s])
  <2>1. CASE s = t
    <3>1. context'[s] = c /\ frames'[s] = gs
      BY <1>1, <2>1 DEF TypeOK
    <3> QED BY <2>1, <3>1
  <2>2. CASE s # t
    <3>1. context'[s] = context[s] /\ frames'[s] = frames[s]
      BY <2>2 DEF TypeOK
    <3> QED BY <3>1 DEF ContextInv
  <2> QED BY <2>1, <2>2
<1> QED BY <1>2 DEF ContextInv

LEMMA ContextCall ==
    ASSUME TypeOK, ContextInv, NEW t \in running, NEW c \in Callable, NEW b, Rooted(b),
           CallFrom(t, c, b), running' = running, inherited' = inherited
    PROVE  ContextInv'
<1> DEFINE opens == NeedsScope(b.all, b.id, TargetLevel(c))
           id == IF opens THEN Len(b.all) + 1 ELSE b.id
           f == [Frame(c, id, opens, revision) EXCEPT !.state = "arguments"]
<1>1. f.opened = opens /\ f.resolver = id /\ opens \in BOOLEAN
  BY DEF Frame, NeedsScope
<1>2. id \in Nat
  BY DEF Rooted
<1>3. /\ frames' = [frames EXCEPT ![t] = Append(@, f)]
      /\ context' = IF opens THEN [context EXCEPT ![t] = Push(context[t], id)] ELSE context
  BY DEF CallFrom
<1> HIDE DEF f, id, opens
<1>4. CASE opens
  <2>1. f.opened /\ f.resolver \in Nat /\ context' = [context EXCEPT ![t] = Push(context[t], f.resolver)]
    BY <1>1, <1>2, <1>3, <1>4
  <2> QED BY <1>3, <2>1, ContextAdded
<1>5. CASE ~opens
  <2>1. ~f.opened /\ f.resolver \in Nat /\ context' = context
    BY <1>1, <1>2, <1>3, <1>5
  <2> QED BY <1>3, <2>1, ContextAdded
<1> QED BY <1>4, <1>5

LEMMA ContextStep ==
    ASSUME TypeOK, ContextInv, [Next]_vars
    PROVE  ContextInv'
<1>1. ASSUME NEW t \in Task, NEW level \in Level, Register(t, level)
      PROVE  ContextInv'
  BY <1>1 DEF Register, ContextInv
<1>2. ASSUME NEW t \in Task, EnterContainer(t)
      PROVE  ContextInv'
  <2> DEFINE f == Frame("container", Compiled.id, TRUE, revision)
  <2>1. f.opened = TRUE /\ f.resolver = Compiled.id
    BY DEF Frame
  <2>2. Compiled.id \in Nat
    BY CompiledRooted DEF Rooted
  <2> HIDE DEF f
  <2>3. /\ t \in running /\ running' = running /\ inherited' = inherited
        /\ frames' = [frames EXCEPT ![t] = Append(@, f)]
        /\ context' = [context EXCEPT ![t] = Push(context[t], Compiled.id)]
    BY <1>2 DEF EnterContainer, Act, f
  <2>4. f.opened /\ f.resolver \in Nat /\ context' = [context EXCEPT ![t] = Push(context[t], f.resolver)]
    BY <2>1, <2>2, <2>3
  <2> QED BY <2>3, <2>4, ContextAdded
<1>3. ASSUME NEW t \in Task, NEW level \in Level, EnterScope(t, level)
      PROVE  ContextInv'
  <2> DEFINE id == Len(Base(t).all) + 1
             f == Frame("block", id, TRUE, revision)
  <2>1. f.opened = TRUE /\ f.resolver = id
    BY DEF Frame
  <2>2. id \in Nat
    BY BaseRooted DEF Rooted
  <2>3. /\ t \in running /\ running' = running /\ inherited' = inherited
        /\ frames' = [frames EXCEPT ![t] = Append(@, f)]
        /\ context' = [context EXCEPT ![t] = Push(context[t], id)]
    BY <1>3 DEF EnterScope, Act
  <2> HIDE DEF f, id
  <2>4. f.opened /\ f.resolver \in Nat /\ context' = [context EXCEPT ![t] = Push(context[t], f.resolver)]
    BY <2>1, <2>2, <2>3
  <2> QED BY <2>3, <2>4, ContextAdded
<1>4. ASSUME NEW t \in Task, NEW child \in Task, Spawn(t, child)
      PROVE  ContextInv'
  <2>1. /\ child \notin running /\ running' = running \cup {child} /\ frames' = frames
        /\ context'[child] = context[t] /\ inherited'[child] = context[t].current
        /\ \A s \in Task \ {child} : context'[s] = context[s] /\ inherited'[s] = inherited[s]
    BY <1>4 DEF Spawn, TypeOK
  <2>2. Matches(context[t], <<>>, context[t].current)
    <3> DEFINE b == Len(context[t].tokens) + 1
    <3>1. b \in Nat \ {0}
      BY ContextTypes DEF ContextOf
    <3>2. ValueAt(context[t], b) = context[t].current
      BY DEF ValueAt
    <3>3. Follows(context[t], <<>>, context[t].current, b, <<>>)
      BY <3>1, <3>2 DEF Follows
    <3>4. <<>> \in Seq(1..Len(<<>>))
      OBVIOUS
    <3> HIDE DEF b
    <3> QED BY <3>1, <3>3, <3>4 DEF Matches
  <2>3. frames[child] = <<>>
    BY <2>1 DEF ContextInv
  <2>4. ASSUME NEW s \in Task
        PROVE  /\ s \notin running' => frames'[s] = <<>>
               /\ s \in running' => Matches(context'[s], frames'[s], inherited'[s])
    <3>1. CASE s = child  BY <2>1, <2>2, <2>3, <3>1
    <3>2. CASE s # child  BY <2>1, <3>2 DEF ContextInv
    <3> QED BY <3>1, <3>2
  <2> QED BY <2>4 DEF ContextInv
<1>5. ASSUME NEW t \in Task, NEW c \in Callable, CallInjected(t, c)
      PROVE  ContextInv'
  BY <1>5, BaseRooted, ContextCall DEF CallInjected, Act
<1>6. ASSUME NEW t \in Task, NEW c \in Callable, NEW i \in DOMAIN frames[t],
             CallExplicit(t, c, frames[t][i].resolver)
      PROVE  ContextInv'
  <2> DEFINE b == [id |-> frames[t][i].resolver, all |-> resolvers]
  <2>1. Rooted(b)
    <3>1. frames[t][i] \in FrameState
      BY DEF TypeOK
    <3>2. b.id \in 1..Len(resolvers) /\ b.all = resolvers
      BY <3>1 DEF FrameState, Resolver
    <3> HIDE DEF b
    <3> QED BY <3>2 DEF Rooted, TypeOK, Resolver
  <2> QED BY <1>6, <2>1, ContextCall DEF CallExplicit, Act
<1>7. ASSUME NEW t \in Task, ResolveArguments(t)
      PROVE  ContextInv'
  <2> DEFINE g == [Top(t) EXCEPT !.state = Resolved(Top(t))]
             fs == frames[t]
             gs == Append(Front(frames[t]), g)
             n == Len(frames[t])
  <2>0. /\ frames' = [frames EXCEPT ![t] = gs] /\ fs # <<>> /\ t \in running
        /\ running' = running /\ inherited' = inherited /\ context' = context
    BY <1>7 DEF ResolveArguments
  <2>1. fs \in Seq(FrameState) /\ Top(t) = fs[n] /\ Top(t) \in FrameState /\ n \in Nat \ {0}
    BY <2>0, Fronted DEF Top, TypeOK
  <2>2. g \in FrameState /\ g.opened = fs[n].opened /\ g.resolver = fs[n].resolver
    BY <2>1 DEF FrameState, Resolved
  <2> HIDE DEF g
  <2>3. Len(gs) = n /\ gs[n] = g /\ \A i \in 1..(n - 1) : gs[i] = fs[i]
    BY <2>0, <2>1, <2>2, Replaced
  <2>4. Matches(context[t], fs, inherited[t])
    BY <2>0 DEF ContextInv
  <2> HIDE DEF gs
  <2>5. \A i \in 1..n : gs[i].opened = fs[i].opened /\ gs[i].resolver = fs[i].resolver
    <3>1. ASSUME NEW i \in 1..n
          PROVE  gs[i].opened = fs[i].opened /\ gs[i].resolver = fs[i].resolver
      <4>1. CASE i = n  BY <2>2, <2>3, <4>1
      <4>2. CASE i # n
        <5>1. i \in 1..(n - 1)
          BY <2>1, <4>2
        <5> QED BY <2>3, <5>1
      <4> QED BY <4>1, <4>2
    <3> QED BY <3>1
  <2>6. Matches(context[t], gs, inherited[t])
    BY <2>1, <2>3, <2>4, <2>5, MatchesSame
  <2>7. context' = [context EXCEPT ![t] = context[t]]
    BY <2>0 DEF TypeOK
  <2> QED BY <2>0, <2>6, <2>7, ContextChanged
<1>8. ASSUME NEW t \in Task, NEW fails \in BOOLEAN, Exit(t, fails)
      PROVE  ContextInv'
  <2> DEFINE fs == frames[t]
             gs == Front(frames[t])
             n == Len(frames[t])
  <2>0. /\ frames' = [frames EXCEPT ![t] = gs] /\ fs # <<>> /\ t \in running
        /\ running' = running /\ inherited' = inherited
        /\ context' = IF Top(t).opened THEN [context EXCEPT ![t] = Pop(context[t])] ELSE context
    BY <1>8 DEF Exit, Closes, Unbound
  <2>1. /\ t \in Task /\ fs \in Seq(FrameState) /\ Top(t) = Last(fs) /\ Last(fs) = fs[n]
        /\ n \in Nat \ {0} /\ Len(gs) = n - 1 /\ \A i \in 1..(n - 1) : gs[i] = fs[i]
    BY <2>0, Fronted DEF Top, TypeOK
  <2>2. Matches(context[t], fs, inherited[t])
    BY <2>0 DEF ContextInv
  <2>3. CASE Top(t).opened
    <3>1. context[t] \in ContextOf(Nat \cup {None})
      BY <2>1, ContextTypes
    <3>2. Matches(Pop(context[t]), gs, inherited[t])
      BY <2>0, <2>1, <2>2, <2>3, <3>1, MatchesPop
    <3> QED BY <2>0, <2>3, <3>2, ContextChanged
  <2>4. CASE ~Top(t).opened
    <3> HIDE DEF gs
    <3>1. \A i \in 1..n : fs[i].opened => i \in 1..(n - 1)
      BY <2>1, <2>4
    <3>2. \A i \in 1..(n - 1) : i \in 1..n
      BY <2>1
    <3>3. Matches(context[t], gs, inherited[t])
      BY <2>1, <2>2, <3>1, <3>2, MatchesSame
    <3>4. context' = [context EXCEPT ![t] = context[t]]
      BY <2>0, <2>4 DEF TypeOK
    <3> QED BY <2>0, <3>3, <3>4, ContextChanged
  <2> QED BY <2>3, <2>4
<1>9. CASE UNCHANGED vars
  BY <1>9 DEF vars, ContextInv
<1>10. ASSUME NEW t \in Task, NEW r \in generators, Iterate(t, r)
       PROVE  ContextInv'
  <2> DEFINE f == Frame("iteration", r, FALSE, revision)
  <2>0. /\ f \in FrameState /\ f \in FrameState' /\ f.resolver \in Nat /\ f.opened = FALSE
        /\ f.kind = "iteration" /\ f.state = "body" /\ t \in running
        /\ frames' = [frames EXCEPT ![t] = Append(@, f)]
        /\ UNCHANGED <<graph, root, resolvers, target, running, context, inherited, generators>>
    BY <1>10, Iterated
  <2> HIDE DEF f
  <2> QED BY <2>0, ContextAdded
<1> QED BY <1>1, <1>2, <1>3, <1>4, <1>5, <1>6, <1>7, <1>8, <1>9, <1>10 DEF Next, Done

(* resolver_context.py:195-209, binding and restoring by tokens: the       *)
(* context of a task is the resolver of the innermost block or call that   *)
(* opened one, or what the task started with.                              *)
THEOREM Context == Spec => []ContextFollowsBlocks
<1>1. Init => ContextInv
  <2> SUFFICES ASSUME Init
               PROVE  ContextInv
    OBVIOUS
  <2>1. \A t \in Task : context[t] = EmptyContext /\ frames[t] = <<>> /\ inherited[t] = None
    BY DEF Init
  <2>2. Matches(EmptyContext, <<>>, None)
    <3>1. Follows(EmptyContext, <<>>, None, 1, <<>>)
      BY DEF Follows, EmptyContext, ValueAt
    <3>2. <<>> \in Seq(1..Len(<<>>)) /\ 1 \in Nat \ {0}
      OBVIOUS
    <3> QED BY <3>1, <3>2 DEF Matches
  <2> QED BY <2>1, <2>2 DEF ContextInv
<1>2. TypeOK /\ ContextInv /\ [Next]_vars => ContextInv'
  BY ContextStep
<1>3. TypeOK /\ ContextInv => ContextFollowsBlocks
  <2> SUFFICES ASSUME TypeOK, ContextInv, NEW t \in running
               PROVE  \/ \E i \in DOMAIN frames[t] :
                            Innermost(t, i) /\ context[t].current = frames[t][i].resolver
                      \/ /\ \A i \in DOMAIN frames[t] : ~frames[t][i].opened
                         /\ context[t].current = inherited[t]
    BY DEF ContextFollowsBlocks
  <2>1. t \in Task /\ context[t] \in ContextOf(Nat \cup {None}) /\ frames[t] \in Seq(FrameState)
    BY ContextTypes DEF TypeOK
  <2>2. Matches(context[t], frames[t], inherited[t]) /\ DOMAIN frames[t] = 1..Len(frames[t])
    BY <2>1 DEF ContextInv
  <2> QED BY <2>1, <2>2, MatchesCurrent DEF Innermost
<1> QED BY <1>1, <1>2, <1>3, TypeCorrect, PTL DEF Spec

=============================================================================
