-------------------------- MODULE ScopePool_proofs --------------------------
(***************************************************************************)
(* Proofs about ScopePool, for any number of units of work: the pooled     *)
(* resolver is never lost on any build; and where enter_scope is one step, *)
(* units that reuse it share nothing and are cleaned up.                   *)
(***************************************************************************)
EXTENDS ScopePool, TLAPS

LEMMA TypeInitial == Init => TypeOK
BY PoolAssumption DEF Init, TypeOK, Resolver, Instance

(* What appending to a sequence gives.                                     *)
LEMMA Appended ==
    ASSUME NEW S, NEW s \in Seq(S), NEW e \in S
    PROVE  LET t == Append(s, e)
               n == Len(s) + 1
           IN  /\ t \in Seq(S) /\ t \in [1..n -> S] /\ Len(t) = n /\ n \in Nat \ {0}
               /\ DOMAIN t = 1..n /\ DOMAIN t = (DOMAIN s) \cup {n} /\ n \notin DOMAIN s
               /\ t[n] = e /\ \A i \in DOMAIN s : t[i] = s[i]
<1> DEFINE t == Append(s, e)
           n == Len(s) + 1
<1>1. t \in Seq(S) /\ Len(t) = n /\ n \in Nat \ {0} /\ t[n] = e
  OBVIOUS
<1>2. DOMAIN t = 1..n /\ DOMAIN s = 1..Len(s)
  OBVIOUS
<1>3. \A i \in DOMAIN s : t[i] = s[i]
  OBVIOUS
<1>4. t \in [1..n -> S]
  <2> HIDE DEF t
  <2>1. \A i \in 1..Len(t) : t[i] \in S
    BY <1>1
  <2>2. t = [i \in 1..Len(t) |-> t[i]]
    BY <1>1
  <2> QED BY <1>1, <2>1, <2>2
<1>5. 1..n = (1..Len(s)) \cup {n} /\ n \notin 1..Len(s)
  OBVIOUS
<1> QED BY <1>1, <1>2, <1>3, <1>4, <1>5

LEMMA OneIsSome == \A t : Len(t) = 1 => t # <<>>
<1> SUFFICES ASSUME NEW t, t = <<>>
             PROVE  Len(t) # 1
  OBVIOUS
<1>1. Len(<<>>) = 0
  OBVIOUS
<1> QED BY <1>1

LEMMA TypeStep ==
    ASSUME TypeOK, [Next]_vars
    PROVE  TypeOK'
<1> USE PoolAssumption DEF TypeOK, Resolver, Instance, Goto
<1>1. ASSUME NEW u \in Unit, UnitStep(u), UNCHANGED <<freeThreaded, finalisers>>
      PROVE  TypeOK'
  <2>0. ASSUME NEW r \in Resolver, DropField(u, r)
        PROVE  single' \in [Resolver -> Instance \cup {0}] /\ cleaner' \in [Instance -> Unit \cup {0}]
    BY <2>0 DEF DropField
  <2>1. CASE EnterPooled(u)
    <3>1. DropField(u, Pooled) /\ cache' = [cache EXCEPT ![Pooled] = [s \in Slot |-> 0]]
      BY <2>1 DEF EnterPooled, Reset
    <3>2. cache' \in [Resolver -> [Slot -> Instance \cup {0}]]
      BY <3>1
    <3> QED BY <1>1, <2>0, <2>1, <3>1, <3>2 DEF EnterPooled, Take
  <2>2. CASE EnterFresh(u)
    BY <1>1, <2>2 DEF EnterFresh, events
  <2>3. CASE CheckPooled(u)
    BY <1>1, <2>3 DEF CheckPooled, pool, events
  <2>4. CASE ResetPooled(u)
    <3>1. DropField(u, Pooled) /\ cache' = [cache EXCEPT ![Pooled] = [s \in Slot |-> 0]]
      BY <2>4 DEF ResetPooled, Reset
    <3>2. cache' \in [Resolver -> [Slot -> Instance \cup {0}]]
      BY <3>1
    <3> QED BY <1>1, <2>0, <2>4, <3>1, <3>2 DEF ResetPooled
  <2>5. CASE TakePooled(u)
    BY <1>1, <2>5 DEF TakePooled, Take, events
  <2>6. ASSUME NEW s \in Slot, ResolveCached(u, s)
        PROVE  TypeOK'
    <3>1. /\ got' = [got EXCEPT ![u] = got[u] \cup {cache[handle[u]][s]}]
          /\ cache[handle[u]][s] # 0 /\ cache[handle[u]][s] \in Instance \cup {0}
      BY <2>6 DEF ResolveCached
    <3>2. got' \in [Unit -> SUBSET Instance]
      BY <3>1
    <3> QED BY <1>1, <2>6, <3>2 DEF ResolveCached, CanResolve, pool
  <2>7. ASSUME NEW s \in Slot, NEW inField \in BOOLEAN, ResolveNew(u, s, inField)
        PROVE  TypeOK'
    <3> DEFINE n == Len(built) + 1
               e == [unit |-> u, slot |-> s, late |-> pc[u] # "open"]
               E == [unit : Unit, slot : Slot, late : BOOLEAN]
    <3>0. /\ built' = Append(built, e) /\ cleaner' = Append(cleaner, 0)
          /\ cache' = [cache EXCEPT ![handle[u]][s] = n]
          /\ single' = IF inField THEN [single EXCEPT ![handle[u]] = n] ELSE single
          /\ callbacks' = IF inField THEN callbacks
                          ELSE [callbacks EXCEPT ![handle[u]] = Append(callbacks[handle[u]], n)]
          /\ got' = [got EXCEPT ![u] = got[u] \cup {n}]
          /\ resolves < MaxResolves /\ resolves' = resolves + 1
          /\ UNCHANGED <<active, handle, pc>>
      BY <2>7 DEF ResolveNew, CanResolve
    <3>1. /\ built' \in Seq(E) /\ n \in Nat \ {0}
          /\ DOMAIN built' = Instance \cup {n} /\ DOMAIN built' = 1..n
      BY <3>0, Appended
    <3>2. cleaner' \in [DOMAIN built' -> Unit \cup {0}]
      <4>1. cleaner \in Seq(Unit \cup {0}) /\ Len(cleaner) = Len(built)
        OBVIOUS
      <4>2. Append(cleaner, 0) \in [1..(Len(cleaner) + 1) -> Unit \cup {0}]
        BY <4>1, Appended
      <4> QED BY <3>0, <3>1, <4>1, <4>2
    <3>3. /\ single' \in [Resolver -> (DOMAIN built') \cup {0}]
          /\ cache' \in [Resolver -> [Slot -> (DOMAIN built') \cup {0}]]
      <4>1. n \in DOMAIN built' /\ DOMAIN built \subseteq DOMAIN built'
        BY <3>1
      <4> HIDE DEF n, e
      <4> QED BY <3>0, <4>1
    <3>4. callbacks' \in [Resolver -> Seq(DOMAIN built')]
      <4>1. handle[u] \in Resolver /\ \A r \in Resolver : callbacks[r] \in Seq(DOMAIN built')
        BY <3>1
      <4>2. callbacks' = IF inField THEN callbacks
                         ELSE [callbacks EXCEPT ![handle[u]] = Append(callbacks[handle[u]], n)]
        BY <3>0
      <4>3. Append(callbacks[handle[u]], n) \in Seq(DOMAIN built')
        BY <3>1, <4>1
      <4> QED BY <4>1, <4>2, <4>3
    <3>5. got' \in [Unit -> SUBSET (DOMAIN built')]
      <4>1. got' = [got EXCEPT ![u] = got[u] \cup {n}]
        BY <3>0
      <4>2. got[u] \cup {n} \in SUBSET (DOMAIN built') /\ \A v \in Unit : got[v] \in SUBSET (DOMAIN built')
        BY <3>1
      <4> HIDE DEF n
      <4> QED BY <4>1, <4>2
    <3> HIDE DEF n, e
    <3>6. resolves' \in 0..MaxResolves
      BY <3>0
    <3> QED BY <1>1, <3>0, <3>1, <3>2, <3>3, <3>4, <3>5, <3>6
  <2>8. CASE BeginExit(u)
    BY <1>1, <2>8 DEF BeginExit, events
  <2>9. CASE CleanField(u)
    BY <1>1, <2>9 DEF CleanField, pool
  <2>10. CASE CleanAlone(u) \/ CleanOne(u)
    <3>1. PICK label \in {"lone", "running"} : PopTo(u, label)
      BY <2>10 DEF CleanAlone, CleanOne
    <3>2. LET list == callbacks[handle[u]]
          IN  SubSeq(list, 1, Len(list) - 1) \in Seq(Instance) /\ list[Len(list)] \in Instance
      BY <3>1 DEF PopTo
    <3> QED BY <1>1, <3>1, <3>2 DEF PopTo
  <2>11. CASE SeeCallback(u)
    BY <1>1, <2>11 DEF SeeCallback, pool, events
  <2>12. CASE PopFails(u)
    BY <1>1, <2>12 DEF PopFails, pool, events
  <2>13. CASE EndExit(u)
    <3>1. single' \in [Resolver -> Instance \cup {0}] /\ cleaner' \in [Instance -> Unit \cup {0}]
      BY <2>0, <2>13 DEF EndExit
    <3> QED BY <1>1, <2>13, <3>1 DEF EndExit
  <2> QED
    BY <1>1, <2>1, <2>2, <2>3, <2>4, <2>5, <2>6, <2>7, <2>8, <2>9, <2>10, <2>11, <2>12, <2>13
       DEF UnitStep
<1>2. CASE UNCHANGED vars
  BY <1>2 DEF vars, pool, events
<1> QED BY <1>1, <1>2 DEF Next, Done

(* Every variable has its type: units, resolvers and the instances built   *)
(* so far (enter_scope and the exits of compiler.py).                      *)
THEOREM TypeCorrect == Spec => []TypeOK
<1>1. TypeOK /\ [Next]_vars => TypeOK'  BY TypeStep
<1> QED BY TypeInitial, <1>1, PTL DEF Spec

-----------------------------------------------------------------------------
(* While the pooled resolver is taken, a unit is in its block; or is about *)
(* to pop a cleanup that is still there.  A unit whose pop fails is not    *)
(* the last one.                                                           *)
Using(u) == pc[u] \in {"open", "single", "lone", "closing", "running"}
InBlock(u) == handle[u] = Pooled /\ Using(u)
AtPop(u) == handle[u] = Pooled /\ pc[u] \in {"popping", "alone"}
Taken ==
    active[Pooled] =>
        \/ \E u \in Unit : InBlock(u)
        \/ callbacks[Pooled] # <<>> /\ \E u \in Unit : AtPop(u)

LEMMA TakenStep ==
    ASSUME TypeOK, Taken, [Next]_vars
    PROVE  Taken'
<1> USE PoolAssumption DEF Taken, InBlock, Using, AtPop, Goto, TypeOK, Resolver
<1>1. ASSUME NEW u \in Unit, UnitStep(u)
      PROVE  Taken'
  <2>1. CASE EnterPooled(u)
    BY <2>1 DEF EnterPooled, Take
  <2>2. CASE EnterFresh(u)
    BY <2>2 DEF EnterFresh
  <2>3. CASE CheckPooled(u)
    BY <2>3 DEF CheckPooled, pool
  <2>4. CASE ResetPooled(u)
    BY <2>4 DEF ResetPooled
  <2>5. CASE TakePooled(u)
    BY <2>5 DEF TakePooled, Take
  <2>6. ASSUME NEW s \in Slot, ResolveCached(u, s)
        PROVE  Taken'
    BY <2>6 DEF ResolveCached, pool
  <2>7. ASSUME NEW s \in Slot, NEW inField \in BOOLEAN, ResolveNew(u, s, inField)
        PROVE  Taken'
    <3>1. /\ active' = active /\ handle' = handle /\ pc' = pc
          /\ callbacks[Pooled] # <<>> => callbacks'[Pooled] # <<>>
      BY <2>7 DEF ResolveNew
    <3> QED BY <3>1
  <2>8. CASE BeginExit(u)
    BY <2>8 DEF BeginExit
  <2>9. CASE CleanField(u)
    BY <2>9 DEF CleanField, pool
  <2>10. CASE CleanAlone(u) \/ CleanOne(u)
    BY <2>10 DEF CleanAlone, CleanOne, PopTo
  <2>11. CASE SeeCallback(u)
    <3>1. /\ callbacks[handle[u]] # <<>> /\ (Goto(u, "popping") \/ Goto(u, "alone"))
          /\ UNCHANGED <<active, handle, callbacks>>
      <4>1. CASE InLoop(u) /\ callbacks[handle[u]] # <<>> /\ Goto(u, "popping")
        BY <2>11, <4>1 DEF SeeCallback, pool
      <4>2. CASE pc[u] = "open" /\ Alone(handle[u]) /\ Goto(u, "alone")
        <5>1. Len(callbacks[handle[u]]) = 1
          BY <4>2 DEF Alone
        <5>2. callbacks[handle[u]] # <<>>
          BY <5>1, OneIsSome
        <5> QED BY <2>11, <4>2, <5>2 DEF SeeCallback, pool
      <4> QED BY <2>11, <4>1, <4>2 DEF SeeCallback
    <3> QED BY <3>1
  <2>12. CASE PopFails(u)
    BY <2>12 DEF PopFails, pool
  <2>13. CASE EndExit(u)
    BY <2>13 DEF EndExit
  <2> QED
    BY <1>1, <2>1, <2>2, <2>3, <2>4, <2>5, <2>6, <2>7, <2>8, <2>9, <2>10, <2>11, <2>12, <2>13
       DEF UnitStep
<1>2. CASE UNCHANGED vars
  BY <1>2 DEF vars, pool
<1> QED BY <1>1, <1>2 DEF Next, Done

(* On every build the pooled resolver is free when no unit is in a block:  *)
(* enter_scope never loses it for good.                                    *)
THEOREM GivenBack == Spec => []PoolGivenBack
<1>1. Init => Taken
  BY DEF Init, Taken, Resolver
<1>2. TypeOK /\ Taken /\ [Next]_vars => Taken'
  BY TakenStep
<1>3. Taken => PoolGivenBack
  BY DEF Taken, InBlock, Using, AtPop, PoolGivenBack
<1> QED BY <1>1, <1>2, <1>3, TypeCorrect, PTL DEF Spec

-----------------------------------------------------------------------------
(* Where entering is one step, a resolver serves one unit at a time.       *)
Mine(u) == {n \in Instance : built[n].unit = u}
Regular(u) == {n \in Mine(u) : ~built[n].late}

Serving ==
    \A u \in Unit :
        /\ Using(u) \/ pc[u] \in {"idle", "closed"}
        /\ handle[u] \in {u, Pooled}
        /\ Using(u) => active[handle[u]]
        /\ \A v \in Unit : Using(u) /\ Using(v) /\ handle[u] = handle[v] => u = v

(* What a resolver still holds belongs to the unit it serves, or was built *)
(* in the exit of a unit that is over; the same goes for what a unit       *)
(* cleans.                                                                 *)
Listed(r) == {callbacks[r][i] : i \in DOMAIN callbacks[r]}
Held(r) == Listed(r) \cup ({single[r]} \ {0})
Over(n) == built[n].late /\ pc[built[n].unit] = "closed"
InUse(n, r) == Using(built[n].unit) /\ handle[built[n].unit] = r

Tidy(r) == \A n \in Held(r) : Over(n) \/ InUse(n, r)
Credit(n) == cleaner[n] \in {0, built[n].unit} \/ Over(n)

(* A unit has at most one instance of a slot, in the cache of its          *)
(* resolver, and is handed no other.                                       *)
Fresh(u) == pc[u] = "idle" => Mine(u) = {} /\ \A s \in Slot : cache[u][s] = 0

Given(u) ==
    /\ got[u] \subseteq Mine(u)
    /\ \A n, m \in Mine(u) : built[n].slot = built[m].slot => n = m
    /\ Using(u) =>
          \A s \in Slot :
             /\ cache[handle[u]][s] # 0 => cache[handle[u]][s] \in Mine(u)
             /\ cache[handle[u]][s] = 0 => \A n \in Mine(u) : built[n].slot # s

(* What was built in the block waits in the resolver, alive, until the     *)
(* exit cleans it.                                                         *)
Kept(u) ==
    LET r == handle[u]
    IN  /\ pc[u] = "open" => \A n \in Mine(u) : ~built[n].late /\ cleaner[n] = 0 /\ n \in Held(r)
        /\ pc[u] \in {"closing", "running"} =>
              \A n \in Regular(u) : n # single[r] /\ (cleaner[n] = u \/ n \in Listed(r))
        /\ pc[u] \in {"single", "lone"} => \A n \in Regular(u) : n \notin Listed(r)
        /\ pc[u] = "lone" => \A n \in Regular(u) : n # single[r]
        /\ pc[u] \in {"single", "lone", "closed"} => \A n \in Regular(u) : cleaner[n] = u

Orderly(u) == Fresh(u) /\ Given(u) /\ Kept(u)

Gil ==
    /\ Serving
    /\ \A r \in Resolver : Tidy(r)
    /\ \A n \in Instance : Credit(n)
    /\ \A u \in Unit : Orderly(u)

LEMMA GilInitially == Init => Gil
<1> SUFFICES ASSUME Init
             PROVE  Gil
  OBVIOUS
<1> USE PoolAssumption DEF Init, Resolver
<1>1. Instance = {} /\ \A u \in Unit : Mine(u) = {} /\ Regular(u) = {}
  BY DEF Instance, Mine, Regular
<1>2. Serving
  BY DEF Serving, Using
<1>3. \A r \in Resolver : Held(r) = {}
  BY DEF Held, Listed
<1>4. \A u \in Unit : Orderly(u)
  BY <1>1 DEF Orderly, Fresh, Given, Kept, Using
<1> QED BY <1>1, <1>2, <1>3, <1>4 DEF Gil, Tidy

(* A step of a unit touches the resolver that serves it only, and of the   *)
(* history only what is its own or late.                                   *)
Touches(u, r) == (Using(u) /\ r = handle[u]) \/ (Using(u)' /\ r = handle'[u])
OwnStep(u) ==
    /\ \A v \in Unit \ {u} : pc'[v] = pc[v] /\ handle'[v] = handle[v] /\ got'[v] = got[v]
    /\ \A r \in Resolver :
          ~Touches(u, r) => cache'[r] = cache[r] /\ single'[r] = single[r] /\ callbacks'[r] = callbacks[r]
    /\ Instance \subseteq Instance' /\ \A n \in Instance : built'[n] = built[n]
    /\ \A n \in Instance' \ Instance : built'[n].unit = u
    /\ \A n \in Instance : cleaner'[n] # cleaner[n] => built[n].unit = u \/ built[n].late

LEMMA OthersMine ==
    ASSUME NEW u \in Unit, OwnStep(u), NEW v \in Unit \ {u}
    PROVE  Mine(v)' = Mine(v) /\ Regular(v)' = Regular(v)
BY DEF OwnStep, Mine, Regular

LEMMA OthersKept ==
    ASSUME TypeOK, Gil, Serving', NEW u \in Unit, OwnStep(u)
    PROVE  \A v \in Unit \ {u} : Orderly(v)'
<1> SUFFICES ASSUME NEW v \in Unit \ {u}
             PROVE  Orderly(v)'
  OBVIOUS
<1>0. /\ pc'[v] = pc[v] /\ handle'[v] = handle[v] /\ got'[v] = got[v]
      /\ Mine(v)' = Mine(v) /\ Regular(v)' = Regular(v)
      /\ \A n \in Mine(v) : n \in Instance /\ built[n].unit = v /\ built'[n] = built[n]
      /\ \A n \in Regular(v) : n \in Mine(v) /\ cleaner'[n] = cleaner[n]
  <2>1. \A n \in Mine(v) : n \in Instance /\ built[n].unit = v /\ built'[n] = built[n]
    BY DEF OwnStep, Mine
  <2>2. \A n \in Regular(v) : n \in Mine(v) /\ cleaner'[n] = cleaner[n]
    BY <2>1 DEF OwnStep, Regular
  <2> QED BY <2>1, <2>2, OthersMine DEF OwnStep
<1>1. /\ pc[v] = "idle" => ~Touches(u, v)
      /\ Using(v) => ~Touches(u, handle[v])
  <2>1. handle[u] \in {u, Pooled} /\ handle'[u] \in {u, Pooled} /\ v # Pooled
    BY PoolAssumption DEF Gil, Serving
  <2>2. ASSUME Using(v), Using(u)
        PROVE  handle[u] # handle[v]
    BY <2>2 DEF Gil, Serving
  <2>3. ASSUME Using(v), Using(u)'
        PROVE  handle'[u] # handle[v]
    <3>1. Using(v)'
      BY <1>0, <2>3 DEF Using
    <3> QED BY <1>0, <2>3, <3>1 DEF Serving
  <2> QED BY <2>1, <2>2, <2>3 DEF Touches
<1>2. /\ v \in Resolver /\ handle[v] \in Resolver
      /\ pc[v] = "idle" => cache'[v] = cache[v]
      /\ Using(v) => /\ cache'[handle[v]] = cache[handle[v]] /\ single'[handle[v]] = single[handle[v]]
                     /\ callbacks'[handle[v]] = callbacks[handle[v]]
  <2>1. v \in Resolver /\ handle[v] \in Resolver
    BY DEF TypeOK, Resolver
  <2> QED BY <1>1, <2>1 DEF OwnStep
<1>3. Using(v) => Listed(handle[v])' = Listed(handle[v]) /\ Held(handle[v])' = Held(handle[v])
  BY <1>0, <1>2 DEF Held, Listed
<1>4. Fresh(v) /\ Given(v) /\ Kept(v)
  BY DEF Gil, Orderly
<1>5. Fresh(v)'
  BY <1>0, <1>2, <1>4 DEF Fresh
<1>6. Given(v)'
  BY <1>0, <1>2, <1>4 DEF Given, Using
<1>7. Kept(v)'
  <2>1. CASE pc[v] = "open"
    <3>1. \A n \in Mine(v) : ~built[n].late /\ n \in Regular(v)
      BY <1>4, <2>1 DEF Kept, Regular
    <3> QED BY <1>0, <1>2, <1>3, <1>4, <2>1, <3>1 DEF Kept, Using
  <2>2. CASE pc[v] \in {"closing", "running", "single", "lone"}
    BY <1>0, <1>2, <1>3, <1>4, <2>2 DEF Kept, Using
  <2>3. CASE pc[v] \notin {"open", "closing", "running", "single", "lone"}
    BY <1>0, <1>4, <2>3 DEF Kept
  <2> QED BY <2>1, <2>2, <2>3
<1> QED BY <1>5, <1>6, <1>7 DEF Orderly

LEMMA BuiltIs ==
    ASSUME TypeOK, NEW n \in Instance
    PROVE  built[n].unit \in Unit /\ built[n].slot \in Slot /\ built[n].late \in BOOLEAN
<1>1. built[n] \in [unit : Unit, slot : Slot, late : BOOLEAN]
  <2>1. \A S : built \in Seq(S) /\ n \in DOMAIN built => built[n] \in S
    OBVIOUS
  <2> QED BY <2>1 DEF TypeOK, Instance
<1> QED BY <1>1

LEMMA HeldIsInstance ==
    ASSUME TypeOK, NEW r \in Resolver
    PROVE  Held(r) \subseteq Instance /\ Listed(r) \subseteq Instance /\ 0 \notin Instance
<1>1. callbacks[r] \in Seq(Instance) /\ single[r] \in Instance \cup {0}
  BY DEF TypeOK
<1>2. \A i \in DOMAIN callbacks[r] : callbacks[r][i] \in Instance
  BY <1>1
<1>3. 0 \notin Instance
  BY DEF TypeOK, Instance
<1> QED BY <1>1, <1>2, <1>3 DEF Held, Listed

(* What a unit finds in its resolver is its own, or over.                  *)
LEMMA HeldByUnit ==
    ASSUME Gil, NEW u \in Unit, Using(u), NEW r \in Resolver, r = handle[u], NEW n \in Held(r),
           TypeOK
    PROVE  built[n].unit = u \/ Over(n)
<1>1. n \in Instance /\ built[n].unit \in Unit
  BY HeldIsInstance, BuiltIs
<1>2. Over(n) \/ InUse(n, r)
  BY DEF Gil, Tidy
<1> QED BY <1>1, <1>2 DEF Gil, InUse, Serving

(* What is left to show of a step of unit u.                               *)
LEMMA GilFrom ==
    ASSUME TypeOK, TypeOK', Gil, NEW u \in Unit, pc[u] # "closed", OwnStep(u), Serving', Orderly(u)',
           \A r \in Resolver : Touches(u, r) => Tidy(r)',
           \A n \in Instance' : n \notin Instance \/ cleaner'[n] # cleaner[n] => Credit(n)'
    PROVE  Gil'
<1>1. ASSUME NEW n \in Instance, Over(n)
      PROVE  Over(n)'
  <2>1. built'[n] = built[n] /\ built[n].unit \in Unit \ {u}
    BY <1>1, BuiltIs DEF OwnStep, Over
  <2> QED BY <1>1, <2>1 DEF OwnStep, Over
<1>2. ASSUME NEW r \in Resolver, ~Touches(u, r)
      PROVE  Tidy(r)'
  <2>1. Held(r)' = Held(r) /\ Held(r) \subseteq Instance
    BY <1>2, HeldIsInstance DEF OwnStep, Held, Listed
  <2>2. ASSUME NEW n \in Held(r), InUse(n, r)
        PROVE  InUse(n, r)'
    <3>1. n \in Instance /\ built'[n] = built[n] /\ built[n].unit \in Unit
      BY <2>1, BuiltIs DEF OwnStep
    <3>2. built[n].unit # u
      BY <1>2, <2>2 DEF InUse, Touches
    <3> QED BY <2>2, <3>1, <3>2 DEF InUse, Using, OwnStep
  <2>3. \A n \in Held(r) : Over(n) \/ InUse(n, r)
    BY DEF Gil, Tidy
  <2> QED BY <1>1, <2>1, <2>2, <2>3 DEF Tidy
<1>3. ASSUME NEW n \in Instance'
      PROVE  Credit(n)'
  <2>1. CASE n \in Instance /\ cleaner'[n] = cleaner[n]
    <3>1. Credit(n) /\ built'[n] = built[n]
      BY <2>1 DEF Gil, OwnStep
    <3> QED BY <1>1, <2>1, <3>1 DEF Credit
  <2> QED BY <2>1
<1>4. \A v \in Unit : Orderly(v)'
  BY OthersKept
<1> QED BY <1>2, <1>3, <1>4 DEF Gil

(* The elements of a list that grows by one, and of one that loses its     *)
(* last.                                                                   *)
Elements(t) == {t[i] : i \in DOMAIN t}

LEMMA Growing ==
    ASSUME NEW S, NEW t \in Seq(S), NEW e \in S, NEW w, w = Append(t, e)
    PROVE  {w[i] : i \in DOMAIN w} = {t[i] : i \in DOMAIN t} \cup {e}
<1>1. /\ DOMAIN w = (DOMAIN t) \cup {Len(t) + 1} /\ w[Len(t) + 1] = e
      /\ \A i \in DOMAIN t : w[i] = t[i]
  BY Appended
<1> QED BY <1>1

LEMMA Shrinking ==
    ASSUME NEW S, NEW t \in Seq(S), t # <<>>, NEW w, w = SubSeq(t, 1, Len(t) - 1)
    PROVE  /\ Elements(t) = Elements(w) \cup {t[Len(t)]}
           /\ Len(t) = 1 => Elements(w) = {}
<1>1. Len(t) \in Nat \ {0} /\ DOMAIN t = 1..Len(t) /\ DOMAIN w = 1..(Len(t) - 1)
  OBVIOUS
<1>2. \A i \in DOMAIN w : w[i] = t[i]
  BY <1>1
<1>3. DOMAIN t = (DOMAIN w) \cup {Len(t)}
  BY <1>1
<1>4. Len(t) = 1 => DOMAIN w = {}
  BY <1>1
<1>5. {t[i] : i \in DOMAIN t} = {w[i] : i \in DOMAIN w} \cup {t[Len(t)]}
  BY ONLY <1>2, <1>3
<1>6. DOMAIN w = {} => {w[i] : i \in DOMAIN w} = {}
  OBVIOUS
<1> QED BY <1>4, <1>5, <1>6 DEF Elements

LEMMA EmptyList ==
    ASSUME NEW r \in Resolver, callbacks[r] = <<>>
    PROVE  Listed(r) = {} /\ Held(r) = {single[r]} \ {0}
BY DEF Listed, Held

LEMMA EnterStep ==
    ASSUME TypeOK, TypeOK', Undisturbed, Gil, NEW u \in Unit, EnterPooled(u) \/ EnterFresh(u)
    PROVE  Gil'
<1> USE PoolAssumption
<1>0. /\ pc[u] = "idle" /\ pc' = [pc EXCEPT ![u] = "open"] /\ UNCHANGED <<callbacks, built, got>>
      /\ Fresh(u) /\ Given(u) /\ Mine(u) = {}
      /\ \A v \in Unit : v # Pooled /\ v \in Resolver /\ handle[v] \in Resolver
      /\ Pooled \in Resolver
  BY DEF EnterPooled, EnterFresh, Take, Goto, events, Gil, Orderly, Fresh, TypeOK, Resolver
<1>1. PICK r \in Resolver :
         /\ r \in {u, Pooled} /\ handle' = [handle EXCEPT ![u] = r]
         /\ active' = [active EXCEPT ![r] = TRUE]
         /\ r = Pooled => ~active[r]
         /\ \A q \in Resolver : q # r => cache'[q] = cache[q] /\ single'[q] = single[q]
         /\ \A s \in Slot : cache'[r][s] = 0
         /\ \A n \in Instance : cleaner'[n] # cleaner[n] => n = single[r] /\ cleaner'[n] = u
         /\ single'[r] \in {0, single[r]}
  <2>1. CASE EnterPooled(u)
    <3>1. /\ handle' = [handle EXCEPT ![u] = Pooled] /\ active' = [active EXCEPT ![Pooled] = TRUE]
          /\ ~active[Pooled] /\ cache' = [cache EXCEPT ![Pooled] = [s \in Slot |-> 0]]
          /\ DropField(u, Pooled)
      BY <2>1 DEF EnterPooled, Reset, Take
    <3>2. /\ \A q \in Resolver : q # Pooled => cache'[q] = cache[q] /\ single'[q] = single[q]
          /\ \A s \in Slot : cache'[Pooled][s] = 0
          /\ \A n \in Instance : cleaner'[n] # cleaner[n] => n = single[Pooled] /\ cleaner'[n] = u
          /\ single'[Pooled] = 0
      BY <1>0, <3>1 DEF DropField, TypeOK
    <3> QED BY <1>0, <3>1, <3>2
  <2>2. CASE EnterFresh(u)
    BY <1>0, <2>2 DEF EnterFresh, Fresh, events
  <2> QED BY <2>1, <2>2
<1>2. /\ pc'[u] = "open" /\ handle'[u] = r /\ got'[u] = got[u]
      /\ \A v \in Unit \ {u} : pc'[v] = pc[v] /\ handle'[v] = handle[v] /\ got'[v] = got[v]
      /\ active'[r] /\ \A q \in Resolver : active[q] => active'[q]
  BY <1>0, <1>1 DEF TypeOK
<1>3. ASSUME NEW v \in Unit, Using(v)
      PROVE  v # u /\ handle[v] # r
  <2>1. v # u /\ active[handle[v]] /\ handle[v] \in {v, Pooled}
    BY <1>0, <1>3 DEF Gil, Serving, Using
  <2> QED BY <1>0, <1>1, <2>1
<1>4. \A v \in Unit : v # u => (Using(v)' <=> Using(v))
  BY <1>2 DEF Using
<1>5. Serving'
  <2>1. \A v \in Unit : v # u => Using(v) \/ pc[v] \in {"idle", "closed"}
    BY DEF Gil, Serving
  <2>2. \A v \in Unit : v # u => handle[v] \in {v, Pooled} /\ (Using(v) => active[handle[v]])
    BY DEF Gil, Serving
  <2>3. \A v, w \in Unit : Using(v) /\ Using(w) /\ handle[v] = handle[w] => v = w
    BY DEF Gil, Serving
  <2>4. Using(u)' /\ handle'[u] \in {u, Pooled} /\ active'[handle'[u]]
    BY <1>1, <1>2 DEF Using
  <2>5. \A v, w \in Unit : Using(v)' /\ Using(w)' /\ handle'[v] = handle'[w] => v = w
    BY <1>2, <1>3, <1>4, <2>3
  <2> QED BY <1>0, <1>2, <1>4, <2>1, <2>2, <2>4, <2>5 DEF Serving
<1>6. ASSUME NEW n \in Held(r)
      PROVE  Over(n) /\ Over(n)' /\ built'[n] = built[n]
  <2>1. n \in Instance /\ built[n].unit \in Unit /\ (Over(n) \/ InUse(n, r))
    BY HeldIsInstance, BuiltIs DEF Gil, Tidy
  <2>2. Over(n) /\ built[n].unit # u
    BY <1>0, <1>3, <2>1 DEF InUse, Over
  <2> QED BY <1>0, <1>2, <2>1, <2>2 DEF Over
<1>7. OwnStep(u)
  <2>1. \A q \in Resolver : ~Touches(u, q) => q # r
    BY <1>2 DEF Touches, Using
  <2>2. \A n \in Instance : cleaner'[n] # cleaner[n] => n \in Held(r)
    BY HeldIsInstance, <1>1 DEF Held
  <2>3. Instance' = Instance
    BY <1>0 DEF Instance
  <2> QED BY <1>0, <1>1, <1>2, <1>6, <2>1, <2>2, <2>3 DEF OwnStep, Over
<1>8. Orderly(u)'
  <2>1. Mine(u)' = {} /\ Regular(u)' = {}
    BY <1>0 DEF Mine, Regular, Instance
  <2>2. Fresh(u)' /\ Kept(u)'
    BY <1>2, <2>1 DEF Fresh, Kept
  <2>3. Given(u)'
    BY <1>0, <1>1, <1>2, <2>1 DEF Given
  <2> QED BY <2>2, <2>3 DEF Orderly
<1>9. ASSUME NEW q \in Resolver, Touches(u, q)
      PROVE  Tidy(q)'
  <2>1. q = r
    BY <1>0, <1>2, <1>9 DEF Touches, Using
  <2>2. Held(r)' \subseteq Held(r)
    BY <1>0, <1>1 DEF Held, Listed
  <2> QED BY <1>6, <2>1, <2>2 DEF Tidy
<1>10. ASSUME NEW n \in Instance', n \notin Instance \/ cleaner'[n] # cleaner[n]
       PROVE  Credit(n)'
  <2>1. n \in Instance
    BY <1>0 DEF Instance
  <2>2. n \in Held(r)
    BY HeldIsInstance, <1>1, <1>10, <2>1 DEF Held
  <2> QED BY <1>6, <2>2 DEF Credit
<1> QED BY <1>0, <1>5, <1>7, <1>8, <1>9, <1>10, GilFrom

(* The steps of a unit that is in its block neither change handles nor     *)
(* leave the resolver, but for the end.                                    *)
LEMMA ServingKept ==
    ASSUME TypeOK, Gil, NEW u \in Unit, Using(u),
           handle' = handle, pc'[u] # "idle", \A v \in Unit \ {u} : pc'[v] = pc[v],
           \/ Using(u)' /\ active' = active
           \/ pc'[u] = "closed" /\ active' = [active EXCEPT ![handle[u]] = FALSE]
    PROVE  Serving'
<1>1. Serving
  BY DEF Gil
<1>2. \A v \in Unit : Using(v)' => Using(v)
  BY DEF Using
<1>3. \A v \in Unit : Using(v)' \/ pc'[v] \in {"idle", "closed"}
  BY <1>1 DEF Serving, Using
<1>4. \A v \in Unit : Using(v)' => active'[handle[v]]
  <2>1. CASE Using(u)' /\ active' = active
    BY <1>1, <1>2, <2>1 DEF Serving
  <2>2. CASE pc'[u] = "closed" /\ active' = [active EXCEPT ![handle[u]] = FALSE]
    <3>1. ASSUME NEW v \in Unit, Using(v)'
          PROVE  handle[v] # handle[u] /\ active[handle[v]] /\ handle[v] \in Resolver
      <4>1. v # u
        BY <2>2, <3>1 DEF Using
      <4> QED BY <1>1, <1>2, <3>1, <4>1 DEF Serving, TypeOK
    <3> QED BY <2>2, <3>1 DEF TypeOK
  <2> QED BY <2>1, <2>2
<1> QED BY <1>1, <1>2, <1>3, <1>4 DEF Serving

LEMMA CachedStep ==
    ASSUME TypeOK, TypeOK', Gil, NEW u \in Unit, NEW s \in Slot, ResolveCached(u, s)
    PROVE  Gil'
<1>0. /\ Using(u) /\ UNCHANGED <<active, cache, single, callbacks, handle, pc, built, cleaner>>
      /\ got' = [got EXCEPT ![u] = got[u] \cup {cache[handle[u]][s]}]
      /\ cache[handle[u]][s] # 0
  BY DEF ResolveCached, CanResolve, Cleaning, Using, pool
<1>1. Serving'
  BY <1>0, ServingKept DEF Using, Gil, Serving
<1>2. OwnStep(u)
  BY <1>0 DEF OwnStep, Instance, TypeOK
<1>3. Mine(u)' = Mine(u) /\ Regular(u)' = Regular(u) /\ Fresh(u) /\ Given(u) /\ Kept(u)
  BY <1>0 DEF Mine, Regular, Instance, Gil, Orderly
<1>4. got'[u] = got[u] \cup {cache[handle[u]][s]} /\ cache[handle[u]][s] \in Mine(u)
  BY <1>0, <1>3 DEF Given, TypeOK
<1>5. Given(u)'
  BY <1>0, <1>3, <1>4 DEF Given, Using
<1>6. Fresh(u)' /\ Kept(u)'
  BY <1>0, <1>3 DEF Fresh, Kept, Held, Listed
<1>7. \A r \in Resolver : Tidy(r)'
  BY <1>0 DEF Gil, Tidy, Held, Listed, Over, InUse, Using
<1>8. pc[u] # "closed" /\ Instance' = Instance /\ cleaner' = cleaner
  BY <1>0 DEF Using, Instance
<1> QED BY <1>1, <1>2, <1>5, <1>6, <1>7, <1>8, GilFrom DEF Orderly

LEMMA NewStep ==
    ASSUME TypeOK, TypeOK', Gil, NEW u \in Unit, NEW s \in Slot, NEW inField \in BOOLEAN,
           ResolveNew(u, s, inField)
    PROVE  Gil'
<1> DEFINE e == [unit |-> u, slot |-> s, late |-> pc[u] # "open"]
<1>0. PICK r \in Resolver, n \in Nat \ {0} :
         /\ r = handle[u] /\ n = Len(built) + 1
         /\ Using(u) /\ cache[r][s] = 0 /\ UNCHANGED <<active, handle, pc>>
         /\ inField => single[r] = 0 /\ callbacks[r] = <<>>
         /\ built' = Append(built, e) /\ cleaner' = Append(cleaner, 0)
         /\ cache' = [cache EXCEPT ![r][s] = n]
         /\ single' = IF inField THEN [single EXCEPT ![r] = n] ELSE single
         /\ callbacks' = IF inField THEN callbacks
                         ELSE [callbacks EXCEPT ![r] = Append(callbacks[r], n)]
         /\ got' = [got EXCEPT ![u] = got[u] \cup {n}]
  <2>1. handle[u] \in Resolver /\ Len(built) + 1 \in Nat \ {0}
    BY DEF TypeOK
  <2>2. Using(u)
    BY DEF ResolveNew, CanResolve, Cleaning, Using
  <2> QED BY <2>1, <2>2 DEF ResolveNew
<1>1. /\ Instance' = Instance \cup {n} /\ n \notin Instance /\ built'[n] = e
      /\ \A m \in Instance : built'[m] = built[m]
  <2> DEFINE E == [unit : Unit, slot : Slot, late : BOOLEAN]
  <2>1. e \in E /\ built \in Seq(E)
    BY DEF TypeOK
  <2>2. built' = Append(built, e) /\ n = Len(built) + 1
    BY <1>0
  <2> HIDE DEF e, E
  <2> QED BY <2>1, <2>2, Appended DEF Instance
<1>2. cleaner'[n] = 0 /\ \A m \in Instance : cleaner'[m] = cleaner[m]
  <2>1. cleaner \in Seq(Unit \cup {0}) /\ Len(cleaner) = Len(built) /\ DOMAIN cleaner = Instance
    BY DEF TypeOK, Instance
  <2> QED BY <1>0, <2>1, Appended
<1> HIDE DEF e
<1>3. e.unit = u /\ e.slot = s /\ e.late = (pc[u] # "open")
  BY DEF e
<1>4. /\ \A q \in Resolver \ {r} :
            cache'[q] = cache[q] /\ single'[q] = single[q] /\ callbacks'[q] = callbacks[q]
      /\ cache'[r][s] = n /\ \A t \in Slot \ {s} : cache'[r][t] = cache[r][t]
      /\ got'[u] = got[u] \cup {n} /\ \A v \in Unit \ {u} : got'[v] = got[v]
  BY <1>0 DEF TypeOK
<1>5. /\ inField => single'[r] = n /\ Listed(r)' = Listed(r) /\ single[r] = 0
      /\ ~inField => single'[r] = single[r] /\ Listed(r)' = Listed(r) \cup {n}
  <2>1. CASE inField
    BY <1>0, <2>1 DEF Listed, TypeOK
  <2>2. CASE ~inField
    <3>1. callbacks[r] \in Seq(Instance') /\ n \in Instance' /\ callbacks'[r] = Append(callbacks[r], n)
      BY <1>0, <1>1, <2>2 DEF TypeOK
    <3>2. {callbacks'[r][i] : i \in DOMAIN callbacks'[r]} =
             {callbacks[r][i] : i \in DOMAIN callbacks[r]} \cup {n}
      BY ONLY <3>1, Growing
    <3> QED BY <1>0, <2>2, <3>2 DEF Listed
  <2> QED BY <2>1, <2>2
<1>6. Held(r)' = Held(r) \cup {n}
  BY <1>0, <1>5 DEF Held
<1>7. /\ Mine(u)' = Mine(u) \cup {n} /\ (pc[u] = "open" => Regular(u)' = Regular(u) \cup {n})
      /\ (pc[u] # "open" => Regular(u)' = Regular(u)) /\ Mine(u) \subseteq Instance
  BY <1>1, <1>3 DEF Mine, Regular
<1>8. Fresh(u) /\ Given(u) /\ Kept(u) /\ pc[u] \notin {"idle", "closed"}
  BY <1>0 DEF Gil, Orderly, Using
<1>9. Serving'
  BY <1>0, ServingKept DEF Using, Gil, Serving
<1>10. OwnStep(u)
  <2>1. \A q \in Resolver : ~Touches(u, q) => q # r
    BY <1>0 DEF Touches
  <2> QED BY <1>0, <1>1, <1>2, <1>3, <1>4, <2>1 DEF OwnStep
<1>11. Given(u)'
  <2>1. \A m \in Mine(u) : built[m].slot # s /\ m \in Instance /\ built'[m] = built[m]
    BY <1>0, <1>1, <1>7, <1>8 DEF Given
  <2>2. \A m \in Mine(u)' : \A k \in Mine(u)' : built'[m].slot = built'[k].slot => m = k
    BY <1>1, <1>3, <1>7, <1>8, <2>1 DEF Given
  <2>3. got'[u] \subseteq Mine(u)'
    BY <1>4, <1>7, <1>8 DEF Given
  <2>4. ASSUME NEW t \in Slot
        PROVE  /\ cache'[r][t] # 0 => cache'[r][t] \in Mine(u)'
               /\ cache'[r][t] = 0 => \A m \in Mine(u)' : built'[m].slot # t
    <3>1. CASE t = s
      BY <1>0, <1>4, <1>7, <3>1
    <3>2. CASE t # s
      <4>1. cache'[r][t] = cache[r][t] /\ built'[n].slot # t
        BY <1>1, <1>3, <1>4, <3>2
      <4>2. /\ cache[r][t] # 0 => cache[r][t] \in Mine(u)
            /\ cache[r][t] = 0 => \A m \in Mine(u) : built[m].slot # t
        BY <1>0, <1>8 DEF Given
      <4> QED BY <1>7, <2>1, <4>1, <4>2
    <3> QED BY <3>1, <3>2
  <2> QED BY <1>0, <2>2, <2>3, <2>4 DEF Given
<1>12. Kept(u)'
  <2>1. n \notin Regular(u) /\ Regular(u) \subseteq Instance /\ Held(r)' = Held(handle[u])'
    BY <1>0, <1>1, <1>7 DEF Regular
  <2>2. CASE pc[u] = "open"
    <3>1. \A m \in Mine(u) : ~built[m].late /\ cleaner[m] = 0 /\ m \in Held(r)
      BY <1>0, <1>8, <2>2 DEF Kept
    <3>2. \A m \in Mine(u)' : ~built'[m].late /\ cleaner'[m] = 0 /\ m \in Held(r)'
      BY <1>1, <1>2, <1>3, <1>6, <1>7, <2>2, <3>1
    <3> QED BY <1>0, <2>1, <2>2, <3>2 DEF Kept
  <2>3. CASE pc[u] # "open"
    <3>1. /\ Regular(u)' = Regular(u) /\ \A m \in Regular(u) : cleaner'[m] = cleaner[m] /\ m # n
          /\ single'[r] \in {single[r], n} /\ Listed(r) \subseteq Listed(r)'
          /\ Listed(r)' \subseteq Listed(r) \cup {n}
      BY <1>2, <1>5, <1>7, <2>1, <2>3
    <3>2. Listed(handle[u])' = Listed(r)' /\ Listed(handle[u]) = Listed(r)
      BY <1>0 DEF Listed
    <3>3. /\ pc[u] \in {"closing", "running"} =>
                \A m \in Regular(u) : m # single[r] /\ (cleaner[m] = u \/ m \in Listed(r))
          /\ pc[u] \in {"single", "lone"} => \A m \in Regular(u) : m \notin Listed(r)
          /\ pc[u] = "lone" => \A m \in Regular(u) : m # single[r]
          /\ pc[u] \in {"single", "lone", "closed"} => \A m \in Regular(u) : cleaner[m] = u
      BY <1>0, <1>8, <3>2 DEF Kept
    <3>4. pc'[u] = pc[u] /\ single'[handle'[u]] = single'[r]
      BY <1>0
    <3> QED BY <2>3, <3>1, <3>2, <3>3, <3>4 DEF Kept
  <2> QED BY <2>2, <2>3
<1>13. ASSUME NEW q \in Resolver, Touches(u, q)
       PROVE  Tidy(q)'
  <2>1. q = r
    BY <1>0, <1>13 DEF Touches
  <2>2. ASSUME NEW m \in Held(r)
        PROVE  Over(m)' \/ InUse(m, r)'
    <3>1. built'[m] = built[m] /\ (Over(m) \/ InUse(m, r))
      BY <1>1, HeldIsInstance DEF Gil, Tidy
    <3> QED BY <1>0, <3>1 DEF Over, InUse, Using
  <2>3. InUse(n, r)'
    BY <1>0, <1>1, <1>3 DEF InUse, Using
  <2> QED BY <1>6, <2>1, <2>2, <2>3 DEF Tidy
<1>14. \A m \in Instance' : m \notin Instance \/ cleaner'[m] # cleaner[m] => Credit(m)'
  BY <1>1, <1>2 DEF Credit
<1>15. Fresh(u)'
  BY <1>0, <1>8 DEF Fresh
<1> QED BY <1>8, <1>9, <1>10, <1>11, <1>12, <1>13, <1>14, <1>15, GilFrom DEF Orderly

(* What is to be shown of the steps of an exit: they take things out of    *)
(* the unit's resolver only, and change Kept.                              *)
LEMMA ExitStep ==
    ASSUME TypeOK, TypeOK', Gil, NEW u \in Unit, Using(u), NEW r \in Resolver, r = handle[u],
           NEW label, label \notin {"idle", "open"}, Goto(u, label),
           UNCHANGED <<cache, handle, built, got>>,
           \/ Using(u)' /\ active' = active
           \/ label = "closed" /\ active' = [active EXCEPT ![r] = FALSE]
                /\ \A n \in Regular(u) : n \notin Held(r)',
           \A q \in Resolver \ {r} : single'[q] = single[q] /\ callbacks'[q] = callbacks[q],
           Held(r)' \subseteq Held(r),
           \A n \in Instance : cleaner'[n] # cleaner[n] => n \in Held(r) /\ cleaner'[n] = u,
           Kept(u)'
    PROVE  Gil'
<1>1. /\ Instance' = Instance /\ Mine(u)' = Mine(u) /\ Regular(u)' = Regular(u)
      /\ Given(u) /\ pc'[u] = label /\ \A v \in Unit \ {u} : pc'[v] = pc[v]
      /\ pc[u] # "closed"
  BY DEF Goto, TypeOK, Instance, Mine, Regular, Gil, Orderly, Using
<1>2. Serving'
  BY <1>1, ServingKept
<1>3. ASSUME NEW n \in Held(r)
      PROVE  n \in Instance /\ built[n].unit \in Unit /\ (built[n].unit = u \/ Over(n))
  BY HeldIsInstance, BuiltIs, HeldByUnit
<1>4. ASSUME NEW n \in Held(r), Over(n)
      PROVE  Over(n)'
  BY <1>1, <1>3, <1>4 DEF Over
<1>5. OwnStep(u)
  <2>1. \A q \in Resolver : ~Touches(u, q) => q # r
    BY DEF Touches
  <2>2. \A n \in Instance : cleaner'[n] # cleaner[n] => built[n].unit = u \/ built[n].late
    BY <1>3 DEF Over
  <2> QED BY <1>1, <2>1, <2>2 DEF OwnStep
<1>6. Orderly(u)'
  <2>1. Given(u)'
    BY <1>1 DEF Given
  <2>2. Fresh(u)'
    BY <1>1 DEF Fresh
  <2> QED BY <2>1, <2>2 DEF Orderly
<1>7. ASSUME NEW q \in Resolver, Touches(u, q)
      PROVE  Tidy(q)'
  <2>1. q = r
    BY <1>7 DEF Touches
  <2>2. ASSUME NEW n \in Held(r)', ~Over(n)'
        PROVE  InUse(n, r)'
    <3>1. n \in Held(r) /\ n \in Instance /\ built[n].unit = u
      BY <1>3, <1>4, <2>2
    <3>2. CASE Using(u)'
      BY <3>1, <3>2 DEF InUse
    <3>3. CASE label = "closed" /\ \A m \in Regular(u) : m \notin Held(r)'
      <4>1. n \notin Regular(u)
        BY <2>2, <3>3
      <4>2. built[n].late
        BY <3>1, <4>1 DEF Regular, Mine
      <4> QED BY <1>1, <2>2, <3>1, <3>3, <4>2 DEF Over
    <3> QED BY <3>2, <3>3
  <2> QED BY <2>1, <2>2 DEF Tidy
<1>8. ASSUME NEW n \in Instance', n \notin Instance \/ cleaner'[n] # cleaner[n]
      PROVE  Credit(n)'
  <2>1. n \in Held(r) /\ cleaner'[n] = u
    BY <1>1, <1>8
  <2> QED BY <1>3, <1>4, <2>1 DEF Credit
<1> QED BY <1>1, <1>2, <1>5, <1>6, <1>7, <1>8, GilFrom

LEMMA BeginStep ==
    ASSUME TypeOK, TypeOK', Gil, NEW u \in Unit, BeginExit(u)
    PROVE  Gil'
<1>0. PICK r \in Resolver :
         /\ r = handle[u] /\ pc[u] = "open" /\ Goto(u, "closing")
         /\ callbacks' = IF single[r] = 0 THEN callbacks
                         ELSE [callbacks EXCEPT ![r] = Append(callbacks[r], single[r])]
         /\ single' = [single EXCEPT ![r] = 0]
         /\ UNCHANGED <<active, cache, handle, built, got, cleaner>>
  <2>1. handle[u] \in Resolver
    BY DEF TypeOK
  <2> QED BY <2>1 DEF BeginExit, events
<1>1. /\ pc'[u] = "closing" /\ single'[r] = 0 /\ Using(u) /\ Using(u)'
      /\ \A q \in Resolver \ {r} : single'[q] = single[q] /\ callbacks'[q] = callbacks[q]
      /\ 0 \notin Instance
  BY <1>0, HeldIsInstance DEF Goto, TypeOK, Using
<1>2. Listed(r)' = Held(r)
  <2>1. CASE single[r] = 0
    BY <1>0, <2>1 DEF Listed, Held
  <2>2. CASE single[r] # 0
    <3>1. callbacks[r] \in Seq(Instance) /\ single[r] \in Instance /\ callbacks'[r] = Append(callbacks[r], single[r])
      BY <1>0, <2>2 DEF TypeOK
    <3>2. {callbacks'[r][i] : i \in DOMAIN callbacks'[r]} =
             {callbacks[r][i] : i \in DOMAIN callbacks[r]} \cup {single[r]}
      BY ONLY <3>1, Growing
    <3> QED BY <2>2, <3>2 DEF Listed, Held
  <2> QED BY <2>1, <2>2
<1>3. Held(r)' = Held(r)
  BY <1>1, <1>2 DEF Held
<1>4. Kept(u)'
  <2>1. \A n \in Mine(u) : n \in Held(r)
    BY <1>0 DEF Gil, Orderly, Kept
  <2>2. Regular(u)' = Regular(u) /\ Regular(u) \subseteq Mine(u) /\ Regular(u) \subseteq Instance
    BY <1>0 DEF Regular, Mine, Instance
  <2>3. \A n \in Regular(u)' : n # single'[r] /\ n \in Listed(r)'
    BY <1>1, <1>2, <2>1, <2>2
  <2> QED BY <1>0, <1>1, <2>3 DEF Kept
<1> QED BY <1>0, <1>1, <1>3, <1>4, ExitStep

LEMMA FieldStep ==
    ASSUME TypeOK, TypeOK', Gil, NEW u \in Unit, CleanField(u)
    PROVE  Gil'
<1>0. PICK r \in Resolver :
         /\ r = handle[u] /\ pc[u] = "open" /\ Goto(u, "single")
         /\ single[r] # 0 /\ callbacks[r] = <<>>
         /\ cleaner' = [cleaner EXCEPT ![single[r]] = u]
         /\ UNCHANGED <<active, cache, single, callbacks, handle, built, got>>
  <2>1. handle[u] \in Resolver
    BY DEF TypeOK
  <2> QED BY <2>1 DEF CleanField, pool
<1>1. /\ pc'[u] = "single" /\ Using(u) /\ Using(u)'
      /\ Listed(r) = {} /\ Listed(r)' = Listed(r) /\ Held(r) = {single[r]} /\ Held(r)' = Held(r)
      /\ single[r] \in Instance
  BY <1>0 DEF Goto, TypeOK, Using, Listed, Held
<1>2. \A n \in Instance : IF n = single[r] THEN cleaner'[n] = u ELSE cleaner'[n] = cleaner[n]
  BY <1>0 DEF TypeOK
<1>3. Kept(u)'
  <2>1. \A n \in Mine(u) : n \in Held(r)
    BY <1>0 DEF Gil, Orderly, Kept
  <2>2. Regular(u)' = Regular(u) /\ Regular(u) \subseteq Mine(u) /\ Regular(u) \subseteq Instance
    BY <1>0 DEF Regular, Mine, Instance
  <2>3. \A n \in Regular(u)' : n \notin Listed(r)' /\ cleaner'[n] = u
    BY <1>1, <1>2, <2>1, <2>2
  <2> QED BY <1>0, <1>1, <2>3 DEF Kept
<1> QED BY <1>0, <1>1, <1>2, <1>3, ExitStep

(* One cleanup is popped: what is left is what was in the list without it. *)
LEMMA PopStep ==
    ASSUME TypeOK, TypeOK', Gil, NEW u \in Unit, NEW label, PopTo(u, label),
           \/ label = "lone" /\ pc[u] = "open" /\ Alone(handle[u])
           \/ label = "running" /\ InLoop(u)
    PROVE  Gil'
<1>0. PICK r \in Resolver, t \in Seq(Instance), w \in Seq(Instance) :
         /\ r = handle[u] /\ t = callbacks[r] /\ t # <<>> /\ Goto(u, label)
         /\ w = SubSeq(t, 1, Len(t) - 1) /\ callbacks' = [callbacks EXCEPT ![r] = w]
         /\ cleaner' = [cleaner EXCEPT ![t[Len(t)]] = u]
         /\ UNCHANGED <<active, cache, single, handle, built, got>>
  <2>1. handle[u] \in Resolver /\ callbacks[handle[u]] \in Seq(Instance)
    BY DEF TypeOK
  <2>2. LET list == callbacks[handle[u]]
        IN  list # <<>> /\ SubSeq(list, 1, Len(list) - 1) \in Seq(Instance)
    BY <2>1 DEF PopTo
  <2> QED BY <2>1, <2>2 DEF PopTo
<1>1. PICK n \in Instance :
         /\ n = t[Len(t)] /\ Listed(r) = Listed(r)' \cup {n} /\ (Len(t) = 1 => Listed(r)' = {})
  <2>1. t[Len(t)] \in Instance
    BY <1>0
  <2>2. callbacks'[r] = w /\ callbacks[r] = t
    BY <1>0 DEF TypeOK
  <2>3. /\ {t[i] : i \in DOMAIN t} = {w[i] : i \in DOMAIN w} \cup {t[Len(t)]}
        /\ Len(t) = 1 => {w[i] : i \in DOMAIN w} = {}
    <3>1. t \in Seq(Instance) /\ t # <<>> /\ w = SubSeq(t, 1, Len(t) - 1)
      BY <1>0
    <3>2. Elements(t) = Elements(w) \cup {t[Len(t)]} /\ (Len(t) = 1 => Elements(w) = {})
      BY ONLY <3>1, Shrinking
    <3> QED BY <3>2 DEF Elements
  <2> QED BY <2>1, <2>2, <2>3 DEF Listed
<1>2. /\ pc'[u] = label /\ Using(u) /\ Using(u)' /\ single' = single
      /\ \A q \in Resolver \ {r} : callbacks'[q] = callbacks[q]
      /\ Held(r)' \subseteq Held(r) /\ n \in Held(r)
  BY <1>0, <1>1 DEF Goto, TypeOK, Using, Held, InLoop
<1>3. \A m \in Instance : IF m = n THEN cleaner'[m] = u ELSE cleaner'[m] = cleaner[m]
  BY <1>0, <1>1 DEF TypeOK
<1>4. Regular(u)' = Regular(u) /\ Regular(u) \subseteq Mine(u) /\ Regular(u) \subseteq Instance /\ Kept(u)
      /\ 0 \notin Instance
  BY <1>0, HeldIsInstance DEF Regular, Mine, Instance, Gil, Orderly
<1>5. Kept(u)'
  <2>1. CASE label = "lone" /\ pc[u] = "open" /\ Alone(handle[u])
    <3>1. single[r] = 0 /\ Len(t) = 1
      BY <1>0, <2>1 DEF Alone
    <3>2. \A m \in Regular(u) : m \in Held(r)
      BY <1>0, <1>4, <2>1 DEF Kept
    <3>3. Held(r) = {n} /\ Listed(r)' = {}
      BY <1>1, <3>1 DEF Held
    <3>4. \A m \in Regular(u)' : m # single'[r] /\ m \notin Listed(r)' /\ cleaner'[m] = u
      BY <1>2, <1>3, <1>4, <3>1, <3>2, <3>3
    <3> QED BY <1>0, <1>2, <2>1, <3>4 DEF Kept
  <2>2. CASE label = "running" /\ InLoop(u)
    <3>1. \A m \in Regular(u) : m # single[r] /\ (cleaner[m] = u \/ m \in Listed(r))
      BY <1>0, <1>4, <2>2 DEF Kept, InLoop
    <3>2. \A m \in Regular(u)' : m # single'[r] /\ (cleaner'[m] = u \/ m \in Listed(r)')
      BY <1>1, <1>2, <1>3, <1>4, <3>1
    <3> QED BY <1>0, <1>2, <2>2, <3>2 DEF Kept
  <2> QED BY <2>1, <2>2
<1>6. label \notin {"idle", "open"}
  OBVIOUS
<1> QED BY <1>0, <1>2, <1>3, <1>5, <1>6, ExitStep

LEMMA EndStep ==
    ASSUME TypeOK, TypeOK', Gil, NEW u \in Unit, EndExit(u)
    PROVE  Gil'
<1>0. PICK r \in Resolver :
         /\ r = handle[u] /\ AtEnd(u) /\ Goto(u, "closed") /\ active' = [active EXCEPT ![r] = FALSE]
         /\ IF pc[u] = "single" THEN DropField(u, r) ELSE UNCHANGED <<single, cleaner>>
         /\ UNCHANGED <<cache, callbacks, handle, built, got>>
  <2>1. handle[u] \in Resolver
    BY DEF TypeOK
  <2> QED BY <2>1 DEF EndExit
<1>1. /\ pc'[u] = "closed" /\ Using(u) /\ Kept(u) /\ Regular(u)' = Regular(u)
      /\ Regular(u) \subseteq Instance
  BY <1>0 DEF Goto, TypeOK, Using, AtEnd, InLoop, Gil, Orderly, Regular, Mine, Instance
<1>2. /\ \A q \in Resolver \ {r} : single'[q] = single[q]
      /\ single'[r] = IF pc[u] = "single" THEN 0 ELSE single[r]
      /\ \A n \in Instance : cleaner'[n] # cleaner[n] => n = single[r] /\ cleaner[n] = 0 /\ cleaner'[n] = u
  BY <1>0 DEF DropField, TypeOK
<1>3. Listed(r)' = Listed(r) /\ Held(r)' \subseteq Held(r) /\ 0 \notin Instance
  BY <1>0, <1>2, HeldIsInstance DEF Listed, Held
<1>4. \A n \in Regular(u) : cleaner[n] = u /\ n \notin Held(r)'
  <2>1. CASE pc[u] \in {"single", "lone"}
    BY <1>0, <1>1, <1>2, <1>3, <2>1 DEF Kept, Held
  <2>2. CASE InLoop(u) /\ callbacks[handle[u]] = <<>>
    <3>1. Listed(r) = {}
      BY <1>0, <2>2, EmptyList
    <3> QED BY <1>0, <1>1, <1>2, <1>3, <2>2, <3>1 DEF Kept, Held, InLoop
  <2> QED BY <1>0, <2>1, <2>2 DEF AtEnd
<1>5. Kept(u)'
  <2>1. \A n \in Regular(u)' : cleaner'[n] = u
    BY <1>1, <1>2, <1>4
  <2> QED BY <1>1, <2>1 DEF Kept
<1>6. \A n \in Instance : cleaner'[n] # cleaner[n] => n \in Held(r) /\ cleaner'[n] = u
  BY <1>2, <1>3 DEF Held
<1> QED BY <1>0, <1>1, <1>2, <1>3, <1>4, <1>5, <1>6, ExitStep

LEMMA GilStep ==
    ASSUME TypeOK, TypeOK', Undisturbed, Gil, [Next]_vars
    PROVE  Gil'
<1>1. ASSUME NEW u \in Unit, UnitStep(u)
      PROVE  Gil'
  <2>0. OneStep /\ ~freeThreaded /\ pc[u] \notin {"checked", "reset", "popping", "alone"}
    BY DEF Undisturbed, OneStep, Gil, Serving, Using
  <2>1. ~(CheckPooled(u) \/ ResetPooled(u) \/ TakePooled(u) \/ SeeCallback(u) \/ PopFails(u))
    BY <2>0 DEF CheckPooled, ResetPooled, TakePooled, SeeCallback, PopFails
  <2>2. CASE EnterPooled(u) \/ EnterFresh(u)
    BY <2>2, EnterStep
  <2>3. ASSUME NEW s \in Slot, ResolveCached(u, s)
        PROVE  Gil'
    BY <2>3, CachedStep
  <2>4. ASSUME NEW s \in Slot, NEW inField \in BOOLEAN, ResolveNew(u, s, inField)
        PROVE  Gil'
    BY <2>4, NewStep
  <2>5. CASE BeginExit(u)
    BY <2>5, BeginStep
  <2>6. CASE CleanField(u)
    BY <2>6, FieldStep
  <2>7. CASE CleanAlone(u)
    BY <2>0, <2>7, PopStep DEF CleanAlone
  <2>8. CASE CleanOne(u)
    BY <2>0, <2>8, PopStep DEF CleanOne
  <2>9. CASE EndExit(u)
    BY <2>9, EndStep
  <2> QED BY <1>1, <2>1, <2>2, <2>3, <2>4, <2>5, <2>6, <2>7, <2>8, <2>9 DEF UnitStep
<1>2. CASE UNCHANGED vars
  <2>1. UNCHANGED <<active, cache, single, callbacks, handle, pc, built, got, cleaner>>
    BY <1>2 DEF vars, pool, events
  <2>2. /\ Instance' = Instance /\ \A u \in Unit : Mine(u)' = Mine(u) /\ Regular(u)' = Regular(u)
        /\ \A u \in Unit : Using(u)' = Using(u)
    BY <2>1 DEF Mine, Regular, Instance, Using
  <2>3. Serving'
    BY <2>1, <2>2 DEF Gil, Serving
  <2>4. \A r \in Resolver : Tidy(r)'
    BY <2>1 DEF Gil, Tidy, Held, Listed, Over, InUse, Using
  <2>5. \A n \in Instance' : Credit(n)'
    BY <2>1, <2>2 DEF Gil, Credit, Over
  <2>6. ASSUME NEW u \in Unit
        PROVE  Orderly(u)'
    <3>1. Fresh(u) /\ Given(u) /\ Kept(u)
      BY DEF Gil, Orderly
    <3>2. Fresh(u)'  BY <2>1, <2>2, <3>1 DEF Fresh
    <3>3. Given(u)'  BY <2>1, <2>2, <3>1 DEF Given
    <3>4. Kept(u)'  BY <2>1, <2>2, <3>1 DEF Kept, Held, Listed
    <3> QED BY <3>2, <3>3, <3>4 DEF Orderly
  <2> QED BY <2>3, <2>4, <2>5, <2>6 DEF Gil
<1> QED BY <1>1, <1>2 DEF Next, Done

THEOREM GilKept == Spec => [](Undisturbed => Gil)
<1> DEFINE Inv == Undisturbed => Gil
<1>1. Init => Inv  BY GilInitially
<1>2. TypeOK /\ TypeOK' /\ Inv /\ [Next]_vars => Inv'
  <2>1. [Next]_vars => UNCHANGED <<freeThreaded, finalisers>>
    BY DEF Next, Done, vars
  <2> QED BY <2>1, GilStep DEF Undisturbed
<1> HIDE DEF Inv
<1>3. Spec => []Inv
  BY <1>1, <1>2, TypeCorrect, PTL DEF Spec
<1> QED BY <1>3 DEF Inv

(* howto/patterns/request-scope.rst:31: where entering is one step, units  *)
(* of work that reuse the pooled resolver are handed what was built in     *)
(* them, and always the same instance of a slot.                           *)
THEOREM Isolation == Spec => []IsolationWithGil
<1>1. (Undisturbed => Gil) => IsolationWithGil
  <2> SUFFICES ASSUME Gil, NEW u \in Unit, NEW n \in got[u]
               PROVE  /\ built[n].unit = u
                      /\ \A m \in got[u] : built[m].slot = built[n].slot => m = n
    BY DEF IsolationWithGil, RequestIsolation, Isolated
  <2>1. /\ got[u] \subseteq Mine(u)
        /\ \A k, m \in Mine(u) : built[k].slot = built[m].slot => k = m
    BY DEF Gil, Orderly, Given
  <2> QED BY <2>1 DEF Mine
<1> QED BY <1>1, GilKept, PTL

(* Where entering is one step, no unit works with what was already cleaned *)
(* up.                                                                     *)
THEOREM Alive == Spec => []AliveWhileOpen
<1>1. (Undisturbed => Gil) => AliveWhileOpen
  <2> SUFFICES ASSUME Gil, NEW u \in Unit, pc[u] = "open", NEW n \in got[u]
               PROVE  cleaner[n] = 0
    BY DEF AliveWhileOpen
  <2>1. n \in Mine(u)
    BY DEF Gil, Orderly, Given
  <2> QED BY <2>1 DEF Gil, Orderly, Kept
<1> QED BY <1>1, GilKept, PTL

(* Where entering is one step, a unit that has left its block has cleaned  *)
(* up what was built in it; another unit only cleans what was built during *)
(* an exit, and when that exit is over.                                    *)
THEOREM Owned == Spec => []CleanedByOwner
<1>1. TypeOK /\ (Undisturbed => Gil) => CleanedByOwner
  <2> SUFFICES ASSUME TypeOK, Gil, NEW n \in Instance
               PROVE  LET owner == built[n].unit
                      IN  /\ cleaner[n] \notin {0, owner} => built[n].late /\ pc[owner] = "closed"
                          /\ pc[owner] = "closed" /\ ~built[n].late => cleaner[n] = owner
    BY DEF CleanedByOwner
  <2>1. Credit(n) /\ built[n].unit \in Unit
    BY BuiltIs DEF Gil
  <2>2. ASSUME pc[built[n].unit] = "closed", ~built[n].late
        PROVE  cleaner[n] = built[n].unit
    <3>1. n \in Regular(built[n].unit) /\ Kept(built[n].unit)
      BY <2>1, <2>2 DEF Regular, Mine, Gil, Orderly
    <3> QED BY <2>2, <3>1 DEF Kept
  <2> QED BY <2>1, <2>2 DEF Credit, Over
<1> QED BY <1>1, GilKept, TypeCorrect, PTL
=============================================================================
