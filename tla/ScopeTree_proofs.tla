------------------------- MODULE ScopeTree_proofs -------------------------
(***************************************************************************)
(* Proofs about ScopeTree, for any levels, any number of resolvers and any *)
(* acyclic graph of slots: the references of a resolver are the scopes it  *)
(* was opened in, what was opened is closed, slots resolve where their     *)
(* scopes are open, and the open generic wrappers open the same resolvers. *)
(*                                                                         *)
(* The plan of transitions, its stages, the way along the parents and the  *)
(* resolution of a slot are recursive functions.  For each, the solution   *)
(* is built up over the natural numbers, and what it computes follows by   *)
(* induction: the least counterexample is none.                            *)
(***************************************************************************)
EXTENDS ScopeTree, TLAPS, WellFoundedInduction, FiniteSetTheorems

-----------------------------------------------------------------------------
(* Numbers: a non-empty set of levels, or of lengths, has a least one.     *)
LEMMA Least ==
    ASSUME NEW T, T \subseteq Nat, T # {}
    PROVE  \E x \in T : \A y \in T : x <= y
<1> DEFINE R == OpToRel(<, Nat)
<1>1. IsWellFoundedOn(R, Nat)
  BY NatLessThanWellFounded
<1>2. \A x, y \in Nat : y < x => <<y, x>> \in R
  BY DEF OpToRel
<1> HIDE DEF R
<1>3. PICK x \in T : \A y \in T : <<y, x>> \notin R
  BY <1>1, WFMin
<1>4. ASSUME NEW y \in T
      PROVE  x <= y
  <2>1. x \in Nat /\ y \in Nat /\ ~(y < x)
    BY <1>2, <1>3
  <2> QED BY <2>1
<1> QED BY <1>4

LEMMA ShallowestIsLeast ==
    ASSUME NEW T, T \subseteq Nat, T # {}
    PROVE  Shallowest(T) \in T /\ \A k \in T : Shallowest(T) <= k
<1>1. \E x \in T : \A y \in T : x <= y
  BY Least
<1> QED BY <1>1 DEF Shallowest

LEMMA RootLevelIsLeast == RootLevel \in Levels /\ \A k \in Levels : RootLevel <= k
<1>1. \E x \in Levels : \A y \in Levels : x <= y
  BY Least, TreeAssumption
<1> QED BY <1>1 DEF RootLevel

-----------------------------------------------------------------------------
(* The way to a deeper level goes strictly down, does not overshoot, and   *)
(* passes over no level that is not skippable.                             *)
Passes(l, next) == \E m \in Levels \ skippable : l < m /\ m < next

LEMMA NextLevel ==
    ASSUME NEW l \in Levels, NEW target \in Levels, l < target
    PROVE  /\ NextOnTheWay(l, target) \in Levels
           /\ l < NextOnTheWay(l, target) /\ NextOnTheWay(l, target) <= target
           /\ ~Passes(l, NextOnTheWay(l, target))
<1>1. Levels \subseteq Nat /\ Deeper(l) \subseteq Levels /\ target \in Deeper(l)
  BY TreeAssumption DEF Deeper
<1>2. /\ ImmediateNext(l) \in Deeper(l)
      /\ \A k \in Deeper(l) : ImmediateNext(l) <= k
  <2>1. Deeper(l) \subseteq Nat /\ Deeper(l) # {}
    BY <1>1
  <2> QED BY <2>1, ShallowestIsLeast DEF ImmediateNext
<1>3. /\ DefaultNext(l) \in Deeper(l)
      /\ \A k \in Deeper(l) \ skippable : DefaultNext(l) <= k
  <2>1. CASE Deeper(l) \ skippable = {}
    BY <1>2, <2>1 DEF DefaultNext
  <2>2. CASE Deeper(l) \ skippable # {}
    <3>1. Deeper(l) \ skippable \subseteq Nat
      BY <1>1
    <3>2. /\ Shallowest(Deeper(l) \ skippable) \in Deeper(l) \ skippable
          /\ \A k \in Deeper(l) \ skippable : Shallowest(Deeper(l) \ skippable) <= k
      BY <2>2, <3>1, ShallowestIsLeast
    <3> QED BY <2>2, <3>2 DEF DefaultNext
  <2> QED BY <2>1, <2>2
<1>4. CASE NextOnTheWay(l, target) = ImmediateNext(l)
  <2>1. ImmediateNext(l) \in Levels /\ l < ImmediateNext(l) /\ ImmediateNext(l) <= target
    BY <1>1, <1>2 DEF Deeper
  <2>2. \A m \in Levels : l < m => ImmediateNext(l) <= m
    BY <1>2 DEF Deeper
  <2>3. ~Passes(l, ImmediateNext(l))
    <3> SUFFICES ASSUME NEW m \in Levels \ skippable, l < m, m < ImmediateNext(l) PROVE FALSE
      BY DEF Passes
    <3>1. m \in Nat /\ ImmediateNext(l) \in Nat /\ ImmediateNext(l) <= m
      BY <1>1, <2>1, <2>2
    <3> QED BY <3>1
  <2> QED BY <1>4, <2>1, <2>3
<1>5. CASE NextOnTheWay(l, target) = DefaultNext(l) /\ DefaultNext(l) <= target
  <2>1. DefaultNext(l) \in Levels /\ l < DefaultNext(l)
    BY <1>3 DEF Deeper
  <2>2. \A m \in Levels \ skippable : l < m => DefaultNext(l) <= m
    BY <1>3 DEF Deeper
  <2>3. ~Passes(l, DefaultNext(l))
    <3> SUFFICES ASSUME NEW m \in Levels \ skippable, l < m, m < DefaultNext(l) PROVE FALSE
      BY DEF Passes
    <3>1. m \in Nat /\ DefaultNext(l) \in Nat /\ DefaultNext(l) <= m
      BY <1>1, <2>1, <2>2
    <3> QED BY <3>1
  <2> QED BY <1>5, <2>1, <2>3
<1> QED BY <1>4, <1>5 DEF NextOnTheWay

\* The level before the i-th of the plan p.
Before(from, p, i) == IF i = 1 THEN from ELSE p[i - 1]

\* p leads from that level to the target.
Way(from, target, p) ==
    /\ p \in Seq(Levels)
    /\ p = <<>> => from = target
    /\ p # <<>> => p[Len(p)] = target
    /\ \A i \in 1..Len(p) : /\ Before(from, p, i) \in Levels
                            /\ Before(from, p, i) < p[i] /\ p[i] <= target
                            /\ ~Passes(Before(from, p, i), p[i])
                            /\ p[i] = NextOnTheWay(Before(from, p, i), target)

LEMMA WayFrom ==
    ASSUME NEW l \in Levels, NEW target \in Levels, l < target,
           NEW q, Way(NextOnTheWay(l, target), target, q)
    PROVE  Way(l, target, <<NextOnTheWay(l, target)>> \o q)
<1> DEFINE next == NextOnTheWay(l, target)
           p == <<next>> \o q
<1>1. next \in Levels /\ l < next /\ next <= target /\ ~Passes(l, next)
  BY NextLevel
<1>2. q \in Seq(Levels)
  BY DEF Way
<1>3. next = NextOnTheWay(l, target)
  OBVIOUS
<1> HIDE DEF next
<1>4. /\ p \in Seq(Levels) /\ Len(p) = Len(q) + 1 /\ p[1] = next
      /\ \A i \in 1..Len(q) : p[i + 1] = q[i]
  BY <1>1, <1>2
<1> HIDE DEF p
<1>5. p # <<>> /\ p[Len(p)] = target
  <2>1. CASE q = <<>>
    BY <1>3, <1>4, <2>1 DEF Way
  <2>2. CASE q # <<>>
    <3>1. Len(q) \in 1..Len(q)
      BY <1>2, <2>2
    <3>2. p[Len(q) + 1] = q[Len(q)]
      BY <1>4, <3>1
    <3> QED BY <1>3, <1>4, <2>2, <3>2 DEF Way
  <2> QED BY <2>1, <2>2
<1>6. ASSUME NEW i \in 1..Len(p)
      PROVE  /\ Before(l, p, i) \in Levels
             /\ Before(l, p, i) < p[i] /\ p[i] <= target
             /\ ~Passes(Before(l, p, i), p[i])
             /\ p[i] = NextOnTheWay(Before(l, p, i), target)
  <2>1. CASE i = 1
    BY <1>1, <1>3, <1>4, <2>1 DEF Before
  <2>2. CASE i # 1
    <3>1. PICK j \in 1..Len(q) : i = j + 1
      <4>1. i - 1 \in 1..Len(q)
        BY <1>2, <1>4, <2>2
      <4> QED BY <4>1
    <3>2. p[i] = q[j]
      BY <1>4, <3>1
    <3>3. Before(l, p, i) = Before(next, q, j)
      <4>1. CASE j = 1
        BY <1>4, <3>1, <4>1 DEF Before
      <4>2. CASE j # 1
        <5>1. j - 1 \in 1..Len(q) /\ i - 1 = (j - 1) + 1
          BY <1>2, <3>1, <4>2
        <5>2. p[i - 1] = q[j - 1]
          BY <1>4, <5>1
        <5> QED BY <2>2, <4>2, <5>2 DEF Before
      <4> QED BY <4>1, <4>2
    <3> QED BY <1>3, <3>2, <3>3 DEF Way
  <2> QED BY <2>1, <2>2
<1>7. Way(l, target, p)
  BY <1>4, <1>5, <1>6 DEF Way
<1> QED BY <1>3, <1>7 DEF p

(* The transition plan is such a way.  The recursion on the levels that    *)
(* lie before the target has a solution, built up from the target.         *)
LEMMA PlanIsWay ==
    ASSUME NEW from \in Levels, NEW target \in Levels, from <= target
    PROVE  Way(from, target, TransitionPlan(from, target))
<1> DEFINE D == {k \in Levels : from <= k /\ k <= target}
           next(l) == NextOnTheWay(l, target)
           Rule(f) == f = [l \in D |-> IF l = target THEN <<>> ELSE <<next(l)>> \o f[next(l)]]
           Upto(f, m) == \A l \in D : target - l <= m =>
                            f[l] = IF l = target THEN <<>> ELSE <<next(l)>> \o f[next(l)]
           Bad == {m \in Nat : ~\E f : Upto(f, m)}
<1>1. Levels \subseteq Nat /\ from \in D /\ target \in D
  BY TreeAssumption
<1>2. \A l \in D : l # target => l < target /\ next(l) \in D /\ l < next(l)
  <2> SUFFICES ASSUME NEW l \in D, l # target PROVE l < target /\ next(l) \in D /\ l < next(l)
    OBVIOUS
  <2>1. l \in Levels /\ l < target
    BY <1>1
  <2>2. next(l) \in Levels /\ l < next(l) /\ next(l) <= target
    BY <2>1, NextLevel
  <2> HIDE DEF next
  <2>3. l \in Nat /\ next(l) \in Nat /\ from \in Nat /\ from <= l
    BY <1>1, <2>1, <2>2
  <2> QED BY <2>1, <2>2, <2>3
<1>3. \A l \in D : l \in Nat /\ l <= target
  BY <1>1
<1> HIDE DEF D
<1>4. \A m \in Nat : \E f : Upto(f, m)
  <2> SUFFICES ASSUME Bad # {} PROVE FALSE
    OBVIOUS
  <2>1. PICK b \in Bad : \A y \in Bad : b <= y
    <3>1. Bad \subseteq Nat
      OBVIOUS
    <3> HIDE DEF Bad
    <3> QED BY <3>1, Least
  <2>2. b \in Nat /\ ~\E f : Upto(f, b)
    OBVIOUS
  <2>3. CASE b = 0
    <3> DEFINE g == [l \in D |-> <<>>]
    <3>1. Upto(g, 0)
      <4> SUFFICES ASSUME NEW l \in D, target - l <= 0 PROVE l = target /\ g[l] = <<>>
        OBVIOUS
      <4>1. l = target
        BY <1>1, <1>3
      <4> QED BY <4>1
    <3> HIDE DEF g, Upto
    <3> QED BY <2>2, <2>3, <3>1
  <2>4. CASE b # 0
    <3>1. b - 1 \in Nat /\ b - 1 \notin Bad
      <4>1. b - 1 \in Nat /\ ~(b <= b - 1)
        BY <2>2, <2>4
      <4> HIDE DEF Bad
      <4> QED BY <2>1, <4>1
    <3>2. PICK f : Upto(f, b - 1)
      BY <3>1
    <3> DEFINE g == [l \in D |-> IF l = target THEN <<>> ELSE <<next(l)>> \o f[next(l)]]
    <3>3. Upto(g, b)
      <4> SUFFICES ASSUME NEW l \in D, target - l <= b, l # target
                   PROVE  g[l] = <<next(l)>> \o g[next(l)]
        OBVIOUS
      <4>1. next(l) \in D /\ target - next(l) <= b - 1
        <5> HIDE DEF next, Bad
        <5>1. next(l) \in D /\ l < next(l) /\ next(l) \in Nat /\ l \in Nat /\ target \in Nat
          BY <1>1, <1>2, <1>3
        <5> QED BY <2>2, <5>1
      <4>2. f[next(l)] = g[next(l)]
        BY <3>2, <4>1
      <4> QED BY <4>2
    <3> HIDE DEF g, Upto
    <3> QED BY <2>2, <3>3
  <2> QED BY <2>3, <2>4
<1>5. \E f : Rule(f)
  <2>1. PICK f : Upto(f, target)
    BY <1>1, <1>4
  <2> DEFINE g == [l \in D |-> IF l = target THEN <<>> ELSE <<next(l)>> \o f[next(l)]]
  <2>2. \A l \in D : f[l] = g[l]
    <3> SUFFICES ASSUME NEW l \in D PROVE f[l] = g[l]
      OBVIOUS
    <3>1. target - l <= target
      BY <1>1, <1>3
    <3> QED BY <2>1, <3>1
  <2>3. \A l \in D : (IF l = target THEN <<>> ELSE <<next(l)>> \o f[next(l)])
                     = IF l = target THEN <<>> ELSE <<next(l)>> \o g[next(l)]
    <3> HIDE DEF next, g
    <3> QED BY <1>2, <2>2
  <2>4. Rule(g)
    BY <2>3
  <2> QED BY <2>4
<1> DEFINE plan == CHOOSE f : Rule(f)
<1>6. TransitionPlan(from, target) = plan[from]
  BY DEF TransitionPlan, D
<1>7. Rule(plan)
  <2> HIDE DEF Rule
  <2> QED BY <1>5
<1> HIDE DEF plan
<1>8. \A l \in D : plan[l] = IF l = target THEN <<>> ELSE <<next(l)>> \o plan[next(l)]
  BY <1>7
<1> HIDE DEF Rule
<1> DEFINE Stray == {m \in Nat : \E l \in D : m = target - l /\ ~Way(l, target, plan[l])}
<1>9. Stray = {}
  <2> SUFFICES ASSUME Stray # {} PROVE FALSE
    OBVIOUS
  <2>1. PICK b \in Stray : \A y \in Stray : b <= y
    <3>1. Stray \subseteq Nat
      OBVIOUS
    <3> HIDE DEF Stray
    <3> QED BY <3>1, Least
  <2>2. PICK l \in D : b = target - l /\ ~Way(l, target, plan[l])
    OBVIOUS
  <2>3. CASE l = target
    <3>1. plan[l] = <<>>
      BY <1>8, <2>3
    <3>2. Way(target, target, <<>>)
      <4>1. <<>> \in Seq(Levels) /\ Len(<<>>) = 0
        OBVIOUS
      <4> QED BY <4>1 DEF Way
    <3> QED BY <2>2, <2>3, <3>1, <3>2
  <2>4. CASE l # target
    <3>1. next(l) \in D /\ l < next(l) /\ l < target /\ l \in Levels
      BY <1>2, <2>4 DEF D
    <3>2. target - next(l) \in Nat /\ ~(b <= target - next(l))
      <4> HIDE DEF next, Stray
      <4>1. /\ l \in Nat /\ next(l) \in Nat /\ target \in Nat
            /\ l < next(l) /\ next(l) <= target /\ b = target - l
        BY <1>1, <1>3, <2>2, <3>1
      <4> QED BY <4>1
    <3>3. Way(next(l), target, plan[next(l)])
      BY <2>1, <3>1, <3>2
    <3>4. Way(l, target, <<next(l)>> \o plan[next(l)])
      BY <3>1, <3>3, WayFrom
    <3> QED BY <1>8, <2>2, <2>4, <3>4
  <2> QED BY <2>3, <2>4
<1>10. \A l \in D : Way(l, target, plan[l])
  <2> SUFFICES ASSUME NEW l \in D PROVE Way(l, target, plan[l])
    OBVIOUS
  <2>1. target - l \in Nat
    BY <1>1, <1>3
  <2> QED BY <1>9, <2>1
<1> QED BY <1>1, <1>6, <1>10

-----------------------------------------------------------------------------
(* What a tree of resolvers looks like: every resolver but the root has an *)
(* older parent of a shallower level, its own references are those of the  *)
(* parent and itself, and no mandatory level is missing among them.        *)
Resolver == [level : Levels, parent : Nat, ref : [Levels -> Nat], owned : Seq(Nat),
             active : BOOLEAN]

\* r is what resolver n of the tree may be.
Fits(nodes, n, r) ==
    /\ r.parent \in 0..(n - 1)
    /\ n = Root => r.level = RootLevel /\ r.parent = Missing
    /\ n # Root => r.parent # Missing /\ nodes[r.parent].level < r.level
    /\ \A l \in Levels :
        /\ r.ref[l] = IF r.level = l THEN n
                      ELSE IF r.parent = Missing THEN Missing ELSE nodes[r.parent].ref[l]
        /\ r.ref[l] \in 0..n /\ (r.level # l => r.ref[l] # n)
        /\ l > r.level => r.ref[l] = Missing
        /\ r.ref[l] # Missing => l <= r.level /\ (r.ref[l] # n => nodes[r.ref[l]].level = l)
        /\ l \notin skippable /\ l <= r.level => r.ref[l] # Missing
    /\ r.ref[RootLevel] = Root

Tree(nodes) ==
    /\ nodes \in Seq(Resolver) /\ Len(nodes) > 0
    /\ \A n \in 1..Len(nodes) : Fits(nodes, n, nodes[n])

\* The tree `after` is the tree `nodes` with resolvers opened in it.
Extends(nodes, after) ==
    /\ Len(nodes) <= Len(after)
    /\ \A n \in 1..Len(nodes) : after[n] = nodes[n]
    /\ \A n \in (Len(nodes) + 1)..Len(after) : after[n].owned = <<>>

LEMMA OpenedResolver ==
    ASSUME NEW nodes, Tree(nodes), NEW m \in 1..Len(nodes), NEW level \in Levels,
           nodes[m].level < level
    PROVE  /\ Open(nodes, m, level) \in Seq(Resolver)
           /\ Len(Open(nodes, m, level)) = Len(nodes) + 1
           /\ \A n \in 1..Len(nodes) : Open(nodes, m, level)[n] = nodes[n]
           /\ LET r == Open(nodes, m, level)[Len(nodes) + 1]
              IN  /\ r.level = level /\ r.parent = m /\ r.owned = <<>>
                  /\ \A l \in Levels :
                        r.ref[l] = IF l = RootLevel THEN Root
                                   ELSE IF l = level THEN Len(nodes) + 1
                                   ELSE IF l > level \/ nodes[m].level = RootLevel THEN Missing
                                   ELSE IF l = nodes[m].level THEN m ELSE nodes[m].ref[l]
<1> DEFINE ref == [l \in Levels |->
                     IF l = RootLevel THEN Root
                     ELSE IF l = level THEN Len(nodes) + 1
                     ELSE IF l > level \/ nodes[m].level = RootLevel THEN Missing
                     ELSE IF l = nodes[m].level THEN m ELSE nodes[m].ref[l]]
           r == [level |-> level, parent |-> m, ref |-> ref, owned |-> <<>>, active |-> TRUE]
<1>1. Open(nodes, m, level) = Append(nodes, r)
  BY DEF Open
<1>2. nodes \in Seq(Resolver) /\ Len(nodes) \in Nat
  BY DEF Tree
<1>3. ref \in [Levels -> Nat]
  <2>1. nodes[m].ref \in [Levels -> Nat]
    <3>1. nodes[m] \in Resolver
      BY <1>2
    <3> QED BY <3>1 DEF Resolver
  <2> QED BY <1>2, <2>1 DEF Root, Missing
<1> HIDE DEF ref
<1>4. r \in Resolver
  <2>1. <<>> \in Seq(Nat)
    OBVIOUS
  <2>2. m \in Nat
    BY <1>2
  <2> QED BY <1>3, <2>1, <2>2 DEF Resolver
<1>5. r.level = level /\ r.parent = m /\ r.owned = <<>> /\ r.ref = ref
  OBVIOUS
<1> HIDE DEF r
<1>6. /\ Append(nodes, r) \in Seq(Resolver) /\ Len(Append(nodes, r)) = Len(nodes) + 1
      /\ \A n \in 1..Len(nodes) : Append(nodes, r)[n] = nodes[n]
      /\ Append(nodes, r)[Len(nodes) + 1] = r
  BY <1>2, <1>4
<1> QED BY <1>1, <1>5, <1>6 DEF ref

LEMMA OpenKeepsTree ==
    ASSUME NEW nodes, Tree(nodes), NEW m \in 1..Len(nodes), NEW level \in Levels,
           nodes[m].level < level, ~Passes(nodes[m].level, level)
    PROVE  Tree(Open(nodes, m, level)) /\ Extends(nodes, Open(nodes, m, level))
<1> DEFINE after == Open(nodes, m, level)
           new == Len(nodes) + 1
<1>1. /\ after \in Seq(Resolver) /\ Len(after) = new
      /\ \A n \in 1..Len(nodes) : after[n] = nodes[n]
      /\ after[new].level = level /\ after[new].parent = m /\ after[new].owned = <<>>
      /\ \A l \in Levels :
           after[new].ref[l] = IF l = RootLevel THEN Root
                               ELSE IF l = level THEN new
                               ELSE IF l > level \/ nodes[m].level = RootLevel THEN Missing
                               ELSE IF l = nodes[m].level THEN m ELSE nodes[m].ref[l]
  BY OpenedResolver
<1> HIDE DEF after
<1>2. nodes \in Seq(Resolver) /\ Len(nodes) \in Nat /\ Len(nodes) > 0 /\ m \in 1..Len(nodes)
  BY DEF Tree
<1>3. \A n \in 1..Len(nodes) : Fits(nodes, n, nodes[n])
  BY DEF Tree
<1>4. /\ Levels \subseteq Nat /\ nodes[m] \in Resolver
      /\ RootLevel \in Levels /\ \A k \in Levels : RootLevel <= k
  BY <1>2, RootLevelIsLeast, TreeAssumption
<1>5. ASSUME NEW n \in 1..Len(nodes)
      PROVE  Fits(after, n, after[n])
  <2> DEFINE r == nodes[n]
  <2>1. after[n] = r /\ r \in Resolver /\ Fits(nodes, n, r)
    BY <1>1, <1>2, <1>3
  <2>2. \A k \in 1..n : after[k] = nodes[k]
    BY <1>1, <1>2
  <2>3. r.parent # Missing => after[r.parent] = nodes[r.parent]
    BY <2>1, <2>2, <1>2 DEF Fits, Missing
  <2>4. \A l \in Levels : r.ref[l] # Missing => after[r.ref[l]] = nodes[r.ref[l]]
    <3> SUFFICES ASSUME NEW l \in Levels, r.ref[l] # Missing
                 PROVE  after[r.ref[l]] = nodes[r.ref[l]]
      OBVIOUS
    <3>1. r.ref[l] \in 1..n
      BY <2>1 DEF Fits, Missing
    <3> QED BY <2>2, <3>1
  <2> HIDE DEF r
  <2> QED BY <2>1, <2>3, <2>4 DEF Fits
<1>6. Fits(after, new, after[new])
  <2> DEFINE r == after[new]  p == nodes[m]
  <2>1. /\ p.parent \in 0..(m - 1) /\ p.ref[RootLevel] = Root
        /\ m = Root => p.level = RootLevel /\ p.parent = Missing
        /\ m # Root => p.parent # Missing /\ nodes[p.parent].level < p.level
        /\ \A l \in Levels :
            /\ p.ref[l] \in 0..m /\ (p.level # l => p.ref[l] # m)
            /\ p.level = l => p.ref[l] = m
            /\ p.parent = Missing /\ p.level # l => p.ref[l] = Missing
            /\ l > p.level => p.ref[l] = Missing
            /\ p.ref[l] # Missing /\ p.ref[l] # m => nodes[p.ref[l]].level = l
            /\ l \notin skippable /\ l <= p.level => p.ref[l] # Missing
    BY <1>3 DEF Fits
  <2>2. p.level \in Levels /\ RootLevel <= p.level /\ p.level < level /\ level # RootLevel
    BY <1>4 DEF Resolver
  <2>3. p.level = RootLevel => m = Root
    BY <2>1, <2>2
  <2>4. \A l \in Levels :
          r.ref[l] = IF l = level THEN new ELSE p.ref[l]
    <3> SUFFICES ASSUME NEW l \in Levels, l # level PROVE r.ref[l] = p.ref[l]
      BY <1>1, <2>2
    <3>1. CASE l = RootLevel
      BY <1>1, <2>1, <3>1
    <3>2. CASE l # RootLevel /\ l > level
      <4>1. l > p.level
        BY <1>4, <2>2, <3>2
      <4> QED BY <1>1, <2>1, <3>2, <4>1
    <3>3. CASE l # RootLevel /\ p.level = RootLevel
      BY <1>1, <2>1, <2>3, <3>3
    <3>4. CASE l # RootLevel /\ ~(l > level) /\ p.level # RootLevel
      BY <1>1, <2>1, <3>4
    <3> QED BY <3>1, <3>2, <3>3, <3>4
  <2>5. after[m] = p /\ \A k \in 1..m : after[k] = nodes[k]
    BY <1>1, <1>2
  <2>6. r.parent = m /\ r.level = level
    BY <1>1
  <2>7. \A l \in Levels : l <= level => l = level \/ l <= p.level \/ l \in skippable
    <3> SUFFICES ASSUME NEW l \in Levels \ skippable, l < level, p.level < l PROVE FALSE
      BY <1>4, <2>2
    <3> QED BY DEF Passes
  <2> HIDE DEF r, p
  <2>8. ASSUME NEW l \in Levels
        PROVE  /\ r.ref[l] = IF r.level = l THEN new
                             ELSE IF r.parent = Missing THEN Missing ELSE after[r.parent].ref[l]
               /\ r.ref[l] \in 0..new /\ (r.level # l => r.ref[l] # new)
               /\ l > r.level => r.ref[l] = Missing
               /\ r.ref[l] # Missing =>
                     l <= r.level /\ (r.ref[l] # new => after[r.ref[l]].level = l)
               /\ l \notin skippable /\ l <= r.level => r.ref[l] # Missing
    <3>1. CASE l = level
      BY <1>2, <1>4, <2>4, <2>6, <3>1 DEF Missing
    <3>2. CASE l # level
      <4>1. r.ref[l] = p.ref[l] /\ p.ref[l] \in 0..m
        BY <2>1, <2>4, <3>2
      <4>2. l > p.level => r.ref[l] = Missing
        BY <2>1, <4>1
      <4>3. r.ref[l] # Missing => l <= p.level /\ l <= level
        BY <1>4, <2>2, <4>2
      <4>4. p.ref[l] # Missing => after[p.ref[l]].level = l
        <5> SUFFICES ASSUME p.ref[l] # Missing PROVE after[p.ref[l]].level = l
          OBVIOUS
        <5>1. p.ref[l] \in 1..m
          BY <4>1 DEF Missing
        <5>2. CASE p.ref[l] = m
          <6>1. p.level = l
            BY <2>1, <5>2
          <6> QED BY <2>5, <5>2, <6>1
        <5>3. CASE p.ref[l] # m
          BY <2>1, <2>5, <5>1, <5>3
        <5> QED BY <5>2, <5>3
      <4>5. l \notin skippable /\ l <= level => r.ref[l] # Missing
        BY <2>1, <2>7, <3>2, <4>1
      <4> QED BY <1>2, <1>4, <2>2, <2>5, <2>6, <3>2, <4>1, <4>2, <4>3, <4>4, <4>5 DEF Missing
    <3> QED BY <3>1, <3>2
  <2>9. r.ref[RootLevel] = Root
    BY <1>4, <2>1, <2>2, <2>4
  <2>10. new # Root /\ r.parent \in 0..(new - 1) /\ r.parent # Missing
    BY <1>2, <2>6 DEF Root, Missing
  <2>11. after[r.parent].level < r.level
    BY <2>2, <2>5, <2>6
  <2>12. Fits(after, new, r)
    BY <2>8, <2>9, <2>10, <2>11 DEF Fits
  <2> QED BY <2>12 DEF r
<1>7. Tree(after)
  BY <1>1, <1>2, <1>5, <1>6 DEF Tree
<1>8. Extends(nodes, after)
  BY <1>1, <1>2 DEF Extends
<1> QED BY <1>7, <1>8 DEF after

-----------------------------------------------------------------------------
(* The stages of entering a scope: op[i] is the tree after i transitions.  *)
Stages(nodes, n, plan, op) ==
    /\ op[0] = nodes
    /\ \A i \in 1..Len(plan) :
        op[i] = Open(op[i - 1], IF i = 1 THEN n ELSE Len(op[i - 1]), plan[i])

LEMMA OpeningHasStages ==
    ASSUME NEW nodes, NEW n, NEW plan, Len(plan) \in Nat
    PROVE  \E op : Stages(nodes, n, plan, op) /\ Opening(nodes, n, plan) = op[Len(plan)]
<1> DEFINE D == 0..Len(plan)
           step(f, i) == IF i = 0 THEN nodes
                         ELSE Open(f[i - 1], IF i = 1 THEN n ELSE Len(f[i - 1]), plan[i])
           Rule(f) == f = [i \in D |-> step(f, i)]
           Upto(f, m) == \A i \in D : i <= m => f[i] = step(f, i)
           Bad == {m \in Nat : ~\E f : Upto(f, m)}
<1>1. \A f, g, i : f[i - 1] = g[i - 1] => step(f, i) = step(g, i)
  OBVIOUS
<1>2. \A f : step(f, 0) = nodes
  OBVIOUS
<1>3. \A f, i : i # 0 => step(f, i) = Open(f[i - 1], IF i = 1 THEN n ELSE Len(f[i - 1]), plan[i])
  OBVIOUS
<1> HIDE DEF step
<1>4. \A m \in Nat : \E f : Upto(f, m)
  <2> SUFFICES ASSUME Bad # {} PROVE FALSE
    OBVIOUS
  <2>1. PICK b \in Bad : \A y \in Bad : b <= y
    <3>1. Bad \subseteq Nat
      OBVIOUS
    <3> HIDE DEF Bad
    <3> QED BY <3>1, Least
  <2>2. b \in Nat /\ ~\E f : Upto(f, b)
    OBVIOUS
  <2>3. CASE b = 0
    <3> DEFINE g == [i \in D |-> nodes]
    <3>1. Upto(g, 0)
      <4> SUFFICES ASSUME NEW i \in D, i <= 0 PROVE g[i] = step(g, i)
        OBVIOUS
      <4>1. i = 0
        OBVIOUS
      <4> QED BY <1>2, <4>1
    <3> HIDE DEF g, Upto
    <3> QED BY <2>2, <2>3, <3>1
  <2>4. CASE b # 0
    <3>1. b - 1 \in Nat /\ b - 1 \notin Bad
      <4>1. b - 1 \in Nat /\ ~(b <= b - 1)
        BY <2>2, <2>4
      <4> HIDE DEF Bad
      <4> QED BY <2>1, <4>1
    <3>2. PICK f : Upto(f, b - 1)
      BY <3>1
    <3> DEFINE g == [i \in D |-> step(f, i)]
    <3>3. Upto(g, b)
      <4> SUFFICES ASSUME NEW i \in D, i <= b PROVE step(f, i) = step(g, i)
        OBVIOUS
      <4>1. CASE i = 0
        BY <1>2, <4>1
      <4>2. CASE i # 0
        <5>1. i - 1 \in D /\ i - 1 <= b - 1
          BY <2>2, <4>2
        <5>2. f[i - 1] = g[i - 1]
          BY <3>2, <5>1
        <5> QED BY <1>1, <5>2
      <4> QED BY <4>1, <4>2
    <3> HIDE DEF g, Upto
    <3> QED BY <2>2, <3>3
  <2> QED BY <2>3, <2>4
<1>5. \E f : Rule(f)
  <2>1. PICK f : Upto(f, Len(plan))
    BY <1>4
  <2> DEFINE g == [i \in D |-> step(f, i)]
  <2>2. \A i \in D : f[i] = g[i]
    <3> SUFFICES ASSUME NEW i \in D PROVE f[i] = step(f, i)
      OBVIOUS
    <3>1. i <= Len(plan)
      OBVIOUS
    <3> QED BY <2>1, <3>1
  <2>3. \A i \in D : step(f, i) = step(g, i)
    <3> SUFFICES ASSUME NEW i \in D PROVE step(f, i) = step(g, i)
      OBVIOUS
    <3>1. CASE i = 0
      BY <1>2, <3>1
    <3>2. CASE i # 0
      <4>1. i - 1 \in D
        BY <3>2
      <4>2. f[i - 1] = g[i - 1]
        BY <2>2, <4>1
      <4> QED BY <1>1, <4>2
    <3> QED BY <3>1, <3>2
  <2>4. Rule(g)
    BY <2>3
  <2> QED BY <2>4
<1> DEFINE op == CHOOSE f : Rule(f)
<1>6. Opening(nodes, n, plan) = op[Len(plan)]
  BY DEF Opening, step
<1>7. Rule(op)
  <2> HIDE DEF Rule
  <2> QED BY <1>5
<1> HIDE DEF op
<1>8. \A i \in D : op[i] = step(op, i)
  BY <1>7
<1>9. op[0] = nodes
  BY <1>2, <1>8
<1>10. \A i \in 1..Len(plan) :
         op[i] = Open(op[i - 1], IF i = 1 THEN n ELSE Len(op[i - 1]), plan[i])
  <2> SUFFICES ASSUME NEW i \in 1..Len(plan)
               PROVE  op[i] = Open(op[i - 1], IF i = 1 THEN n ELSE Len(op[i - 1]), plan[i])
    OBVIOUS
  <2>1. i \in D /\ i # 0
    OBVIOUS
  <2> QED BY <1>3, <1>8, <2>1
<1>11. Stages(nodes, n, plan, op)
  BY <1>9, <1>10 DEF Stages
<1> QED BY <1>6, <1>11

(* Every stage is a tree again, one resolver larger, and its newest        *)
(* resolver is of the level the plan says.                                 *)
Staged(nodes, plan, i, after) ==
    /\ Tree(after) /\ Extends(nodes, after) /\ Len(after) = Len(nodes) + i
    /\ i > 0 => after[Len(after)].level = plan[i]

LEMMA StagesAreTrees ==
    ASSUME NEW nodes, Tree(nodes), NEW n \in 1..Len(nodes),
           NEW from, from = nodes[n].level, NEW target, NEW plan, Way(from, target, plan),
           NEW op, Stages(nodes, n, plan, op)
    PROVE  \A i \in 0..Len(plan) : Staged(nodes, plan, i, op[i])
<1> USE DEF Staged
<1> DEFINE Good(i) == Staged(nodes, plan, i, op[i])
           Bad == {i \in 0..Len(plan) : ~Good(i)}
<1>1. nodes \in Seq(Resolver) /\ Len(nodes) \in Nat /\ Len(nodes) > 0
  BY DEF Tree
<1>2. plan \in Seq(Levels) /\ Len(plan) \in Nat
  BY DEF Way
<1>3. Good(0)
  <2>1. op[0] = nodes
    BY DEF Stages
  <2>2. Extends(nodes, nodes)
    BY <1>1 DEF Extends
  <2> QED BY <1>1, <2>1, <2>2
<1>4. ASSUME NEW i \in 1..Len(plan), Good(i - 1)
      PROVE  Good(i)
  <2> DEFINE last == op[i - 1]  m == IF i = 1 THEN n ELSE Len(last)
  <2>1. Tree(last) /\ Extends(nodes, last) /\ Len(last) = Len(nodes) + (i - 1)
    BY <1>4
  <2>2. op[i] = Open(last, m, plan[i])
    BY DEF Stages
  <2>3. m \in 1..Len(last) /\ last[m].level = Before(from, plan, i)
    <3>1. CASE i = 1
      <4>1. op[0] = nodes /\ i - 1 = 0
        BY <3>1 DEF Stages
      <4> QED BY <3>1, <4>1 DEF Before
    <3>2. CASE i # 1
      <4>1. i - 1 > 0
        BY <1>2, <3>2
      <4>2. last[Len(last)].level = plan[i - 1]
        BY <1>4, <4>1
      <4> QED BY <1>1, <1>2, <2>1, <3>2, <4>1, <4>2 DEF Before
    <3> QED BY <3>1, <3>2
  <2>4. /\ plan[i] \in Levels /\ last[m].level < plan[i] /\ ~Passes(last[m].level, plan[i])
    BY <1>2, <2>3 DEF Way
  <2> HIDE DEF last, m
  <2>5. /\ Tree(op[i]) /\ Extends(last, op[i]) /\ Len(op[i]) = Len(last) + 1
        /\ op[i][Len(last) + 1].level = plan[i]
    <3>1. Tree(Open(last, m, plan[i])) /\ Extends(last, Open(last, m, plan[i]))
      BY <2>1, <2>3, <2>4, OpenKeepsTree
    <3>2. /\ Len(Open(last, m, plan[i])) = Len(last) + 1
          /\ Open(last, m, plan[i])[Len(last) + 1].level = plan[i]
      BY <2>1, <2>3, <2>4, OpenedResolver
    <3> QED BY <2>2, <3>1, <3>2
  <2>6. Extends(nodes, op[i])
    <3>1. Len(last) \in Nat /\ Len(op[i]) = Len(last) + 1 /\ Len(nodes) <= Len(last)
      BY <1>1, <1>2, <2>1, <2>5
    <3>2. ASSUME NEW k \in 1..Len(nodes)
          PROVE  op[i][k] = nodes[k]
      <4>1. k \in 1..Len(last)
        BY <1>1, <3>1
      <4>2. op[i][k] = last[k] /\ last[k] = nodes[k]
        BY <2>1, <2>5, <4>1 DEF Extends
      <4> QED BY <4>2
    <3>3. ASSUME NEW k \in (Len(nodes) + 1)..Len(op[i])
          PROVE  op[i][k].owned = <<>>
      <4>1. CASE k <= Len(last)
        <5>1. k \in 1..Len(last) /\ k \in (Len(nodes) + 1)..Len(last)
          BY <1>1, <3>1, <3>3, <4>1
        <5>2. op[i][k] = last[k] /\ last[k].owned = <<>>
          BY <2>1, <2>5, <5>1 DEF Extends
        <5> QED BY <5>2
      <4>2. CASE ~(k <= Len(last))
        <5>1. k \in (Len(last) + 1)..Len(op[i])
          BY <1>1, <3>1, <3>3, <4>2
        <5> QED BY <2>5, <5>1 DEF Extends
      <4> QED BY <4>1, <4>2
    <3> QED BY <1>1, <3>1, <3>2, <3>3 DEF Extends
  <2>7. Len(op[i]) = Len(nodes) + i
    BY <1>1, <1>2, <2>1, <2>5
  <2> QED BY <2>1, <2>5, <2>6, <2>7
<1> HIDE DEF Good
<1>5. Bad = {}
  <2> SUFFICES ASSUME Bad # {} PROVE FALSE
    OBVIOUS
  <2>1. PICK b \in Bad : \A y \in Bad : b <= y
    <3>1. Bad \subseteq Nat
      BY <1>2
    <3> HIDE DEF Bad
    <3> QED BY <3>1, Least
  <2>2. b \in 1..Len(plan)
    BY <1>2, <1>3
  <2>3. b - 1 \notin Bad
    <3>1. b - 1 \in 0..Len(plan) /\ ~(b <= b - 1)
      BY <1>2, <2>2
    <3> HIDE DEF Bad
    <3> QED BY <2>1, <3>1
  <2>4. b - 1 \in 0..Len(plan)
    BY <1>2, <2>2
  <2>5. Good(b - 1)
    BY <2>3, <2>4
  <2> QED BY <1>4, <2>2, <2>5
<1> QED BY ONLY <1>5 DEF Good, Bad

LEMMA SameShape ==
    ASSUME NEW nodes, Tree(nodes), NEW after \in Seq(Resolver), Len(after) = Len(nodes),
           \A n \in 1..Len(nodes) : /\ after[n].level = nodes[n].level
                                    /\ after[n].parent = nodes[n].parent
                                    /\ after[n].ref = nodes[n].ref
    PROVE  Tree(after)
<1>1. nodes \in Seq(Resolver) /\ Len(nodes) \in Nat /\ Len(nodes) > 0
  BY DEF Tree
<1>2. ASSUME NEW n \in 1..Len(nodes)
      PROVE  Fits(after, n, after[n])
  <2> DEFINE r == nodes[n]
  <2>1. Fits(nodes, n, r)
    BY DEF Tree
  <2>2. after[n].level = r.level /\ after[n].parent = r.parent /\ after[n].ref = r.ref
    OBVIOUS
  <2>3. r.parent # Missing => r.parent \in 1..Len(nodes)
    BY <1>1, <2>1 DEF Fits, Missing
  <2>4. r.parent # Missing => /\ after[r.parent].level = nodes[r.parent].level
                              /\ after[r.parent].ref = nodes[r.parent].ref
    BY <2>3
  <2>5. \A l \in Levels : r.ref[l] # Missing => after[r.ref[l]].level = nodes[r.ref[l]].level
    <3> SUFFICES ASSUME NEW l \in Levels, r.ref[l] # Missing
                 PROVE  after[r.ref[l]].level = nodes[r.ref[l]].level
      OBVIOUS
    <3>1. r.ref[l] \in 1..Len(nodes)
      BY <1>1, <2>1 DEF Fits, Missing
    <3> QED BY <3>1
  <2> HIDE DEF r
  <2> QED BY <2>1, <2>2, <2>4, <2>5 DEF Fits
<1> QED BY <1>1, <1>2 DEF Tree

\* Entering a scope grows the tree.
LEMMA OpenedIsTree ==
    ASSUME Tree(node), NEW n \in Node, NEW target \in Deeper(node[n].level)
    PROVE  /\ Tree(Opened(node, n, target)) /\ Extends(node, Opened(node, n, target))
           /\ Len(Opened(node, n, target)) \in Nat
           /\ Len(node) < Len(Opened(node, n, target))
<1>1. node \in Seq(Resolver) /\ Node = 1..Len(node) /\ Len(node) \in Nat
  BY DEF Tree, Node
<1>2. node[n].level \in Levels /\ target \in Levels /\ node[n].level < target
  <2>1. node[n] \in Resolver
    BY <1>1
  <2> QED BY <2>1 DEF Resolver, Deeper
<1> DEFINE plan == TransitionPlan(node[n].level, target)
<1>3. node[n].level <= target /\ node[n].level # target
  <2>1. node[n].level \in Nat /\ target \in Nat
    BY <1>2, TreeAssumption
  <2> QED BY <1>2, <2>1
<1>4. Way(node[n].level, target, plan)
  BY <1>2, <1>3, PlanIsWay
<1> HIDE DEF plan
<1>5. plan \in Seq(Levels) /\ Len(plan) \in Nat /\ Len(plan) > 0
  <2>1. plan \in Seq(Levels) /\ plan # <<>>
    BY <1>3, <1>4 DEF Way
  <2> QED BY <2>1
<1>6. PICK op : Stages(node, n, plan, op) /\ Opening(node, n, plan) = op[Len(plan)]
  BY <1>5, OpeningHasStages
<1>7. /\ Tree(op[Len(plan)]) /\ Extends(node, op[Len(plan)])
      /\ Len(op[Len(plan)]) = Len(node) + Len(plan)
  <2>1. Len(plan) \in 0..Len(plan)
    BY <1>5
  <2>2. n \in 1..Len(node)
    BY <1>1
  <2>3. \A i \in 0..Len(plan) : /\ Tree(op[i]) /\ Extends(node, op[i])
                                /\ Len(op[i]) = Len(node) + i
    <3>1. Tree(node) /\ Way(node[n].level, target, plan) /\ Stages(node, n, plan, op)
      BY <1>4, <1>6
    <3>2. \A i \in 0..Len(plan) : Staged(node, plan, i, op[i])
      BY <2>2, <3>1, StagesAreTrees
    <3> QED BY <3>2 DEF Staged
  <2> QED BY <2>1, <2>3
<1>8. Opened(node, n, target) = op[Len(plan)]
  BY <1>6 DEF Opened, plan
<1> QED BY <1>1, <1>5, <1>7, <1>8

-----------------------------------------------------------------------------
(* The inductive invariant: the resolvers form such a tree, blocks and     *)
(* owners name resolvers of it, and every open resolver but the root is    *)
(* closed by some block that has not been left.                            *)
Closes(nodes, h, n) == n = h \/ \E i \in DOMAIN nodes[h].owned : nodes[h].owned[i] = n

Block == [handle : Nat, left : BOOLEAN]

Known ==
    /\ \A n \in Node : \A i \in DOMAIN node[n].owned : node[n].owned[i] \in Node
    /\ block \in Seq(Block)
    /\ \A k \in DOMAIN block : block[k].handle \in Node

Held ==
    \A n \in Node \ {Root} : node[n].active =>
        \E k \in DOMAIN block : ~block[k].left /\ Closes(node, block[k].handle, n)

IInv == skippable \subseteq Levels /\ Tree(node) /\ Known /\ Held

LEMMA IInvInit == Init => IInv
<1> SUFFICES ASSUME Init PROVE IInv
  OBVIOUS
<1> DEFINE ref == [NoReferences EXCEPT ![RootLevel] = Root]
           r == [level |-> RootLevel, parent |-> Missing, ref |-> ref, owned |-> <<>>,
                 active |-> TRUE]
<1>1. node = <<r>> /\ block = <<>> /\ skippable \subseteq Levels
  BY DEF Init
<1>2. RootLevel \in Levels /\ \A l \in Levels : l \in Nat /\ RootLevel <= l
  BY RootLevelIsLeast, TreeAssumption
<1>3. /\ ref \in [Levels -> Nat]
      /\ \A l \in Levels : ref[l] = IF l = RootLevel THEN Root ELSE Missing
  BY <1>2 DEF NoReferences, Root, Missing
<1> HIDE DEF ref
<1>4. r \in Resolver
  <2>1. <<>> \in Seq(Nat)
    OBVIOUS
  <2> QED BY <1>2, <1>3, <2>1 DEF Resolver, Missing
<1>5. Fits(node, 1, r)
  <2>1. \A l \in Levels : l <= RootLevel => l = RootLevel
    BY <1>2
  <2>2. \A l \in Levels : l > RootLevel => l # RootLevel
    BY <1>2
  <2> QED BY <1>2, <1>3, <2>1, <2>2 DEF Fits, Root, Missing
<1>6. Len(node) = 1 /\ node[1] = r /\ node \in Seq(Resolver) /\ Node = {1}
  BY <1>1, <1>4 DEF Node
<1>7. Tree(node)
  <2> HIDE DEF r
  <2>1. \A n \in 1..Len(node) : n = 1
    BY <1>6
  <2>2. \A n \in 1..Len(node) : Fits(node, n, node[n])
    BY <1>5, <1>6, <2>1
  <2> QED BY <1>6, <2>2 DEF Tree
<1>8. Known
  <2>1. <<>> \in Seq(Block) /\ DOMAIN <<>> = {}
    OBVIOUS
  <2> QED BY <1>1, <1>6, <2>1 DEF Known
<1>9. Held
  BY <1>6 DEF Held, Root
<1> QED BY <1>1, <1>7, <1>8, <1>9 DEF IInv

\* Entering keeps it: the block that is entered closes all that was opened.
LEMMA ChainShape ==
    ASSUME IInv, NEW n \in Node, NEW target \in Deeper(node[n].level), NEW after,
           after = Chain(n, target)
    PROVE  /\ Tree(after) /\ Len(after) \in Nat /\ Len(node) < Len(after)
           /\ \A m \in 1..Len(node) : after[m] = node[m]
           /\ \A m \in (Len(node) + 1)..(Len(after) - 1) : after[m].owned = <<>>
           /\ after[Len(after)].owned =
                 [i \in 1..(Len(after) - Len(node) - 1) |-> Len(node) + i]
<1>1. PICK N : N = Opened(node, n, target)
  OBVIOUS
<1>2. Tree(N) /\ Extends(node, N) /\ Len(N) \in Nat /\ Len(node) < Len(N) /\ Len(node) \in Nat
  BY <1>1, OpenedIsTree DEF IInv, Tree
<1> DEFINE own == [i \in 1..(Len(N) - Len(node) - 1) |-> Len(node) + i]
<1>3. after = [N EXCEPT ![Len(N)].owned = own]
  BY <1>1 DEF Chain
<1>4. own \in Seq(Nat)
  <2>1. Len(N) - Len(node) - 1 \in Nat
    BY <1>2
  <2>2. own \in [1..(Len(N) - Len(node) - 1) -> Nat]
    BY <1>2
  <2> HIDE DEF own
  <2> QED BY <2>1, <2>2
<1> HIDE DEF own
<1>5. N \in Seq(Resolver) /\ N \in [1..Len(N) -> Resolver] /\ Len(N) \in 1..Len(N)
  BY <1>2 DEF Tree
<1>6. PICK last : last = [N[Len(N)] EXCEPT !.owned = own]
  OBVIOUS
<1>7. /\ last \in Resolver /\ last.owned = own /\ last.level = N[Len(N)].level
      /\ last.parent = N[Len(N)].parent /\ last.ref = N[Len(N)].ref
  <2>1. N[Len(N)] \in Resolver
    BY <1>5
  <2> QED BY <1>4, <1>6, <2>1 DEF Resolver
<1>8. after = [N EXCEPT ![Len(N)] = last]
  BY <1>3, <1>5, <1>6
<1>9. /\ after \in [1..Len(N) -> Resolver] /\ after[Len(N)] = last
      /\ \A m \in 1..Len(N) : m # Len(N) => after[m] = N[m]
  BY <1>5, <1>7, <1>8
<1>10. after \in Seq(Resolver) /\ Len(after) = Len(N)
  <2>1. after \in Seq(Resolver)
    BY <1>2, <1>9
  <2>2. DOMAIN after = 1..Len(N)
    BY <1>9
  <2> QED BY <1>2, <2>1, <2>2
<1>11. \A m \in 1..Len(N) : /\ after[m].level = N[m].level /\ after[m].parent = N[m].parent
                            /\ after[m].ref = N[m].ref
  <2> SUFFICES ASSUME NEW m \in 1..Len(N)
               PROVE  /\ after[m].level = N[m].level /\ after[m].parent = N[m].parent
                      /\ after[m].ref = N[m].ref
    OBVIOUS
  <2>1. CASE m = Len(N)
    BY <1>7, <1>9, <2>1
  <2>2. CASE m # Len(N)
    BY <1>9, <2>2
  <2> QED BY <2>1, <2>2
<1>12. Tree(after)
  BY <1>2, <1>10, <1>11, SameShape
<1>13. ASSUME NEW m \in 1..Len(node)
       PROVE  after[m] = node[m]
  <2>1. m \in 1..Len(N) /\ m # Len(N)
    BY <1>2
  <2>2. N[m] = node[m]
    BY <1>2 DEF Extends
  <2> QED BY <1>9, <2>1, <2>2
<1>14. ASSUME NEW m \in (Len(node) + 1)..(Len(after) - 1)
       PROVE  after[m].owned = <<>>
  <2>1. m \in 1..Len(N) /\ m # Len(N) /\ m \in (Len(node) + 1)..Len(N)
    BY <1>2, <1>10
  <2>2. N[m].owned = <<>>
    BY <1>2, <2>1 DEF Extends
  <2> QED BY <1>9, <2>1, <2>2
<1>15. after[Len(after)].owned = own
  BY <1>7, <1>9, <1>10
<1> QED BY <1>2, <1>10, <1>12, <1>13, <1>14, <1>15 DEF own

LEMMA EnterStep ==
    ASSUME IInv, NEW n \in Node, NEW scope, Enter(n, scope)
    PROVE  IInv'
<1>1. PICK target, after : /\ target \in Deeper(node[n].level) /\ after = Chain(n, target)
                           /\ node' = after
                           /\ block' = Append(block, [handle |-> Len(after), left |-> FALSE])
                           /\ skippable' = skippable
  BY DEF Enter
<1>2. /\ Tree(after) /\ Len(after) \in Nat /\ Len(node) < Len(after)
      /\ \A m \in 1..Len(node) : after[m] = node[m]
      /\ \A m \in (Len(node) + 1)..(Len(after) - 1) : after[m].owned = <<>>
      /\ after[Len(after)].owned = [i \in 1..(Len(after) - Len(node) - 1) |-> Len(node) + i]
  BY <1>1, ChainShape
<1>3. /\ Node = 1..Len(node) /\ Node' = 1..Len(after) /\ Len(node) \in Nat
      /\ Len(after) \in Node' /\ Node \subseteq Node'
  <2>1. node \in Seq(Resolver) /\ after \in Seq(Resolver)
    BY <1>2 DEF IInv, Tree
  <2> QED BY <1>1, <1>2, <2>1 DEF Node
<1> DEFINE b == [handle |-> Len(after), left |-> FALSE]
           k0 == Len(block) + 1
<1>4. /\ block' \in Seq(Block)
      /\ DOMAIN block' = 1..k0 /\ DOMAIN block = 1..Len(block) /\ Len(block) \in Nat
      /\ block'[k0] = b /\ \A k \in DOMAIN block : block'[k] = block[k]
  <2>1. block \in Seq(Block)
    BY DEF IInv, Known
  <2>2. b \in Block
    BY <1>2 DEF Block
  <2> HIDE DEF b
  <2> QED BY <1>1, <2>1, <2>2 DEF b
<1>5. b.handle = Len(after) /\ b.left = FALSE
  OBVIOUS
<1> HIDE DEF b
<1>6. Tree(node)' /\ (skippable \subseteq Levels)'
  BY <1>1, <1>2 DEF IInv, Tree, Fits
<1>7. Known'
  <2>1. ASSUME NEW m \in Node', NEW i \in DOMAIN after[m].owned
        PROVE  after[m].owned[i] \in Node'
    <3>1. CASE m \in Node
      BY <1>2, <1>3, <2>1, <3>1 DEF IInv, Known
    <3>2. CASE m \notin Node /\ m # Len(after)
      <4>1. m \in (Len(node) + 1)..(Len(after) - 1)
        BY <1>2, <1>3, <3>2
      <4>2. after[m].owned = <<>>
        BY <1>2, <4>1
      <4> QED BY <2>1, <4>2
    <3>3. CASE m = Len(after)
      BY <1>2, <1>3, <2>1, <3>3
    <3> QED BY <3>1, <3>2, <3>3
  <2>2. ASSUME NEW k \in DOMAIN block'
        PROVE  block'[k].handle \in Node'
    <3>1. CASE k \in DOMAIN block
      BY <1>3, <1>4, <3>1 DEF IInv, Known
    <3>2. CASE k \notin DOMAIN block
      <4>1. k = k0
        BY <1>4, <3>2
      <4> QED BY <1>3, <1>4, <1>5, <4>1
    <3> QED BY <3>1, <3>2
  <2> QED BY <1>1, <1>4, <2>1, <2>2 DEF Known
<1>8. Held'
  <2> SUFFICES ASSUME NEW m \in Node' \ {Root}, after[m].active
               PROVE  \E k \in DOMAIN block' : ~block'[k].left /\ Closes(after, block'[k].handle, m)
    BY <1>1 DEF Held, Closes
  <2>1. CASE m \in Node
    <3>1. PICK k \in DOMAIN block : ~block[k].left /\ Closes(node, block[k].handle, m)
      BY <1>2, <1>3, <2>1 DEF IInv, Held
    <3>2. block[k].handle \in Node /\ after[block[k].handle] = node[block[k].handle]
      BY <1>2, <1>3 DEF IInv, Known
    <3>3. Closes(after, block[k].handle, m)
      BY <3>1, <3>2 DEF Closes
    <3>4. k \in DOMAIN block'
      BY <1>4
    <3> QED BY <1>4, <3>1, <3>3, <3>4
  <2>2. CASE m \notin Node
    <3>1. k0 \in DOMAIN block'
      BY <1>4
    <3>2. Closes(after, Len(after), m)
      <4>1. CASE m = Len(after)
        BY <4>1 DEF Closes
      <4>2. CASE m # Len(after)
        <5>1. m - Len(node) \in 1..(Len(after) - Len(node) - 1)
          BY <1>2, <1>3, <2>2, <4>2
        <5>2. Len(node) + (m - Len(node)) = m
          BY <1>2, <1>3
        <5> QED BY <1>2, <5>1, <5>2 DEF Closes
      <4> QED BY <4>1, <4>2
    <3> QED BY <1>4, <1>5, <3>1, <3>2
  <2> QED BY <2>1, <2>2
<1> QED BY <1>6, <1>7, <1>8 DEF IInv

LEMMA EnterSameStep ==
    ASSUME IInv, NEW n \in Node, EnterSame(n)
    PROVE  IInv'
<1> DEFINE b == [handle |-> n, left |-> FALSE]
           k0 == Len(block) + 1
<1>1. block' = Append(block, b) /\ node' = node /\ skippable' = skippable
  BY DEF EnterSame
<1>2. n \in Nat /\ Node' = Node
  BY <1>1 DEF Node, IInv, Tree
<1>3. /\ block' \in Seq(Block)
      /\ DOMAIN block' = 1..k0 /\ DOMAIN block = 1..Len(block) /\ Len(block) \in Nat
      /\ block'[k0] = b /\ \A k \in DOMAIN block : block'[k] = block[k]
  <2>1. block \in Seq(Block)
    BY DEF IInv, Known
  <2>2. b \in Block
    BY <1>2 DEF Block
  <2> HIDE DEF b
  <2> QED BY <1>1, <2>1, <2>2 DEF b
<1>4. b.handle = n
  OBVIOUS
<1> HIDE DEF b
<1>5. Tree(node)' /\ (skippable \subseteq Levels)'
  BY <1>1 DEF IInv, Tree, Fits
<1>6. Known'
  <2>1. ASSUME NEW k \in DOMAIN block'
        PROVE  block'[k].handle \in Node
    <3>1. CASE k \in DOMAIN block
      BY <1>3, <3>1 DEF IInv, Known
    <3>2. CASE k \notin DOMAIN block
      <4>1. k = k0
        BY <1>3, <3>2
      <4> QED BY <1>3, <1>4, <4>1
    <3> QED BY <3>1, <3>2
  <2> QED BY <1>1, <1>2, <1>3, <2>1 DEF IInv, Known
<1>7. Held'
  <2>0. PICK N : N = node /\ N = node'
    BY <1>1
  <2> SUFFICES ASSUME NEW m \in Node \ {Root}, N[m].active
               PROVE  \E k \in DOMAIN block' : ~block'[k].left /\ Closes(N, block'[k].handle, m)
    BY <1>2, <2>0 DEF Held, Closes
  <2>1. PICK k \in DOMAIN block : ~block[k].left /\ Closes(N, block[k].handle, m)
    BY <2>0 DEF IInv, Held
  <2>2. k \in DOMAIN block'
    BY <1>3
  <2> QED BY <1>3, <2>1, <2>2
<1> QED BY <1>5, <1>6, <1>7 DEF IInv

\* Leaving a block closes all that only this block held.
LEMMA LeaveStep ==
    ASSUME IInv, NEW k \in DOMAIN block, Leave(k)
    PROVE  IInv'
<1> DEFINE h == block[k].handle
           closed == {h} \cup Range(node[h].owned)
           shut(n) == [node[n] EXCEPT !.active = @ /\ n \notin closed]
<1>1. /\ node' = [n \in Node |-> shut(n)]
      /\ block' = [block EXCEPT ![k].left = TRUE] /\ skippable' = skippable
  BY DEF Leave
<1>2. node \in Seq(Resolver) /\ Node = 1..Len(node) /\ Len(node) \in Nat /\ Tree(node)
  BY DEF IInv, Tree, Node
<1>3. \A n \in Node : /\ shut(n) \in Resolver /\ shut(n).level = node[n].level
                      /\ shut(n).parent = node[n].parent /\ shut(n).ref = node[n].ref
                      /\ shut(n).owned = node[n].owned
                      /\ shut(n).active => node[n].active /\ n \notin closed
  <2> SUFFICES ASSUME NEW n \in Node
               PROVE  /\ shut(n) \in Resolver /\ shut(n).level = node[n].level
                      /\ shut(n).parent = node[n].parent /\ shut(n).ref = node[n].ref
                      /\ shut(n).owned = node[n].owned
                      /\ shut(n).active => node[n].active /\ n \notin closed
    OBVIOUS
  <2>1. node[n] \in Resolver
    BY <1>2
  <2> HIDE DEF closed
  <2> QED BY <2>1 DEF Resolver
<1>4. \A m : Closes(node, h, m) => m \in closed
  <2> SUFFICES ASSUME NEW m, Closes(node, h, m), m # h PROVE m \in Range(node[h].owned)
    OBVIOUS
  <2> QED BY DEF Closes, Range
<1> HIDE DEF closed, shut
<1>5. PICK after : after = node'
  OBVIOUS
<1>6. /\ after \in Seq(Resolver) /\ Len(after) = Len(node) /\ Node' = Node
      /\ \A n \in Node : after[n] = shut(n)
  <2>1. after \in [1..Len(node) -> Resolver] /\ \A n \in Node : after[n] = shut(n)
    BY <1>1, <1>2, <1>3, <1>5
  <2>2. after \in Seq(Resolver) /\ DOMAIN after = 1..Len(node)
    BY <1>2, <2>1
  <2> QED BY <1>2, <1>5, <2>1, <2>2 DEF Node
<1>7. Tree(after)
  BY <1>2, <1>3, <1>6, SameShape
<1>8. Tree(node)' /\ (skippable \subseteq Levels)'
  <2>1. node' = after /\ skippable' = skippable
    BY <1>1, <1>5
  <2>2. Tree(node)'
    BY <1>7, <2>1 DEF Tree, Fits
  <2> QED BY <2>1, <2>2 DEF IInv
<1>9. /\ block' \in Seq(Block) /\ DOMAIN block' = DOMAIN block
      /\ \A j \in DOMAIN block : /\ block'[j].handle = block[j].handle
                                 /\ j # k => block'[j].left = block[j].left
  <2>1. block \in Seq(Block)
    BY DEF IInv, Known
  <2>2. block[k] \in Block
    <3>1. k \in 1..Len(block)
      BY <2>1
    <3> QED BY <2>1, <3>1
  <2>3. PICK b : b = [block[k] EXCEPT !.left = TRUE]
    OBVIOUS
  <2>4. b \in Block /\ b.handle = block[k].handle
    BY <2>2, <2>3 DEF Block
  <2>5. block' = [block EXCEPT ![k] = b]
    BY <1>1, <2>3
  <2>6. block' \in Seq(Block) /\ DOMAIN block' = DOMAIN block
    BY <2>1, <2>4, <2>5
  <2>7. \A j \in DOMAIN block : block'[j] = IF j = k THEN b ELSE block[j]
    BY <2>5
  <2> QED BY <2>4, <2>6, <2>7
<1>10. Known'
  <2>1. \A n \in Node : \A i \in DOMAIN after[n].owned : after[n].owned[i] \in Node
    BY <1>3, <1>6 DEF IInv, Known
  <2>2. \A j \in DOMAIN block' : block'[j].handle \in Node
    BY <1>9 DEF IInv, Known
  <2> QED BY <1>5, <1>6, <1>9, <2>1, <2>2 DEF Known
<1>11. Held'
  <2> SUFFICES ASSUME NEW m \in Node \ {Root}, after[m].active
               PROVE  \E j \in DOMAIN block' : ~block'[j].left /\ Closes(after, block'[j].handle, m)
    BY <1>5, <1>6 DEF Held, Closes
  <2>1. node[m].active /\ m \notin closed
    BY <1>3, <1>6
  <2>2. PICK j \in DOMAIN block : ~block[j].left /\ Closes(node, block[j].handle, m)
    BY <2>1 DEF IInv, Held
  <2>3. j # k
    BY <1>4, <2>1, <2>2
  <2>4. Closes(after, block[j].handle, m)
    <3>1. block[j].handle \in Node
      BY DEF IInv, Known
    <3>2. after[block[j].handle].owned = node[block[j].handle].owned
      BY <1>3, <1>6, <3>1
    <3> QED BY <2>2, <3>2 DEF Closes
  <2> QED BY <1>9, <2>2, <2>3, <2>4
<1> QED BY <1>8, <1>10, <1>11 DEF IInv

LEMMA IInvStep == IInv /\ [Next]_vars => IInv'
<1> SUFFICES ASSUME IInv, [Next]_vars PROVE IInv'
  OBVIOUS
<1>1. ASSUME NEW n \in Node, NEW scope, Enter(n, scope) PROVE IInv'
  BY <1>1, EnterStep
<1>2. ASSUME NEW n \in Node, EnterSame(n) PROVE IInv'
  BY <1>2, EnterSameStep
<1>3. ASSUME NEW k \in DOMAIN block, Leave(k) PROVE IInv'
  BY <1>3, LeaveStep
<1>4. CASE UNCHANGED vars
  BY <1>4 DEF vars, IInv, Tree, Fits, Known, Held, Closes, Node
<1> QED BY <1>1, <1>2, <1>3, <1>4 DEF Next, Done

(* Every resolver keeps the scopes it was opened in, and every open one    *)
(* belongs to a block, through all entries and exits.                      *)
THEOREM Inductive == Spec => []IInv
BY IInvInit, IInvStep, PTL DEF Spec

-----------------------------------------------------------------------------
(* Every variable keeps its type, whatever the levels and the slots.       *)
THEOREM TypeCorrect == Spec => []TypeOK
<1>1. IInv => TypeOK
  <2> SUFFICES ASSUME IInv PROVE TypeOK
    OBVIOUS
  <2>1. node \in Seq(Resolver) /\ Node = 1..Len(node) /\ Len(node) \in Nat
    BY DEF IInv, Tree, Node
  <2>2. ASSUME NEW n \in Node
        PROVE  node[n] \in [level : Levels, parent : 0..Len(node), ref : [Levels -> 0..Len(node)],
                            owned : Seq(Node), active : BOOLEAN]
    <3>1. PICK r : r = node[n]
      OBVIOUS
    <3>2. r \in Resolver /\ Fits(node, n, r)
      BY <2>1, <3>1 DEF IInv, Tree
    <3>3. r.parent \in 0..Len(node)
      BY <2>1, <3>2 DEF Fits
    <3>4. \A l \in Levels : r.ref[l] \in 0..Len(node)
      <4> SUFFICES ASSUME NEW l \in Levels PROVE r.ref[l] \in 0..Len(node)
        OBVIOUS
      <4>1. r.ref[l] \in 0..n
        BY <3>2 DEF Fits
      <4> QED BY <2>1, <4>1
    <3>5. r.ref \in [Levels -> 0..Len(node)]
      BY <3>2, <3>4 DEF Resolver
    <3>6. r.owned \in Seq(Node)
      <4>1. r.owned \in Seq(Nat) /\ \A i \in DOMAIN r.owned : r.owned[i] \in Node
        BY <3>1, <3>2 DEF Resolver, IInv, Known
      <4>2. DOMAIN r.owned = 1..Len(r.owned) /\ Len(r.owned) \in Nat
        BY <4>1
      <4>3. r.owned \in [1..Len(r.owned) -> Node]
        BY <4>1, <4>2
      <4> QED BY <4>2, <4>3
    <3> QED BY <3>1, <3>2, <3>3, <3>5, <3>6 DEF Resolver
  <2>3. block \in Seq([handle : Node, left : BOOLEAN])
    <3>1. block \in Seq(Block) /\ DOMAIN block = 1..Len(block) /\ Len(block) \in Nat
      BY DEF IInv, Known
    <3>2. \A k \in DOMAIN block : block[k] \in [handle : Node, left : BOOLEAN]
      <4> SUFFICES ASSUME NEW k \in DOMAIN block PROVE block[k] \in [handle : Node, left : BOOLEAN]
        OBVIOUS
      <4>1. block[k] \in Block /\ block[k].handle \in Node
        BY <3>1 DEF IInv, Known
      <4> QED BY <4>1 DEF Block
    <3> DEFINE T == [handle : Node, left : BOOLEAN]
    <3> HIDE DEF T
    <3>3. block \in [1..Len(block) -> T]
      BY <3>1, <3>2 DEF T
    <3>4. block \in Seq(T)
      BY <3>1, <3>3
    <3> QED BY <3>4 DEF T
  <2> QED BY <2>2, <2>3 DEF TypeOK, IInv
<1> QED BY <1>1, Inductive, PTL

(* Looking a level up along the parents finds what the reference holds.    *)
LEMMA EnclosingIsRef ==
    ASSUME Tree(node), NEW n \in Node, NEW l \in Levels
    PROVE  Enclosing(n, l) = node[n].ref[l]
<1> DEFINE D == 0..Len(node)
           step(f, m) == IF m = Missing THEN Missing
                         ELSE IF node[m].level = l THEN m ELSE f[node[m].parent]
           Rule(f) == f = [m \in D |-> step(f, m)]
           g == [m \in D |-> IF m = Missing THEN Missing ELSE node[m].ref[l]]
           up == CHOOSE f : Rule(f)
<1>1. node \in Seq(Resolver) /\ Node = 1..Len(node) /\ Len(node) \in Nat
  BY DEF Tree, Node
<1>2. ASSUME NEW m \in D, m # Missing
      PROVE  /\ node[m].parent \in D /\ node[m].parent < m
             /\ node[m].ref[l] = IF node[m].level = l THEN m
                                 ELSE IF node[m].parent = Missing THEN Missing
                                 ELSE node[node[m].parent].ref[l]
  <2>1. m \in 1..Len(node) /\ Fits(node, m, node[m])
    BY <1>1, <1>2 DEF Tree, Missing
  <2>2. node[m].parent \in 0..(m - 1)
    BY <2>1 DEF Fits
  <2> QED BY <1>1, <2>1, <2>2 DEF Fits
<1>3. \A m \in D : g[m] = step(g, m)
  <2> SUFFICES ASSUME NEW m \in D PROVE g[m] = step(g, m)
    OBVIOUS
  <2>1. CASE m = Missing
    BY <2>1
  <2>2. CASE m # Missing
    <3>1. node[m].parent \in D
      BY <1>2, <2>2
    <3>2. g[node[m].parent] = IF node[m].parent = Missing THEN Missing
                              ELSE node[node[m].parent].ref[l]
      BY <3>1
    <3>3. g[m] = node[m].ref[l]
      BY <2>2
    <3> HIDE DEF g
    <3> QED BY <1>2, <2>2, <3>2, <3>3
  <2> QED BY <2>1, <2>2
<1>4. \E f : Rule(f)
  <2> DEFINE G == [m \in D |-> step(g, m)]
  <2>1. g = G
    BY <1>3
  <2>2. Rule(g)
    BY <2>1
  <2> QED BY <2>2
<1>5. Rule(up)
  <2> HIDE DEF Rule
  <2> QED BY <1>4
<1>6. Enclosing(n, l) = up[n]
  BY DEF Enclosing
<1> HIDE DEF up
<1>7. \A m \in D : up[m] = step(up, m)
  BY <1>5
<1> HIDE DEF Rule
<1> DEFINE Bad == {m \in D : up[m] # g[m]}
<1>8. Bad = {}
  <2> SUFFICES ASSUME Bad # {} PROVE FALSE
    OBVIOUS
  <2>1. PICK b \in Bad : \A y \in Bad : b <= y
    <3>1. Bad \subseteq Nat
      BY <1>1
    <3> HIDE DEF Bad
    <3> QED BY <3>1, Least
  <2>2. b \in D /\ up[b] # g[b]
    OBVIOUS
  <2>3. b # Missing
    BY <1>3, <1>7, <2>2
  <2>4. node[b].parent \in D /\ node[b].parent < b
    BY <1>2, <2>2, <2>3
  <2>5. node[b].parent \notin Bad
    <3>1. ~(b <= node[b].parent)
      BY <1>1, <2>2, <2>4
    <3> HIDE DEF Bad
    <3> QED BY <2>1, <3>1
  <2>6. up[node[b].parent] = g[node[b].parent]
    BY <2>4, <2>5
  <2>7. step(up, b) = step(g, b)
    BY <2>6
  <2> HIDE DEF step, g
  <2> QED BY <1>3, <1>7, <2>2, <2>7
<1>9. n \in D /\ n # Missing
  BY <1>1 DEF Missing
<1> QED BY <1>6, <1>8, <1>9

(* Whatever scopes are entered, at once or in steps, and left in whatever  *)
(* order, a resolver's reference for a level is the resolver of that level *)
(* it was opened in, or missing if there is none.                          *)
THEOREM ReferencesCorrect == Spec => []ReferencesEnclose
<1>1. IInv => ReferencesEnclose
  BY EnclosingIsRef DEF IInv, ReferencesEnclose
<1> QED BY <1>1, Inductive, PTL

(* No level that may not be skipped is missing around an open resolver.    *)
THEOREM MandatoryOpen == Spec => []MandatoryLevelsOpen
<1>1. IInv => MandatoryLevelsOpen
  <2> SUFFICES ASSUME IInv, NEW n \in Node, NEW l \in Levels \ skippable, l <= node[n].level
               PROVE  node[n].ref[l] # Missing
    BY DEF MandatoryLevelsOpen
  <2>1. Fits(node, n, node[n])
    BY DEF IInv, Tree, Node
  <2> QED BY <2>1 DEF Fits
<1> QED BY <1>1, Inductive, PTL

(* Once all blocks have been left no resolver opened for them stays open,  *)
(* those opened on the way to a deeper level included.                     *)
THEOREM BlocksClose == Spec => []AllClosed
<1>1. IInv => AllClosed
  BY DEF IInv, Held, AllClosed
<1> QED BY <1>1, Inductive, PTL

-----------------------------------------------------------------------------
(* The wrappers work out the same way, and each of its steps is a way of   *)
(* one step for the wrapped resolver.                                      *)
LEMMA WrapperPathIsPlan ==
    ASSUME NEW from, NEW target
    PROVE  WrapperPath(from, target) = TransitionPlan(from, target)
BY DEF WrapperPath, TransitionPlan, WrapperNext, NextOnTheWay, DefaultNext, ImmediateNext

LEMMA OneStepPlan ==
    ASSUME NEW l \in Levels, NEW target \in Levels, l < target
    PROVE  TransitionPlan(l, NextOnTheWay(l, target)) = <<NextOnTheWay(l, target)>>
<1>1. PICK next : next = NextOnTheWay(l, target)
  OBVIOUS
<1>2. next \in Levels /\ l < next
  BY <1>1, NextLevel
<1>3. NextOnTheWay(l, next) = next
  <2>1. CASE next = ImmediateNext(l)
    BY <2>1 DEF NextOnTheWay
  <2>2. CASE next # ImmediateNext(l)
    <3>1. next = DefaultNext(l)
      BY <1>1, <2>2 DEF NextOnTheWay
    <3>2. next <= next
      BY <1>2, TreeAssumption
    <3> QED BY <2>2, <3>1, <3>2 DEF NextOnTheWay
  <2> QED BY <2>1, <2>2
<1>4. PICK p : p = TransitionPlan(l, next)
  OBVIOUS
<1>5. l \in Nat /\ next \in Nat /\ l <= next /\ l # next
  BY <1>2, TreeAssumption
<1>6. Way(l, next, p)
  BY <1>2, <1>4, <1>5, PlanIsWay
<1>7. p \in Seq(Levels) /\ Len(p) \in Nat /\ Len(p) > 0
  <2>1. p \in Seq(Levels) /\ p # <<>>
    BY <1>5, <1>6 DEF Way
  <2> QED BY <2>1
<1>8. p[1] = next
  <2>1. 1 \in 1..Len(p)
    BY <1>7
  <2> QED BY <1>3, <1>6, <2>1 DEF Way, Before
<1>9. Len(p) = 1
  <2>0. PICK k \in Nat : k = Len(p) /\ k > 0
    BY <1>7
  <2> SUFFICES ASSUME k > 1 PROVE FALSE
    BY <2>0
  <2>1. 2 \in 1..Len(p) /\ p[2] \in Levels
    <3>1. 2 \in 1..Len(p)
      BY <2>0
    <3> QED BY <1>7, <3>1
  <2>2. Before(l, p, 2) = p[1]
    BY DEF Before
  <2>3. p[1] < p[2] /\ p[2] <= next
    BY <1>6, <2>1, <2>2 DEF Way
  <2>4. p[2] \in Nat
    BY <2>1, TreeAssumption
  <2> QED BY <1>5, <1>8, <2>3, <2>4
<1>10. p = <<next>>
  BY <1>7, <1>8, <1>9
<1> QED BY <1>1, <1>4, <1>10

LEMMA OneStepOpened ==
    ASSUME NEW nodes, NEW n, NEW l \in Levels, nodes[n].level = l, NEW target \in Levels, l < target
    PROVE  Opened(nodes, n, NextOnTheWay(l, target)) = Open(nodes, n, NextOnTheWay(l, target))
<1>1. PICK next : next = NextOnTheWay(l, target)
  OBVIOUS
<1>2. TransitionPlan(nodes[n].level, next) = <<next>>
  BY <1>1, OneStepPlan
<1>3. Opened(nodes, n, next) = Opening(nodes, n, <<next>>)
  BY <1>2 DEF Opened
<1>4. Len(<<next>>) = 1 /\ <<next>>[1] = next
  OBVIOUS
<1>5. PICK p : p = <<next>>
  OBVIOUS
<1>6. PICK op : Stages(nodes, n, p, op) /\ Opening(nodes, n, p) = op[Len(p)]
  <2>1. Len(p) \in Nat
    BY <1>4, <1>5
  <2> QED BY <2>1, OpeningHasStages
<1>7. op[1] = Open(op[0], n, next) /\ op[0] = nodes
  <2>1. 1 \in 1..Len(p) /\ p[1] = next /\ 1 - 1 = 0
    BY <1>4, <1>5
  <2>2. op[1] = Open(op[1 - 1], IF 1 = 1 THEN n ELSE Len(op[1 - 1]), p[1])
    BY <1>6, <2>1 DEF Stages
  <2> QED BY <1>6, <2>1, <2>2 DEF Stages
<1>8. Opening(nodes, n, p) = Open(nodes, n, next)
  BY <1>4, <1>5, <1>6, <1>7
<1> QED BY <1>1, <1>3, <1>5, <1>8

LEMMA WrapperOpensTheSame ==
    ASSUME Tree(node), NEW n \in Node, NEW target \in Levels, node[n].level < target
    PROVE  WrapperOpened(n, target) = Opened(node, n, target)
<1>1. node \in Seq(Resolver) /\ Node = 1..Len(node) /\ Len(node) \in Nat
  BY DEF Tree, Node
<1>2. PICK from : from = node[n].level
  OBVIOUS
<1>3. from \in Levels /\ from \in Nat /\ target \in Nat /\ from < target
  <2>1. node[n] \in Resolver
    BY <1>1
  <2> QED BY <1>2, <2>1, TreeAssumption DEF Resolver
<1>4. PICK plan : plan = TransitionPlan(from, target)
  OBVIOUS
<1>5. Way(from, target, plan)
  BY <1>3, <1>4, PlanIsWay
<1>6. plan \in Seq(Levels) /\ Len(plan) \in Nat
  BY <1>5 DEF Way
<1>7. PICK op : Stages(node, n, plan, op) /\ Opening(node, n, plan) = op[Len(plan)]
  BY <1>6, OpeningHasStages
<1>8. \A i \in 0..Len(plan) : Staged(node, plan, i, op[i])
  <2>1. n \in 1..Len(node) /\ Stages(node, n, plan, op)
    BY <1>1, <1>7
  <2> QED BY <1>2, <1>5, <2>1, StagesAreTrees
<1> DEFINE at(f, i) == IF i = 1 THEN n ELSE Len(f[i - 1])
           step(f, i) == IF i = 0 THEN node ELSE Opened(f[i - 1], at(f, i), plan[i])
<1>9. ASSUME NEW i \in 1..Len(plan)
      PROVE  op[i] = Opened(op[i - 1], at(op, i), plan[i])
  <2>1. i - 1 \in 0..Len(plan) /\ Staged(node, plan, i - 1, op[i - 1])
    BY <1>6, <1>8
  <2>2. op[i - 1][at(op, i)].level = Before(from, plan, i)
    <3>1. CASE i = 1
      <4>1. op[0] = node /\ i - 1 = 0
        BY <1>7, <3>1 DEF Stages
      <4> QED BY <1>2, <3>1, <4>1 DEF Before
    <3>2. CASE i # 1
      <4>1. i - 1 > 0
        BY <1>6, <3>2
      <4> QED BY <2>1, <3>2, <4>1 DEF Staged, Before
    <3> QED BY <3>1, <3>2
  <2>3. /\ Before(from, plan, i) \in Levels /\ Before(from, plan, i) < target
        /\ plan[i] = NextOnTheWay(Before(from, plan, i), target)
    <3>1. /\ Before(from, plan, i) \in Levels /\ plan[i] \in Levels
          /\ Before(from, plan, i) < plan[i] /\ plan[i] <= target
          /\ plan[i] = NextOnTheWay(Before(from, plan, i), target)
      BY <1>5, <1>6 DEF Way
    <3>2. Before(from, plan, i) \in Nat /\ plan[i] \in Nat
      BY <3>1, TreeAssumption
    <3> QED BY <1>3, <3>1, <3>2
  <2>4. op[i] = Open(op[i - 1], at(op, i), plan[i])
    BY <1>7 DEF Stages
  <2> HIDE DEF at
  <2> QED BY <2>2, <2>3, <2>4, OneStepOpened
<1> DEFINE D == 0..Len(plan)
           Rule(f) == f = [i \in D |-> step(f, i)]
           g == [i \in D |-> op[i]]
           entered == CHOOSE f : Rule(f)
<1>10. \A f, h, i : f[i - 1] = h[i - 1] => step(f, i) = step(h, i)
  OBVIOUS
<1>11. \A i \in D : op[i] = step(op, i)
  <2> SUFFICES ASSUME NEW i \in D PROVE op[i] = step(op, i)
    OBVIOUS
  <2>1. CASE i = 0
    BY <1>7, <2>1 DEF Stages
  <2>2. CASE i # 0
    <3>1. i \in 1..Len(plan)
      BY <1>6, <2>2
    <3> HIDE DEF at
    <3> QED BY <1>9, <2>2, <3>1
  <2> QED BY <2>1, <2>2
<1>12. WrapperOpened(n, target) = entered[Len(plan)]
  <2>1. WrapperPath(node[n].level, target) = plan
    BY <1>2, <1>4, WrapperPathIsPlan
  <2> QED BY <2>1 DEF WrapperOpened
<1>13. \A f : step(f, 0) = node
  OBVIOUS
<1> HIDE DEF step
<1>14. Rule(g)
  <2>1. \A i \in D : op[i] = step(g, i)
    <3> SUFFICES ASSUME NEW i \in D PROVE op[i] = step(g, i)
      OBVIOUS
    <3>1. CASE i = 0
      BY <1>11, <1>13, <3>1
    <3>2. CASE i # 0
      <4>1. i - 1 \in D
        BY <1>6, <3>2
      <4>2. g[i - 1] = op[i - 1]
        BY <4>1
      <4> HIDE DEF g
      <4> QED BY <1>10, <1>11, <4>2
    <3> QED BY <3>1, <3>2
  <2>2. g = [i \in D |-> step(g, i)]
    BY <2>1
  <2> QED BY <2>2
<1>15. Rule(entered)
  <2> HIDE DEF Rule
  <2> QED BY <1>14
<1> HIDE DEF entered
<1>16. \A i \in D : entered[i] = step(entered, i)
  BY <1>15
<1> HIDE DEF Rule, g
<1> DEFINE Bad == {i \in D : entered[i] # op[i]}
<1>17. Bad = {}
  <2> SUFFICES ASSUME Bad # {} PROVE FALSE
    OBVIOUS
  <2>1. PICK b \in Bad : \A y \in Bad : b <= y
    <3>1. Bad \subseteq Nat
      BY <1>6
    <3> HIDE DEF Bad
    <3> QED BY <3>1, Least
  <2>2. b \in D /\ entered[b] # op[b]
    OBVIOUS
  <2>3. b # 0
    <3>1. 0 \in D
      BY <1>6
    <3> QED BY <1>11, <1>13, <1>16, <2>2, <3>1
  <2>4. b - 1 \in D /\ ~(b <= b - 1)
    BY <1>6, <2>2, <2>3
  <2>5. entered[b - 1] = op[b - 1]
    <3>1. b - 1 \notin Bad
      <4> HIDE DEF Bad
      <4> QED BY <2>1, <2>4
    <3> QED BY <2>4, <3>1
  <2> QED BY <1>10, <1>11, <1>16, <2>2, <2>5
<1>18. entered[Len(plan)] = op[Len(plan)]
  <2>1. Len(plan) \in D
    BY <1>6
  <2> QED BY <1>17, <2>1
<1>19. Opened(node, n, target) = op[Len(plan)]
  BY <1>2, <1>4, <1>7 DEF Opened
<1> QED BY <1>12, <1>18, <1>19

(* With open generics an application enters the same scopes as without:    *)
(* entering one scope of the way after the other opens the resolvers, with *)
(* the same references, that entering the deepest at once opens.           *)
THEOREM WrappersAgree == Spec => []WrappersOpenTheSame
<1>1. IInv => WrappersOpenTheSame
  <2> SUFFICES ASSUME IInv, NEW n \in Node, NEW target \in Levels, target > node[n].level
               PROVE  WrapperOpened(n, target) = Opened(node, n, target)
    BY DEF WrappersOpenTheSame
  <2>1. Tree(node) /\ node[n].level \in Nat /\ target \in Nat
    <3>1. Tree(node) /\ node[n] \in Resolver
      BY DEF IInv, Tree, Node
    <3> QED BY <3>1, TreeAssumption DEF Resolver
  <2>2. node[n].level < target
    BY <2>1
  <2> QED BY <2>1, <2>2, WrapperOpensTheSame
<1> QED BY <1>1, Inductive, PTL

-----------------------------------------------------------------------------
(* The recursion of resolving runs over the graph of slots, which is       *)
(* acyclic: arguments have smaller ranks.                                  *)
Rank == CHOOSE rank \in [Slot -> 0..Cardinality(Slot)] : Ranks(rank)

ArgSet(s) == {Args[s][i] : i \in DOMAIN Args[s]}

LEMMA RankIsOrder ==
    /\ \A s \in Slot : Rank[s] \in Nat
    /\ \E n \in Nat : \A s \in Slot : Rank[s] <= n
    /\ Ranks(Rank)
<1>1. Rank \in [Slot -> 0..Cardinality(Slot)] /\ Ranks(Rank)
  BY AcyclicAssumption DEF Rank
<1>2. \A s \in Slot : Rank[s] \in 0..Cardinality(Slot)
  BY <1>1
<1>3. CASE Slot = {}
  BY <1>1, <1>3
<1>4. CASE Slot # {}
  <2>1. PICK s \in Slot : Rank[s] \in 0..Cardinality(Slot)
    BY <1>2, <1>4
  <2>2. Cardinality(Slot) \in Nat
    BY TreeAssumption, FS_CardinalityType
  <2> QED BY <1>1, <1>2, <2>2
<1> QED BY <1>3, <1>4

LEMMA ArgsAreEarlier ==
    ASSUME NEW s \in Slot
    PROVE  \A d \in ArgSet(s) :
              d \in Slot /\ Rank[d] \in Nat /\ Rank[s] \in Nat /\ Rank[d] < Rank[s]
<1> SUFFICES ASSUME NEW i \in DOMAIN Args[s]
             PROVE  /\ Args[s][i] \in Slot /\ Rank[Args[s][i]] \in Nat
                    /\ Rank[s] \in Nat /\ Rank[Args[s][i]] < Rank[s]
  BY DEF ArgSet
<1>1. Args[s] \in Seq(Slot)
  BY TreeAssumption
<1>2. Args[s][i] \in Slot
  <2>1. i \in 1..Len(Args[s])
    BY <1>1
  <2> QED BY <1>1, <2>1
<1> QED BY <1>2, RankIsOrder DEF Ranks

\* One unfolding of Resolve and of Provided, with f for the recursive calls.
ArgIn(f, s, n, d) ==
    IF ~ReadsReference(s, n, d) THEN f[d][n]
    ELSE LET owner == node[n].ref[SlotLevel[d]]
         IN  IF owner = Missing THEN Outcome("attribute", Missing) ELSE f[d][owner]

Combined(args, n) ==
    LET failed == {i \in DOMAIN args : args[i].outcome # "ok"}
    IN  IF failed = {} THEN Outcome("ok", n)
        ELSE Outcome(args[Shallowest(failed)].outcome, Missing)

BuildIn(f, s, n) == Combined([i \in DOMAIN Args[s] |-> ArgIn(f, s, n, Args[s][i])], n)

ResolveIn(f, s) ==
    [n \in Node |->
        LET owner == node[n].ref[SlotLevel[s]]
        IN  IF SlotLevel[s] > node[n].level \/ owner = Missing
            THEN Outcome("mismatch", Missing)
            ELSE BuildIn(f, s, IF OwnLevelOnly(s) THEN owner ELSE n)]

ProvidedIn(f, s) ==
    [n \in Node |->
        LET home == IF OwnLevelOnly(s) THEN Enclosing(n, SlotLevel[s]) ELSE n
        IN  IF /\ Enclosing(n, SlotLevel[s]) # Missing
               /\ \A i \in DOMAIN Args[s] : f[Args[s][i]][home] # Missing
            THEN home ELSE Missing]

LEMMA ResolveLocal ==
    ASSUME NEW f, NEW g, NEW s \in Slot, \A d \in ArgSet(s) : f[d] = g[d]
    PROVE  ResolveIn(f, s) = ResolveIn(g, s)
<1>1. \A n : \A i \in DOMAIN Args[s] : ArgIn(f, s, n, Args[s][i]) = ArgIn(g, s, n, Args[s][i])
  BY DEF ArgIn, ArgSet
<1>2. \A n : BuildIn(f, s, n) = BuildIn(g, s, n)
  <2> SUFFICES ASSUME NEW n PROVE BuildIn(f, s, n) = BuildIn(g, s, n)
    OBVIOUS
  <2>1. [i \in DOMAIN Args[s] |-> ArgIn(f, s, n, Args[s][i])]
        = [i \in DOMAIN Args[s] |-> ArgIn(g, s, n, Args[s][i])]
    BY <1>1
  <2> QED BY <2>1 DEF BuildIn
<1> QED BY <1>2 DEF ResolveIn

LEMMA ProvidedLocal ==
    ASSUME NEW f, NEW g, NEW s \in Slot, \A d \in ArgSet(s) : f[d] = g[d]
    PROVE  ProvidedIn(f, s) = ProvidedIn(g, s)
BY DEF ProvidedIn, ArgSet

LEMMA ResolveUnfolds ==
    \A s \in Slot : Resolve[s] = ResolveIn(Resolve, s)
<1> DEFINE Rule(f) == f = [s \in Slot |-> ResolveIn(f, s)]
           Upto(f, m) == \A s \in Slot : Rank[s] <= m => f[s] = ResolveIn(f, s)
           Bad == {m \in Nat : ~\E f : Upto(f, m)}
<1>1. \A m \in Nat : \E f : Upto(f, m)
  <2> SUFFICES ASSUME Bad # {} PROVE FALSE
    OBVIOUS
  <2>1. PICK b \in Bad : \A y \in Bad : b <= y
    <3>1. Bad \subseteq Nat
      OBVIOUS
    <3> HIDE DEF Bad
    <3> QED BY <3>1, Least
  <2>2. b \in Nat /\ ~\E f : Upto(f, b)
    OBVIOUS
  <2>3. PICK f : b # 0 => Upto(f, b - 1)
    <3>1. CASE b = 0
      BY <3>1
    <3>2. CASE b # 0
      <4>1. b - 1 \in Nat /\ ~(b <= b - 1)
        BY <2>2, <3>2
      <4>2. b - 1 \notin Bad
        <5> HIDE DEF Bad
        <5> QED BY <2>1, <4>1
      <4> QED BY <3>2, <4>1, <4>2
    <3> QED BY <3>1, <3>2
  <2> DEFINE g == [s \in Slot |-> ResolveIn(f, s)]
  <2>4. ASSUME NEW s \in Slot, Rank[s] <= b
        PROVE  g[s] = ResolveIn(g, s)
    <3>1. \A d \in ArgSet(s) : f[d] = g[d]
      <4> SUFFICES ASSUME NEW d \in ArgSet(s) PROVE f[d] = ResolveIn(f, d)
        BY ArgsAreEarlier
      <4>1. /\ d \in Slot /\ Rank[d] \in Nat /\ Rank[s] \in Nat /\ Rank[d] < Rank[s]
        BY ArgsAreEarlier
      <4>2. b # 0 /\ Rank[d] <= b - 1
        BY <2>2, <2>4, <4>1
      <4> QED BY <2>3, <4>1, <4>2
    <3> HIDE DEF g
    <3>2. ResolveIn(f, s) = ResolveIn(g, s)
      BY <3>1, ResolveLocal
    <3> QED BY <3>2 DEF g
  <2> HIDE DEF g
  <2>5. Upto(g, b)
    BY <2>4
  <2> HIDE DEF Upto
  <2> QED BY <2>2, <2>5
<1>2. \E f : Rule(f)
  <2>1. PICK f : \A s \in Slot : f[s] = ResolveIn(f, s)
    <3>1. PICK n \in Nat : \A s \in Slot : Rank[s] <= n
      BY RankIsOrder
    <3>2. \E f : Upto(f, n)
      BY <1>1
    <3> QED BY <3>1, <3>2
  <2> DEFINE g == [s \in Slot |-> ResolveIn(f, s)]
  <2>2. ASSUME NEW s \in Slot
        PROVE  ResolveIn(f, s) = ResolveIn(g, s)
    <3>1. \A d \in ArgSet(s) : f[d] = g[d]
      BY <2>1, ArgsAreEarlier
    <3> HIDE DEF g
    <3> QED BY <3>1, ResolveLocal
  <2>3. g = [s \in Slot |-> ResolveIn(g, s)]
    BY <2>2
  <2> QED BY <2>3
<1>3. Resolve = CHOOSE f : Rule(f)
  BY DEF Resolve, ResolveIn, BuildIn, Combined, ArgIn
<1>4. Rule(Resolve)
  <2> HIDE DEF Rule
  <2> QED BY <1>2, <1>3
<1> QED BY <1>4

LEMMA ProvidedUnfolds ==
    \A s \in Slot : Provided[s] = ProvidedIn(Provided, s)
<1> DEFINE Rule(f) == f = [s \in Slot |-> ProvidedIn(f, s)]
           Upto(f, m) == \A s \in Slot : Rank[s] <= m => f[s] = ProvidedIn(f, s)
           Bad == {m \in Nat : ~\E f : Upto(f, m)}
<1>1. \A m \in Nat : \E f : Upto(f, m)
  <2> SUFFICES ASSUME Bad # {} PROVE FALSE
    OBVIOUS
  <2>1. PICK b \in Bad : \A y \in Bad : b <= y
    <3>1. Bad \subseteq Nat
      OBVIOUS
    <3> HIDE DEF Bad
    <3> QED BY <3>1, Least
  <2>2. b \in Nat /\ ~\E f : Upto(f, b)
    OBVIOUS
  <2>3. PICK f : b # 0 => Upto(f, b - 1)
    <3>1. CASE b = 0
      BY <3>1
    <3>2. CASE b # 0
      <4>1. b - 1 \in Nat /\ ~(b <= b - 1)
        BY <2>2, <3>2
      <4>2. b - 1 \notin Bad
        <5> HIDE DEF Bad
        <5> QED BY <2>1, <4>1
      <4> QED BY <3>2, <4>1, <4>2
    <3> QED BY <3>1, <3>2
  <2> DEFINE g == [s \in Slot |-> ProvidedIn(f, s)]
  <2>4. ASSUME NEW s \in Slot, Rank[s] <= b
        PROVE  g[s] = ProvidedIn(g, s)
    <3>1. \A d \in ArgSet(s) : f[d] = g[d]
      <4> SUFFICES ASSUME NEW d \in ArgSet(s) PROVE f[d] = ProvidedIn(f, d)
        BY ArgsAreEarlier
      <4>1. /\ d \in Slot /\ Rank[d] \in Nat /\ Rank[s] \in Nat /\ Rank[d] < Rank[s]
        BY ArgsAreEarlier
      <4>2. b # 0 /\ Rank[d] <= b - 1
        BY <2>2, <2>4, <4>1
      <4> QED BY <2>3, <4>1, <4>2
    <3> HIDE DEF g
    <3>2. ProvidedIn(f, s) = ProvidedIn(g, s)
      BY <3>1, ProvidedLocal
    <3> QED BY <3>2 DEF g
  <2> HIDE DEF g
  <2>5. Upto(g, b)
    BY <2>4
  <2> HIDE DEF Upto
  <2> QED BY <2>2, <2>5
<1>2. \E f : Rule(f)
  <2>1. PICK f : \A s \in Slot : f[s] = ProvidedIn(f, s)
    <3>1. PICK n \in Nat : \A s \in Slot : Rank[s] <= n
      BY RankIsOrder
    <3>2. \E f : Upto(f, n)
      BY <1>1
    <3> QED BY <3>1, <3>2
  <2> DEFINE g == [s \in Slot |-> ProvidedIn(f, s)]
  <2>2. ASSUME NEW s \in Slot
        PROVE  ProvidedIn(f, s) = ProvidedIn(g, s)
    <3>1. \A d \in ArgSet(s) : f[d] = g[d]
      BY <2>1, ArgsAreEarlier
    <3> HIDE DEF g
    <3> QED BY <3>1, ProvidedLocal
  <2>3. g = [s \in Slot |-> ProvidedIn(g, s)]
    BY <2>2
  <2> QED BY <2>3
<1>3. Provided = CHOOSE f : Rule(f)
  BY DEF Provided, ProvidedIn
<1>4. Rule(Provided)
  <2> HIDE DEF Rule
  <2> QED BY <1>2, <1>3
<1> QED BY <1>4

(* What a reference names knows itself.                                    *)
LEMMA RefOfRef ==
    ASSUME Tree(node), NEW n \in Node, NEW l \in Levels, node[n].ref[l] # Missing
    PROVE  /\ node[n].ref[l] \in Node
           /\ node[node[n].ref[l]].level = l
           /\ node[node[n].ref[l]].ref[l] = node[n].ref[l]
           /\ ~(l > node[n].level)
<1>1. node \in Seq(Resolver) /\ Node = 1..Len(node) /\ Len(node) \in Nat
  BY DEF Tree, Node
<1>2. \A m \in Node : Fits(node, m, node[m])
  BY <1>1 DEF Tree
<1>3. PICK m : m = node[n].ref[l]
  OBVIOUS
<1>4. m \in Node /\ (l > node[n].level => m = Missing)
  <2>1. m \in 0..n /\ m # Missing /\ (l > node[n].level => m = Missing)
    BY <1>2, <1>3 DEF Fits
  <2> QED BY <1>1, <2>1 DEF Missing
<1>5. node[m].level = l
  <2>0. /\ m # Missing /\ m # n => node[m].level = l
        /\ node[n].level # l => m # n
    BY <1>2, <1>3 DEF Fits
  <2>1. CASE m = n
    BY <2>0, <2>1
  <2>2. CASE m # n
    BY <1>3, <2>0, <2>2
  <2> QED BY <2>1, <2>2
<1>6. node[m].ref[l] = m
  BY <1>2, <1>4, <1>5 DEF Fits
<1> QED BY <1>3, <1>4, <1>5, <1>6

\* Provided, in terms of the references.
LEMMA ProvidedRule ==
    ASSUME Tree(node), NEW s \in Slot, NEW n \in Node
    PROVE  LET owner == node[n].ref[SlotLevel[s]]
               home == IF OwnLevelOnly(s) THEN owner ELSE n
           IN  Provided[s][n] =
                 IF owner # Missing /\ \A i \in DOMAIN Args[s] : Provided[Args[s][i]][home] # Missing
                 THEN home ELSE Missing
<1>1. SlotLevel[s] \in Levels
  BY TreeAssumption
<1>2. Enclosing(n, SlotLevel[s]) = node[n].ref[SlotLevel[s]]
  BY <1>1, EnclosingIsRef
<1>3. Provided[s] = ProvidedIn(Provided, s)
  BY ProvidedUnfolds
<1> QED BY <1>2, <1>3 DEF ProvidedIn

\* Resolving on n succeeds where the slot is provided, and there only.
Agrees(s) ==
    \A n \in Node : /\ Resolve[s][n].at = Provided[s][n]
                    /\ Resolve[s][n].outcome = "ok" <=> Provided[s][n] # Missing

\* So it is for an argument, through a reference or not.
LEMMA ArgAgrees ==
    ASSUME Tree(node), NEW s \in Slot, NEW d \in Slot, Agrees(d), NEW n \in Node
    PROVE  ArgIn(Resolve, s, n, d).outcome = "ok" <=> Provided[d][n] # Missing
<1>1. CASE ~ReadsReference(s, n, d)
  BY <1>1 DEF ArgIn, Agrees
<1>2. CASE ReadsReference(s, n, d)
  <2>1. PICK owner : owner = node[n].ref[SlotLevel[d]]
    OBVIOUS
  <2>2. OwnLevelOnly(d) /\ SlotLevel[d] \in Levels
    BY <1>2, TreeAssumption DEF ReadsReference, OwnLevelOnly
  <2>3. CASE owner = Missing
    <3>1. ArgIn(Resolve, s, n, d).outcome = "attribute"
      BY <1>2, <2>1, <2>3 DEF ArgIn, Outcome
    <3>2. Provided[d][n] = Missing
      BY <2>1, <2>3, ProvidedRule
    <3> QED BY <3>1, <3>2
  <2>4. CASE owner # Missing
    <3>1. owner \in Node /\ node[owner].ref[SlotLevel[d]] = owner
      BY <2>1, <2>2, <2>4, RefOfRef
    <3>2. ArgIn(Resolve, s, n, d) = Resolve[d][owner]
      BY <1>2, <2>1, <2>4 DEF ArgIn
    <3>3. Provided[d][n] =
            IF \A i \in DOMAIN Args[d] : Provided[Args[d][i]][owner] # Missing
            THEN owner ELSE Missing
      BY <2>1, <2>2, <2>4, ProvidedRule
    <3>4. Provided[d][owner] =
            IF \A i \in DOMAIN Args[d] : Provided[Args[d][i]][owner] # Missing
            THEN owner ELSE Missing
      BY <2>2, <2>4, <3>1, ProvidedRule
    <3> QED BY <3>1, <3>2, <3>3, <3>4 DEF Agrees
  <2> QED BY <2>3, <2>4
<1> QED BY <1>1, <1>2

LEMMA SlotAgrees ==
    ASSUME Tree(node), NEW s \in Slot, \A d \in ArgSet(s) : Agrees(d)
    PROVE  Agrees(s)
<1> SUFFICES ASSUME NEW n \in Node
             PROVE  /\ Resolve[s][n].at = Provided[s][n]
                    /\ Resolve[s][n].outcome = "ok" <=> Provided[s][n] # Missing
  BY DEF Agrees
<1>1. PICK owner : owner = node[n].ref[SlotLevel[s]]
  OBVIOUS
<1>2. PICK home : home = IF OwnLevelOnly(s) THEN owner ELSE n
  OBVIOUS
<1>3. SlotLevel[s] \in Levels /\ node \in Seq(Resolver) /\ Node = 1..Len(node)
  BY TreeAssumption DEF Tree, Node
<1>4. Provided[s][n] =
        IF owner # Missing /\ \A i \in DOMAIN Args[s] : Provided[Args[s][i]][home] # Missing
        THEN home ELSE Missing
  BY <1>1, <1>2, ProvidedRule
<1>5. Resolve[s][n] = IF SlotLevel[s] > node[n].level \/ owner = Missing
                      THEN Outcome("mismatch", Missing) ELSE BuildIn(Resolve, s, home)
  <2>1. Resolve[s] = ResolveIn(Resolve, s)
    BY ResolveUnfolds
  <2> QED BY <1>1, <1>2, <2>1 DEF ResolveIn
<1>6. CASE owner = Missing
  BY <1>4, <1>5, <1>6 DEF Outcome
<1>7. CASE owner # Missing
  <2>1. owner \in Node /\ ~(SlotLevel[s] > node[n].level)
    BY <1>1, <1>3, <1>7, RefOfRef
  <2>2. home \in Node /\ home # Missing
    BY <1>2, <1>3, <2>1 DEF Missing
  <2>3. Resolve[s][n] = BuildIn(Resolve, s, home)
    BY <1>5, <1>7, <2>1
  <2>4. PICK args : args = [i \in DOMAIN Args[s] |-> ArgIn(Resolve, s, home, Args[s][i])]
    OBVIOUS
  <2>5. \A i \in DOMAIN Args[s] : args[i].outcome = "ok" <=> Provided[Args[s][i]][home] # Missing
    <3> SUFFICES ASSUME NEW i \in DOMAIN Args[s]
                 PROVE  ArgIn(Resolve, s, home, Args[s][i]).outcome = "ok"
                          <=> Provided[Args[s][i]][home] # Missing
      BY <2>4
    <3>1. Args[s][i] \in ArgSet(s)
      BY DEF ArgSet
    <3>2. Args[s][i] \in Slot /\ Agrees(Args[s][i])
      BY <3>1, ArgsAreEarlier
    <3> QED BY <2>2, <3>2, ArgAgrees
  <2> DEFINE failed == {i \in DOMAIN args : args[i].outcome # "ok"}
  <2>6. BuildIn(Resolve, s, home) = IF failed = {} THEN Outcome("ok", home)
                                    ELSE Outcome(args[Shallowest(failed)].outcome, Missing)
    BY <2>4 DEF BuildIn, Combined
  <2>7. DOMAIN args = DOMAIN Args[s]
    BY <2>4
  <2>8. CASE failed = {}
    <3>1. \A i \in DOMAIN Args[s] : Provided[Args[s][i]][home] # Missing
      BY <2>5, <2>7, <2>8
    <3>2. Resolve[s][n] = Outcome("ok", home) /\ Provided[s][n] = home
      BY <1>4, <1>7, <2>3, <2>6, <2>8, <3>1
    <3> QED BY <2>2, <3>2 DEF Outcome
  <2>9. CASE failed # {}
    <3>1. PICK j : j = Shallowest(failed)
      OBVIOUS
    <3>2. j \in failed
      <4>1. Args[s] \in Seq(Slot)
        BY TreeAssumption
      <4>2. failed \subseteq Nat
        BY <2>7, <4>1
      <4> HIDE DEF failed
      <4> QED BY <2>9, <3>1, <4>2, ShallowestIsLeast
    <3>3. args[j].outcome # "ok" /\ Provided[Args[s][j]][home] = Missing /\ j \in DOMAIN Args[s]
      BY <2>5, <2>7, <3>2
    <3>4. Provided[s][n] = Missing
      BY <1>4, <3>3
    <3>5. Resolve[s][n] = Outcome(args[j].outcome, Missing)
      BY <2>3, <2>6, <2>9, <3>1
    <3> QED BY <3>3, <3>4, <3>5 DEF Outcome
  <2> QED BY <2>8, <2>9
<1> QED BY <1>6, <1>7

LEMMA AllAgree ==
    ASSUME Tree(node)
    PROVE  \A s \in Slot : Agrees(s)
<1> DEFINE Bad == {m \in Nat : \E s \in Slot : Rank[s] = m /\ ~Agrees(s)}
<1>1. Bad = {}
  <2> SUFFICES ASSUME Bad # {} PROVE FALSE
    OBVIOUS
  <2>1. PICK b \in Bad : \A y \in Bad : b <= y
    <3>1. Bad \subseteq Nat
      OBVIOUS
    <3> HIDE DEF Bad
    <3> QED BY <3>1, Least
  <2>2. PICK s \in Slot : Rank[s] = b /\ ~Agrees(s)
    OBVIOUS
  <2>3. ASSUME NEW d \in ArgSet(s)
        PROVE  Agrees(d)
    <3>1. d \in Slot /\ Rank[d] \in Nat /\ ~(b <= Rank[d])
      BY <2>2, ArgsAreEarlier
    <3>2. Rank[d] \notin Bad
      <4> HIDE DEF Bad
      <4> QED BY <2>1, <3>1
    <3> QED BY <3>1, <3>2
  <2> QED BY <2>2, <2>3, SlotAgrees
<1> QED BY <1>1, RankIsOrder

(* A slot resolves exactly where the scopes that it and its arguments need *)
(* are around, on the resolver of its own level, or for a transient that   *)
(* needs something deeper on the resolver that was asked; the shortcut of  *)
(* the specialised methods through their references changes nothing.       *)
THEOREM ResolvesCorrectly == Spec => []ResolvesWhereOpen
<1>1. IInv => ResolvesWhereOpen
  BY AllAgree DEF IInv, ResolvesWhereOpen, Agrees
<1> QED BY <1>1, Inductive, PTL

(* What SlotResolution assumes of the resolvers it is given is so in every *)
(* tree that can be opened: each knows itself and the root, and refers to  *)
(* opened resolvers only, none of them of a deeper level than its own.     *)
ScopesAssumed ==
    \A n \in Node :
        /\ node[Root].level <= node[n].level
        /\ node[n].ref \in [Levels -> Node \cup {Missing}]
        /\ node[n].ref[node[n].level] = n /\ node[n].ref[node[Root].level] = Root
        /\ \A l \in Levels : l > node[n].level => node[n].ref[l] = Missing

\* The assumption ScopesAssumption of SlotResolution, as a fact about enter_scope.
THEOREM AssumedOfScopes == Spec => []ScopesAssumed
<1>1. IInv => ScopesAssumed
  <2> SUFFICES ASSUME IInv, NEW n \in Node
               PROVE  /\ node[Root].level <= node[n].level
                      /\ node[n].ref \in [Levels -> Node \cup {Missing}]
                      /\ node[n].ref[node[n].level] = n
                      /\ node[n].ref[node[Root].level] = Root
                      /\ \A l \in Levels : l > node[n].level => node[n].ref[l] = Missing
    BY DEF ScopesAssumed
  <2>1. /\ node \in Seq(Resolver) /\ Node = 1..Len(node) /\ Len(node) \in Nat /\ Root \in Node
        /\ \A m \in Node : Fits(node, m, node[m])
    BY DEF IInv, Tree, Node, Root
  <2>2. PICK r : r = node[n]
    OBVIOUS
  <2>3. r \in Resolver /\ Fits(node, n, r)
    BY <2>1, <2>2
  <2>4. r.level \in Levels /\ r.ref \in [Levels -> Nat]
    BY <2>3 DEF Resolver
  <2>5. node[Root].level = RootLevel
    BY <2>1 DEF Fits
  <2>6. \A l \in Levels : r.ref[l] \in Node \cup {Missing}
    <3> SUFFICES ASSUME NEW l \in Levels PROVE r.ref[l] \in Node \cup {Missing}
      OBVIOUS
    <3>1. r.ref[l] \in 0..n
      BY <2>3 DEF Fits
    <3> QED BY <2>1, <3>1 DEF Missing
  <2>7. r.ref \in [Levels -> Node \cup {Missing}]
    BY <2>4, <2>6
  <2>8. r.ref[r.level] = n /\ r.ref[RootLevel] = Root
    BY <2>3, <2>4 DEF Fits
  <2>9. \A l \in Levels : l > r.level => r.ref[l] = Missing
    BY <2>3 DEF Fits
  <2> QED BY <2>2, <2>4, <2>5, <2>7, <2>8, <2>9, RootLevelIsLeast
<1> QED BY <1>1, Inductive, PTL
=============================================================================
