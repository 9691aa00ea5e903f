-------------------------- MODULE Container_proofs --------------------------
(***************************************************************************)
(* Proofs about Container and ContainerGraph, for any dependencies that    *)
(* are not circular, any decorators and any number of threads: decorators  *)
(* are in their order, the cleanup flags are exact, the compiled root      *)
(* resolves what is registered, the scope contracts of injected callables  *)
(* outlast every registration, and what is reported missing is.            *)
(*                                                                         *)
(* What the graph's operators do is proved first.  Several compute in      *)
(* passes: each is the last of a finite sequence of values, that exists by *)
(* induction, and what holds of all of them follows by induction.          *)
(***************************************************************************)
EXTENDS Container, TLAPS, WellFoundedInduction, FiniteSetTheorems

-----------------------------------------------------------------------------
(* Numbers: a non-empty set of them has a least one, induction up to N,    *)
(* and sequences of N values each made from the one before.                *)
LEMMA Least ==
    ASSUME NEW T, T \subseteq Nat, T # {}
    PROVE  \E x \in T : \A y \in T : x <= y
<1> DEFINE R == OpToRel(<, Nat)
<1>1. IsWellFoundedOn(R, Nat)
  BY NatLessThanWellFounded
<1>2. \A x, y \in Nat : y < x => <<y, x>> \in R
  BY DEF OpToRel
<1> HIDE DEF R
<1>3. PICK x \in T : \A y \in T : <<y, x>> \notin R
  BY <1>1, WFMin
<1>4. ASSUME NEW y \in T
      PROVE  x <= y
  <2>1. x \in Nat /\ y \in Nat /\ ~(y < x)
    BY <1>2, <1>3
  <2> QED BY <2>1
<1> QED BY <1>4

LEMMA Induction ==
    ASSUME NEW N \in Nat, NEW T, 0 \in T, \A i \in 1..N : i - 1 \in T => i \in T
    PROVE  \A i \in 0..N : i \in T
<1> DEFINE Bad == {i \in 0..N : i \notin T}
<1> SUFFICES ASSUME Bad # {} PROVE FALSE
  OBVIOUS
<1>1. PICK b \in Bad : \A y \in Bad : b <= y
  <2>1. Bad \subseteq Nat
    OBVIOUS
  <2> HIDE DEF Bad
  <2> QED BY <2>1, Least
<1>2. b \in 1..N /\ b - 1 \in 0..N /\ ~(b <= b - 1)
  OBVIOUS
<1>3. b - 1 \in T
  BY <1>1, <1>2
<1> QED BY <1>2, <1>3

\* Passes(N, base, step, f): f[0] is base, and step[i] makes f[i] from f[i - 1].
Passes(N, base, step, f) ==
    f = [i \in 0..N |-> IF i = 0 THEN base ELSE step[i][f[i - 1]]]

LEMMA PassesExist ==
    ASSUME NEW N \in Nat, NEW S, NEW base \in S, NEW step \in [1..N -> [S -> S]]
    PROVE  \E f \in [0..N -> S] : Passes(N, base, step, f)
<1> DEFINE Upto(f, m) == \A i \in 0..N : i <= m => f[i] = IF i = 0 THEN base ELSE step[i][f[i - 1]]
           T == {m \in 0..N : \E f \in [0..N -> S] : Upto(f, m)}
<1>1. 0 \in T
  <2> DEFINE g == [i \in 0..N |-> base]
  <2>1. g \in [0..N -> S]
    OBVIOUS
  <2>2. Upto(g, 0)
    OBVIOUS
  <2> HIDE DEF g, Upto
  <2> QED BY <2>1, <2>2
<1>2. ASSUME NEW m \in 1..N, m - 1 \in T
      PROVE  m \in T
  <2>1. PICK f \in [0..N -> S] : Upto(f, m - 1)
    BY <1>2
  <2> DEFINE g == [i \in 0..N |-> IF i = 0 THEN base ELSE step[i][f[i - 1]]]
  <2>2. g \in [0..N -> S]
    <3> SUFFICES ASSUME NEW i \in 0..N PROVE (IF i = 0 THEN base ELSE step[i][f[i - 1]]) \in S
      OBVIOUS
    <3>1. CASE i = 0
      BY <3>1
    <3>2. CASE i # 0
      <4>1. i - 1 \in 0..N /\ i \in 1..N
        BY <3>2
      <4>2. f[i - 1] \in S /\ step[i] \in [S -> S]
        BY <4>1
      <4> QED BY <3>2, <4>2
    <3> QED BY <3>1, <3>2
  <2>3. Upto(g, m)
    <3> SUFFICES ASSUME NEW i \in 0..N, i <= m
                 PROVE  g[i] = IF i = 0 THEN base ELSE step[i][g[i - 1]]
      OBVIOUS
    <3>1. CASE i = 0
      BY <3>1
    <3>2. CASE i # 0
      <4>1. i - 1 \in 0..N /\ i - 1 <= m - 1
        BY <3>2
      <4>2. f[i - 1] = g[i - 1]
        BY <2>1, <4>1
      <4> QED BY <3>2, <4>2
    <3> QED BY <3>1, <3>2
  <2> HIDE DEF g, Upto
  <2> QED BY <2>2, <2>3
<1>3. N \in T
  <2>1. N \in 0..N
    OBVIOUS
  <2> HIDE DEF T
  <2>2. \A i \in 1..N : i - 1 \in T => i \in T
    BY <1>2
  <2>3. \A i \in 0..N : i \in T
    BY <1>1, <2>2, Induction
  <2> QED BY <2>1, <2>3
<1>4. PICK f \in [0..N -> S] : Upto(f, N)
  BY <1>3
<1>5. f = [i \in 0..N |-> IF i = 0 THEN base ELSE step[i][f[i - 1]]]
  <2>1. \A i \in 0..N : f[i] = IF i = 0 THEN base ELSE step[i][f[i - 1]]
    BY <1>4
  <2> QED BY <2>1
<1> QED BY <1>5 DEF Passes

-----------------------------------------------------------------------------
(* The order of keys.  What is registered at a key asks only for keys      *)
(* below it: those of dependencies of a lower rank and, of the chain it is *)
(* in, those towards the base.  The key of the application is the top.     *)
Rank == CHOOSE rank \in [Name -> 0..Cardinality(Name)] : Ranks(rank)

Below(j, k) ==
    \/ Rank[j[1]] < Rank[k[1]]
    \/ j[1] = k[1] /\ j[2] # 0 /\ (k[2] = 0 \/ j[2] < k[2])

LEMMA RankFact == Rank \in [Name -> Nat] /\ Ranks(Rank)
<1>1. Cardinality(Name) \in Nat
  BY GraphAssumption, FS_CardinalityType
<1>2. Rank \in [Name -> 0..Cardinality(Name)] /\ Ranks(Rank)
  BY AcyclicAssumption DEF Rank
<1>3. 0..Cardinality(Name) \subseteq Nat
  BY <1>1
<1> QED BY <1>2, <1>3

LEMMA LowestKey ==
    ASSUME NEW T, T \subseteq Key, T # {}
    PROVE  \E k \in T : \A j \in T : ~Below(j, k)
<1>1. \A k \in T : k[1] \in Name /\ k[2] \in Nat /\ Rank[k[1]] \in Nat
  BY RankFact DEF Key
<1> DEFINE Levels == {Rank[k[1]] : k \in T}
<1>2. PICK r \in Levels : \A y \in Levels : r <= y
  <2>1. Levels \subseteq Nat /\ Levels # {}
    BY <1>1
  <2> HIDE DEF Levels
  <2> QED BY <2>1, Least
<1>3. \A j \in T : r <= Rank[j[1]]
  BY <1>2
<1>4. CASE \E k \in T : Rank[k[1]] = r /\ k[2] # 0
  <2>1. PICK l \in T : Rank[l[1]] = r /\ l[2] # 0
    BY <1>4
  <2> DEFINE Aliases == {k[2] : k \in {j \in T : j[1] = l[1] /\ j[2] # 0}}
  <2>2. PICK a \in Aliases : \A y \in Aliases : a <= y
    <3>1. Aliases \subseteq Nat /\ Aliases # {}
      BY <1>1, <2>1
    <3> HIDE DEF Aliases
    <3> QED BY <3>1, Least
  <2>3. PICK k \in T : k[1] = l[1] /\ k[2] # 0 /\ k[2] = a
    BY <2>2
  <2>4. ASSUME NEW j \in T, Below(j, k)
        PROVE  FALSE
    <3>1. ~(Rank[j[1]] < Rank[k[1]])
      BY <1>1, <1>3, <2>1, <2>3
    <3>2. j[1] = l[1] /\ j[2] # 0 /\ j[2] < k[2]
      BY <2>3, <2>4, <3>1 DEF Below
    <3>3. k[2] <= j[2]
      BY <2>2, <2>3, <3>2
    <3> QED BY <1>1, <3>2, <3>3
  <2> QED BY <2>3, <2>4
<1>5. CASE ~\E k \in T : Rank[k[1]] = r /\ k[2] # 0
  <2>1. PICK k \in T : Rank[k[1]] = r
    BY <1>2
  <2>2. ASSUME NEW j \in T, Below(j, k)
        PROVE  FALSE
    <3>1. ~(Rank[j[1]] < Rank[k[1]])
      BY <1>1, <1>3, <2>1
    <3>2. j[1] = k[1] /\ j[2] # 0
      BY <2>2, <3>1 DEF Below
    <3> QED BY <1>5, <2>1, <3>2
  <2> QED BY <2>2
<1> QED BY <1>4, <1>5

-----------------------------------------------------------------------------
(* The registrations.                                                      *)
SpecType ==
    [by : Providing \cup Decorator, version : Nat, deps : SUBSET Key, deep : BOOLEAN,
     resource : BOOLEAN, cleanup : BOOLEAN]

Registry(reg) ==
    /\ DOMAIN reg \subseteq Key /\ IsFiniteSet(DOMAIN reg)
    /\ reg \in [DOMAIN reg -> SpecType]
    /\ \A k \in DOMAIN reg : \A d \in reg[k].deps : Below(d, k)

\* The same specs, with flags that may differ.
Same(spec, other) ==
    /\ other.by = spec.by /\ other.version = spec.version /\ other.deps = spec.deps
    /\ other.deep = spec.deep /\ other.resource = spec.resource

Alike(reg, other) == DOMAIN other = DOMAIN reg /\ \A k \in DOMAIN reg : Same(reg[k], other[k])

\* Every flag says what the flags of the arguments say.
Stable(reg) == \A k \in DOMAIN reg : reg[k].cleanup = NeedsCleanup(reg, k)

LEMMA OnePass ==
    ASSUME NEW reg, NEW D, D = DOMAIN reg, reg \in [D -> SpecType]
    PROVE  /\ RefreshOnce(reg) \in [D -> SpecType]
           /\ Alike(reg, RefreshOnce(reg))
           /\ \A k \in D : RefreshOnce(reg)[k].cleanup = NeedsCleanup(reg, k)
<1> DEFINE new(k) == [reg[k] EXCEPT !.cleanup = NeedsCleanup(reg, k)]
<1>1. ASSUME NEW k \in D
      PROVE  /\ new(k) \in SpecType /\ Same(reg[k], new(k))
             /\ new(k).cleanup = NeedsCleanup(reg, k)
  <2>1. reg[k] \in SpecType
    OBVIOUS
  <2>2. NeedsCleanup(reg, k) \in BOOLEAN
    BY <2>1 DEF NeedsCleanup, SpecType
  <2> QED BY <2>1, <2>2 DEF SpecType, Same
<1>2. RefreshOnce(reg) = [k \in D |-> new(k)]
  BY DEF RefreshOnce
<1> HIDE DEF new
<1> QED BY <1>1, <1>2 DEF Alike

\* The passes of Refresh, and one more.
RefreshPasses(reg, pass) ==
    LET N == Cardinality(DOMAIN reg) IN
    /\ pass[0] = reg /\ Refresh(reg) = pass[N]
    /\ \A i \in 0..N + 1 : pass[i] \in [DOMAIN reg -> SpecType] /\ Alike(reg, pass[i])
    /\ \A i \in 1..N + 1 : pass[i] = RefreshOnce(pass[i - 1])

LEMMA RefreshHasPasses ==
    ASSUME NEW reg, Registry(reg)
    PROVE  \E pass : RefreshPasses(reg, pass)
<1> DEFINE D == DOMAIN reg
           N == Cardinality(D)
           S == {r \in [D -> SpecType] : Alike(reg, r)}
           step == [i \in 1..N |-> [r \in S |-> RefreshOnce(r)]]
           Rule(g) == g = [i \in 0..N |-> IF i = 0 THEN reg ELSE RefreshOnce(g[i - 1])]
<1>1. N \in Nat /\ reg \in [D -> SpecType]
  BY FS_CardinalityType DEF Registry
<1>2. reg \in S
  BY <1>1 DEF Alike, Same
<1>3. \A r \in S : RefreshOnce(r) \in S
  <2> SUFFICES ASSUME NEW r \in S PROVE RefreshOnce(r) \in S
    OBVIOUS
  <2>1. DOMAIN r = D /\ r \in [D -> SpecType] /\ Alike(reg, r)
    OBVIOUS
  <2>2. RefreshOnce(r) \in [D -> SpecType] /\ Alike(r, RefreshOnce(r))
    BY <2>1, OnePass
  <2>3. Alike(reg, RefreshOnce(r))
    BY <2>1, <2>2 DEF Alike, Same
  <2> QED BY <2>2, <2>3
<1>4. step \in [1..N -> [S -> S]]
  BY <1>3
<1> HIDE DEF S
<1>5. PICK f \in [0..N -> S] : Passes(N, reg, step, f)
  <2> HIDE DEF step, N
  <2> QED BY <1>1, <1>2, <1>4, PassesExist
<1>6. Rule(f)
  <2>1. f = [i \in 0..N |-> IF i = 0 THEN reg ELSE step[i][f[i - 1]]]
    BY <1>5 DEF Passes
  <2>2. ASSUME NEW i \in 0..N
        PROVE  (IF i = 0 THEN reg ELSE step[i][f[i - 1]]) = IF i = 0 THEN reg ELSE RefreshOnce(f[i - 1])
    <3>1. CASE i = 0
      BY <3>1
    <3>2. CASE i # 0
      <4>1. i - 1 \in 0..N /\ i \in 1..N
        BY <1>1, <3>2
      <4>2. f[i - 1] \in S
        BY <4>1
      <4> HIDE DEF N
      <4> QED BY <3>2, <4>1, <4>2
    <3> QED BY <3>1, <3>2
  <2> HIDE DEF N, step
  <2> QED BY <2>1, <2>2
<1> DEFINE g == CHOOSE h : Rule(h)
<1>7. Refresh(reg) = g[N]
  BY DEF Refresh
<1>8. Rule(g)
  <2> HIDE DEF Rule
  <2> QED BY <1>6
<1> HIDE DEF g
<1>9. g[0] = reg /\ \A i \in 1..N : g[i] = RefreshOnce(g[i - 1])
  <2>1. 0 \in 0..N /\ \A i \in 1..N : i \in 0..N /\ i # 0
    BY <1>1
  <2>2. \A i \in 0..N : g[i] = IF i = 0 THEN reg ELSE RefreshOnce(g[i - 1])
    <3> HIDE DEF N
    <3> QED BY <1>8
  <2> HIDE DEF N, Rule
  <2> QED BY <2>1, <2>2
<1>10. \A i \in 0..N : g[i] \in S
  <2> DEFINE T == {i \in 0..N : g[i] \in S}
  <2>1. 0 \in T
    BY <1>1, <1>2, <1>9
  <2>2. \A i \in 1..N : i - 1 \in T => i \in T
    <3> HIDE DEF N
    <3> QED BY <1>1, <1>3, <1>9
  <2>3. \A i \in 0..N : i \in T
    <3> HIDE DEF T, N
    <3> QED BY <1>1, <2>1, <2>2, Induction
  <2> QED BY <2>3
<1> DEFINE pass == [i \in 0..N + 1 |-> IF i = N + 1 THEN RefreshOnce(g[N]) ELSE g[i]]
<1>11. \A i \in 0..N : pass[i] = g[i]
  <2> HIDE DEF N
  <2> QED BY <1>1
<1>12. pass[N + 1] = RefreshOnce(g[N])
  <2> HIDE DEF N
  <2> QED BY <1>1
<1>13. \A i \in 0..N + 1 : pass[i] \in S
  <2> SUFFICES ASSUME NEW i \in 0..N + 1 PROVE pass[i] \in S
    OBVIOUS
  <2>1. N \in 0..N /\ (i = N + 1 \/ i \in 0..N)
    BY <1>1
  <2> HIDE DEF pass, N
  <2> QED BY <1>3, <1>10, <1>11, <1>12, <2>1
<1>14. \A i \in 1..N + 1 : pass[i] = RefreshOnce(pass[i - 1])
  <2> SUFFICES ASSUME NEW i \in 1..N + 1 PROVE pass[i] = RefreshOnce(pass[i - 1])
    OBVIOUS
  <2>1. CASE i = N + 1
    <3>1. pass[i] = RefreshOnce(g[N]) /\ i - 1 = N /\ N \in 0..N
      BY <1>1, <1>12, <2>1
    <3> HIDE DEF pass, N
    <3> QED BY <1>11, <3>1
  <2>2. CASE i # N + 1
    <3>1. i \in 1..N /\ i \in 0..N /\ i - 1 \in 0..N
      BY <1>1, <2>2
    <3> HIDE DEF pass, N
    <3> QED BY <1>9, <1>11, <3>1
  <2> QED BY <2>1, <2>2
<1>15. pass[0] = reg /\ Refresh(reg) = pass[N]
  <2>1. 0 \in 0..N /\ N \in 0..N
    BY <1>1
  <2> HIDE DEF pass, N
  <2> QED BY <1>7, <1>9, <1>11, <2>1
<1>16. \A i \in 0..N + 1 : pass[i] \in [D -> SpecType] /\ Alike(reg, pass[i])
  <2> HIDE DEF pass
  <2> QED BY <1>13 DEF S
<1> HIDE DEF pass
<1> QED BY <1>14, <1>15, <1>16 DEF RefreshPasses

(* A key is settled at a pass if no later pass changes its flag.  Every    *)
(* pass settles one more, the lowest that is not: its arguments are.       *)
LEMMA RefreshConverges ==
    ASSUME NEW reg, Registry(reg), NEW pass, RefreshPasses(reg, pass)
    PROVE  LET N == Cardinality(DOMAIN reg) IN
           \A k \in DOMAIN reg : pass[N + 1][k].cleanup = pass[N][k].cleanup
<1> DEFINE D == DOMAIN reg
           N == Cardinality(D)
           Right(i) == {k \in D : \A j \in i..N + 1 : pass[j][k].cleanup = pass[i][k].cleanup}
           T == {i \in 0..N : Cardinality(Right(i)) >= i}
<1>1. N \in Nat /\ D \subseteq Key /\ IsFiniteSet(D)
  BY FS_CardinalityType DEF Registry
<1>2. \A i : /\ Right(i) \subseteq D /\ IsFiniteSet(Right(i))
             /\ Cardinality(Right(i)) \in Nat /\ Cardinality(Right(i)) <= N
             /\ Cardinality(Right(i)) = N => Right(i) = D
  <2> SUFFICES ASSUME NEW i
               PROVE  /\ Right(i) \subseteq D /\ IsFiniteSet(Right(i))
                      /\ Cardinality(Right(i)) \in Nat /\ Cardinality(Right(i)) <= N
                      /\ Cardinality(Right(i)) = N => Right(i) = D
    OBVIOUS
  <2>1. Right(i) \in SUBSET D
    OBVIOUS
  <2> HIDE DEF Right
  <2>2. IsFiniteSet(Right(i)) /\ Cardinality(Right(i)) <= N /\ (N = Cardinality(Right(i)) => D = Right(i))
    BY <1>1, <2>1, FS_Subset
  <2> QED BY <2>1, <2>2, FS_CardinalityType
<1>3. 0 \in T
  <2> HIDE DEF Right
  <2> QED BY <1>1, <1>2
<1>4. ASSUME NEW i \in 1..N, i - 1 \in T
      PROVE  i \in T
  <2>0. i \in 0..N /\ i - 1 \in 0..N /\ i - 1 \in 0..N + 1 /\ i \in 0..N + 1 /\ i \in 1..N + 1
    BY <1>1
  <2>1. Right(i - 1) \subseteq Right(i)
    <3> SUFFICES ASSUME NEW k \in Right(i - 1), NEW j \in i..N + 1
                 PROVE  pass[j][k].cleanup = pass[i][k].cleanup
      OBVIOUS
    <3>1. j \in (i - 1)..N + 1 /\ i \in (i - 1)..N + 1
      BY <1>1
    <3> QED BY <3>1
  <2>2. CASE Right(i - 1) = D
    <3>1. Right(i) = D
      <4> HIDE DEF Right, N
      <4> QED BY <1>2, <2>1, <2>2
    <3> HIDE DEF Right
    <3> QED BY <1>1, <2>0, <3>1
  <2>3. CASE Right(i - 1) # D
    <3> DEFINE Open == D \ Right(i - 1)
    <3>1. Open \subseteq Key /\ Open # {}
      <4> HIDE DEF Right, N
      <4> QED BY <1>1, <1>2, <2>3
    <3>2. PICK k \in Open : \A j \in Open : ~Below(j, k)
      <4> HIDE DEF Open
      <4> QED BY <3>1, LowestKey
    <3>3. k \in D /\ k \notin Right(i - 1)
      OBVIOUS
    <3>4. \A d \in reg[k].deps \cap D : d \in Right(i - 1)
      <4> SUFFICES ASSUME NEW d \in reg[k].deps \cap D PROVE d \in Right(i - 1)
        OBVIOUS
      <4>1. Below(d, k)
        BY <3>3 DEF Registry
      <4> HIDE DEF Right
      <4> QED BY <3>2, <4>1
    <3>5. ASSUME NEW j \in i..N + 1
          PROVE  pass[j][k].cleanup = pass[i][k].cleanup
      <4>1. j \in 1..N + 1 /\ j - 1 \in 0..N + 1 /\ j - 1 \in (i - 1)..N + 1
        BY <1>1, <2>0
      <4>2. \A m \in 1..N + 1 : m - 1 \in 0..N + 1 =>
                pass[m][k].cleanup = (\/ reg[k].resource
                                      \/ \E d \in reg[k].deps \cap D : pass[m - 1][d].cleanup)
        <5> SUFFICES ASSUME NEW m \in 1..N + 1, m - 1 \in 0..N + 1
                     PROVE  pass[m][k].cleanup = (\/ reg[k].resource
                                      \/ \E d \in reg[k].deps \cap D : pass[m - 1][d].cleanup)
          OBVIOUS
        <5>1. /\ pass[m] = RefreshOnce(pass[m - 1])
              /\ pass[m - 1] \in [D -> SpecType] /\ Alike(reg, pass[m - 1])
          BY DEF RefreshPasses
        <5>2. DOMAIN pass[m - 1] = D
          BY <5>1
        <5>3. pass[m][k].cleanup = NeedsCleanup(pass[m - 1], k)
          BY <3>3, <5>1, <5>2, OnePass
        <5>4. pass[m - 1][k].resource = reg[k].resource /\ pass[m - 1][k].deps = reg[k].deps
          BY <3>3, <5>1 DEF Alike, Same
        <5> QED BY <5>2, <5>3, <5>4 DEF NeedsCleanup
      <4>3. \A d \in reg[k].deps \cap D : pass[j - 1][d].cleanup = pass[i - 1][d].cleanup
        BY <3>4, <4>1
      <4> HIDE DEF D, N
      <4>4. pass[j][k].cleanup = (reg[k].resource \/ \E d \in reg[k].deps \cap D : pass[j - 1][d].cleanup)
        BY <4>1, <4>2
      <4>5. pass[i][k].cleanup = (reg[k].resource \/ \E d \in reg[k].deps \cap D : pass[i - 1][d].cleanup)
        BY <2>0, <4>2
      <4> QED BY <4>3, <4>4, <4>5
    <3>6. Right(i - 1) \cup {k} \subseteq Right(i)
      <4>1. k \in Right(i)
        BY <3>3, <3>5
      <4> HIDE DEF Right
      <4> QED BY <2>1, <4>1
    <3>7. Cardinality(Right(i - 1) \cup {k}) = Cardinality(Right(i - 1)) + 1
      <4> HIDE DEF Right, N
      <4> QED BY <1>2, <3>3, FS_AddElement
    <3>8. Cardinality(Right(i - 1) \cup {k}) <= Cardinality(Right(i))
      <4> HIDE DEF Right, N
      <4> QED BY <1>2, <3>6, FS_Subset
    <3>9. Cardinality(Right(i - 1)) >= i - 1
      BY <1>4
    <3> HIDE DEF Right
    <3>10. Cardinality(Right(i)) \in Nat /\ Cardinality(Right(i - 1)) \in Nat
      BY <1>2
    <3> QED BY <1>1, <2>0, <3>7, <3>8, <3>9, <3>10
  <2> QED BY <2>2, <2>3
<1>5. N \in T
  <2>1. \A i \in 0..N : i \in T
    <3> HIDE DEF T, N
    <3> QED BY <1>1, <1>3, <1>4, Induction
  <2>2. N \in 0..N
    BY <1>1
  <2> HIDE DEF T, N
  <2> QED BY <2>1, <2>2
<1>6. Right(N) = D
  <2>1. Cardinality(Right(N)) >= N
    BY <1>5
  <2> HIDE DEF Right
  <2>2. Cardinality(Right(N)) = N
    BY <1>1, <1>2, <2>1
  <2> QED BY <1>2, <2>2
<1>7. N + 1 \in N..N + 1
  BY <1>1
<1>8. \A k \in D : k \in Right(N)
  <2> HIDE DEF Right, N
  <2> QED BY <1>6
<1>9. \A k \in D : pass[N + 1][k].cleanup = pass[N][k].cleanup
  BY <1>7, <1>8
<1> QED BY <1>9

\* Refresh keeps the specs, and the flags it leaves are stable.
LEMMA RefreshRule ==
    ASSUME NEW reg, Registry(reg)
    PROVE  /\ Registry(Refresh(reg)) /\ DOMAIN Refresh(reg) = DOMAIN reg
           /\ Alike(reg, Refresh(reg)) /\ Stable(Refresh(reg))
<1> DEFINE D == DOMAIN reg
           N == Cardinality(D)
<1>1. PICK pass : RefreshPasses(reg, pass)
  BY RefreshHasPasses
<1>2. N \in Nat
  BY FS_CardinalityType DEF Registry
<1>3. N \in 0..N + 1 /\ N + 1 \in 1..N + 1 /\ N + 1 \in 0..N + 1 /\ N + 1 - 1 = N
  BY <1>2
<1>4. PICK r : r = Refresh(reg)
  OBVIOUS
<1>5. /\ r = pass[N] /\ pass[N] \in [D -> SpecType] /\ Alike(reg, pass[N])
      /\ pass[N + 1] = RefreshOnce(pass[N])
  <2> HIDE DEF N
  <2> QED BY <1>1, <1>3, <1>4 DEF RefreshPasses, N
<1>6. \A k \in D : pass[N + 1][k].cleanup = pass[N][k].cleanup
  BY <1>1, RefreshConverges
<1>7. r \in [D -> SpecType] /\ DOMAIN r = D /\ Alike(reg, r)
  BY <1>5
<1>8. \A k \in D : RefreshOnce(r)[k].cleanup = NeedsCleanup(r, k)
  BY <1>7, OnePass
<1>9. Stable(r)
  <2> HIDE DEF N
  <2> QED BY <1>5, <1>6, <1>7, <1>8 DEF Stable
<1>10. Registry(r)
  BY <1>7 DEF Registry, Alike, Same
<1> QED BY <1>4, <1>7, <1>9, <1>10

(* Flags that are stable on a part that is closed under arguments are what *)
(* every stable registry with the same specs there has.                    *)
LEMMA StableAgree ==
    ASSUME NEW reg, NEW other, Registry(reg), Registry(other), Stable(other),
           NEW Part, Part \subseteq DOMAIN reg, Part \subseteq DOMAIN other,
           \A k \in Part : Same(reg[k], other[k]),
           \A k \in Part : reg[k].cleanup = NeedsCleanup(reg, k),
           \A k \in Part : reg[k].deps \cap DOMAIN reg \subseteq Part,
           \A k \in Part : reg[k].deps \cap DOMAIN other \subseteq Part
    PROVE  \A k \in Part : other[k] = reg[k]
<1> DEFINE Bad == {k \in Part : other[k].cleanup # reg[k].cleanup}
<1>1. Bad = {}
  <2> SUFFICES ASSUME Bad # {} PROVE FALSE
    OBVIOUS
  <2>1. PICK k \in Bad : \A j \in Bad : ~Below(j, k)
    <3>1. Bad \subseteq Key
      BY DEF Registry
    <3> HIDE DEF Bad
    <3> QED BY <3>1, LowestKey
  <2>2. k \in Part /\ other[k].cleanup # reg[k].cleanup
    OBVIOUS
  <2>3. \A d \in reg[k].deps \cap Part : other[d].cleanup = reg[d].cleanup
    <3> SUFFICES ASSUME NEW d \in reg[k].deps \cap Part PROVE d \notin Bad
      OBVIOUS
    <3>1. Below(d, k)
      BY <2>2 DEF Registry
    <3> HIDE DEF Bad
    <3> QED BY <2>1, <3>1
  <2>4. reg[k].deps \cap DOMAIN reg = reg[k].deps \cap Part
        /\ reg[k].deps \cap DOMAIN other = reg[k].deps \cap Part
    BY <2>2
  <2>5. other[k].deps = reg[k].deps /\ other[k].resource = reg[k].resource
    BY <2>2 DEF Same
  <2>6. reg[k].cleanup = (reg[k].resource \/ \E d \in reg[k].deps \cap Part : reg[d].cleanup)
    BY <2>2, <2>4 DEF NeedsCleanup
  <2>7. other[k].cleanup = (reg[k].resource \/ \E d \in reg[k].deps \cap Part : other[d].cleanup)
    <3>1. other[k].cleanup = NeedsCleanup(other, k)
      BY <2>2 DEF Stable
    <3> QED BY <2>4, <2>5, <3>1 DEF NeedsCleanup
  <2>8. other[k].cleanup = reg[k].cleanup
    <3> HIDE DEF Bad
    <3> QED BY <2>3, <2>6, <2>7
  <2> QED BY <2>2, <2>8
<1>2. ASSUME NEW k \in Part
      PROVE  other[k] = reg[k]
  <2>1. reg[k] \in SpecType /\ other[k] \in SpecType
    BY DEF Registry
  <2>2. Same(reg[k], other[k]) /\ other[k].cleanup = reg[k].cleanup
    BY <1>1
  <2> QED BY <2>1, <2>2 DEF SpecType, Same
<1> QED BY <1>2

-----------------------------------------------------------------------------
(* Putting a spec, and leaving specs out.                                  *)
Shaped(g) ==
    g = [reg |-> g.reg, open |-> g.open, rules |-> g.rules, chain |-> g.chain, aliases |-> g.aliases]

Spec4(spec, k) == spec \in SpecType /\ \A d \in spec.deps : Below(d, k)

\* h is g but for its registrations, and these are in order.
SameButReg(g, h) ==
    /\ Shaped(h) /\ h.open = g.open /\ h.rules = g.rules
    /\ h.chain = g.chain /\ h.aliases = g.aliases
    /\ Registry(h.reg) /\ Stable(h.reg)

Puts(g, k, spec, h) ==
    /\ SameButReg(g, h) /\ DOMAIN h.reg = DOMAIN g.reg \cup {k} /\ Same(spec, h.reg[k])
    /\ \A j \in DOMAIN g.reg \ {k} : Same(g.reg[j], h.reg[j])

LeavesOut(g, keys, h) ==
    /\ SameButReg(g, h) /\ DOMAIN h.reg = DOMAIN g.reg \ keys
    /\ \A j \in DOMAIN h.reg : Same(g.reg[j], h.reg[j])

LEMMA RefreshedGraph ==
    ASSUME NEW g, Shaped(g), NEW reg, Registry(reg), NEW h, h = [g EXCEPT !.reg = Refresh(reg)]
    PROVE  /\ SameButReg(g, h) /\ DOMAIN h.reg = DOMAIN reg
           /\ \A j \in DOMAIN reg : Same(reg[j], h.reg[j])
<1>1. PICK r : r = Refresh(reg)
  OBVIOUS
<1>2. Registry(r) /\ DOMAIN r = DOMAIN reg /\ Alike(reg, r) /\ Stable(r)
  BY <1>1, RefreshRule
<1>3. h = [reg |-> r, open |-> g.open, rules |-> g.rules, chain |-> g.chain, aliases |-> g.aliases]
  BY <1>1 DEF Shaped
<1>4. h.reg = r
  BY <1>3
<1>5. /\ Shaped(h) /\ h.open = g.open /\ h.rules = g.rules
      /\ h.chain = g.chain /\ h.aliases = g.aliases
  BY <1>3 DEF Shaped
<1> QED BY <1>2, <1>4, <1>5 DEF SameButReg, Alike

LEMMA PutRule ==
    ASSUME NEW g, Shaped(g), Registry(g.reg), NEW k \in Key, NEW spec, Spec4(spec, k)
    PROVE  Puts(g, k, spec, Put(g, k, spec))
<1> DEFINE more == [j \in DOMAIN g.reg \cup {k} |-> IF j = k THEN spec ELSE g.reg[j]]
<1>1. /\ DOMAIN more = DOMAIN g.reg \cup {k} /\ more[k] = spec
      /\ \A j \in DOMAIN g.reg \ {k} : more[j] = g.reg[j]
      /\ more = [j \in DOMAIN more |-> more[j]]
  OBVIOUS
<1>2. PICK reg : reg = more
  OBVIOUS
<1> HIDE DEF more
<1>3. IsFiniteSet(DOMAIN reg)
  <2>1. IsFiniteSet(DOMAIN g.reg)
    BY DEF Registry
  <2> QED BY <1>1, <1>2, <2>1, FS_AddElement
<1>4. ASSUME NEW j \in DOMAIN reg
      PROVE  reg[j] \in SpecType /\ \A d \in reg[j].deps : Below(d, j)
  <2>1. CASE j = k
    BY <1>1, <1>2, <2>1 DEF Spec4
  <2>2. CASE j # k
    <3>1. j \in DOMAIN g.reg /\ reg[j] = g.reg[j]
      BY <1>1, <1>2, <2>2
    <3> QED BY <3>1 DEF Registry
  <2> QED BY <2>1, <2>2
<1>5. Registry(reg)
  <2>1. DOMAIN reg \subseteq Key
    BY <1>1, <1>2 DEF Registry
  <2>2. reg = [j \in DOMAIN reg |-> reg[j]]
    BY <1>1, <1>2
  <2>3. reg \in [DOMAIN reg -> SpecType]
    BY <1>4, <2>2
  <2> QED BY <1>3, <1>4, <2>1, <2>3 DEF Registry
<1>6. PICK h : h = Put(g, k, spec)
  OBVIOUS
<1>7. h = [g EXCEPT !.reg = Refresh(reg)]
  BY <1>2, <1>6 DEF Put, more
<1>8. /\ SameButReg(g, h) /\ DOMAIN h.reg = DOMAIN reg
      /\ \A j \in DOMAIN reg : Same(reg[j], h.reg[j])
  BY <1>5, <1>7, RefreshedGraph
<1>9. Puts(g, k, spec, h)
  <2>1. Same(spec, h.reg[k])
    BY <1>1, <1>2, <1>8
  <2>2. \A j \in DOMAIN g.reg \ {k} : Same(g.reg[j], h.reg[j])
    BY <1>1, <1>2, <1>8
  <2> QED BY <1>1, <1>2, <1>8, <2>1, <2>2 DEF Puts
<1> QED BY <1>6, <1>9

LEMMA WithoutRule ==
    ASSUME NEW g, Shaped(g), Registry(g.reg), NEW keys
    PROVE  LeavesOut(g, keys, Without(g, keys))
<1>1. PICK reg : reg = [k \in DOMAIN g.reg \ keys |-> g.reg[k]]
  OBVIOUS
<1>2. DOMAIN reg = DOMAIN g.reg \ keys /\ \A k \in DOMAIN reg : reg[k] = g.reg[k]
  BY <1>1
<1>3. Registry(reg)
  <2>1. IsFiniteSet(DOMAIN reg)
    <3>1. IsFiniteSet(DOMAIN g.reg) /\ DOMAIN reg \in SUBSET DOMAIN g.reg
      BY <1>2 DEF Registry
    <3> QED BY <3>1, FS_Subset
  <2>2. \A k \in DOMAIN reg : reg[k] \in SpecType /\ \A d \in reg[k].deps : Below(d, k)
    BY <1>2 DEF Registry
  <2>3. reg \in [DOMAIN reg -> SpecType]
    BY <1>1, <1>2, <2>2
  <2> QED BY <1>2, <2>1, <2>2, <2>3 DEF Registry
<1>4. PICK h : h = Without(g, keys)
  OBVIOUS
<1>5. h = [g EXCEPT !.reg = Refresh(reg)]
  BY <1>1, <1>4 DEF Without
<1>6. /\ SameButReg(g, h) /\ DOMAIN h.reg = DOMAIN reg
      /\ \A j \in DOMAIN reg : Same(reg[j], h.reg[j])
  BY <1>3, <1>5, RefreshedGraph
<1>7. LeavesOut(g, keys, h)
  BY <1>2, <1>6 DEF LeavesOut
<1> QED BY <1>4, <1>7

\* Flags of what does not ask for the key that was put stay.
LEMMA PutUntouched ==
    ASSUME NEW g, Registry(g.reg), Stable(g.reg), NEW k, NEW spec, NEW h, Puts(g, k, spec, h),
           NEW Part, Part \subseteq DOMAIN g.reg \ {k}, \A j \in Part : g.reg[j].deps \subseteq Part
    PROVE  \A j \in Part : h.reg[j] = g.reg[j]
<1>1. Registry(h.reg) /\ Stable(h.reg) /\ Part \subseteq DOMAIN h.reg /\ Part \subseteq DOMAIN g.reg
  BY DEF Puts, SameButReg
<1>2. \A j \in Part : Same(g.reg[j], h.reg[j])
  BY DEF Puts
<1>3. \A j \in Part : g.reg[j].cleanup = NeedsCleanup(g.reg, j)
  BY <1>1 DEF Stable
<1>4. ASSUME NEW j \in Part
      PROVE  g.reg[j].deps \cap DOMAIN g.reg \subseteq Part /\ g.reg[j].deps \cap DOMAIN h.reg \subseteq Part
  <2>1. g.reg[j].deps \subseteq Part
    OBVIOUS
  <2> QED BY <2>1
<1>5. PICK r : r = g.reg
  OBVIOUS
<1>6. PICK s : s = h.reg
  OBVIOUS
<1>7. \A j \in Part : s[j] = r[j]
  BY <1>1, <1>2, <1>3, <1>4, <1>5, <1>6, StableAgree
<1> QED BY <1>5, <1>6, <1>7

-----------------------------------------------------------------------------
(* What a key reaches: itself, and what the specs it reaches ask for.      *)
ReachPasses(reg, k, f) ==
    LET N == Cardinality(DOMAIN reg) IN
    /\ f[0] = {k} \cap DOMAIN reg /\ Reach(reg, k) = f[N]
    /\ \A i \in 0..N : f[i] \subseteq DOMAIN reg
    /\ \A i \in 1..N : f[i] = f[i - 1] \cup {d \in DOMAIN reg : \E j \in f[i - 1] : d \in reg[j].deps}

LEMMA ReachHasPasses ==
    ASSUME NEW reg, IsFiniteSet(DOMAIN reg), NEW k
    PROVE  \E f : ReachPasses(reg, k, f)
<1> DEFINE D == DOMAIN reg
           N == Cardinality(D)
           S == SUBSET D
           more(found) == found \cup {d \in D : \E j \in found : d \in reg[j].deps}
           step == [i \in 1..N |-> [found \in S |-> more(found)]]
           Rule(g) == g = [i \in 0..N |-> IF i = 0 THEN {k} \cap D ELSE more(g[i - 1])]
<1>1. N \in Nat
  BY FS_CardinalityType
<1>2. {k} \cap D \in S /\ \A found \in S : more(found) \in S
  <2>1. \A found \in S : more(found) \subseteq D
    OBVIOUS
  <2> HIDE DEF more
  <2> QED BY <2>1
<1>3. step \in [1..N -> [S -> S]]
  <2> HIDE DEF more, S
  <2> QED BY <1>2
<1>4. PICK f \in [0..N -> S] : Passes(N, {k} \cap D, step, f)
  <2> HIDE DEF step, N, S
  <2> QED BY <1>1, <1>2, <1>3, PassesExist
<1>5. Rule(f)
  <2>1. f = [i \in 0..N |-> IF i = 0 THEN {k} \cap D ELSE step[i][f[i - 1]]]
    BY <1>4 DEF Passes
  <2>2. ASSUME NEW i \in 0..N
        PROVE  (IF i = 0 THEN {k} \cap D ELSE step[i][f[i - 1]]) = IF i = 0 THEN {k} \cap D ELSE more(f[i - 1])
    <3>1. CASE i = 0
      BY <3>1
    <3>2. CASE i # 0
      <4>1. i - 1 \in 0..N /\ i \in 1..N
        BY <1>1, <3>2
      <4>2. f[i - 1] \in S
        BY <4>1
      <4> HIDE DEF N, more, S
      <4> QED BY <3>2, <4>1, <4>2
    <3> QED BY <3>1, <3>2
  <2> HIDE DEF N, step, more
  <2> QED BY <2>1, <2>2
<1> DEFINE g == CHOOSE h : Rule(h)
<1>6. Reach(reg, k) = g[N]
  BY DEF Reach
<1>7. Rule(g)
  <2> HIDE DEF Rule
  <2> QED BY <1>5
<1> HIDE DEF g
<1>8. g[0] = {k} \cap D /\ \A i \in 1..N : g[i] = more(g[i - 1])
  <2>1. 0 \in 0..N /\ \A i \in 1..N : i \in 0..N /\ i # 0
    BY <1>1
  <2>2. \A i \in 0..N : g[i] = IF i = 0 THEN {k} \cap D ELSE more(g[i - 1])
    <3> HIDE DEF N, more
    <3> QED BY <1>7
  <2> HIDE DEF N, Rule, more
  <2> QED BY <2>1, <2>2
<1>9. \A i \in 0..N : g[i] \in S
  <2> DEFINE T == {i \in 0..N : g[i] \in S}
  <2>1. 0 \in T
    BY <1>1, <1>8
  <2>2. \A i \in 1..N : i - 1 \in T => i \in T
    <3> SUFFICES ASSUME NEW i \in 1..N, i - 1 \in T PROVE i \in T
      OBVIOUS
    <3>1. i \in 0..N
      BY <1>1
    <3> HIDE DEF N, more
    <3> QED BY <1>2, <1>8, <3>1
  <2>3. \A i \in 0..N : i \in T
    <3> HIDE DEF T, N
    <3> QED BY <1>1, <2>1, <2>2, Induction
  <2> QED BY <2>3
<1> QED BY <1>6, <1>8, <1>9 DEF ReachPasses

\* Nothing that a member asks for is missing.
Closed(reg, part) == \A j \in part \cap DOMAIN reg : reg[j].deps \cap DOMAIN reg \subseteq part

LEMMA ReachRule ==
    ASSUME NEW reg, IsFiniteSet(DOMAIN reg), NEW k
    PROVE  /\ Reach(reg, k) \subseteq DOMAIN reg /\ Closed(reg, Reach(reg, k))
           /\ {k} \cap DOMAIN reg \subseteq Reach(reg, k)
<1> DEFINE D == DOMAIN reg
           N == Cardinality(D)
<1>1. PICK f : ReachPasses(reg, k, f)
  BY ReachHasPasses
<1>2. N \in Nat
  BY FS_CardinalityType
<1> DEFINE T == {i \in 0..N : Cardinality(f[i]) >= i \/ Closed(reg, f[i])}
           I == {i \in 0..N : {k} \cap D \subseteq f[i]}
<1>3. \A i \in 0..N : /\ f[i] \subseteq D /\ IsFiniteSet(f[i]) /\ Cardinality(f[i]) \in Nat
                      /\ Cardinality(f[i]) <= N /\ (Cardinality(f[i]) = N => f[i] = D)
  <2> SUFFICES ASSUME NEW i \in 0..N
               PROVE  /\ f[i] \subseteq D /\ IsFiniteSet(f[i]) /\ Cardinality(f[i]) \in Nat
                      /\ Cardinality(f[i]) <= N /\ (Cardinality(f[i]) = N => f[i] = D)
    OBVIOUS
  <2>1. f[i] \in SUBSET D
    BY <1>1 DEF ReachPasses
  <2>2. IsFiniteSet(f[i]) /\ Cardinality(f[i]) <= N /\ (N = Cardinality(f[i]) => D = f[i])
    BY <2>1, FS_Subset
  <2> QED BY <2>1, <2>2, FS_CardinalityType
<1>4. \A i \in 1..N : f[i] = f[i - 1] \cup {d \in D : \E j \in f[i - 1] : d \in reg[j].deps}
  BY <1>1 DEF ReachPasses
<1>5. f[0] = {k} \cap D /\ Reach(reg, k) = f[N]
  BY <1>1 DEF ReachPasses
<1>6. 0 \in T /\ 0 \in I
  <2>1. 0 \in 0..N
    BY <1>2
  <2> HIDE DEF N
  <2> QED BY <1>3, <1>5, <2>1
<1>7. ASSUME NEW i \in 1..N, i - 1 \in T
      PROVE  i \in T
  <2>1. i \in 0..N /\ i - 1 \in 0..N
    BY <1>2
  <2>2. CASE Closed(reg, f[i - 1])
    <3>1. f[i] = f[i - 1]
      <4>1. f[i - 1] \subseteq D
        BY <1>3, <2>1
      <4>2. {d \in D : \E j \in f[i - 1] : d \in reg[j].deps} \subseteq f[i - 1]
        BY <2>2, <4>1 DEF Closed
      <4> QED BY <1>4, <4>2
    <3> HIDE DEF N
    <3> QED BY <2>1, <2>2, <3>1
  <2>3. CASE ~Closed(reg, f[i - 1])
    <3>0. PICK j \in f[i - 1] \cap D : ~(reg[j].deps \cap D \subseteq f[i - 1])
      BY <2>3 DEF Closed
    <3>1. PICK d \in reg[j].deps \cap D : d \notin f[i - 1]
      BY <3>0
    <3>2. f[i - 1] \cup {d} \subseteq f[i]
      BY <1>4, <3>0, <3>1
    <3> HIDE DEF N
    <3>3. Cardinality(f[i - 1] \cup {d}) = Cardinality(f[i - 1]) + 1
      <4>1. PICK old : old = f[i - 1]
        OBVIOUS
      <4>2. IsFiniteSet(old) /\ d \notin old
        BY <1>3, <2>1, <3>1, <4>1
      <4>3. Cardinality(old \cup {d}) = Cardinality(old) + 1
        BY <4>2, FS_AddElement
      <4> QED BY <4>1, <4>3
    <3>4. Cardinality(f[i - 1] \cup {d}) <= Cardinality(f[i])
      BY <1>3, <2>1, <3>2, FS_Subset
    <3>5. Cardinality(f[i - 1]) >= i - 1
      BY <1>7, <2>3
    <3>6. Cardinality(f[i]) \in Nat /\ Cardinality(f[i - 1]) \in Nat
      BY <1>3, <2>1
    <3> QED BY <1>2, <2>1, <3>3, <3>4, <3>5, <3>6
  <2> QED BY <2>2, <2>3
<1>8. ASSUME NEW i \in 1..N, i - 1 \in I
      PROVE  i \in I
  <2>1. i \in 0..N
    BY <1>2
  <2> HIDE DEF N
  <2> QED BY <1>4, <1>8, <2>1
<1>9. N \in T /\ N \in I
  <2>1. (\A i \in 0..N : i \in T) /\ \A i \in 0..N : i \in I
    <3> HIDE DEF T, I, N
    <3> QED BY <1>2, <1>6, <1>7, <1>8, Induction
  <2>2. N \in 0..N
    BY <1>2
  <2> HIDE DEF T, I, N
  <2> QED BY <2>1, <2>2
<1>10. N \in 0..N
  BY <1>2
<1>11. Closed(reg, f[N])
  <2>1. CASE Cardinality(f[N]) >= N
    <3> HIDE DEF N
    <3>1. f[N] = D
      BY <1>2, <1>3, <1>10, <2>1
    <3> QED BY <3>1 DEF Closed
  <2>2. CASE ~(Cardinality(f[N]) >= N)
    BY <1>9, <2>2
  <2> QED BY <2>1, <2>2
<1>12. {k} \cap D \subseteq f[N] /\ f[N] \subseteq D
  <2>1. {k} \cap D \subseteq f[N]
    BY <1>9
  <2> HIDE DEF N
  <2> QED BY <1>3, <1>10, <2>1
<1> QED BY <1>5, <1>11, <1>12

LEMMA ReachLeast ==
    ASSUME NEW reg, IsFiniteSet(DOMAIN reg), NEW k, NEW C, {k} \cap DOMAIN reg \subseteq C, Closed(reg, C)
    PROVE  Reach(reg, k) \subseteq C
<1> DEFINE D == DOMAIN reg
           N == Cardinality(D)
<1>1. PICK f : ReachPasses(reg, k, f)
  BY ReachHasPasses
<1>2. N \in Nat
  BY FS_CardinalityType
<1> DEFINE T == {i \in 0..N : f[i] \subseteq C}
<1>3. 0 \in T
  BY <1>1, <1>2 DEF ReachPasses
<1>4. ASSUME NEW i \in 1..N, i - 1 \in T
      PROVE  i \in T
  <2>1. i \in 0..N /\ i - 1 \in 0..N
    BY <1>2
  <2>2. f[i] = f[i - 1] \cup {d \in D : \E j \in f[i - 1] : d \in reg[j].deps} /\ f[i - 1] \subseteq D
    BY <1>1, <2>1 DEF ReachPasses
  <2>3. f[i - 1] \subseteq C
    BY <1>4
  <2> HIDE DEF N
  <2> QED BY <2>1, <2>2, <2>3 DEF Closed
<1>5. N \in T
  <2>1. \A i \in 0..N : i \in T
    <3> HIDE DEF T, N
    <3> QED BY <1>2, <1>3, <1>4, Induction
  <2>2. N \in 0..N
    BY <1>2
  <2> HIDE DEF T, N
  <2> QED BY <2>1, <2>2
<1>6. Reach(reg, k) = f[N]
  BY <1>1 DEF ReachPasses
<1> QED BY <1>5, <1>6

\* What the same specs reach is the same, and so is the scope they need.
LEMMA SameReach ==
    ASSUME NEW reg, NEW other, IsFiniteSet(DOMAIN reg), Alike(reg, other), NEW k
    PROVE  Reach(other, k) \subseteq Reach(reg, k)
<1>1. DOMAIN other = DOMAIN reg /\ \A j \in DOMAIN reg : other[j].deps = reg[j].deps
  BY DEF Alike, Same
<1>2. {k} \cap DOMAIN other \subseteq Reach(reg, k) /\ Closed(reg, Reach(reg, k))
  BY <1>1, ReachRule
<1>3. PICK C : C = Reach(reg, k)
  OBVIOUS
<1>4. Closed(other, C)
  BY <1>1, <1>2, <1>3 DEF Closed
<1>5. Reach(other, k) \subseteq C
  BY <1>1, <1>2, <1>3, <1>4, ReachLeast
<1> QED BY <1>3, <1>5

LEMMA AlikeBack ==
    ASSUME NEW reg, NEW other, Alike(reg, other)
    PROVE  Alike(other, reg)
BY DEF Alike, Same

LEMMA AlikeTrans ==
    ASSUME NEW reg, NEW other, NEW third, Alike(reg, other), Alike(other, third)
    PROVE  Alike(reg, third)
BY DEF Alike, Same

LEMMA SameContracts ==
    ASSUME NEW g, NEW h, IsFiniteSet(DOMAIN g.reg), Alike(g.reg, h.reg)
    PROVE  ContractBroken(h) => ContractBroken(g)
<1> SUFFICES ASSUME NEW n \in Contract, InferLevel(h, n)
             PROVE  InferLevel(g, n)
  BY DEF ContractBroken
<1>1. PICK k \in Reach(h.reg, Own(n)) : h.reg[k].deep
  BY DEF InferLevel
<1>2. k \in Reach(g.reg, Own(n)) /\ k \in DOMAIN g.reg
  BY <1>1, SameReach, ReachRule
<1>3. g.reg[k].deep
  BY <1>1, <1>2 DEF Alike, Same
<1> QED BY <1>2, <1>3 DEF InferLevel

\* Stable flags are exact: a spec is cleaned up if it reaches a resource.
LEMMA StableIsExact ==
    ASSUME NEW reg, Registry(reg), Stable(reg), NEW k \in DOMAIN reg
    PROVE  reg[k].cleanup <=> \E j \in Reach(reg, k) : reg[j].resource
<1>0. IsFiniteSet(DOMAIN reg)
  BY DEF Registry
<1>1. ASSUME NEW i \in DOMAIN reg
      PROVE  reg[i].cleanup = (reg[i].resource \/ \E d \in reg[i].deps \cap DOMAIN reg : reg[d].cleanup)
  BY DEF Stable, NeedsCleanup
<1>2. ASSUME NEW i \in DOMAIN reg, NEW j \in Reach(reg, i), reg[j].resource
      PROVE  reg[i].cleanup
  <2> DEFINE C == {l \in DOMAIN reg : reg[l].cleanup => reg[i].cleanup}
  <2>1. {i} \cap DOMAIN reg \subseteq C
    OBVIOUS
  <2>2. Closed(reg, C)
    <3> SUFFICES ASSUME NEW l \in C \cap DOMAIN reg, NEW d \in reg[l].deps \cap DOMAIN reg
                 PROVE  d \in C
      BY DEF Closed
    <3>1. reg[d].cleanup => reg[l].cleanup
      BY <1>1
    <3> QED BY <3>1
  <2>3. j \in C
    <3> HIDE DEF C
    <3> QED BY <1>0, <1>2, <2>1, <2>2, ReachLeast
  <2>4. reg[j].cleanup
    BY <1>1, <1>2, <2>3
  <2> QED BY <2>3, <2>4
<1> DEFINE Bad == {i \in DOMAIN reg : reg[i].cleanup /\ ~\E j \in Reach(reg, i) : reg[j].resource}
<1>3. Bad = {}
  <2> SUFFICES ASSUME Bad # {} PROVE FALSE
    OBVIOUS
  <2>1. PICK i \in Bad : \A j \in Bad : ~Below(j, i)
    <3>1. Bad \subseteq Key
      BY DEF Registry
    <3> HIDE DEF Bad
    <3> QED BY <3>1, LowestKey
  <2>2. i \in DOMAIN reg /\ reg[i].cleanup /\ ~\E j \in Reach(reg, i) : reg[j].resource
    OBVIOUS
  <2>3. i \in Reach(reg, i) /\ Closed(reg, Reach(reg, i))
    BY <1>0, <2>2, ReachRule
  <2>4. PICK d \in reg[i].deps \cap DOMAIN reg : reg[d].cleanup
    BY <1>1, <2>2, <2>3
  <2>5. d \notin Bad
    <3>1. Below(d, i)
      BY <2>2, <2>4 DEF Registry
    <3> HIDE DEF Bad
    <3> QED BY <2>1, <3>1
  <2>6. PICK j \in Reach(reg, d) : reg[j].resource
    BY <2>4, <2>5
  <2>7. PICK C : C = Reach(reg, i)
    OBVIOUS
  <2>8. Closed(reg, C) /\ {d} \cap DOMAIN reg \subseteq C
    BY <2>2, <2>3, <2>4, <2>7 DEF Closed
  <2>9. Reach(reg, d) \subseteq C
    BY <1>0, <2>8, ReachLeast
  <2> QED BY <2>2, <2>6, <2>7, <2>9
<1> QED BY <1>2, <1>3

-----------------------------------------------------------------------------
(* Graphs, and the chains in them.                                         *)
ChainType == [base : Key, layers : Seq(Key)]
Registries == UNION {[D -> SpecType] : D \in SUBSET Key}

Typed(g) ==
    /\ g.open \subseteq Generic /\ g.rules \in [Name -> Seq(Decorator)]
    /\ g.chain \in [Name -> {NoChain} \cup ChainType] /\ g.aliases \in Nat

AnyGraph ==
    {g \in [reg : Registries, open : SUBSET Generic, rules : [Name -> Seq(Decorator)],
            chain : [Name -> {NoChain} \cup ChainType], aliases : Nat] : Registry(g.reg)}

LEMMA AnyGraphRule ==
    ASSUME NEW g
    PROVE  g \in AnyGraph <=> Shaped(g) /\ Registry(g.reg) /\ Typed(g)
<1> DEFINE Chains == {NoChain} \cup ChainType
           Opens == SUBSET Generic
           Rules == [Name -> Seq(Decorator)]
<1> HIDE DEF Chains, Opens, Rules
<1>1. g \in AnyGraph <=>
        g \in [reg : Registries, open : Opens, rules : Rules, chain : [Name -> Chains], aliases : Nat]
        /\ Registry(g.reg)
  BY DEF AnyGraph, Chains, Opens, Rules
<1>2. Registry(g.reg) => g.reg \in Registries
  BY DEF Registry, Registries
<1>3. Typed(g) <=> g.open \in Opens /\ g.rules \in Rules /\ g.chain \in [Name -> Chains] /\ g.aliases \in Nat
  BY DEF Typed, Chains, Opens, Rules
<1>4. ASSUME g \in AnyGraph
      PROVE  Shaped(g) /\ Registry(g.reg) /\ Typed(g)
  <2>1. g \in [reg : Registries, open : Opens, rules : Rules, chain : [Name -> Chains], aliases : Nat]
    BY <1>1, <1>4
  <2> QED BY <1>1, <1>3, <1>4, <2>1 DEF Shaped
<1>5. ASSUME Shaped(g), Registry(g.reg), Typed(g)
      PROVE  g \in AnyGraph
  <2>1. g.reg \in Registries /\ g.open \in Opens /\ g.rules \in Rules /\ g.chain \in [Name -> Chains]
        /\ g.aliases \in Nat
    BY <1>2, <1>3, <1>5
  <2>2. g \in [reg : Registries, open : Opens, rules : Rules, chain : [Name -> Chains], aliases : Nat]
    BY <1>5, <2>1 DEF Shaped
  <2> QED BY <1>1, <1>5, <2>2
<1> QED BY <1>4, <1>5

LEMMA SameButRegGraph ==
    ASSUME NEW g \in AnyGraph, NEW h, SameButReg(g, h)
    PROVE  h \in AnyGraph
BY AnyGraphRule DEF SameButReg, Typed

\* The chain of a dependency, made of alias keys up to the given number: it leads up from its base.
Layered(n, c, last) ==
    /\ c \in ChainType /\ Len(c.layers) > 0 /\ c.layers[Len(c.layers)] = Own(n)
    /\ c.base[1] = n /\ c.base[2] \in 1..last
    /\ \A i \in 1..Len(c.layers) - 1 :
        c.layers[i][1] = n /\ c.layers[i][2] \in 1..last /\ c.base[2] < c.layers[i][2]
    /\ \A i, j \in 1..Len(c.layers) - 1 : i < j => c.layers[i][2] < c.layers[j][2]

\* The decorators are some that the application puts on it.
Allowed(g, n) == \A i \in 1..Len(g.rules[n]) : g.rules[n][i] \in Decorates[n]

LayerAt(g, n, c, i) == Spec4(LayerSpec(g, n, c, i), c.layers[i])

LEMMA LayersFit ==
    ASSUME NEW g \in AnyGraph, NEW n \in Name, Allowed(g, n), NEW c, NEW last \in Nat, Layered(n, c, last),
           c.base \in DOMAIN g.reg, Len(c.layers) <= Len(g.rules[n])
    PROVE  /\ \A i \in 1..Len(c.layers) : c.layers[i] \in Key /\ c.layers[i][1] = n /\ LayerAt(g, n, c, i)
           /\ \A i, j \in 1..Len(c.layers) : i # j => c.layers[i] # c.layers[j]
           /\ \A i \in 1..Len(c.layers) : c.layers[i] # c.base
<1>1. /\ c.layers \in Seq(Key) /\ c.base \in Key /\ Len(c.layers) \in Nat /\ Len(c.layers) > 0
      /\ c.base[2] \in Nat /\ c.base[2] # 0 /\ c.base[1] = n
  BY DEF Layered, ChainType
<1>2. /\ \A i \in 1..Len(c.layers) - 1 :
            c.layers[i][1] = n /\ c.layers[i][2] \in Nat /\ c.layers[i][2] # 0 /\ c.base[2] < c.layers[i][2]
      /\ \A i, j \in 1..Len(c.layers) - 1 : i < j => c.layers[i][2] < c.layers[j][2]
      /\ c.layers[Len(c.layers)][1] = n /\ c.layers[Len(c.layers)][2] = 0
  BY DEF Layered, Own
<1>3. Registry(g.reg) /\ g.rules[n] \in Seq(Decorator)
  BY AnyGraphRule DEF Typed
<1>4. ASSUME NEW i \in 1..Len(c.layers)
      PROVE  c.layers[i] \in Key /\ c.layers[i][1] = n
  BY <1>1, <1>2
<1>0. ASSUME NEW i \in 1..Len(c.layers), NEW j \in 1..Len(c.layers), i < j
      PROVE  c.layers[i] # c.layers[j]
  <2>1. i \in 1..Len(c.layers) - 1
    BY <1>0, <1>1
  <2>2. CASE j = Len(c.layers)
    <3>1. c.layers[i][2] # 0 /\ c.layers[j][2] = 0
      BY <1>2, <2>1, <2>2
    <3> QED BY <3>1
  <2>3. CASE j # Len(c.layers)
    <3>1. j \in 1..Len(c.layers) - 1
      BY <1>1, <2>3
    <3>2. c.layers[i][2] < c.layers[j][2] /\ c.layers[i][2] \in Nat
      BY <1>0, <1>2, <2>1, <3>1
    <3> QED BY <3>2
  <2> QED BY <2>2, <2>3
<1>5. ASSUME NEW i \in 1..Len(c.layers), NEW j \in 1..Len(c.layers), i # j
      PROVE  c.layers[i] # c.layers[j]
  <2>1. i < j \/ j < i
    BY <1>1, <1>5
  <2> QED BY <1>0, <2>1
<1>6. ASSUME NEW i \in 1..Len(c.layers)
      PROVE  c.layers[i] # c.base
  BY <1>1, <1>2
<1>7. ASSUME NEW i \in 1..Len(c.layers)
      PROVE  LayerAt(g, n, c, i)
  <2>1. i \in 1..Len(g.rules[n])
    BY <1>1, <1>3
  <2>2. PICK d : d = g.rules[n][i]
    OBVIOUS
  <2>3. d \in Decorates[n] /\ d \in Decorator
    BY <1>3, <2>1, <2>2 DEF Allowed
  <2>4. Wants[d] \subseteq Name /\ \A w \in Wants[d] : Rank[w] < Rank[n]
    <3>1. Wants[d] \subseteq Name
      BY <2>3, GraphAssumption
    <3>2. Wants[d] \subseteq Asks(n)
      BY <2>3 DEF Asks
    <3> QED BY <3>1, <3>2, RankFact DEF Ranks
  <2>5. OwnKeys(Wants[d]) \subseteq Key /\ \A k \in OwnKeys(Wants[d]) : Below(k, c.layers[i])
    <3>1. \A w \in Wants[d] : Own(w) \in Key /\ Own(w)[1] = w
      BY <2>4 DEF Own, Key
    <3>2. \A w \in Wants[d] : Below(Own(w), c.layers[i])
      BY <1>4, <2>4, <3>1 DEF Below
    <3> QED BY <3>1, <3>2 DEF OwnKeys
  <2>6. Inner(c, i) \in Key /\ Below(Inner(c, i), c.layers[i])
    <3>1. CASE i = 1
      BY <1>1, <1>2, <1>4, <3>1 DEF Inner, Below
    <3>2. CASE i # 1
      <4>1. i - 1 \in 1..Len(c.layers) - 1
        BY <1>1, <3>2
      <4>2. c.layers[i - 1] \in Key /\ c.layers[i - 1][1] = n /\ c.layers[i - 1][2] # 0
        BY <1>1, <1>2, <4>1
      <4>3. c.layers[i][2] = 0 \/ c.layers[i - 1][2] < c.layers[i][2]
        <5>1. CASE i = Len(c.layers)
          BY <1>2, <5>1
        <5>2. CASE i # Len(c.layers)
          <6>1. i \in 1..Len(c.layers) - 1 /\ i - 1 < i
            BY <1>1, <5>2
          <6> QED BY <1>2, <4>1, <6>1
        <5> QED BY <5>1, <5>2
      <4> QED BY <1>4, <3>2, <4>2, <4>3 DEF Inner, Below
    <3> QED BY <3>1, <3>2
  <2>7. g.reg[c.base].deep \in BOOLEAN
    BY <1>3 DEF Registry, SpecType
  <2>8. PICK spec : spec = LayerSpec(g, n, c, i)
    OBVIOUS
  <2>9. PICK deps : deps = {Inner(c, i)} \cup OwnKeys(Wants[d])
    OBVIOUS
  <2>10. deps \subseteq Key /\ \A k \in deps : Below(k, c.layers[i])
    BY <2>5, <2>6, <2>9
  <2>11. spec = [by |-> d, version |-> 0, deps |-> deps, deep |-> g.reg[c.base].deep, resource |-> FALSE,
                 cleanup |-> FALSE]
    BY <2>2, <2>8, <2>9 DEF LayerSpec, ProviderSpec
  <2>12. spec \in SpecType /\ spec.deps = deps
    BY <2>3, <2>7, <2>10, <2>11 DEF SpecType
  <2> QED BY <2>8, <2>10, <2>12 DEF LayerAt, Spec4
<1> QED BY <1>4, <1>5, <1>6, <1>7

\* The first i layers of the chain are put.
LayersPut(g, n, c, i, h) ==
    /\ h \in AnyGraph /\ h.open = g.open /\ h.rules = g.rules
    /\ h.chain = g.chain /\ h.aliases = g.aliases /\ (i > 0 => Stable(h.reg))
    /\ DOMAIN h.reg = DOMAIN g.reg \cup {c.layers[j] : j \in 1..i}
    /\ \A j \in 1..i : Same(LayerSpec(g, n, c, j), h.reg[c.layers[j]])
    /\ \A k \in DOMAIN g.reg : (\A j \in 1..i : k # c.layers[j]) => Same(g.reg[k], h.reg[k])

LEMMA SameTrans ==
    ASSUME NEW a, NEW b, NEW c, Same(a, b), Same(b, c)
    PROVE  Same(a, c)
BY DEF Same

LEMMA NextLayer ==
    ASSUME NEW g \in AnyGraph, NEW n, NEW c, NEW N \in Nat, NEW i \in 1..N,
           \A j \in 1..N : c.layers[j] \in Key /\ LayerAt(g, n, c, j),
           \A j, l \in 1..N : j # l => c.layers[j] # c.layers[l],
           NEW h, LayersPut(g, n, c, i - 1, h)
    PROVE  LayersPut(g, n, c, i, Put(h, c.layers[i], LayerSpec(g, n, c, i)))
<1>1. /\ h \in AnyGraph /\ h.open = g.open /\ h.rules = g.rules
      /\ h.chain = g.chain /\ h.aliases = g.aliases
      /\ DOMAIN h.reg = DOMAIN g.reg \cup {c.layers[j] : j \in 1..i - 1}
      /\ \A j \in 1..i - 1 : Same(LayerSpec(g, n, c, j), h.reg[c.layers[j]])
      /\ \A k \in DOMAIN g.reg : (\A j \in 1..i - 1 : k # c.layers[j]) => Same(g.reg[k], h.reg[k])
  BY DEF LayersPut
<1>2. PICK k : k = c.layers[i]
  OBVIOUS
<1>3. PICK spec : spec = LayerSpec(g, n, c, i)
  OBVIOUS
<1>4. k \in Key /\ Spec4(spec, k)
  BY <1>2, <1>3 DEF LayerAt
<1>5. PICK m : m = Put(h, k, spec)
  OBVIOUS
<1>6. Shaped(h) /\ Registry(h.reg)
  BY <1>1, AnyGraphRule
<1>7. Puts(h, k, spec, m)
  BY <1>4, <1>5, <1>6, PutRule
<1>8. /\ m \in AnyGraph /\ m.open = g.open /\ m.rules = g.rules
      /\ m.chain = g.chain /\ m.aliases = g.aliases /\ Stable(m.reg)
  BY <1>1, <1>7, SameButRegGraph DEF Puts, SameButReg
<1>9. 1..i = (1..i - 1) \cup {i} /\ i \notin 1..i - 1 /\ 1..i - 1 \subseteq 1..N
  OBVIOUS
<1>10. DOMAIN m.reg = DOMAIN g.reg \cup {c.layers[j] : j \in 1..i}
  <2>1. DOMAIN m.reg = DOMAIN h.reg \cup {k}
    BY <1>7 DEF Puts
  <2>2. {c.layers[j] : j \in 1..i} = {c.layers[j] : j \in 1..i - 1} \cup {k}
    BY <1>2, <1>9
  <2> QED BY <1>1, <2>1, <2>2
<1>11. ASSUME NEW j \in 1..i
       PROVE  Same(LayerSpec(g, n, c, j), m.reg[c.layers[j]])
  <2>1. CASE j = i
    BY <1>2, <1>3, <1>7, <2>1 DEF Puts
  <2>2. CASE j # i
    <3>1. j \in 1..i - 1 /\ j \in 1..N /\ i \in 1..N
      BY <1>9, <2>2
    <3>2. c.layers[j] # k
      BY <1>2, <2>2, <3>1
    <3>3. c.layers[j] \in DOMAIN h.reg \ {k}
      BY <1>1, <3>1, <3>2
    <3>4. Same(h.reg[c.layers[j]], m.reg[c.layers[j]])
      BY <1>7, <3>3 DEF Puts
    <3>5. Same(LayerSpec(g, n, c, j), h.reg[c.layers[j]])
      BY <1>1, <3>1
    <3> QED BY <3>4, <3>5, SameTrans
  <2> QED BY <2>1, <2>2
<1>12. ASSUME NEW l \in DOMAIN g.reg, \A j \in 1..i : l # c.layers[j]
       PROVE  Same(g.reg[l], m.reg[l])
  <2>1. l # k /\ \A j \in 1..i - 1 : l # c.layers[j]
    BY <1>2, <1>9, <1>12
  <2>2. Same(g.reg[l], h.reg[l])
    BY <1>1, <2>1
  <2>3. Same(h.reg[l], m.reg[l])
    BY <1>1, <1>7, <2>1 DEF Puts
  <2> QED BY <2>2, <2>3, SameTrans
<1>13. LayersPut(g, n, c, i, m)
  BY <1>8, <1>10, <1>11, <1>12 DEF LayersPut
<1> QED BY <1>2, <1>3, <1>5, <1>13

LEMMA RebuildRule ==
    ASSUME NEW g \in AnyGraph, NEW n \in Name, Allowed(g, n), NEW c, NEW last \in Nat, Layered(n, c, last),
           c.base \in DOMAIN g.reg, Len(c.layers) <= Len(g.rules[n])
    PROVE  LayersPut(g, n, c, Len(c.layers), Rebuild(g, n, c))
<1>1. PICK N : N = Len(c.layers)
  OBVIOUS
<1>2. N \in Nat
  BY <1>1 DEF Layered, ChainType
<1>3. /\ \A j \in 1..N : c.layers[j] \in Key /\ LayerAt(g, n, c, j)
      /\ \A j, l \in 1..N : j # l => c.layers[j] # c.layers[l]
  BY <1>1, LayersFit
<1> DEFINE put(h, i) == Put(h, c.layers[i], LayerSpec(g, n, c, i))
           step == [i \in 1..N |-> [h \in AnyGraph |-> put(h, i)]]
           Rule(w) == w = [i \in 0..N |-> IF i = 0 THEN g ELSE put(w[i - 1], i)]
<1>4. \A h \in AnyGraph, i \in 1..N : put(h, i) \in AnyGraph
  <2> SUFFICES ASSUME NEW h \in AnyGraph, NEW i \in 1..N PROVE put(h, i) \in AnyGraph
    OBVIOUS
  <2>1. PICK k : k = c.layers[i]
    OBVIOUS
  <2>2. PICK spec : spec = LayerSpec(g, n, c, i)
    OBVIOUS
  <2>3. k \in Key /\ Spec4(spec, k)
    BY <1>3, <2>1, <2>2 DEF LayerAt
  <2>4. PICK m : m = Put(h, k, spec)
    OBVIOUS
  <2>5. SameButReg(h, m)
    BY <2>3, <2>4, AnyGraphRule, PutRule DEF Puts
  <2>6. m \in AnyGraph
    BY <2>5, SameButRegGraph
  <2> QED BY <2>1, <2>2, <2>4, <2>6
<1>5. step \in [1..N -> [AnyGraph -> AnyGraph]]
  <2> HIDE DEF put
  <2> QED BY <1>4
<1>6. PICK f \in [0..N -> AnyGraph] : Passes(N, g, step, f)
  <2> HIDE DEF step
  <2> QED BY <1>2, <1>5, PassesExist
<1>7. Rule(f)
  <2>1. f = [i \in 0..N |-> IF i = 0 THEN g ELSE step[i][f[i - 1]]]
    BY <1>6 DEF Passes
  <2>2. ASSUME NEW i \in 0..N
        PROVE  (IF i = 0 THEN g ELSE step[i][f[i - 1]]) = IF i = 0 THEN g ELSE put(f[i - 1], i)
    <3>1. CASE i = 0
      BY <3>1
    <3>2. CASE i # 0
      <4>1. i - 1 \in 0..N /\ i \in 1..N
        BY <1>2, <3>2
      <4>2. f[i - 1] \in AnyGraph
        BY <4>1
      <4> HIDE DEF put
      <4> QED BY <3>2, <4>1, <4>2
    <3> QED BY <3>1, <3>2
  <2> HIDE DEF step, put
  <2> QED BY <2>1, <2>2
<1> DEFINE w == CHOOSE h : Rule(h)
<1>8. Rebuild(g, n, c) = w[N]
  BY <1>1 DEF Rebuild
<1>9. Rule(w)
  <2> HIDE DEF Rule
  <2> QED BY <1>7
<1> HIDE DEF w
<1>10. \A i \in 0..N : w[i] = IF i = 0 THEN g ELSE put(w[i - 1], i)
  <2> HIDE DEF put
  <2> QED BY <1>9
<1> DEFINE T == {i \in 0..N : LayersPut(g, n, c, i, w[i])}
<1>11. 0 \in T
  <2>1. 0 \in 0..N /\ w[0] = g
    BY <1>2, <1>10
  <2>2. LayersPut(g, n, c, 0, g)
    <3>1. 1..0 = {}
      OBVIOUS
    <3>2. {c.layers[j] : j \in 1..0} = {}
      BY <3>1
    <3> QED BY <3>1, <3>2 DEF LayersPut, Same
  <2> QED BY <2>1, <2>2
<1>12. \A i \in 1..N : i - 1 \in T => i \in T
  <2> SUFFICES ASSUME NEW i \in 1..N, i - 1 \in T PROVE i \in T
    OBVIOUS
  <2>1. i \in 0..N /\ i # 0
    BY <1>2
  <2>2. LayersPut(g, n, c, i - 1, w[i - 1])
    OBVIOUS
  <2>3. w[i] = Put(w[i - 1], c.layers[i], LayerSpec(g, n, c, i))
    BY <1>10, <2>1
  <2>4. PICK h : h = w[i - 1]
    OBVIOUS
  <2>5. LayersPut(g, n, c, i, Put(h, c.layers[i], LayerSpec(g, n, c, i)))
    BY <1>2, <1>3, <2>2, <2>4, NextLayer
  <2> QED BY <2>1, <2>3, <2>4, <2>5
<1>13. N \in 0..N
  BY <1>2
<1>14. N \in T
  <2> HIDE DEF T
  <2>1. \A i \in 0..N : i \in T
    BY <1>2, <1>11, <1>12, Induction
  <2> QED BY <1>13, <2>1
<1> QED BY <1>1, <1>8, <1>14


-----------------------------------------------------------------------------
(* A graph in order.  A dependency is decorated in order (Good) when its   *)
(* chain, if it has one, is wired layer by layer around a binding that is  *)
(* no decorator; without a chain nothing may wait to be put around it.     *)
\* A binding is no decorator, and asks for other dependencies only.
Plain(g, k) ==
    k \in DOMAIN g.reg =>
        /\ g.reg[k].by \notin Decorator
        /\ \A d \in g.reg[k].deps : d \in Key /\ Rank[d[1]] < Rank[k[1]]

ChainOK(g, n) ==
    /\ Allowed(g, n)
    /\ g.chain[n] = NoChain => Plain(g, Own(n))
    /\ g.chain[n] # NoChain =>
        /\ Layered(n, g.chain[n], g.aliases) /\ Len(g.chain[n].layers) <= Len(g.rules[n])
        /\ g.chain[n].base \in DOMAIN g.reg /\ Own(n) \in DOMAIN g.reg

Graph(g) == g \in AnyGraph /\ Stable(g.reg) /\ \A n \in Name : ChainOK(g, n)

WiredLayer(g, n, c, i) ==
    /\ c.layers[i] \in DOMAIN g.reg
    /\ g.reg[c.layers[i]].by = g.rules[n][i] /\ Inner(c, i) \in g.reg[c.layers[i]].deps

InOrder(g, n) ==
    LET c == g.chain[n] IN
    /\ Len(c.layers) = Len(g.rules[n]) /\ Plain(g, c.base)
    /\ \A i \in 1..Len(c.layers) : WiredLayer(g, n, c, i)

Good(g, n) ==
    IF g.chain[n] = NoChain THEN (IsRegistered(g, n) => g.rules[n] = <<>>) /\ Plain(g, Own(n))
    ELSE InOrder(g, n)

AllGood(g) == \A n \in Name : Good(g, n)

\* What h has of a dependency is what g has of it.
Kept(g, h, m) ==
    /\ h.rules[m] = g.rules[m] /\ h.chain[m] = g.chain[m]
    /\ \A k \in Key : k[1] = m =>
        /\ k \in DOMAIN h.reg <=> k \in DOMAIN g.reg
        /\ k \in DOMAIN g.reg => Same(g.reg[k], h.reg[k])

\* h is g but for what it has of n.
Changes(g, h, n) ==
    /\ h \in AnyGraph /\ Stable(h.reg) /\ h.open = g.open /\ g.aliases <= h.aliases
    /\ \A m \in Name \ {n} : Kept(g, h, m)

LEMMA KeptTrans ==
    ASSUME NEW g, NEW h, NEW i, NEW m, Kept(g, h, m), Kept(h, i, m)
    PROVE  Kept(g, i, m)
<1>1. i.rules[m] = g.rules[m] /\ i.chain[m] = g.chain[m]
  BY DEF Kept
<1>2. ASSUME NEW k \in Key, k[1] = m
      PROVE  /\ k \in DOMAIN i.reg <=> k \in DOMAIN g.reg
             /\ k \in DOMAIN g.reg => Same(g.reg[k], i.reg[k])
  BY <1>2, SameTrans DEF Kept
<1> QED BY <1>1, <1>2 DEF Kept

LEMMA ChangesTrans ==
    ASSUME NEW g \in AnyGraph, NEW h, NEW i, NEW n, Changes(g, h, n), Changes(h, i, n)
    PROVE  Changes(g, i, n)
<1>1. i \in AnyGraph /\ Stable(i.reg) /\ i.open = g.open
  BY DEF Changes
<1>2. g.aliases \in Nat /\ h.aliases \in Nat /\ i.aliases \in Nat
  BY AnyGraphRule DEF Changes, Typed
<1>3. g.aliases <= i.aliases
  BY <1>2 DEF Changes
<1>4. \A m \in Name \ {n} : Kept(g, i, m)
  BY KeptTrans DEF Changes
<1> QED BY <1>1, <1>3, <1>4 DEF Changes

LEMMA OwnFact ==
    ASSUME NEW n \in Name
    PROVE  Own(n) \in Key /\ Own(n)[1] = n /\ Own(n)[2] = 0
BY DEF Own, Key

LEMMA LayeredFact ==
    ASSUME NEW n \in Name, NEW c, NEW last, Layered(n, c, last)
    PROVE  /\ c.base \in Key /\ c.base[1] = n /\ Len(c.layers) \in Nat \ {0}
           /\ \A i \in 1..Len(c.layers) : c.layers[i] \in Key /\ c.layers[i][1] = n
<1>1. c.base \in Key /\ c.layers \in Seq(Key) /\ c.base[1] = n /\ Len(c.layers) \in Nat \ {0}
  BY DEF Layered, ChainType
<1>2. ASSUME NEW i \in 1..Len(c.layers)
      PROVE  c.layers[i] \in Key /\ c.layers[i][1] = n
  <2>1. c.layers[i] \in Key
    BY <1>1
  <2>2. CASE i = Len(c.layers)
    BY <2>1, <2>2, OwnFact DEF Layered
  <2>3. CASE i # Len(c.layers)
    <3>1. i \in 1..Len(c.layers) - 1
      BY <1>1, <2>3
    <3> QED BY <2>1, <3>1 DEF Layered
  <2> QED BY <2>2, <2>3
<1> QED BY <1>1, <1>2

LEMMA KeptOrder ==
    ASSUME NEW g \in AnyGraph, NEW h \in AnyGraph, NEW m \in Name, Kept(g, h, m), g.aliases <= h.aliases,
           ChainOK(g, m)
    PROVE  ChainOK(h, m) /\ (Good(g, m) => Good(h, m))
<1>1. h.rules[m] = g.rules[m] /\ h.chain[m] = g.chain[m]
  BY DEF Kept
<1>2. ASSUME NEW k \in Key, k[1] = m
      PROVE  /\ k \in DOMAIN h.reg <=> k \in DOMAIN g.reg
             /\ k \in DOMAIN g.reg => h.reg[k].by = g.reg[k].by /\ h.reg[k].deps = g.reg[k].deps
  BY <1>2 DEF Kept, Same
<1>3. Own(m) \in DOMAIN h.reg <=> Own(m) \in DOMAIN g.reg
  BY <1>2, OwnFact
<1>4. Plain(g, Own(m)) => Plain(h, Own(m))
  BY <1>2, OwnFact DEF Plain
<1>5. Allowed(h, m)
  BY <1>1 DEF ChainOK, Allowed
<1>6. CASE g.chain[m] = NoChain
  BY <1>1, <1>3, <1>4, <1>5, <1>6 DEF ChainOK, Good, IsRegistered
<1>7. CASE g.chain[m] # NoChain
  <2>1. PICK c : c = g.chain[m]
    OBVIOUS
  <2>2. Layered(m, c, g.aliases) /\ c.base \in DOMAIN g.reg /\ Own(m) \in DOMAIN g.reg
        /\ Len(c.layers) <= Len(g.rules[m])
    BY <1>7, <2>1 DEF ChainOK
  <2>3. g.aliases \in Nat /\ h.aliases \in Nat
    BY AnyGraphRule DEF Typed
  <2>4. Layered(m, c, h.aliases)
    <3>1. 1..g.aliases \subseteq 1..h.aliases
      BY <2>3
    <3> QED BY <2>2, <3>1 DEF Layered
  <2>5. c.base \in Key /\ c.base[1] = m /\ \A i \in 1..Len(c.layers) : c.layers[i] \in Key /\ c.layers[i][1] = m
    BY <2>2, LayeredFact
  <2>6. ChainOK(h, m)
    BY <1>1, <1>2, <1>3, <1>5, <1>7, <2>1, <2>2, <2>4, <2>5 DEF ChainOK
  <2>7. ASSUME Good(g, m)
        PROVE  Good(h, m)
    <3>1. Len(c.layers) = Len(g.rules[m]) /\ Plain(g, c.base) /\ \A i \in 1..Len(c.layers) : WiredLayer(g, m, c, i)
      BY <1>7, <2>1, <2>7 DEF Good, InOrder
    <3>2. Plain(h, c.base)
      BY <1>2, <2>5, <3>1 DEF Plain
    <3>3. ASSUME NEW i \in 1..Len(c.layers)
          PROVE  WiredLayer(h, m, c, i)
      BY <1>1, <1>2, <2>5, <3>1 DEF WiredLayer
    <3> QED BY <1>1, <1>7, <2>1, <3>1, <3>2, <3>3 DEF Good, InOrder
  <2> QED BY <2>6, <2>7
<1> QED BY <1>6, <1>7

LEMMA GraphAfter ==
    ASSUME NEW g, Graph(g), NEW h, NEW n, Changes(g, h, n), n \in Name => ChainOK(h, n)
    PROVE  Graph(h) /\ \A m \in Name \ {n} : Good(g, m) => Good(h, m)
<1>1. g \in AnyGraph /\ h \in AnyGraph /\ g.aliases <= h.aliases /\ Stable(h.reg)
  BY DEF Graph, Changes
<1>2. ASSUME NEW m \in Name \ {n}
      PROVE  ChainOK(h, m) /\ (Good(g, m) => Good(h, m))
  BY <1>1, KeptOrder DEF Graph, Changes
<1> QED BY <1>1, <1>2 DEF Graph

LEMMA PutChanges ==
    ASSUME NEW g \in AnyGraph, NEW n \in Name, NEW k \in Key, k[1] = n, NEW spec, NEW h, Puts(g, k, spec, h)
    PROVE  Changes(g, h, n)
<1>1. h \in AnyGraph /\ Stable(h.reg) /\ h.open = g.open /\ h.aliases = g.aliases
      /\ h.rules = g.rules /\ h.chain = g.chain
  BY SameButRegGraph DEF Puts, SameButReg
<1>2. g.aliases <= h.aliases
  <2>1. g.aliases \in Nat
    BY AnyGraphRule DEF Typed
  <2> QED BY <1>1, <2>1
<1>3. ASSUME NEW m \in Name \ {n}
      PROVE  Kept(g, h, m)
  <2>1. ASSUME NEW j \in Key, j[1] = m
        PROVE  /\ j \in DOMAIN h.reg <=> j \in DOMAIN g.reg
               /\ j \in DOMAIN g.reg => Same(g.reg[j], h.reg[j])
    <3>1. j # k
      BY <2>1
    <3> QED BY <3>1 DEF Puts
  <2> QED BY <1>1, <2>1 DEF Kept
<1> QED BY <1>1, <1>2, <1>3 DEF Changes

\* The chain is wired around its base.
Wraps(g, n, c, h) ==
    /\ Changes(g, h, n) /\ h.rules = g.rules /\ h.chain = g.chain /\ h.aliases = g.aliases
    /\ Own(n) \in DOMAIN h.reg /\ c.base \in DOMAIN h.reg /\ Same(g.reg[c.base], h.reg[c.base])
    /\ \A i \in 1..Len(c.layers) : WiredLayer(h, n, c, i)

LEMMA RebuildWraps ==
    ASSUME NEW g \in AnyGraph, NEW n \in Name, Allowed(g, n), NEW c, Layered(n, c, g.aliases),
           c.base \in DOMAIN g.reg, Len(c.layers) <= Len(g.rules[n])
    PROVE  Wraps(g, n, c, Rebuild(g, n, c))
<1>1. PICK h : h = Rebuild(g, n, c)
  OBVIOUS
<1>2. g.aliases \in Nat
  BY AnyGraphRule DEF Typed
<1>3. LayersPut(g, n, c, Len(c.layers), h)
  BY <1>1, <1>2, RebuildRule
<1>4. /\ \A i \in 1..Len(c.layers) : c.layers[i] \in Key /\ c.layers[i][1] = n
      /\ \A i \in 1..Len(c.layers) : c.layers[i] # c.base
      /\ c.base \in Key /\ c.base[1] = n /\ Len(c.layers) \in Nat \ {0}
  BY <1>2, LayersFit, LayeredFact
<1>5. /\ h \in AnyGraph /\ h.open = g.open /\ h.rules = g.rules
      /\ h.chain = g.chain /\ h.aliases = g.aliases /\ Stable(h.reg)
      /\ DOMAIN h.reg = DOMAIN g.reg \cup {c.layers[j] : j \in 1..Len(c.layers)}
      /\ \A j \in 1..Len(c.layers) : Same(LayerSpec(g, n, c, j), h.reg[c.layers[j]])
      /\ \A k \in DOMAIN g.reg : (\A j \in 1..Len(c.layers) : k # c.layers[j]) => Same(g.reg[k], h.reg[k])
  BY <1>3, <1>4 DEF LayersPut
<1>6. Own(n) \in DOMAIN h.reg
  BY <1>4, <1>5 DEF Layered
<1>7. c.base \in DOMAIN h.reg /\ Same(g.reg[c.base], h.reg[c.base])
  BY <1>4, <1>5
<1>8. ASSUME NEW i \in 1..Len(c.layers)
      PROVE  WiredLayer(h, n, c, i)
  <2>1. PICK spec : spec = LayerSpec(g, n, c, i)
    OBVIOUS
  <2>2. spec.by = g.rules[n][i] /\ Inner(c, i) \in spec.deps
    BY <2>1 DEF LayerSpec, ProviderSpec
  <2>3. Same(spec, h.reg[c.layers[i]])
    BY <1>5, <2>1
  <2> QED BY <1>5, <2>2, <2>3 DEF WiredLayer, Same
<1>9. ASSUME NEW m \in Name \ {n}
      PROVE  Kept(g, h, m)
  <2>1. ASSUME NEW k \in Key, k[1] = m
        PROVE  /\ k \in DOMAIN h.reg <=> k \in DOMAIN g.reg
               /\ k \in DOMAIN g.reg => Same(g.reg[k], h.reg[k])
    <3>1. \A j \in 1..Len(c.layers) : k # c.layers[j]
      BY <1>4, <2>1
    <3> QED BY <1>5, <3>1
  <2> QED BY <1>5, <2>1 DEF Kept
<1>10. Changes(g, h, n)
  <2>1. g.aliases <= h.aliases
    BY <1>2, <1>5
  <2> QED BY <1>5, <1>9, <2>1 DEF Changes
<1>11. Wraps(g, n, c, h)
  BY <1>5, <1>6, <1>7, <1>8, <1>10 DEF Wraps
<1> QED BY <1>1, <1>11

\* n is dealt with: what it has is in its place, and nothing else changed.
Settles(g, h, n) ==
    /\ Changes(g, h, n) /\ ChainOK(h, n) /\ h.rules = g.rules
    /\ Own(n) \in DOMAIN g.reg => Own(n) \in DOMAIN h.reg

LEMMA SettlesNothing ==
    ASSUME NEW g, Graph(g), NEW n \in Name
    PROVE  Settles(g, g, n)
<1>1. g.aliases <= g.aliases
  <2>1. g.aliases \in Nat
    BY AnyGraphRule DEF Graph, Typed
  <2> QED BY <2>1
<1> QED BY <1>1 DEF Graph, Settles, Changes, Kept, Same

LEMMA PlainSame ==
    ASSUME NEW g, NEW h, NEW k, Plain(g, k), k \in DOMAIN g.reg, Same(g.reg[k], h.reg[k])
    PROVE  Plain(h, k)
BY DEF Plain, Same

\* The chain that is in the graph is wired again.
LEMMA RebuildSettles ==
    ASSUME NEW g \in AnyGraph, NEW n \in Name, ChainOK(g, n), NEW c, c = g.chain[n], c # NoChain
    PROVE  /\ Settles(g, Rebuild(g, n, c), n)
           /\ Plain(g, c.base) /\ Len(c.layers) = Len(g.rules[n]) => Good(Rebuild(g, n, c), n)
<1>1. PICK h : h = Rebuild(g, n, c)
  OBVIOUS
<1>2. /\ Allowed(g, n) /\ Layered(n, c, g.aliases) /\ Len(c.layers) <= Len(g.rules[n])
      /\ c.base \in DOMAIN g.reg /\ Own(n) \in DOMAIN g.reg
  BY DEF ChainOK
<1>3. Wraps(g, n, c, h)
  BY <1>1, <1>2, RebuildWraps
<1>4. Changes(g, h, n) /\ h.rules = g.rules /\ h.chain = g.chain /\ h.aliases = g.aliases
  BY <1>3 DEF Wraps
<1>5. Own(n) \in DOMAIN h.reg /\ c.base \in DOMAIN h.reg /\ Same(g.reg[c.base], h.reg[c.base])
      /\ \A i \in 1..Len(c.layers) : WiredLayer(h, n, c, i)
  BY <1>3 DEF Wraps
<1>6. ChainOK(h, n)
  BY <1>2, <1>4, <1>5 DEF ChainOK, Allowed
<1>7. Settles(g, h, n)
  BY <1>4, <1>5, <1>6 DEF Settles
<1>8. ASSUME Plain(g, c.base), Len(c.layers) = Len(g.rules[n])
      PROVE  Good(h, n)
  <2>1. Plain(h, c.base)
    BY <1>2, <1>5, <1>8, PlainSame
  <2> QED BY <1>4, <1>5, <1>8, <2>1 DEF Good, InOrder
<1> QED BY <1>1, <1>7, <1>8

LEMMA SequenceOf ==
    ASSUME NEW S, NEW m \in Nat, NEW s, s = [i \in 1..m |-> s[i]], \A i \in 1..m : s[i] \in S
    PROVE  s \in Seq(S) /\ Len(s) = m
<1>1. s \in [1..m -> S]
  OBVIOUS
<1>2. s \in Seq(S)
  BY <1>1
<1> QED BY <1>1, <1>2

\* The chain that is made for a binding, with alias keys that are new.
LEMMA BuildChainLayered ==
    ASSUME NEW g \in AnyGraph, NEW n \in Name, g.rules[n] # <<>>
    PROVE  LET c == BuildChain(g, n)  count == Len(g.rules[n]) IN
           /\ Layered(n, c, g.aliases + count) /\ Len(c.layers) = count /\ count \in Nat \ {0}
           /\ c.base = <<n, g.aliases + 1>>
<1>1. PICK c : c = BuildChain(g, n)
  OBVIOUS
<1>2. PICK count : count = Len(g.rules[n])
  OBVIOUS
<1>3. PICK last : last = g.aliases
  OBVIOUS
<1>4. last \in Nat /\ count \in Nat /\ count # 0
  <2>1. g.rules[n] \in Seq(Decorator) /\ g.aliases \in Nat
    BY AnyGraphRule DEF Typed
  <2>2. count # 0
    BY <1>2, <2>1
  <2> QED BY <1>2, <1>3, <2>1, <2>2
<1>5. PICK layers : layers = [i \in 1..count |-> IF i = count THEN Own(n) ELSE <<n, last + 1 + i>>]
  OBVIOUS
<1>6. c = [base |-> <<n, last + 1>>, layers |-> layers]
  BY <1>1, <1>2, <1>3, <1>5 DEF BuildChain
<1>7. ASSUME NEW i \in 1..count
      PROVE  /\ i = count => layers[i] = Own(n)
             /\ i # count => layers[i] = <<n, last + 1 + i>>
             /\ layers[i] \in Key
  BY <1>4, <1>5, OwnFact DEF Key
<1>8. layers \in Seq(Key) /\ Len(layers) = count
  <2>1. layers = [i \in 1..count |-> layers[i]]
    BY <1>5
  <2> QED BY <1>4, <1>7, <2>1, SequenceOf
<1>9. c.base = <<n, last + 1>> /\ c.layers = layers
  BY <1>6
<1>10. c \in ChainType
  <2>1. <<n, last + 1>> \in Key
    BY <1>4 DEF Key
  <2> QED BY <1>6, <1>8, <2>1 DEF ChainType
<1>11. count \in 1..count /\ 1..count - 1 \subseteq 1..count /\ \A i \in 1..count - 1 : i # count
  BY <1>4
<1>12. ASSUME NEW i \in 1..count - 1
       PROVE  layers[i][1] = n /\ layers[i][2] \in 1..(last + count) /\ last + 1 < layers[i][2]
              /\ layers[i][2] = last + 1 + i
  <2>1. layers[i] = <<n, last + 1 + i>>
    BY <1>7, <1>11
  <2> QED BY <1>4, <2>1
<1>13. \A i, j \in 1..count - 1 : i < j => layers[i][2] < layers[j][2]
  <2> SUFFICES ASSUME NEW i \in 1..count - 1, NEW j \in 1..count - 1, i < j
               PROVE  layers[i][2] < layers[j][2]
    OBVIOUS
  <2> QED BY <1>4, <1>12
<1>14. Layered(n, c, last + count)
  <2>1. c.layers[Len(c.layers)] = Own(n) /\ Len(c.layers) > 0
    BY <1>4, <1>7, <1>8, <1>9, <1>11
  <2>2. c.base[1] = n /\ c.base[2] \in 1..(last + count) /\ c.base[2] = last + 1
    BY <1>4, <1>9
  <2>3. \A i \in 1..Len(c.layers) - 1 :
            c.layers[i][1] = n /\ c.layers[i][2] \in 1..(last + count) /\ c.base[2] < c.layers[i][2]
    BY <1>8, <1>9, <1>12, <2>2
  <2>4. \A i, j \in 1..Len(c.layers) - 1 : i < j => c.layers[i][2] < c.layers[j][2]
    BY <1>8, <1>9, <1>13
  <2> QED BY <1>10, <2>1, <2>2, <2>3, <2>4 DEF Layered
<1> QED BY <1>1, <1>2, <1>3, <1>4, <1>8, <1>9, <1>14

LEMMA ApplyPendingRule ==
    ASSUME NEW g, Graph(g), NEW n \in Name, Plain(g, Own(n))
    PROVE  Settles(g, ApplyPending(g, n), n) /\ Good(ApplyPending(g, n), n)
<1>1. g \in AnyGraph /\ ChainOK(g, n) /\ Stable(g.reg)
  BY DEF Graph
<1>2. g.rules[n] \in Seq(Decorator) /\ g.rules \in [Name -> Seq(Decorator)] /\ g.aliases \in Nat
      /\ g.chain \in [Name -> {NoChain} \cup ChainType] /\ g.open \subseteq Generic
      /\ Shaped(g) /\ Registry(g.reg)
  BY <1>1, AnyGraphRule DEF Typed
<1>3. CASE g.rules[n] = <<>> \/ ~HasBinding(g, n)
  <2>1. ApplyPending(g, n) = g
    BY <1>3 DEF ApplyPending
  <2>2. g.chain[n] = NoChain
    <3> SUFFICES ASSUME g.chain[n] # NoChain PROVE FALSE
      OBVIOUS
    <3>1. Len(g.chain[n].layers) <= Len(g.rules[n]) /\ Len(g.chain[n].layers) \in Nat \ {0}
          /\ HasBinding(g, n)
      BY <1>1, LayeredFact DEF ChainOK, HasBinding, IsRegistered
    <3>2. Len(g.rules[n]) = 0
      BY <1>3, <3>1
    <3> QED BY <3>1, <3>2
  <2>3. Good(g, n)
    BY <1>3, <2>2 DEF Good, HasBinding
  <2> QED BY <2>1, <2>3, SettlesNothing
<1>4. CASE g.rules[n] # <<>> /\ HasBinding(g, n)
  <2>1. PICK c : c = BuildChain(g, n)
    OBVIOUS
  <2>2. PICK count : count = Len(g.rules[n])
    OBVIOUS
  <2>3. PICK last : last = g.aliases + count
    OBVIOUS
  <2>4. /\ Layered(n, c, last) /\ Len(c.layers) = count /\ count \in Nat \ {0}
        /\ c.base = <<n, g.aliases + 1>>
    BY <1>1, <1>4, <2>1, <2>2, <2>3, BuildChainLayered
  <2>5. PICK more : more = [g EXCEPT !.aliases = @ + count]
    OBVIOUS
  <2>6. /\ more = [reg |-> g.reg, open |-> g.open, rules |-> g.rules, chain |-> g.chain, aliases |-> last]
        /\ last \in Nat /\ g.aliases <= last
    BY <1>2, <2>3, <2>4, <2>5 DEF Shaped
  <2>7. more.reg = g.reg /\ more.open = g.open /\ more.rules = g.rules /\ more.chain = g.chain
        /\ more.aliases = last
    BY <2>6
  <2>8. more \in AnyGraph /\ Shaped(more)
    <3>1. Shaped(more)
      BY <2>6, <2>7 DEF Shaped
    <3>2. Typed(more)
      BY <1>2, <2>6, <2>7 DEF Typed
    <3> QED BY <1>2, <2>7, <3>1, <3>2, AnyGraphRule
  <2>9. Changes(g, more, n)
    BY <1>1, <2>6, <2>7, <2>8 DEF Changes, Kept, Same
  <2>10. PICK spec : spec = g.reg[Own(n)]
    OBVIOUS
  <2>11. c.base \in Key /\ c.base[1] = n
    BY <2>4, LayeredFact
  <2>12. Own(n) \in DOMAIN g.reg /\ spec.by \notin Decorator
         /\ \A d \in spec.deps : d \in Key /\ Rank[d[1]] < Rank[n]
    BY <1>4, <2>10, OwnFact DEF HasBinding, IsRegistered, Plain
  <2>13. Spec4(spec, c.base)
    <3>1. spec \in SpecType
      BY <1>2, <2>10, <2>12 DEF Registry
    <3>2. \A d \in spec.deps : Below(d, c.base)
      BY <2>11, <2>12 DEF Below
    <3> QED BY <3>1, <3>2 DEF Spec4
  <2>14. PICK moved : moved = Put(more, c.base, spec)
    OBVIOUS
  <2>15. Puts(more, c.base, spec, moved)
    BY <1>2, <2>7, <2>8, <2>11, <2>13, <2>14, PutRule
  <2>16. Changes(more, moved, n)
    BY <2>8, <2>11, <2>15, PutChanges
  <2>17. Changes(g, moved, n)
    BY <1>1, <2>9, <2>16, ChangesTrans
  <2>18. /\ moved.rules = g.rules /\ moved.chain = g.chain /\ moved.aliases = last
         /\ Same(spec, moved.reg[c.base]) /\ c.base \in DOMAIN moved.reg /\ moved \in AnyGraph
    BY <2>7, <2>15, <2>16 DEF Puts, SameButReg, Changes
  <2>19. Allowed(moved, n)
    BY <1>1, <2>18 DEF ChainOK, Allowed
  <2>20. PICK w : w = Rebuild(moved, n, c)
    OBVIOUS
  <2>21. Wraps(moved, n, c, w)
    BY <2>2, <2>4, <2>18, <2>19, <2>20, RebuildWraps
  <2>22. /\ Changes(g, w, n) /\ w.rules = g.rules /\ w.chain = g.chain /\ w.aliases = last
         /\ Own(n) \in DOMAIN w.reg /\ c.base \in DOMAIN w.reg /\ Same(moved.reg[c.base], w.reg[c.base])
         /\ \A i \in 1..Len(c.layers) : WiredLayer(w, n, c, i)
    <3>1. Changes(moved, w, n)
      BY <2>21 DEF Wraps
    <3>2. Changes(g, w, n)
      BY <1>1, <2>17, <3>1, ChangesTrans
    <3> QED BY <2>18, <2>21, <3>2 DEF Wraps
  <2>23. PICK h : h = [w EXCEPT !.chain[n] = c]
    OBVIOUS
  <2>24. h = ApplyPending(g, n)
    BY <1>4, <2>1, <2>2, <2>5, <2>10, <2>14, <2>20, <2>23 DEF ApplyPending
  <2>25. w \in AnyGraph /\ Stable(w.reg) /\ w.open = g.open /\ g.aliases <= w.aliases
         /\ Shaped(w) /\ Registry(w.reg) /\ Typed(w)
    BY <2>22, AnyGraphRule DEF Changes
  <2>26. PICK chain : chain = [g.chain EXCEPT ![n] = c]
    OBVIOUS
  <2>27. h = [reg |-> w.reg, open |-> g.open, rules |-> g.rules, chain |-> chain, aliases |-> last]
    BY <2>22, <2>23, <2>25, <2>26 DEF Shaped
  <2>28. h.reg = w.reg /\ h.open = g.open /\ h.rules = g.rules /\ h.chain = chain /\ h.aliases = last
    BY <2>27
  <2>29. chain \in [Name -> {NoChain} \cup ChainType] /\ chain[n] = c
         /\ \A m \in Name \ {n} : chain[m] = g.chain[m]
    <3>1. c \in {NoChain} \cup ChainType
      BY <2>4 DEF Layered
    <3> HIDE DEF ChainType
    <3> QED BY <1>2, <2>26, <3>1
  <2>30. h \in AnyGraph
    <3>1. Shaped(h)
      BY <2>27, <2>28 DEF Shaped
    <3>2. Typed(h)
      BY <1>2, <2>6, <2>28, <2>29 DEF Typed
    <3> QED BY <2>25, <2>28, <3>1, <3>2, AnyGraphRule
  <2>31. c # NoChain
    BY <2>4, GraphAssumption DEF Layered, ChainType, Key
  <2>32. Changes(g, h, n)
    BY <2>6, <2>22, <2>25, <2>28, <2>29, <2>30 DEF Changes, Kept
  <2>33. ChainOK(h, n)
    BY <1>1, <2>2, <2>4, <2>22, <2>28, <2>29, <2>31 DEF ChainOK, Allowed
  <2>34. Good(h, n)
    <3>1. Plain(h, c.base)
      <4>1. Same(spec, h.reg[c.base])
        BY <2>18, <2>22, <2>28, SameTrans
      <4> QED BY <2>11, <2>12, <4>1 DEF Plain, Same
    <3>2. \A i \in 1..Len(c.layers) : WiredLayer(h, n, c, i)
      BY <2>22, <2>28 DEF WiredLayer
    <3> QED BY <2>2, <2>4, <2>28, <2>29, <2>31, <3>1, <3>2 DEF Good, InOrder
  <2>35. Settles(g, h, n)
    BY <2>22, <2>28, <2>32, <2>33 DEF Settles
  <2> QED BY <2>24, <2>34, <2>35
<1> QED BY <1>3, <1>4

LEMMA Concatenated ==
    ASSUME NEW S, NEW a \in Seq(S), NEW b \in Seq(S), NEW s, s = a \o b
    PROVE  /\ s \in Seq(S) /\ Len(s) = Len(a) + Len(b)
           /\ \A i \in 1..Len(a) + Len(b) : s[i] = IF i <= Len(a) THEN a[i] ELSE b[i - Len(a)]
OBVIOUS

\* A chain one layer short gets an alias key, and stays in order.
LEMMA EnsureKeysRule ==
    ASSUME NEW g, Graph(g), NEW n \in Name, g.chain[n] # NoChain
    PROVE  LET h == EnsureKeys(g, n)  c == h.chain[n]  old == g.chain[n] IN
           /\ Changes(g, h, n) /\ ChainOK(h, n) /\ c # NoChain /\ h.rules = g.rules /\ h.reg = g.reg
           /\ c.base = old.base
           /\ Len(g.rules[n]) <= Len(old.layers) + 1 => Len(c.layers) = Len(g.rules[n])
<1>1. PICK old : old = g.chain[n]
  OBVIOUS
<1>2. g \in AnyGraph /\ ChainOK(g, n) /\ Stable(g.reg)
  BY DEF Graph
<1>3. /\ g.rules[n] \in Seq(Decorator) /\ g.rules \in [Name -> Seq(Decorator)] /\ g.aliases \in Nat
      /\ g.chain \in [Name -> {NoChain} \cup ChainType] /\ g.open \subseteq Generic
      /\ Shaped(g) /\ Registry(g.reg)
  BY <1>2, AnyGraphRule DEF Typed
<1>4. /\ Layered(n, old, g.aliases) /\ Len(old.layers) <= Len(g.rules[n])
      /\ old.base \in DOMAIN g.reg /\ Own(n) \in DOMAIN g.reg
  BY <1>1, <1>2 DEF ChainOK
<1>5. /\ old \in ChainType /\ old.layers \in Seq(Key) /\ old.base \in Key /\ Len(old.layers) \in Nat \ {0}
      /\ Len(g.rules[n]) \in Nat
  BY <1>3, <1>4 DEF Layered, ChainType
<1>6. CASE Len(old.layers) = Len(g.rules[n])
  <2>1. EnsureKeys(g, n) = g
    BY <1>1, <1>6 DEF EnsureKeys
  <2>2. Changes(g, g, n)
    BY SettlesNothing DEF Settles
  <2> QED BY <1>1, <1>2, <1>6, <2>1, <2>2
<1>7. CASE Len(old.layers) # Len(g.rules[n])
  <2>1. PICK count : count = Len(old.layers)
    OBVIOUS
  <2>2. PICK last : last = g.aliases + 1
    OBVIOUS
  <2>3. count \in Nat \ {0} /\ last \in Nat /\ g.aliases <= last /\ last \in 1..last
        /\ count + 1 <= Len(g.rules[n])
    BY <1>3, <1>4, <1>5, <1>7, <2>1, <2>2
  <2>4. PICK layers : layers = Front(old.layers) \o <<<<n, last>>, Last(old.layers)>>
    OBVIOUS
  <2>5. /\ layers \in Seq(Key) /\ Len(layers) = count + 1
        /\ \A i \in 1..count - 1 : layers[i] = old.layers[i]
        /\ layers[count] = <<n, last>> /\ layers[count + 1] = Own(n)
    <3>1. PICK front : front = Front(old.layers)
      OBVIOUS
    <3>2. front = SubSeq(old.layers, 1, count - 1)
      BY <2>1, <3>1 DEF Front
    <3>3. front \in Seq(Key) /\ Len(front) = count - 1 /\ \A i \in 1..count - 1 : front[i] = old.layers[i]
      BY <1>5, <2>1, <2>3, <3>2
    <3>4. PICK tail : tail = <<<<n, last>>, Own(n)>>
      OBVIOUS
    <3>5. tail \in Seq(Key) /\ Len(tail) = 2 /\ tail[1] = <<n, last>> /\ tail[2] = Own(n)
      <4>1. <<n, last>> \in Key /\ Own(n) \in Key
        BY <2>3, OwnFact DEF Key
      <4> QED BY <3>4, <4>1
    <3>6. layers = front \o tail
      <4>1. Last(old.layers) = Own(n)
        BY <1>4, <1>5 DEF Last, Layered
      <4> QED BY <2>4, <3>1, <3>4, <4>1
    <3>7. front \in Seq(Key) /\ tail \in Seq(Key)
      BY <3>3, <3>5
    <3>8. /\ layers \in Seq(Key) /\ Len(layers) = Len(front) + Len(tail)
          /\ \A i \in 1..Len(front) + Len(tail) :
                layers[i] = IF i <= Len(front) THEN front[i] ELSE tail[i - Len(front)]
      BY <3>6, <3>7, Concatenated
    <3>9. \A i \in 1..count - 1 : layers[i] = front[i]
      BY <2>3, <3>3, <3>5, <3>8
    <3>10. layers[count] = tail[1] /\ layers[count + 1] = tail[2]
      BY <2>3, <3>3, <3>5, <3>8
    <3>11. Len(layers) = count + 1
      BY <2>3, <3>3, <3>5, <3>8
    <3> QED BY <3>3, <3>5, <3>8, <3>9, <3>10, <3>11
  <2>6. PICK c : c = [base |-> old.base, layers |-> layers]
    OBVIOUS
  <2>7. c.base = old.base /\ c.layers = layers /\ c \in ChainType
    BY <1>5, <2>5, <2>6 DEF ChainType
  <2>8. PICK chain : chain = [g.chain EXCEPT ![n] = c]
    OBVIOUS
  <2>9. chain \in [Name -> {NoChain} \cup ChainType] /\ chain[n] = c
        /\ \A m \in Name \ {n} : chain[m] = g.chain[m]
    <3> HIDE DEF ChainType
    <3> QED BY <1>3, <2>7, <2>8
  <2>10. PICK h : h = EnsureKeys(g, n)
    OBVIOUS
  <2>11. h = [reg |-> g.reg, open |-> g.open, rules |-> g.rules, chain |-> chain, aliases |-> last]
    <3>1. h = [g EXCEPT !.aliases = @ + 1,
                        !.chain[n].layers = Front(@) \o <<<<n, g.aliases + 1>>, Last(@)>>]
      BY <1>1, <1>7, <2>10 DEF EnsureKeys
    <3>2. [g.chain EXCEPT ![n].layers = Front(@) \o <<<<n, g.aliases + 1>>, Last(@)>>]
          = [g.chain EXCEPT ![n] = [old EXCEPT !.layers = layers]]
      BY <1>1, <2>2, <2>4
    <3>3. [old EXCEPT !.layers = layers] = c
      BY <1>5, <2>6 DEF ChainType
    <3>4. [g.chain EXCEPT ![n].layers = Front(@) \o <<<<n, g.aliases + 1>>, Last(@)>>] = chain
      BY <2>8, <3>2, <3>3
    <3>5. h = [g EXCEPT !.aliases = g.aliases + 1,
                        !.chain = [g.chain EXCEPT ![n].layers = Front(@) \o <<<<n, g.aliases + 1>>, Last(@)>>]]
      BY <3>1
    <3>6. h = [g EXCEPT !.aliases = last, !.chain = chain]
      BY <2>2, <3>4, <3>5
    <3> QED BY <1>3, <3>6 DEF Shaped
  <2>12. h.reg = g.reg /\ h.open = g.open /\ h.rules = g.rules /\ h.chain = chain /\ h.aliases = last
    BY <2>11
  <2>13. h \in AnyGraph
    <3>1. Shaped(h)
      BY <2>11, <2>12 DEF Shaped
    <3>2. Typed(h)
      BY <1>3, <2>3, <2>9, <2>12 DEF Typed
    <3> QED BY <1>3, <2>12, <3>1, <3>2, AnyGraphRule
  <2>14. Changes(g, h, n)
    BY <1>2, <2>3, <2>9, <2>12, <2>13 DEF Changes, Kept, Same
  <2>15. c # NoChain
    BY <2>7, GraphAssumption DEF ChainType, Key
  <2>16. Layered(n, c, last)
    <3>1. 1..g.aliases \subseteq 1..last /\ old.base[2] \in 1..g.aliases /\ old.base[2] < last
      BY <1>3, <1>4, <2>2 DEF Layered
    <3>2. ASSUME NEW i \in 1..count
          PROVE  c.layers[i][1] = n /\ c.layers[i][2] \in 1..last /\ c.base[2] < c.layers[i][2]
                 /\ (i # count => c.layers[i] = old.layers[i] /\ c.layers[i][2] \in 1..g.aliases)
                 /\ (i = count => c.layers[i][2] = last)
      <4>1. CASE i = count
        BY <2>3, <2>5, <2>7, <3>1, <4>1
      <4>2. CASE i # count
        <5>1. i \in 1..count - 1
          BY <2>3, <4>2
        <5>2. c.layers[i] = old.layers[i]
          BY <2>5, <2>7, <5>1
        <5>3. old.layers[i][1] = n /\ old.layers[i][2] \in 1..g.aliases /\ old.base[2] < old.layers[i][2]
          BY <1>4, <2>1, <5>1 DEF Layered
        <5> QED BY <2>7, <3>1, <4>2, <5>2, <5>3
      <4> QED BY <4>1, <4>2
    <3>3. ASSUME NEW i \in 1..count, NEW j \in 1..count, i < j
          PROVE  c.layers[i][2] < c.layers[j][2]
      <4>1. i \in 1..count - 1 /\ i # count
        BY <2>3, <3>3
      <4>2. CASE j = count
        <5>1. c.layers[i][2] \in 1..g.aliases /\ c.layers[j][2] = last
          BY <3>2, <4>1, <4>2
        <5> QED BY <1>3, <2>2, <5>1
      <4>3. CASE j # count
        <5>1. j \in 1..count - 1
          BY <2>3, <4>3
        <5>2. c.layers[i] = old.layers[i] /\ c.layers[j] = old.layers[j]
          BY <3>2, <4>1, <4>3
        <5>3. old.layers[i][2] < old.layers[j][2]
          BY <1>4, <2>1, <3>3, <4>1, <5>1 DEF Layered
        <5> QED BY <5>2, <5>3
      <4> QED BY <4>2, <4>3
    <3>4. Len(c.layers) = count + 1 /\ 1..Len(c.layers) - 1 = 1..count /\ Len(c.layers) > 0
      BY <2>3, <2>5, <2>7
    <3>5. c.layers[Len(c.layers)] = Own(n)
      BY <2>5, <2>7, <3>4
    <3>6. c.base[1] = n /\ c.base[2] \in 1..last
      BY <1>4, <2>7, <3>1 DEF Layered
    <3>7. \A i \in 1..Len(c.layers) - 1 :
            c.layers[i][1] = n /\ c.layers[i][2] \in 1..last /\ c.base[2] < c.layers[i][2]
      BY <3>2, <3>4
    <3>8. \A i, j \in 1..Len(c.layers) - 1 : i < j => c.layers[i][2] < c.layers[j][2]
      BY <3>3, <3>4
    <3> QED BY <2>7, <3>4, <3>5, <3>6, <3>7, <3>8 DEF Layered
  <2>17. Len(c.layers) = count + 1
    BY <2>5, <2>7
  <2>18. ChainOK(h, n)
    <3>1. Allowed(h, n)
      BY <1>2, <2>12 DEF ChainOK, Allowed
    <3> QED BY <1>4, <2>3, <2>7, <2>9, <2>12, <2>15, <2>16, <2>17, <3>1 DEF ChainOK
  <2>19. Len(g.rules[n]) <= count + 1 => Len(c.layers) = Len(g.rules[n])
    BY <1>5, <2>3, <2>17
  <2>20. h.chain[n] = c
    BY <2>9, <2>12
  <2> QED BY <1>1, <2>1, <2>7, <2>10, <2>12, <2>14, <2>15, <2>18, <2>19, <2>20
<1> QED BY <1>6, <1>7

LEMMA SettlesAfter ==
    ASSUME NEW g \in AnyGraph, NEW h, NEW i, NEW n, Changes(g, h, n), h.rules = g.rules, h.reg = g.reg,
           Settles(h, i, n)
    PROVE  Settles(g, i, n)
<1>1. Changes(g, i, n)
  BY ChangesTrans DEF Settles
<1> QED BY <1>1 DEF Settles

\* A decorator was added: its layer can be put around what is there.
Wrappable(g, n) ==
    g.chain[n] # NoChain =>
        Len(g.rules[n]) <= Len(g.chain[n].layers) + 1 /\ Plain(g, g.chain[n].base)

LEMMA DecoratedRule ==
    ASSUME NEW g, Graph(g), NEW n \in Name
    PROVE  Settles(g, Decorated(g, n), n) /\ (Wrappable(g, n) => Good(Decorated(g, n), n))
<1>0. g \in AnyGraph
  BY DEF Graph
<1>1. CASE g.chain[n] = NoChain
  <2>1. Decorated(g, n) = ApplyPending(g, n)
    BY <1>1 DEF Decorated
  <2>2. Plain(g, Own(n))
    BY <1>1 DEF Graph, ChainOK
  <2> QED BY <2>1, <2>2, ApplyPendingRule
<1>2. CASE g.chain[n] # NoChain
  <2>1. PICK h : h = EnsureKeys(g, n)
    OBVIOUS
  <2>2. PICK c : c = h.chain[n]
    OBVIOUS
  <2>3. /\ Changes(g, h, n) /\ ChainOK(h, n) /\ c # NoChain /\ h.rules = g.rules /\ h.reg = g.reg
        /\ c.base = g.chain[n].base
        /\ Len(g.rules[n]) <= Len(g.chain[n].layers) + 1 => Len(c.layers) = Len(g.rules[n])
    BY <1>2, <2>1, <2>2, EnsureKeysRule
  <2>4. PICK i : i = Rebuild(h, n, c)
    OBVIOUS
  <2>5. h \in AnyGraph
    BY <2>3 DEF Changes
  <2>6. /\ Settles(h, i, n)
        /\ Plain(h, c.base) /\ Len(c.layers) = Len(h.rules[n]) => Good(i, n)
    BY <2>2, <2>3, <2>4, <2>5, RebuildSettles
  <2>7. Settles(g, i, n)
    BY <1>0, <2>3, <2>6, SettlesAfter
  <2>8. Wrappable(g, n) => Good(i, n)
    BY <1>2, <2>3, <2>6 DEF Wrappable, Plain
  <2>9. Decorated(g, n) = i
    BY <1>2, <2>1, <2>2, <2>4 DEF Decorated
  <2> QED BY <2>7, <2>8, <2>9
<1> QED BY <1>1, <1>2

\* A binding was put: at the key of n, or at what was the base of its chain.
Bound(g, n, hadChain) ==
    IF hadChain
    THEN IF g.chain[n] = NoChain THEN Good(g, n)
         ELSE Len(g.chain[n].layers) = Len(g.rules[n]) /\ Plain(g, g.chain[n].base)
    ELSE Plain(g, Own(n))

LEMMA FinalizedRule ==
    ASSUME NEW g, Graph(g), NEW n \in Name, NEW hadChain \in BOOLEAN,
           hadChain \/ Plain(g, Own(n))
    PROVE  /\ Settles(g, Finalized(g, n, hadChain), n)
           /\ Bound(g, n, hadChain) => Good(Finalized(g, n, hadChain), n)
<1>1. CASE ~hadChain
  <2>1. Finalized(g, n, hadChain) = ApplyPending(g, n)
    BY <1>1 DEF Finalized
  <2> QED BY <1>1, <2>1, ApplyPendingRule
<1>2. CASE hadChain /\ g.chain[n] = NoChain
  <2>1. Finalized(g, n, hadChain) = g
    BY <1>2 DEF Finalized
  <2> QED BY <1>2, <2>1, SettlesNothing DEF Bound
<1>3. CASE hadChain /\ g.chain[n] # NoChain
  <2>1. PICK c : c = g.chain[n]
    OBVIOUS
  <2>2. Finalized(g, n, hadChain) = Rebuild(g, n, c)
    BY <1>3, <2>1 DEF Finalized
  <2>3. g \in AnyGraph /\ ChainOK(g, n)
    BY DEF Graph
  <2>4. /\ Settles(g, Rebuild(g, n, c), n)
        /\ Plain(g, c.base) /\ Len(c.layers) = Len(g.rules[n]) => Good(Rebuild(g, n, c), n)
    BY <1>3, <2>1, <2>3, RebuildSettles
  <2> QED BY <1>3, <2>1, <2>2, <2>4 DEF Bound
<1> QED BY <1>1, <1>2, <1>3

-----------------------------------------------------------------------------
(* Bindings, and the classes that are registered for what they ask for.    *)
BindingSpec(spec, n) ==
    spec \in SpecType /\ spec.by \notin Decorator /\ spec.deps \subseteq OwnKeys(DepsOf[n])

LEMMA MadeSpec ==
    ASSUME NEW n \in Name, NEW by \in Providing, NEW v \in Nat, NEW deep \in BOOLEAN,
           NEW resource \in BOOLEAN, NEW deps, deps \subseteq OwnKeys(DepsOf[n])
    PROVE  BindingSpec(ProviderSpec(by, v, deps, deep, resource), n)
<1>1. PICK spec : spec = ProviderSpec(by, v, deps, deep, resource)
  OBVIOUS
<1>2. spec = [by |-> by, version |-> v, deps |-> deps, deep |-> deep, resource |-> resource, cleanup |-> resource]
  BY <1>1 DEF ProviderSpec
<1>3. deps \subseteq Key
  <2>1. DepsOf[n] \subseteq Name
    BY GraphAssumption
  <2> QED BY <2>1, OwnFact DEF OwnKeys
<1>4. spec \in SpecType
  BY <1>2, <1>3 DEF SpecType
<1>5. by \notin Decorator
  BY GraphAssumption
<1>6. BindingSpec(spec, n)
  BY <1>2, <1>4, <1>5 DEF BindingSpec
<1> QED BY <1>1, <1>6

LEMMA ConcreteClosed ==
    ASSUME NEW n \in Name, NEW v \in Nat, NEW deep \in BOOLEAN
    PROVE  BindingSpec(ConcreteSpec(n, v, deep), n) /\ BindingSpec(ClosedSpec(n), n)
<1>1. "class" \in Providing /\ "open" \in Providing /\ 0 \in Nat /\ FALSE \in BOOLEAN
  BY DEF Providing
<1> QED BY <1>1, MadeSpec DEF ConcreteSpec, ClosedSpec

LEMMA BindingRule ==
    ASSUME NEW g, Graph(g), NEW n \in Name, NEW k \in Key, k[1] = n, k = Own(n) \/ k[2] # 0,
           NEW spec, BindingSpec(spec, n), NEW h, h = Put(g, k, spec)
    PROVE  /\ Puts(g, k, spec, h) /\ Changes(g, h, n) /\ Graph(h) /\ Plain(h, k)
           /\ h.rules = g.rules /\ h.chain = g.chain
<1>1. g \in AnyGraph /\ ChainOK(g, n)
  BY DEF Graph
<1>2. spec.by \notin Decorator /\ \A d \in spec.deps : d \in Key /\ Rank[d[1]] < Rank[n]
  <2>1. ASSUME NEW d \in spec.deps
        PROVE  d \in Key /\ Rank[d[1]] < Rank[n]
    <3>1. PICK m \in DepsOf[n] : d = Own(m)
      BY DEF BindingSpec, OwnKeys
    <3>2. m \in Name /\ m \in Asks(n)
      BY <3>1, GraphAssumption DEF Asks
    <3> QED BY <3>1, <3>2, OwnFact, RankFact DEF Ranks
  <2> QED BY <2>1 DEF BindingSpec
<1>3. Spec4(spec, k)
  BY <1>2 DEF Spec4, BindingSpec, Below
<1>4. Puts(g, k, spec, h)
  BY <1>1, <1>3, AnyGraphRule, PutRule
<1>5. Changes(g, h, n)
  BY <1>1, <1>4, PutChanges
<1>6. /\ h.rules = g.rules /\ h.chain = g.chain /\ h.aliases = g.aliases
      /\ DOMAIN h.reg = DOMAIN g.reg \cup {k} /\ Same(spec, h.reg[k])
      /\ \A j \in DOMAIN g.reg \ {k} : Same(g.reg[j], h.reg[j])
  BY <1>4 DEF Puts, SameButReg
<1>7. Plain(h, k)
  BY <1>2, <1>6 DEF Plain, Same
<1>8. ASSUME g.chain[n] = NoChain
      PROVE  Plain(h, Own(n))
  <2>1. CASE k = Own(n)
    BY <1>7, <2>1
  <2>2. CASE k # Own(n)
    <3>1. Plain(g, Own(n))
      BY <1>1, <1>8 DEF ChainOK
    <3>2. CASE Own(n) \in DOMAIN g.reg
      BY <1>6, <2>2, <3>1, <3>2, PlainSame
    <3>3. CASE Own(n) \notin DOMAIN g.reg
      BY <1>6, <2>2, <3>3 DEF Plain
    <3> QED BY <3>2, <3>3
  <2> QED BY <2>1, <2>2
<1>9. ChainOK(h, n)
  BY <1>1, <1>6, <1>8 DEF ChainOK, Allowed
<1>10. Graph(h)
  BY <1>5, <1>9, GraphAfter
<1> QED BY <1>4, <1>5, <1>6, <1>7, <1>10

LEMMA AutoClosureRule ==
    ASSUME NEW g, NEW names
    PROVE  AutoClosure(g, names) \subseteq Concrete /\ (names = {} => AutoClosure(g, names) = {})
<1> DEFINE N == Cardinality(Name)
           S == {found \in SUBSET Concrete : names = {} => found = {}}
           more(found) == found \cup UNION {Wanted(g, DepsOf[n] \cup RuleWants(g, n)) : n \in found}
           step == [i \in 1..N |-> [found \in S |-> more(found)]]
           Rule(h) == h = [i \in 0..N |-> IF i = 0 THEN Wanted(g, names) ELSE more(h[i - 1])]
<1>1. N \in Nat
  BY GraphAssumption, FS_CardinalityType
<1>2. Wanted(g, names) \in S /\ \A found \in S : more(found) \in S
  BY DEF Wanted
<1>3. step \in [1..N -> [S -> S]]
  <2> HIDE DEF more, S
  <2> QED BY <1>2
<1>4. PICK f \in [0..N -> S] : Passes(N, Wanted(g, names), step, f)
  <2> HIDE DEF step, N, S
  <2> QED BY <1>1, <1>2, <1>3, PassesExist
<1>5. Rule(f)
  <2>1. f = [i \in 0..N |-> IF i = 0 THEN Wanted(g, names) ELSE step[i][f[i - 1]]]
    BY <1>4 DEF Passes
  <2>2. ASSUME NEW i \in 0..N
        PROVE  (IF i = 0 THEN Wanted(g, names) ELSE step[i][f[i - 1]])
               = IF i = 0 THEN Wanted(g, names) ELSE more(f[i - 1])
    <3>1. CASE i = 0
      BY <3>1
    <3>2. CASE i # 0
      <4>1. i - 1 \in 0..N /\ i \in 1..N
        BY <1>1, <3>2
      <4>2. f[i - 1] \in S
        BY <4>1
      <4> HIDE DEF N, more, S
      <4> QED BY <3>2, <4>1, <4>2
    <3> QED BY <3>1, <3>2
  <2> HIDE DEF N, step, more
  <2> QED BY <2>1, <2>2
<1> DEFINE h == CHOOSE h : Rule(h)
<1>6. AutoClosure(g, names) = h[N]
  BY DEF AutoClosure
<1>7. Rule(h)
  <2> HIDE DEF Rule
  <2> QED BY <1>5
<1> HIDE DEF h
<1>8. h[0] = Wanted(g, names) /\ \A i \in 1..N : h[i] = more(h[i - 1])
  <2>1. 0 \in 0..N /\ \A i \in 1..N : i \in 0..N /\ i # 0
    BY <1>1
  <2>2. \A i \in 0..N : h[i] = IF i = 0 THEN Wanted(g, names) ELSE more(h[i - 1])
    <3> HIDE DEF N, more
    <3> QED BY <1>7
  <2> HIDE DEF N, Rule, more
  <2> QED BY <2>1, <2>2
<1> DEFINE T == {i \in 0..N : h[i] \in S}
<1>9. 0 \in T
  BY <1>1, <1>2, <1>8
<1>10. \A i \in 1..N : i - 1 \in T => i \in T
  <2> SUFFICES ASSUME NEW i \in 1..N, i - 1 \in T PROVE i \in T
    OBVIOUS
  <2>1. i \in 0..N
    BY <1>1
  <2> HIDE DEF N, more, S
  <2> QED BY <1>2, <1>8, <2>1
<1>11. N \in T
  <2>1. N \in 0..N
    BY <1>1
  <2> HIDE DEF T, N
  <2>2. \A i \in 0..N : i \in T
    BY <1>1, <1>9, <1>10, Induction
  <2> QED BY <2>1, <2>2
<1> QED BY <1>6, <1>11

\* AutoregisterAll stays among graphs that the registration of one class stays among.
LEMMA AutoregisterSteps ==
    ASSUME NEW g, NEW names, NEW deep, NEW S, g \in S,
           \A acc \in S : \A n \in AutoClosure(g, names) :
                Unserved(acc, n) => AutoregisterOne(acc, n, deep) \in S
    PROVE  AutoregisterAll(g, names, deep) \in S
<1> DEFINE N == Cardinality(Name)
           closure == AutoClosure(g, names)
           left(acc) == {n \in closure : Unserved(acc, n)}
           more(acc) == IF left(acc) = {} THEN acc
                        ELSE AutoregisterOne(acc, CHOOSE n \in left(acc) : TRUE, deep)
           step == [i \in 1..N |-> [acc \in S |-> more(acc)]]
           Rule(h) == h = [i \in 0..N |-> IF i = 0 THEN g ELSE more(h[i - 1])]
<1>1. N \in Nat
  BY GraphAssumption, FS_CardinalityType
<1>2. \A acc \in S : more(acc) \in S
  <2> SUFFICES ASSUME NEW acc \in S, left(acc) # {}
               PROVE  AutoregisterOne(acc, CHOOSE n \in left(acc) : TRUE, deep) \in S
    OBVIOUS
  <2>1. PICK first : first = CHOOSE n \in left(acc) : TRUE
    OBVIOUS
  <2>2. first \in left(acc)
    BY <2>1
  <2>3. AutoregisterOne(acc, first, deep) \in S
    BY <2>2
  <2> QED BY <2>1, <2>3
<1>3. step \in [1..N -> [S -> S]]
  <2> HIDE DEF more
  <2> QED BY <1>2
<1>4. PICK f \in [0..N -> S] : Passes(N, g, step, f)
  <2> HIDE DEF step, N
  <2> QED BY <1>1, <1>3, PassesExist
<1>5. Rule(f)
  <2>1. f = [i \in 0..N |-> IF i = 0 THEN g ELSE step[i][f[i - 1]]]
    BY <1>4 DEF Passes
  <2>2. ASSUME NEW i \in 0..N
        PROVE  (IF i = 0 THEN g ELSE step[i][f[i - 1]]) = IF i = 0 THEN g ELSE more(f[i - 1])
    <3>1. CASE i = 0
      BY <3>1
    <3>2. CASE i # 0
      <4>1. i - 1 \in 0..N /\ i \in 1..N
        BY <1>1, <3>2
      <4>2. f[i - 1] \in S
        BY <4>1
      <4> HIDE DEF N, more
      <4> QED BY <3>2, <4>1, <4>2
    <3> QED BY <3>1, <3>2
  <2> HIDE DEF N, step, more
  <2> QED BY <2>1, <2>2
<1> DEFINE h == CHOOSE h : Rule(h)
<1>6. AutoregisterAll(g, names, deep) = h[N]
  BY DEF AutoregisterAll
<1>7. Rule(h)
  <2> HIDE DEF Rule
  <2> QED BY <1>5
<1> HIDE DEF h
<1>8. h[0] = g /\ \A i \in 1..N : h[i] = more(h[i - 1])
  <2>1. 0 \in 0..N /\ \A i \in 1..N : i \in 0..N /\ i # 0
    BY <1>1
  <2>2. \A i \in 0..N : h[i] = IF i = 0 THEN g ELSE more(h[i - 1])
    <3> HIDE DEF N, more
    <3> QED BY <1>7
  <2> HIDE DEF N, Rule, more
  <2> QED BY <2>1, <2>2
<1> DEFINE T == {i \in 0..N : h[i] \in S}
<1>9. 0 \in T
  BY <1>1, <1>8
<1>10. \A i \in 1..N : i - 1 \in T => i \in T
  <2> SUFFICES ASSUME NEW i \in 1..N, i - 1 \in T PROVE i \in T
    OBVIOUS
  <2>1. i \in 0..N
    BY <1>1
  <2> HIDE DEF N, more
  <2> QED BY <1>2, <1>8, <2>1
<1>11. N \in T
  <2>1. N \in 0..N
    BY <1>1
  <2> HIDE DEF T, N
  <2>2. \A i \in 0..N : i \in T
    BY <1>1, <1>9, <1>10, Induction
  <2> QED BY <2>1, <2>2
<1> QED BY <1>6, <1>11

LEMMA AutoregisterNothing ==
    ASSUME NEW g, NEW names, NEW deep, AutoClosure(g, names) = {}
    PROVE  AutoregisterAll(g, names, deep) = g
<1>1. AutoregisterAll(g, names, deep) \in {g}
  BY AutoregisterSteps
<1> QED BY <1>1

LEMMA AutoregisterOneRule ==
    ASSUME NEW g, Graph(g), NEW n \in Concrete, Unserved(g, n), NEW deep \in BOOLEAN, NEW h,
           h = AutoregisterOne(g, n, deep)
    PROVE  Settles(g, h, n) /\ Good(h, n) /\ Own(n) \in DOMAIN h.reg
<1>1. n \in Name /\ g \in AnyGraph
  BY GraphAssumption DEF Graph
<1>2. PICK spec : spec = ConcreteSpec(n, 0, deep)
  OBVIOUS
<1>3. BindingSpec(spec, n)
  BY <1>1, <1>2, ConcreteClosed
<1>4. PICK p : p = Put(g, Own(n), spec)
  OBVIOUS
<1>5. /\ Puts(g, Own(n), spec, p) /\ Changes(g, p, n) /\ Graph(p) /\ Plain(p, Own(n)) /\ p.rules = g.rules
  BY <1>1, <1>3, <1>4, BindingRule, OwnFact
<1>6. h = ApplyPending(p, n)
  BY <1>2, <1>4 DEF AutoregisterOne, Finalized
<1>7. Settles(p, h, n) /\ Good(h, n)
  BY <1>1, <1>5, <1>6, ApplyPendingRule
<1>8. Own(n) \in DOMAIN p.reg
  BY <1>5 DEF Puts
<1>9. Changes(g, h, n) /\ ChainOK(h, n) /\ h.rules = g.rules /\ Own(n) \in DOMAIN h.reg
  BY <1>1, <1>5, <1>7, <1>8, ChangesTrans DEF Settles
<1> QED BY <1>7, <1>9 DEF Settles

\* Classes were registered: all else is kept, and they are decorated in order.
Arranged(g, h) ==
    /\ Graph(h) /\ h.rules = g.rules /\ h.open = g.open /\ g.aliases <= h.aliases
    /\ \A m \in Name : Kept(g, h, m) \/ (Own(m) \notin DOMAIN g.reg /\ Own(m) \in DOMAIN h.reg /\ Good(h, m))

LEMMA AutoregisterAllRule ==
    ASSUME NEW g, Graph(g), NEW names, NEW deep \in BOOLEAN
    PROVE  Arranged(g, AutoregisterAll(g, names, deep))
<1> DEFINE S == {h \in AnyGraph : Arranged(g, h)}
<1>1. g \in S
  <2>1. g.aliases <= g.aliases
    BY AnyGraphRule DEF Graph, Typed
  <2> QED BY <2>1 DEF Graph, Arranged, Kept, Same
<1>2. ASSUME NEW acc \in S, NEW n \in AutoClosure(g, names), Unserved(acc, n)
      PROVE  AutoregisterOne(acc, n, deep) \in S
  <2>1. n \in Concrete /\ n \in Name
    BY AutoClosureRule, GraphAssumption
  <2>2. Graph(acc) /\ Arranged(g, acc)
    BY DEF Arranged
  <2>3. PICK h : h = AutoregisterOne(acc, n, deep)
    OBVIOUS
  <2>4. Settles(acc, h, n) /\ Good(h, n) /\ Own(n) \in DOMAIN h.reg
    BY <1>2, <2>1, <2>2, <2>3, AutoregisterOneRule
  <2>5. Changes(acc, h, n) /\ ChainOK(h, n) /\ h.rules = acc.rules
    BY <2>4 DEF Settles
  <2>6. Graph(h) /\ \A m \in Name \ {n} : Good(acc, m) => Good(h, m)
    BY <2>2, <2>5, GraphAfter
  <2>7. h.rules = g.rules /\ h.open = g.open /\ g.aliases <= h.aliases
    <3>1. g.aliases \in Nat /\ acc.aliases \in Nat /\ h.aliases \in Nat
      BY <2>2, <2>6, AnyGraphRule DEF Graph, Typed
    <3>2. g.aliases <= acc.aliases /\ acc.aliases <= h.aliases
      BY <2>2, <2>5 DEF Arranged, Changes
    <3>3. g.aliases <= h.aliases
      BY <3>1, <3>2
    <3> QED BY <2>2, <2>5, <3>3 DEF Arranged, Changes
  <2>8. ASSUME NEW m \in Name
        PROVE  Kept(g, h, m) \/ (Own(m) \notin DOMAIN g.reg /\ Own(m) \in DOMAIN h.reg /\ Good(h, m))
    <3>1. CASE m = n
      <4>1. Own(n) \notin DOMAIN acc.reg
        BY <1>2 DEF Unserved, IsRegistered
      <4>2. Kept(g, acc, n)
        BY <2>1, <2>2, <4>1 DEF Arranged
      <4>3. Own(n) \notin DOMAIN g.reg
        BY <2>1, <4>1, <4>2, OwnFact DEF Kept
      <4> QED BY <2>4, <3>1, <4>3
    <3>2. CASE m # n
      <4>1. Kept(acc, h, m)
        BY <2>5, <3>2 DEF Changes
      <4>2. CASE Kept(g, acc, m)
        BY <4>1, <4>2, KeptTrans
      <4>3. CASE Own(m) \notin DOMAIN g.reg /\ Own(m) \in DOMAIN acc.reg /\ Good(acc, m)
        <5>1. Own(m) \in DOMAIN h.reg
          BY <4>1, <4>3, OwnFact DEF Kept
        <5>2. Good(h, m)
          BY <2>6, <3>2, <4>3
        <5> QED BY <4>3, <5>1, <5>2
      <4> QED BY <2>2, <4>2, <4>3 DEF Arranged
    <3> QED BY <3>1, <3>2
  <2>9. Arranged(g, h)
    BY <2>6, <2>7, <2>8 DEF Arranged
  <2>10. h \in AnyGraph
    BY <2>6 DEF Graph
  <2> QED BY <2>3, <2>9, <2>10
<1>3. AutoregisterAll(g, names, deep) \in S
  <2> HIDE DEF S
  <2> QED BY <1>1, <1>2, AutoregisterSteps
<1> QED BY <1>3

LEMMA ArrangedGood ==
    ASSUME NEW g, Graph(g), NEW h, Arranged(g, h), NEW m \in Name, Good(g, m)
    PROVE  Good(h, m)
<1>1. g \in AnyGraph /\ h \in AnyGraph /\ ChainOK(g, m)
  BY DEF Graph, Arranged
<1> QED BY <1>1, KeptOrder DEF Arranged

-----------------------------------------------------------------------------
(* Closed keys that come and go, rules and templates that are added, and   *)
(* what a rollback restores.                                               *)
LEMMA AllKept ==
    ASSUME NEW g, Graph(g), NEW h \in AnyGraph, Stable(h.reg), g.aliases <= h.aliases,
           \A m \in Name : Kept(g, h, m)
    PROVE  Graph(h) /\ (AllGood(g) => AllGood(h))
<1>1. ASSUME NEW m \in Name
      PROVE  ChainOK(h, m) /\ (Good(g, m) => Good(h, m))
  BY KeptOrder DEF Graph
<1> QED BY <1>1 DEF Graph, AllGood

\* No decorator is put on a generic.
LEMMA GenericBare ==
    ASSUME NEW g, Graph(g), NEW n \in Generic
    PROVE  n \in Name /\ g.rules[n] = <<>> /\ g.chain[n] = NoChain
<1>1. n \in Name /\ Decorates[n] = {} /\ ChainOK(g, n) /\ g \in AnyGraph
  BY GraphAssumption DEF Graph
<1>2. g.rules[n] \in Seq(Decorator)
  BY <1>1, AnyGraphRule DEF Typed
<1>3. Len(g.rules[n]) = 0 /\ g.rules[n] = <<>>
  <2>1. \A i \in 1..Len(g.rules[n]) : FALSE
    BY <1>1 DEF ChainOK, Allowed
  <2>2. Len(g.rules[n]) = 0
    BY <1>2, <2>1
  <2> QED BY <1>2, <2>2
<1>4. g.chain[n] = NoChain
  <2> SUFFICES ASSUME g.chain[n] # NoChain PROVE FALSE
    OBVIOUS
  <2>1. Len(g.chain[n].layers) <= 0 /\ Len(g.chain[n].layers) \in Nat \ {0}
    BY <1>1, <1>3, LayeredFact DEF ChainOK
  <2> QED BY <2>1
<1> QED BY <1>1, <1>3, <1>4

\* h has what g has, and keys of generics besides.
Extended(g, h) ==
    /\ Graph(h) /\ h.open = g.open
    /\ DOMAIN g.reg \subseteq DOMAIN h.reg
    /\ DOMAIN h.reg \ DOMAIN g.reg \subseteq OwnKeys(g.open \cap Generic)
    /\ \A k \in DOMAIN g.reg : Same(g.reg[k], h.reg[k])
    /\ AllGood(g) => AllGood(h)

LEMMA CloseOne ==
    ASSUME NEW g, Graph(g), NEW n \in g.open \cap Generic, ~IsRegistered(g, n), NEW h,
           h = Put(g, Own(n), ClosedSpec(n))
    PROVE  Puts(g, Own(n), ClosedSpec(n), h) /\ Extended(g, h)
<1>1. n \in Name /\ g.rules[n] = <<>> /\ g.chain[n] = NoChain
  BY GenericBare
<1>2. PICK spec : spec = ClosedSpec(n)
  OBVIOUS
<1>3. BindingSpec(spec, n)
  BY <1>1, <1>2, ConcreteClosed
<1>4. /\ Puts(g, Own(n), spec, h) /\ Changes(g, h, n) /\ Graph(h) /\ Plain(h, Own(n))
      /\ h.rules = g.rules /\ h.chain = g.chain
  BY <1>1, <1>2, <1>3, BindingRule, OwnFact
<1>5. Own(n) \notin DOMAIN g.reg
  BY DEF IsRegistered
<1>6. ASSUME AllGood(g)
      PROVE  AllGood(h)
  <2>1. ChainOK(h, n)
    BY <1>1, <1>4 DEF Graph
  <2>2. Good(h, n)
    BY <1>1, <1>4 DEF Good
  <2>3. \A m \in Name \ {n} : Good(g, m) => Good(h, m)
    BY <1>4, <2>1, GraphAfter
  <2> QED BY <1>6, <2>2, <2>3 DEF AllGood
<1>7. h.open = g.open /\ DOMAIN h.reg = DOMAIN g.reg \cup {Own(n)}
      /\ \A k \in DOMAIN g.reg : Same(g.reg[k], h.reg[k])
  BY <1>4, <1>5 DEF Puts, SameButReg
<1>8. Own(n) \in OwnKeys(g.open \cap Generic)
  BY DEF OwnKeys
<1> QED BY <1>2, <1>4, <1>6, <1>7, <1>8 DEF Extended

LEMMA MaterializedRule ==
    ASSUME NEW g, Graph(g)
    PROVE  Extended(g, Materialized(g))
<1> DEFINE N == Cardinality(Generic)
           S == {h \in AnyGraph : Extended(g, h)}
           left(acc) == Closable(acc)
           more(acc) == IF left(acc) = {} THEN acc
                        ELSE LET n == CHOOSE n \in left(acc) : TRUE IN Put(acc, Own(n), ClosedSpec(n))
           step == [i \in 1..N |-> [acc \in S |-> more(acc)]]
           Rule(h) == h = [i \in 0..N |-> IF i = 0 THEN g ELSE more(h[i - 1])]
<1>1. N \in Nat
  <2>1. IsFiniteSet(Name) /\ Generic \in SUBSET Name
    BY GraphAssumption
  <2>2. IsFiniteSet(Generic)
    BY <2>1, FS_Subset
  <2> QED BY <2>2, FS_CardinalityType
<1>2. g \in S
  BY DEF Extended, Graph, Same
<1>3. \A acc \in S : more(acc) \in S
  <2> SUFFICES ASSUME NEW acc \in S, left(acc) # {}
               PROVE  more(acc) \in S
    OBVIOUS
  <2>1. PICK first : first = CHOOSE n \in left(acc) : TRUE
    OBVIOUS
  <2>2. first \in left(acc)
    BY <2>1
  <2>3. PICK h : h = Put(acc, Own(first), ClosedSpec(first))
    OBVIOUS
  <2>4. more(acc) = h
    BY <2>1, <2>3
  <2>5. first \in acc.open \cap Generic /\ ~IsRegistered(acc, first)
    BY <2>2 DEF Closable
  <2>6. Extended(g, acc) /\ Graph(acc)
    BY DEF Extended
  <2>7. Extended(acc, h)
    BY <2>3, <2>5, <2>6, CloseOne
  <2>8. h \in AnyGraph /\ Graph(h) /\ h.open = g.open /\ (AllGood(g) => AllGood(h))
    BY <2>6, <2>7 DEF Extended, Graph
  <2>9. DOMAIN g.reg \subseteq DOMAIN h.reg /\ DOMAIN h.reg \ DOMAIN g.reg \subseteq OwnKeys(g.open \cap Generic)
    BY <2>6, <2>7 DEF Extended
  <2>10. \A k \in DOMAIN g.reg : Same(g.reg[k], h.reg[k])
    BY <2>6, <2>7, SameTrans DEF Extended
  <2>11. Extended(g, h)
    BY <2>8, <2>9, <2>10 DEF Extended
  <2> HIDE DEF more
  <2> QED BY <2>4, <2>8, <2>11
<1> HIDE DEF S
<1>4. step \in [1..N -> [S -> S]]
  <2> HIDE DEF more
  <2> QED BY <1>3
<1>5. PICK f \in [0..N -> S] : Passes(N, g, step, f)
  <2> HIDE DEF step, N
  <2> QED BY <1>1, <1>2, <1>4, PassesExist
<1>6. Rule(f)
  <2>1. f = [i \in 0..N |-> IF i = 0 THEN g ELSE step[i][f[i - 1]]]
    BY <1>5 DEF Passes
  <2>2. ASSUME NEW i \in 0..N
        PROVE  (IF i = 0 THEN g ELSE step[i][f[i - 1]]) = IF i = 0 THEN g ELSE more(f[i - 1])
    <3>1. CASE i = 0
      BY <3>1
    <3>2. CASE i # 0
      <4>1. i - 1 \in 0..N /\ i \in 1..N
        BY <1>1, <3>2
      <4>2. f[i - 1] \in S
        BY <4>1
      <4> HIDE DEF N, more
      <4> QED BY <3>2, <4>1, <4>2
    <3> QED BY <3>1, <3>2
  <2> HIDE DEF N, step, more
  <2> QED BY <2>1, <2>2
<1> DEFINE h == CHOOSE h : Rule(h)
<1>7. Materialized(g) = h[N]
  BY DEF Materialized
<1>8. Rule(h)
  <2> HIDE DEF Rule
  <2> QED BY <1>6
<1> HIDE DEF h
<1>9. h[0] = g /\ \A i \in 1..N : h[i] = more(h[i - 1])
  <2>1. 0 \in 0..N /\ \A i \in 1..N : i \in 0..N /\ i # 0
    BY <1>1
  <2>2. \A i \in 0..N : h[i] = IF i = 0 THEN g ELSE more(h[i - 1])
    <3> HIDE DEF N, more
    <3> QED BY <1>8
  <2> HIDE DEF N, Rule, more
  <2> QED BY <2>1, <2>2
<1> DEFINE T == {i \in 0..N : h[i] \in S}
<1>10. 0 \in T
  BY <1>1, <1>2, <1>9
<1>11. \A i \in 1..N : i - 1 \in T => i \in T
  <2> SUFFICES ASSUME NEW i \in 1..N, i - 1 \in T PROVE i \in T
    OBVIOUS
  <2>1. i \in 0..N
    BY <1>1
  <2> HIDE DEF N, more
  <2> QED BY <1>3, <1>9, <2>1
<1>12. N \in T
  <2>1. N \in 0..N
    BY <1>1
  <2> HIDE DEF T, N
  <2>2. \A i \in 0..N : i \in T
    BY <1>1, <1>10, <1>11, Induction
  <2> QED BY <2>1, <2>2
<1> QED BY <1>7, <1>12 DEF S

LEMMA WithoutGraph ==
    ASSUME NEW g, Graph(g), NEW M, M \subseteq Generic, NEW h, h = Without(g, OwnKeys(M))
    PROVE  LeavesOut(g, OwnKeys(M), h) /\ Graph(h) /\ (AllGood(g) => AllGood(h))
<1>1. PICK keys : keys = OwnKeys(M)
  OBVIOUS
<1>2. g \in AnyGraph /\ Shaped(g) /\ Registry(g.reg)
  BY AnyGraphRule DEF Graph
<1>3. LeavesOut(g, keys, h)
  BY <1>1, <1>2, WithoutRule
<1>4. /\ h \in AnyGraph /\ Stable(h.reg) /\ h.rules = g.rules /\ h.chain = g.chain /\ h.aliases = g.aliases
      /\ DOMAIN h.reg = DOMAIN g.reg \ keys /\ \A j \in DOMAIN h.reg : Same(g.reg[j], h.reg[j])
  BY <1>2, <1>3, SameButRegGraph DEF LeavesOut, SameButReg
<1>5. g.aliases <= h.aliases
  <2>1. g.aliases \in Nat
    BY <1>2, AnyGraphRule DEF Typed
  <2> QED BY <1>4, <2>1
<1>6. ASSUME NEW n \in Name
      PROVE  ChainOK(h, n) /\ (Good(g, n) => Good(h, n))
  <2>1. ChainOK(g, n)
    BY DEF Graph
  <2>2. CASE n \in M
    <3>1. g.rules[n] = <<>> /\ g.chain[n] = NoChain
      BY <2>2, GenericBare
    <3>2. Own(n) \notin DOMAIN h.reg
      BY <1>1, <1>4, <2>2 DEF OwnKeys
    <3>3. Plain(h, Own(n)) /\ Allowed(h, n)
      BY <1>4, <2>1, <3>2 DEF Plain, ChainOK, Allowed
    <3> QED BY <1>4, <3>1, <3>2, <3>3 DEF ChainOK, Good, IsRegistered
  <2>3. CASE n \notin M
    <3>1. ASSUME NEW k \in Key, k[1] = n
          PROVE  k \notin keys
      <4> SUFFICES ASSUME NEW m \in M, k = Own(m) PROVE FALSE
        BY <1>1 DEF OwnKeys
      <4> QED BY <2>3, <3>1 DEF Own
    <3>2. Kept(g, h, n)
      BY <1>4, <3>1 DEF Kept
    <3> QED BY <1>2, <1>4, <1>5, <2>1, <3>2, KeptOrder
  <2> QED BY <2>2, <2>3
<1> QED BY <1>1, <1>3, <1>4, <1>6 DEF Graph, AllGood

LEMMA RestoredGraph ==
    ASSUME NEW g, Graph(g), NEW h, h = [g EXCEPT !.reg = Refresh(@)]
    PROVE  Alike(g.reg, h.reg) /\ Graph(h) /\ (AllGood(g) => AllGood(h))
<1>1. g \in AnyGraph /\ Shaped(g) /\ Registry(g.reg)
  BY AnyGraphRule DEF Graph
<1>2. PICK reg : reg = g.reg
  OBVIOUS
<1>3. h = [g EXCEPT !.reg = Refresh(reg)]
  BY <1>2
<1>4. /\ SameButReg(g, h) /\ DOMAIN h.reg = DOMAIN reg
      /\ \A j \in DOMAIN reg : Same(reg[j], h.reg[j])
  BY <1>1, <1>2, <1>3, RefreshedGraph
<1>5. h \in AnyGraph /\ Stable(h.reg) /\ h.rules = g.rules /\ h.chain = g.chain /\ h.aliases = g.aliases
  BY <1>1, <1>4, SameButRegGraph DEF SameButReg
<1>6. g.aliases <= h.aliases
  <2>1. g.aliases \in Nat
    BY <1>1, AnyGraphRule DEF Typed
  <2> QED BY <1>5, <2>1
<1>7. \A m \in Name : Kept(g, h, m)
  BY <1>2, <1>4, <1>5 DEF Kept
<1> QED BY <1>2, <1>4, <1>5, <1>6, <1>7, AllKept DEF Alike

LEMMA TemplateGraph ==
    ASSUME NEW g, Graph(g), NEW n \in Generic, NEW h, h = [g EXCEPT !.open = @ \cup {n}]
    PROVE  Graph(h) /\ h.reg = g.reg /\ (AllGood(g) => AllGood(h))
<1>1. g \in AnyGraph /\ Stable(g.reg) /\ Shaped(g) /\ Registry(g.reg) /\ Typed(g)
  BY AnyGraphRule DEF Graph
<1>2. h = [reg |-> g.reg, open |-> g.open \cup {n}, rules |-> g.rules, chain |-> g.chain, aliases |-> g.aliases]
  BY <1>1 DEF Shaped
<1>3. h.reg = g.reg /\ h.open = g.open \cup {n} /\ h.rules = g.rules /\ h.chain = g.chain /\ h.aliases = g.aliases
  BY <1>2
<1>4. h \in AnyGraph
  <2>1. Shaped(h)
    BY <1>2, <1>3 DEF Shaped
  <2>2. Typed(h)
    BY <1>1, <1>3 DEF Typed
  <2> QED BY <1>1, <1>3, <2>1, <2>2, AnyGraphRule
<1>5. g.aliases <= h.aliases
  BY <1>1, <1>3 DEF Typed
<1>6. \A m \in Name : Kept(g, h, m)
  BY <1>3 DEF Kept, Same
<1> QED BY <1>1, <1>3, <1>4, <1>5, <1>6, AllKept

LEMMA RuleGraph ==
    ASSUME NEW g, Graph(g), NEW n \in Name, NEW d \in Decorates[n], NEW h, h = AddRule(g, n, d)
    PROVE  /\ Graph(h) /\ h.reg = g.reg /\ h.open = g.open
           /\ \A m \in Name \ {n} : Good(g, m) => Good(h, m)
           /\ Good(g, n) => Wrappable(h, n)
<1>1. g \in AnyGraph /\ Stable(g.reg) /\ Shaped(g) /\ Registry(g.reg) /\ Typed(g) /\ ChainOK(g, n)
  BY AnyGraphRule DEF Graph
<1>2. PICK rules : rules = [g.rules EXCEPT ![n] = Append(@, d)]
  OBVIOUS
<1>3. g.rules \in [Name -> Seq(Decorator)] /\ g.rules[n] \in Seq(Decorator) /\ d \in Decorator
  BY <1>1, GraphAssumption DEF Typed
<1>4. Append(g.rules[n], d) \in Seq(Decorator) /\ Len(Append(g.rules[n], d)) = Len(g.rules[n]) + 1
      /\ Len(g.rules[n]) \in Nat
      /\ \A i \in 1..Len(g.rules[n]) + 1 :
            Append(g.rules[n], d)[i] = IF i = Len(g.rules[n]) + 1 THEN d ELSE g.rules[n][i]
  BY <1>3
<1>5. /\ rules \in [Name -> Seq(Decorator)] /\ rules[n] = Append(g.rules[n], d)
      /\ \A m \in Name \ {n} : rules[m] = g.rules[m]
  BY <1>2, <1>3, <1>4
<1>6. h = [reg |-> g.reg, open |-> g.open, rules |-> rules, chain |-> g.chain, aliases |-> g.aliases]
  BY <1>1, <1>2 DEF Shaped, AddRule
<1>7. h.reg = g.reg /\ h.open = g.open /\ h.rules = rules /\ h.chain = g.chain /\ h.aliases = g.aliases
  BY <1>6
<1>8. h \in AnyGraph
  <2>1. Shaped(h)
    BY <1>6, <1>7 DEF Shaped
  <2>2. Typed(h)
    BY <1>1, <1>5, <1>7 DEF Typed
  <2> QED BY <1>1, <1>7, <2>1, <2>2, AnyGraphRule
<1>9. Changes(g, h, n)
  <2>1. g.aliases <= h.aliases
    BY <1>1, <1>7 DEF Typed
  <2>2. \A m \in Name \ {n} : Kept(g, h, m)
    BY <1>5, <1>7 DEF Kept, Same
  <2> QED BY <1>1, <1>7, <1>8, <2>1, <2>2 DEF Changes
<1>10. ChainOK(h, n)
  <2>1. Allowed(h, n)
    <3> SUFFICES ASSUME NEW i \in 1..Len(g.rules[n]) + 1 PROVE rules[n][i] \in Decorates[n]
      BY <1>4, <1>5, <1>7 DEF Allowed
    <3>1. CASE i = Len(g.rules[n]) + 1
      BY <1>4, <1>5, <3>1
    <3>2. CASE i # Len(g.rules[n]) + 1
      <4>1. i \in 1..Len(g.rules[n])
        BY <1>4, <3>2
      <4> QED BY <1>1, <1>4, <1>5, <3>2, <4>1 DEF ChainOK, Allowed
    <3> QED BY <3>1, <3>2
  <2>2. g.chain[n] = NoChain => Plain(h, Own(n))
    BY <1>1, <1>7 DEF ChainOK, Plain
  <2>3. ASSUME g.chain[n] # NoChain
        PROVE  /\ Layered(n, g.chain[n], g.aliases) /\ Len(g.chain[n].layers) <= Len(h.rules[n])
               /\ g.chain[n].base \in DOMAIN g.reg /\ Own(n) \in DOMAIN g.reg
    <3>1. Layered(n, g.chain[n], g.aliases) /\ Len(g.chain[n].layers) <= Len(g.rules[n])
          /\ g.chain[n].base \in DOMAIN g.reg /\ Own(n) \in DOMAIN g.reg
      BY <1>1, <2>3 DEF ChainOK
    <3>2. Len(g.chain[n].layers) \in Nat
      BY <3>1, LayeredFact
    <3> QED BY <1>4, <1>5, <1>7, <3>1, <3>2
  <2> QED BY <1>7, <2>1, <2>2, <2>3 DEF ChainOK
<1>11. Graph(h) /\ \A m \in Name \ {n} : Good(g, m) => Good(h, m)
  BY <1>9, <1>10, GraphAfter
<1>12. ASSUME Good(g, n), g.chain[n] # NoChain
       PROVE  Len(h.rules[n]) <= Len(h.chain[n].layers) + 1 /\ Plain(h, h.chain[n].base)
  <2>1. Len(g.chain[n].layers) = Len(g.rules[n]) /\ Plain(g, g.chain[n].base)
    BY <1>12 DEF Good, InOrder
  <2> QED BY <1>4, <1>5, <1>7, <2>1 DEF Plain
<1> QED BY <1>7, <1>11, <1>12 DEF Wrappable

-----------------------------------------------------------------------------
(* The invariant.                                                          *)
Labels ==
    {"idle", "target", "begin", "body", "finalize", "commit", "entry", "compile", "ask", "revision",
     "ensure", "compare", "enter"}
Holding == {"body", "finalize", "commit"}
Asking == {"entry", "ask", "revision", "ensure", "compare"}

Kinds == Providing \cup {"none", "resolve", "decorate", "enter"}
Targets == {NoJob.target} \cup [key : Key, chained : BOOLEAN]
Jobs ==
    [kind : Kinds, name : Name \cup {None}, version : Nat, deep : BOOLEAN,
     decorator : Decorator \cup {None}, target : Targets, seen : Nat, retried : BOOLEAN]

\* The key to register at is one of the dependency: its own, or an alias of it.
TargetFits(j) ==
    /\ j.target \in [key : Key, chained : BOOLEAN] /\ j.target.key[1] = j.name
    /\ IF j.target.chained THEN j.target.key[2] # 0 ELSE j.target.key = Own(j.name)

Binds(j) == j.kind \in Kind \cup {"resolve"}

\* What a thread works on, by where it is.
Doing(j, label) ==
    /\ label \in Holding \cup {"begin"} =>
        /\ j.name \in Name
        /\ \/ Binds(j) /\ TargetFits(j)
           \/ j.kind = "open" /\ j.name \in Generic
           \/ j.kind = "decorate" /\ j.decorator \in Decorates[j.name]
    /\ label = "target" => j.name \in Name /\ Binds(j)
    /\ label \in Asking => j.name \in Name /\ j.kind = "resolve"
    /\ label = "compile" => j.kind = "enter" \/ (j.name \in Name /\ j.kind = "resolve")
    /\ label = "enter" => j.kind = "enter"

ThreadsInv ==
    /\ pc \in [Thread -> Labels] /\ job \in [Thread -> Jobs] /\ calls \in [Thread -> Nat]
    /\ lock \in Thread \cup {None} /\ torn \in BOOLEAN
    /\ \A t \in Thread : Doing(job[t], pc[t])
    /\ \A t \in Thread : pc[t] \in Holding <=> lock = t

\* Between the two halves of a registration the binding is there, and is one.
BindingPut(g, j) == Binds(j) /\ ~j.target.chained => Plain(g, Own(j.name))

GraphInv ==
    /\ Graph(graph) /\ materialized \subseteq Generic
    /\ lock # None => materialized = {} /\ Graph(snapshot)
    /\ \A t \in Thread : pc[t] = "finalize" => BindingPut(graph, job[t])

\* Between the two halves all but one dependency is in order, and that one can be put in order.
Pending(g, j) ==
    /\ \A m \in Name \ {j.name} : Good(g, m)
    /\ j.kind = "decorate" => Wrappable(g, j.name)
    /\ j.kind = "open" => Good(g, j.name)
    /\ Binds(j) => Bound(g, j.name, j.target.chained)

OrderInv ==
    /\ lock = None => AllGood(graph)
    /\ lock # None => AllGood(snapshot) /\ ~ContractBroken(snapshot)
    /\ \A t \in Thread : pc[t] \in {"body", "commit"} => AllGood(graph)
    /\ \A t \in Thread : pc[t] = "finalize" => Pending(graph, job[t])
    /\ lock = None => ~ContractBroken(Without(graph, OwnKeys(materialized)))

\* The resolver resolves what is registered, and lacks nothing that it asks for.
Current(r, g, M) ==
    r # NoResolver =>
        /\ r.wrapped <=> g.open # {}
        /\ \A k \in DOMAIN r.graph.reg : k \in DOMAIN g.reg /\ g.reg[k] = r.graph.reg[k]
        /\ \A k \in DOMAIN g.reg \ DOMAIN r.graph.reg : k \in OwnKeys(M)
        /\ Complete(r.graph)

\* Nothing has changed since the thread got the lock, or it has invalidated what there was.
Unmoved(t) == pc[t] \in {"body", "commit"} \/ (pc[t] = "finalize" /\ job[t].kind = "decorate")

RootInv ==
    /\ bound # NoResolver => bound = root
    /\ ~torn /\ (lock = None \/ \E t \in Thread : Unmoved(t)) => Current(root, graph, materialized)

\* Resolvers have names, other than that of no resolver.
NamesInv ==
    /\ revision \in Nat \ {0} /\ root.id \in Nat /\ (root # NoResolver => root.id # 0)
    /\ DOMAIN using = Thread
    /\ \A t \in Thread : pc[t] = "enter" => using[t].id \in Nat \ {0}

\* The container is entered once, and its exit closes what was opened.
BlockInv ==
    /\ \A t \in Thread : job[t].kind = "enter" => block.opened = None
    /\ \A t, o \in Thread : job[t].kind = "enter" /\ job[o].kind = "enter" => t = o
    /\ block = [opened |-> block.opened, closed |-> block.closed]
    /\ block.opened \in Nat \cup {None} /\ block.closed \in {None, block.opened}
    /\ block.opened # None /\ block.closed = None => entered # NoResolver /\ entered.id = block.opened

GraphOrder == ~torn => OrderInv

IInv == ThreadsInv /\ GraphInv /\ GraphOrder /\ RootInv /\ NamesInv /\ BlockInv

-----------------------------------------------------------------------------
(* What the two halves of a registration do to a graph in order.           *)
LEMMA BindsKind ==
    ASSUME NEW j, Binds(j)
    PROVE  /\ j.kind # "open" /\ j.kind # "decorate"
           /\ j.kind \in {"instance", "class", "resolve", "factory", "generator", "context_manager",
                          "factory_class", "generator_class", "context_manager_class"}
BY ContainerAssumption DEF Binds, Providing

LEMMA SpecOfRule ==
    ASSUME NEW j \in Jobs, Binds(j), j.name \in Name
    PROVE  BindingSpec(SpecOf(j), j.name)
<1> DEFINE n == j.name
<1>1. j.version \in Nat /\ j.deep \in BOOLEAN
  BY DEF Jobs
<1>2. \A by \in Providing, deep \in BOOLEAN, resource \in BOOLEAN, deps \in {{}, OwnKeys(DepsOf[n])} :
        BindingSpec(ProviderSpec(by, j.version, deps, deep, resource), n)
  BY <1>1, MadeSpec
<1>3. {"instance", "class", "factory", "generator", "context_manager", "factory_class",
       "generator_class", "context_manager_class"} \subseteq Providing
  BY DEF Providing
<1> HIDE DEF n
<1>4. CASE j.kind = "instance"
  <2>1. SpecOf(j) = ProviderSpec("instance", j.version, {}, FALSE, FALSE)
    BY <1>4 DEF SpecOf, InstanceSpec
  <2> QED BY <1>2, <1>3, <2>1 DEF n
<1>5. CASE j.kind \in {"class", "resolve"}
  <2>1. SpecOf(j) = ProviderSpec("class", j.version, OwnKeys(DepsOf[n]), j.deep, FALSE)
    BY <1>5 DEF SpecOf, ConcreteSpec, n
  <2> QED BY <1>1, <1>2, <1>3, <2>1 DEF n
<1>6. CASE j.kind = "factory"
  <2>1. SpecOf(j) = ProviderSpec("factory", j.version, OwnKeys(DepsOf[n]), j.deep, FALSE)
    BY <1>6 DEF SpecOf, FactorySpec, n
  <2> QED BY <1>1, <1>2, <1>3, <2>1 DEF n
<1>7. CASE j.kind = "generator"
  <2>1. SpecOf(j) = ProviderSpec("generator", j.version, OwnKeys(DepsOf[n]), j.deep, TRUE)
    BY <1>7 DEF SpecOf, GeneratorSpec, n
  <2> QED BY <1>1, <1>2, <1>3, <2>1 DEF n
<1>8. CASE j.kind = "context_manager"
  <2>1. SpecOf(j) = ProviderSpec("context_manager", j.version, OwnKeys(DepsOf[n]), j.deep, TRUE)
    BY <1>8 DEF SpecOf, ContextManagerSpec, n
  <2> QED BY <1>1, <1>2, <1>3, <2>1 DEF n
<1>9. CASE j.kind = "factory_class"
  <2>1. SpecOf(j) = ProviderSpec("factory_class", j.version, OwnKeys(DepsOf[n]), j.deep, FALSE)
    BY <1>9 DEF SpecOf, FactoryClassSpec, n
  <2> QED BY <1>1, <1>2, <1>3, <2>1 DEF n
<1>10. CASE j.kind = "generator_class"
  <2>1. SpecOf(j) = ProviderSpec("generator_class", j.version, OwnKeys(DepsOf[n]), j.deep, TRUE)
    BY <1>10 DEF SpecOf, GeneratorClassSpec, n
  <2> QED BY <1>1, <1>2, <1>3, <2>1 DEF n
<1>11. CASE j.kind = "context_manager_class"
  <2>1. SpecOf(j) = ProviderSpec("context_manager_class", j.version, OwnKeys(DepsOf[n]), j.deep, TRUE)
    BY <1>11 DEF SpecOf, ContextManagerClassSpec, n
  <2> QED BY <1>1, <1>2, <1>3, <2>1 DEF n
<1> QED BY <1>4, <1>5, <1>6, <1>7, <1>8, <1>9, <1>10, <1>11, BindsKind

\* A binding is put: the dependency can be put in order.
LEMMA BoundRule ==
    ASSUME NEW g, Graph(g), NEW j \in Jobs, Binds(j), TargetFits(j), j.name \in Name,
           NEW h, h = Put(g, j.target.key, SpecOf(j))
    PROVE  /\ Graph(h) /\ BindingPut(h, j) /\ (~j.target.chained => Own(j.name) \in DOMAIN h.reg)
           /\ \A m \in Name \ {j.name} : Good(g, m) => Good(h, m)
           /\ Good(g, j.name) => Bound(h, j.name, j.target.chained)
<1>1. PICK n \in Name : n = j.name
  OBVIOUS
<1>2. PICK k \in Key : k = j.target.key
  BY DEF TargetFits
<1>3. /\ k[1] = n /\ IF j.target.chained THEN k[2] # 0 ELSE k = Own(n)
  BY <1>1, <1>2 DEF TargetFits
<1>4. PICK spec : spec = SpecOf(j)
  OBVIOUS
<1>5. BindingSpec(spec, n)
  BY <1>1, <1>4, SpecOfRule
<1>6. h = Put(g, k, spec)
  BY <1>2, <1>4
<1>7. k = Own(n) \/ k[2] # 0
  BY <1>3
<1>8. /\ Puts(g, k, spec, h) /\ Changes(g, h, n) /\ Graph(h) /\ Plain(h, k)
      /\ h.rules = g.rules /\ h.chain = g.chain
  BY <1>3, <1>5, <1>6, <1>7, BindingRule
<1>9. ChainOK(h, n) /\ ChainOK(g, n)
  BY <1>8 DEF Graph
<1>10. \A m \in Name \ {n} : Good(g, m) => Good(h, m)
  BY <1>8, <1>9, GraphAfter
<1>11. DOMAIN h.reg = DOMAIN g.reg \cup {k} /\ \A i \in DOMAIN g.reg \ {k} : Same(g.reg[i], h.reg[i])
  BY <1>8 DEF Puts
<1>12. BindingPut(h, j) /\ (~j.target.chained => Own(n) \in DOMAIN h.reg)
  BY <1>1, <1>3, <1>8, <1>11 DEF BindingPut
<1>13. ASSUME Good(g, n)
       PROVE  Bound(h, n, j.target.chained)
  <2>1. CASE ~j.target.chained
    BY <1>3, <1>8, <2>1 DEF Bound
  <2>2. CASE j.target.chained /\ g.chain[n] = NoChain
    <3>1. k # Own(n)
      BY <1>3, <2>2 DEF Own
    <3>2. IsRegistered(h, n) <=> IsRegistered(g, n)
      BY <1>11, <3>1 DEF IsRegistered
    <3>3. Plain(h, Own(n))
      BY <1>8, <1>9, <2>2 DEF ChainOK
    <3> QED BY <1>8, <1>13, <2>2, <3>2, <3>3 DEF Bound, Good
  <2>3. CASE j.target.chained /\ g.chain[n] # NoChain
    <3>1. Len(g.chain[n].layers) = Len(g.rules[n]) /\ Plain(g, g.chain[n].base)
      BY <1>13, <2>3 DEF Good, InOrder
    <3>2. Plain(h, g.chain[n].base)
      <4>1. CASE g.chain[n].base = k
        BY <1>8, <4>1
      <4>2. CASE g.chain[n].base # k /\ g.chain[n].base \in DOMAIN g.reg
        BY <1>11, <3>1, <4>2, PlainSame
      <4>3. CASE g.chain[n].base # k /\ g.chain[n].base \notin DOMAIN g.reg
        BY <1>11, <4>3 DEF Plain
      <4> QED BY <4>1, <4>2, <4>3
    <3> QED BY <1>8, <2>3, <3>1, <3>2 DEF Bound
  <2> QED BY <2>1, <2>2, <2>3
<1> QED BY <1>1, <1>8, <1>10, <1>12, <1>13

\* The classes that are registered next leave it so.
LEMMA BoundArranged ==
    ASSUME NEW g, Graph(g), NEW h, Arranged(g, h), NEW n \in Name, NEW chained \in BOOLEAN,
           chained \/ Own(n) \in DOMAIN g.reg, Bound(g, n, chained)
    PROVE  Bound(h, n, chained)
<1>1. ChainOK(g, n)
  BY DEF Graph
<1>2. CASE Kept(g, h, n)
  <2>1. h.rules[n] = g.rules[n] /\ h.chain[n] = g.chain[n]
    BY <1>2 DEF Kept
  <2>2. CASE ~chained
    <3>1. Own(n) \in DOMAIN g.reg /\ Plain(g, Own(n))
      BY <2>2 DEF Bound
    <3>2. Same(g.reg[Own(n)], h.reg[Own(n)])
      BY <1>2, <3>1, OwnFact DEF Kept
    <3> QED BY <2>2, <3>1, <3>2, PlainSame DEF Bound
  <2>3. CASE chained /\ g.chain[n] = NoChain
    BY <2>1, <2>3, ArrangedGood DEF Bound
  <2>4. CASE chained /\ g.chain[n] # NoChain
    <3>1. Len(g.chain[n].layers) = Len(g.rules[n]) /\ Plain(g, g.chain[n].base)
      BY <2>4 DEF Bound
    <3>2. g.chain[n].base \in DOMAIN g.reg /\ g.chain[n].base \in Key /\ g.chain[n].base[1] = n
      BY <1>1, <2>4, LayeredFact DEF ChainOK
    <3>3. Same(g.reg[g.chain[n].base], h.reg[g.chain[n].base])
      BY <1>2, <3>2 DEF Kept
    <3>4. Plain(h, g.chain[n].base)
      BY <3>1, <3>2, <3>3, PlainSame
    <3> QED BY <2>1, <2>4, <3>1, <3>4 DEF Bound
  <2> QED BY <2>2, <2>3, <2>4
<1>3. CASE ~Kept(g, h, n)
  <2>1. Own(n) \notin DOMAIN g.reg /\ Good(h, n)
    BY <1>3 DEF Arranged
  <2> QED BY <2>1 DEF Bound, Good, InOrder
<1> QED BY <1>2, <1>3

LEMMA BindRule ==
    ASSUME NEW g, Graph(g), NEW j \in Jobs, Doing(j, "body"), NEW b, b = Bind(g, j)
    PROVE  /\ Graph(b)
           /\ \/ j.kind = "open" /\ j.name \in Generic /\ (AllGood(g) => AllGood(b))
              \/ j.kind = "decorate" /\ j.name \in Name /\ b.reg = g.reg /\ b.open = g.open
                 /\ (AllGood(g) => Pending(b, j))
              \/ Binds(j) /\ TargetFits(j) /\ j.name \in Name /\ BindingPut(b, j)
                 /\ (~j.target.chained => Own(j.name) \in DOMAIN b.reg)
                 /\ (AllGood(g) => Pending(b, j))
<1>1. j.name \in Name
  BY DEF Doing, Holding
<1>2. CASE j.kind = "open" /\ j.name \in Generic
  <2>1. b = [g EXCEPT !.open = @ \cup {j.name}]
    BY <1>2 DEF Bind
  <2> QED BY <1>2, <2>1, TemplateGraph
<1>3. CASE j.kind = "decorate" /\ j.decorator \in Decorates[j.name]
  <2>1. b = AddRule(g, j.name, j.decorator)
    BY <1>3 DEF Bind
  <2>2. /\ Graph(b) /\ b.reg = g.reg /\ b.open = g.open
        /\ \A m \in Name \ {j.name} : Good(g, m) => Good(b, m)
        /\ Good(g, j.name) => Wrappable(b, j.name)
    BY <1>1, <1>3, <2>1, RuleGraph
  <2>3. ~Binds(j)
    BY <1>3, BindsKind
  <2>4. AllGood(g) => Pending(b, j)
    BY <1>1, <1>3, <2>2, <2>3 DEF AllGood, Pending
  <2> QED BY <1>1, <1>3, <2>2, <2>4
<1>4. CASE Binds(j) /\ TargetFits(j)
  <2>1. j.kind # "open" /\ j.kind # "decorate"
    BY <1>4, BindsKind
  <2>2. b = Put(g, j.target.key, SpecOf(j))
    BY <2>1 DEF Bind
  <2>3. /\ Graph(b) /\ BindingPut(b, j) /\ (~j.target.chained => Own(j.name) \in DOMAIN b.reg)
        /\ \A m \in Name \ {j.name} : Good(g, m) => Good(b, m)
        /\ Good(g, j.name) => Bound(b, j.name, j.target.chained)
    BY <1>1, <1>4, <2>2, BoundRule
  <2>4. AllGood(g) => Pending(b, j)
    BY <1>1, <2>1, <2>3 DEF AllGood, Pending
  <2> QED BY <1>1, <1>4, <2>3, <2>4
<1> QED BY <1>2, <1>3, <1>4 DEF Doing, Holding

LEMMA BodyRule ==
    ASSUME NEW g, Graph(g), NEW j \in Jobs, Doing(j, "body"), NEW names, NEW h,
           j.kind = "decorate" => names = {},
           h = AutoregisterAll(Bind(g, j), names, j.deep)
    PROVE  /\ Graph(h) /\ BindingPut(h, j) /\ (AllGood(g) => Pending(h, j))
           /\ j.kind = "decorate" => h.reg = g.reg /\ h.open = g.open
           /\ Binds(j) /\ ~j.target.chained => IsRegistered(h, j.name)
<1>1. PICK b : b = Bind(g, j)
  OBVIOUS
<1>2. /\ Graph(b)
      /\ \/ j.kind = "open" /\ j.name \in Generic /\ (AllGood(g) => AllGood(b))
         \/ j.kind = "decorate" /\ j.name \in Name /\ b.reg = g.reg /\ b.open = g.open
            /\ (AllGood(g) => Pending(b, j))
         \/ Binds(j) /\ TargetFits(j) /\ j.name \in Name /\ BindingPut(b, j)
            /\ (~j.target.chained => Own(j.name) \in DOMAIN b.reg)
            /\ (AllGood(g) => Pending(b, j))
  BY <1>1, BindRule
<1>3. j.deep \in BOOLEAN
  BY DEF Jobs
<1>4. Arranged(b, h) /\ Graph(h)
  BY <1>1, <1>2, <1>3, AutoregisterAllRule DEF Arranged
<1>5. CASE j.kind = "open" /\ j.name \in Generic /\ (AllGood(g) => AllGood(b))
  <2>1. ~Binds(j) /\ j.kind # "decorate" /\ j.name \in Name
    BY <1>5, BindsKind, GraphAssumption
  <2>2. AllGood(b) => AllGood(h)
    BY <1>2, <1>4, ArrangedGood DEF AllGood
  <2> QED BY <1>4, <1>5, <2>1, <2>2 DEF Pending, AllGood, BindingPut
<1>6. CASE j.kind = "decorate" /\ j.name \in Name /\ b.reg = g.reg /\ b.open = g.open
           /\ (AllGood(g) => Pending(b, j))
  <2>1. AutoClosure(b, names) = {}
    BY <1>6, AutoClosureRule
  <2>2. h = b
    BY <1>1, <2>1, AutoregisterNothing
  <2>3. ~Binds(j)
    BY <1>6, BindsKind
  <2> QED BY <1>4, <1>6, <2>2, <2>3 DEF BindingPut
<1>7. CASE /\ Binds(j) /\ TargetFits(j) /\ j.name \in Name /\ BindingPut(b, j)
           /\ (~j.target.chained => Own(j.name) \in DOMAIN b.reg)
           /\ (AllGood(g) => Pending(b, j))
  <2>1. j.kind # "open" /\ j.kind # "decorate" /\ j.target.chained \in BOOLEAN
    BY <1>7, BindsKind DEF TargetFits
  <2>2. BindingPut(h, j)
    <3> SUFFICES ASSUME ~j.target.chained PROVE Plain(h, Own(j.name))
      BY DEF BindingPut
    <3>1. Own(j.name) \in DOMAIN b.reg /\ Plain(b, Own(j.name))
      BY <1>7 DEF BindingPut
    <3>2. Kept(b, h, j.name)
      BY <1>4, <1>7, <3>1 DEF Arranged
    <3>3. Same(b.reg[Own(j.name)], h.reg[Own(j.name)])
      BY <1>7, <3>1, <3>2, OwnFact DEF Kept
    <3> QED BY <3>1, <3>3, PlainSame
  <2>3. ASSUME Pending(b, j)
        PROVE  Pending(h, j)
    <3>1. \A m \in Name \ {j.name} : Good(h, m)
      BY <1>2, <1>4, <2>3, ArrangedGood DEF Pending
    <3>2. Bound(b, j.name, j.target.chained)
      BY <1>7, <2>3 DEF Pending
    <3>3. j.target.chained \/ Own(j.name) \in DOMAIN b.reg
      BY <1>7
    <3>4. Bound(h, j.name, j.target.chained)
      BY <1>2, <1>4, <1>7, <2>1, <3>2, <3>3, BoundArranged
    <3> QED BY <2>1, <3>1, <3>4 DEF Pending
  <2>4. ~j.target.chained => IsRegistered(h, j.name)
    BY <1>4, <1>7, OwnFact DEF Arranged, Kept, IsRegistered
  <2> QED BY <1>4, <1>7, <2>1, <2>2, <2>3, <2>4
<1> QED BY <1>2, <1>5, <1>6, <1>7

\* The second half: what was bound or decorated is wired, and what its decorators ask for is registered.
LEMMA FinalizeRule ==
    ASSUME NEW g, Graph(g), NEW j \in Jobs, Doing(j, "finalize"), BindingPut(g, j), j.kind # "open",
           NEW wired, wired = IF j.kind = "decorate" THEN Decorated(g, j.name)
                              ELSE Finalized(g, j.name, j.target.chained),
           NEW wants, wants = IF wired.chain[j.name] = NoChain THEN {} ELSE RuleWants(wired, j.name),
           NEW h, h = AutoregisterAll(wired, wants, wired.reg[Own(j.name)].deep)
    PROVE  Graph(h) /\ (Pending(g, j) => AllGood(h)) /\ (IsRegistered(g, j.name) => IsRegistered(h, j.name))
<1>1. PICK n \in Name : n = j.name
  BY DEF Doing, Holding
<1>2. j.kind # "decorate" => Binds(j) /\ TargetFits(j)
  BY DEF Doing, Holding
<1>3. Settles(g, wired, n) /\ (Pending(g, j) => Good(wired, n))
  <2>1. CASE j.kind = "decorate"
    <3>1. Settles(g, wired, n) /\ (Wrappable(g, n) => Good(wired, n))
      BY <1>1, <2>1, DecoratedRule
    <3> QED BY <1>1, <2>1, <3>1 DEF Pending
  <2>2. CASE j.kind # "decorate"
    <3>1. j.target.chained \in BOOLEAN /\ (j.target.chained \/ Plain(g, Own(n)))
      BY <1>1, <1>2, <2>2 DEF TargetFits, BindingPut
    <3>2. PICK chained \in BOOLEAN : chained = j.target.chained
      BY <3>1
    <3>3. wired = Finalized(g, n, chained)
      BY <1>1, <2>2, <3>2
    <3>4. Settles(g, wired, n) /\ (Bound(g, n, chained) => Good(wired, n))
      BY <3>1, <3>2, <3>3, FinalizedRule
    <3> QED BY <1>1, <1>2, <2>2, <3>2, <3>4 DEF Pending
  <2> QED BY <2>1, <2>2
<1>4. Changes(g, wired, n) /\ ChainOK(wired, n)
  BY <1>3 DEF Settles
<1>5. Graph(wired) /\ \A m \in Name \ {n} : Good(g, m) => Good(wired, m)
  BY <1>4, GraphAfter
<1>6. Pending(g, j) => AllGood(wired)
  BY <1>1, <1>3, <1>5 DEF Pending, AllGood
<1>7. Own(n) \in DOMAIN g.reg => Own(n) \in DOMAIN wired.reg
  BY <1>3 DEF Settles
<1>8. CASE wired.chain[n] = NoChain
  <2>1. AutoClosure(wired, wants) = {}
    BY <1>1, <1>8, AutoClosureRule
  <2>2. h = wired
    BY <2>1, AutoregisterNothing
  <2> QED BY <1>1, <1>5, <1>6, <1>7, <2>2 DEF IsRegistered
<1>9. CASE wired.chain[n] # NoChain
  <2>1. Own(n) \in DOMAIN wired.reg
    BY <1>4, <1>9 DEF ChainOK
  <2>2. wired.reg[Own(n)].deep \in BOOLEAN
    BY <1>5, <2>1, AnyGraphRule DEF Graph, Registry, SpecType
  <2>3. Arranged(wired, h)
    BY <1>1, <1>5, <2>2, AutoregisterAllRule
  <2>4. AllGood(wired) => AllGood(h)
    BY <1>5, <2>3, ArrangedGood DEF AllGood
  <2>5. Own(n) \in DOMAIN h.reg
    BY <2>1, <2>3, OwnFact DEF Arranged, Kept
  <2> QED BY <1>1, <1>6, <2>3, <2>4, <2>5 DEF Arranged, IsRegistered
<1> QED BY <1>8, <1>9

\* A decorator of what is not registered waits: nothing is out of order.
LEMMA WaitsInOrder ==
    ASSUME NEW g, Graph(g), NEW j, j.name \in Name, Pending(g, j),
           j.kind = "open" \/ (g.chain[j.name] = NoChain /\ ~HasBinding(g, j.name))
    PROVE  AllGood(g)
<1>1. Good(g, j.name)
  <2>1. CASE j.kind = "open"
    BY <2>1 DEF Pending
  <2>2. CASE g.chain[j.name] = NoChain /\ ~HasBinding(g, j.name)
    BY <2>2 DEF Graph, ChainOK, Good, HasBinding
  <2> QED BY <2>1, <2>2
<1> QED BY <1>1 DEF Pending, AllGood

-----------------------------------------------------------------------------
(* The scope contracts look at what was registered, and not at the keys    *)
(* that were made at run time.                                             *)
LEMMA GraphFinite ==
    ASSUME NEW g, Graph(g)
    PROVE  IsFiniteSet(DOMAIN g.reg)
BY AnyGraphRule DEF Graph, Registry

LEMMA ContractsOfAlike ==
    ASSUME NEW g, Graph(g), NEW h, Alike(g.reg, h.reg), ~ContractBroken(g)
    PROVE  ~ContractBroken(h)
BY GraphFinite, SameContracts

LEMMA ContractsWithoutNone ==
    ASSUME NEW g, Graph(g)
    PROVE  ContractBroken(Without(g, OwnKeys({}))) <=> ContractBroken(g)
<1>1. PICK h : h = Without(g, OwnKeys({}))
  OBVIOUS
<1>2. LeavesOut(g, OwnKeys({}), h) /\ Graph(h)
  BY <1>1, WithoutGraph
<1>3. OwnKeys({}) = {}
  BY DEF OwnKeys
<1>4. DOMAIN h.reg = DOMAIN g.reg /\ \A k \in DOMAIN h.reg : Same(g.reg[k], h.reg[k])
  BY <1>2, <1>3 DEF LeavesOut
<1>5. Alike(g.reg, h.reg) /\ Alike(h.reg, g.reg)
  BY <1>4, AlikeBack DEF Alike
<1> QED BY <1>1, <1>2, <1>5, ContractsOfAlike

\* Keys that come at run time, and are known to have, change nothing for the contracts.
LEMMA ContractsWithMore ==
    ASSUME NEW g, Graph(g), NEW M, M \subseteq Generic, NEW more, more \subseteq Generic,
           NEW h, Extended(g, h), DOMAIN h.reg = DOMAIN g.reg \cup OwnKeys(more),
           OwnKeys(more) \cap DOMAIN g.reg = {}, ~ContractBroken(Without(g, OwnKeys(M)))
    PROVE  ~ContractBroken(Without(h, OwnKeys(M \cup more)))
<1>1. PICK a : a = Without(g, OwnKeys(M))
  OBVIOUS
<1>2. PICK all : all = M \cup more
  OBVIOUS
<1>3. PICK b : b = Without(h, OwnKeys(all))
  OBVIOUS
<1>4. Graph(h) /\ all \subseteq Generic
  BY <1>2 DEF Extended
<1>5. LeavesOut(g, OwnKeys(M), a) /\ Graph(a) /\ LeavesOut(h, OwnKeys(all), b)
  BY <1>1, <1>3, <1>4, WithoutGraph
<1>6. OwnKeys(all) = OwnKeys(M) \cup OwnKeys(more)
  BY <1>2 DEF OwnKeys
<1>7. DOMAIN b.reg = DOMAIN a.reg
  BY <1>5, <1>6 DEF LeavesOut
<1>8. ASSUME NEW k \in DOMAIN a.reg
      PROVE  Same(a.reg[k], b.reg[k])
  <2>1. k \in DOMAIN g.reg /\ Same(g.reg[k], a.reg[k])
    BY <1>5 DEF LeavesOut
  <2>2. Same(g.reg[k], h.reg[k])
    BY <2>1 DEF Extended
  <2>3. Same(h.reg[k], b.reg[k])
    BY <1>5, <1>7 DEF LeavesOut
  <2> QED BY <2>1, <2>2, <2>3 DEF Same
<1>9. Alike(a.reg, b.reg)
  BY <1>7, <1>8 DEF Alike
<1> QED BY <1>1, <1>2, <1>3, <1>5, <1>9, ContractsOfAlike

-----------------------------------------------------------------------------
(* A compiled resolver stays current as keys come at run time.             *)
LEMMA CurrentCompiled ==
    ASSUME NEW id, NEW g, Complete(g), NEW M
    PROVE  Current(Resolver(id, g), g, M)
<1>1. PICK r : r = Resolver(id, g)
  OBVIOUS
<1>2. r.graph = g /\ r.wrapped = (g.open # {})
  BY <1>1 DEF Resolver
<1>3. Current(r, g, M)
  BY <1>2 DEF Current
<1> QED BY <1>1, <1>3

LEMMA CurrentNone ==
    ASSUME NEW r, r = NoResolver, NEW g, NEW M
    PROVE  Current(r, g, M)
BY DEF Current

LEMMA CurrentClosed ==
    ASSUME NEW g, Graph(g), NEW n \in g.open \cap Generic, ~IsRegistered(g, n), NEW h,
           h = Put(g, Own(n), ClosedSpec(n)), NEW r, NEW M, Current(r, g, M)
    PROVE  Current(r, h, M \cup {n})
<1> SUFFICES ASSUME r # NoResolver PROVE Current(r, h, M \cup {n})
  BY DEF Current
<1>1. PICK Part : Part = DOMAIN r.graph.reg
  OBVIOUS
<1>2. PICK all : all = M \cup {n}
  OBVIOUS
<1>3. /\ r.wrapped <=> g.open # {}
      /\ \A k \in Part : k \in DOMAIN g.reg /\ g.reg[k] = r.graph.reg[k]
      /\ \A k \in DOMAIN g.reg \ Part : k \in OwnKeys(M)
      /\ \A k \in Part : r.graph.reg[k].deps \subseteq Part
  BY <1>1 DEF Current, Complete
<1>4. PICK spec : spec = ClosedSpec(n)
  OBVIOUS
<1>5. Puts(g, Own(n), spec, h) /\ h.open = g.open
  BY <1>4, CloseOne DEF Extended
<1>6. Registry(g.reg) /\ Stable(g.reg)
  BY AnyGraphRule DEF Graph
<1>7. Part \subseteq DOMAIN g.reg \ {Own(n)} /\ \A k \in Part : g.reg[k].deps \subseteq Part
  BY <1>3 DEF IsRegistered
<1>8. \A k \in Part : h.reg[k] = g.reg[k]
  BY <1>5, <1>6, <1>7, PutUntouched
<1>9. DOMAIN h.reg = DOMAIN g.reg \cup {Own(n)}
  BY <1>5 DEF Puts
<1>10. OwnKeys(all) = OwnKeys(M) \cup {Own(n)}
  BY <1>2 DEF OwnKeys
<1>11. Current(r, h, all)
  <2>1. \A k \in Part : k \in DOMAIN h.reg /\ h.reg[k] = r.graph.reg[k]
    BY <1>3, <1>8, <1>9
  <2>2. \A k \in DOMAIN h.reg \ Part : k \in OwnKeys(all)
    BY <1>3, <1>9, <1>10
  <2>3. Complete(r.graph)
    BY DEF Current
  <2> QED BY <1>1, <1>3, <1>5, <2>1, <2>2, <2>3 DEF Current
<1> QED BY <1>2, <1>11

-----------------------------------------------------------------------------
(* The initial state.                                                      *)
LEMMA EmptyInOrder == Graph(EmptyGraph) /\ AllGood(EmptyGraph) /\ ~ContractBroken(EmptyGraph)
<1>1. PICK g : g = EmptyGraph
  OBVIOUS
<1>2. g = [reg |-> <<>>, open |-> {}, rules |-> [n \in Name |-> <<>>],
           chain |-> [n \in Name |-> NoChain], aliases |-> 0]
  BY <1>1 DEF EmptyGraph
<1>3. g.reg = <<>> /\ g.open = {} /\ g.rules = [n \in Name |-> <<>>]
      /\ g.chain = [n \in Name |-> NoChain] /\ g.aliases = 0
  BY <1>2
<1>4. PICK reg : reg = g.reg
  OBVIOUS
<1>5. DOMAIN reg = {} /\ reg = [k \in {} |-> reg[k]]
  <2>1. reg = <<>>
    BY <1>3, <1>4
  <2> QED BY <2>1
<1>6. Registry(reg) /\ Stable(reg)
  <2>1. IsFiniteSet(DOMAIN reg)
    BY <1>5, FS_EmptySet
  <2>2. reg \in [{} -> SpecType]
    BY <1>5
  <2> QED BY <1>5, <2>1, <2>2 DEF Registry, Stable
<1>7. g \in AnyGraph
  <2>1. Shaped(g)
    BY <1>2, <1>3 DEF Shaped
  <2>2. Typed(g)
    <3>1. <<>> \in Seq(Decorator)
      OBVIOUS
    <3>2. g.rules \in [Name -> Seq(Decorator)]
      BY <1>3, <3>1
    <3>3. g.chain \in [Name -> {NoChain} \cup ChainType]
      <4> HIDE DEF ChainType
      <4> QED BY <1>3
    <3> QED BY <1>3, <3>2, <3>3 DEF Typed
  <2> QED BY <1>4, <1>6, <2>1, <2>2, AnyGraphRule
<1>8. ASSUME NEW n \in Name
      PROVE  g.rules[n] = <<>> /\ g.chain[n] = NoChain /\ Len(g.rules[n]) = 0 /\ Own(n) \notin DOMAIN g.reg
  BY <1>3, <1>4, <1>5
<1>9. ASSUME NEW n \in Name
      PROVE  ChainOK(g, n) /\ Good(g, n)
  BY <1>8 DEF ChainOK, Allowed, Good, Plain, IsRegistered
<1>10. ~ContractBroken(g)
  <2> SUFFICES ASSUME NEW n \in Contract, InferLevel(g, n) PROVE FALSE
    BY DEF ContractBroken
  <2>1. PICK k \in Reach(g.reg, Own(n)) : g.reg[k].deep
    BY DEF InferLevel
  <2>2. IsFiniteSet(DOMAIN g.reg)
    BY <1>4, <1>6 DEF Registry
  <2>3. k \in DOMAIN g.reg
    BY <2>1, <2>2, ReachRule
  <2> QED BY <1>4, <1>5, <2>3
<1> QED BY <1>1, <1>4, <1>6, <1>7, <1>9, <1>10 DEF Graph, AllGood

LEMMA NoJobFact ==
    NoJob \in Jobs /\ NoJob.kind = "none" /\ NoJob.target \in Targets
<1>1. NoJob.target \in Targets
  BY DEF Targets
<1>2. PICK target : target = TargetOf(EmptyGraph, CHOOSE n \in Name : TRUE)
  OBVIOUS
<1>3. NoJob = [kind |-> "none", name |-> None, version |-> 0, deep |-> FALSE, decorator |-> None,
               target |-> target, seen |-> 0, retried |-> FALSE]
  BY <1>2 DEF NoJob
<1>4. target \in Targets
  BY <1>1, <1>3
<1>5. "none" \in Kinds
  BY DEF Kinds
<1> QED BY <1>1, <1>3, <1>4, <1>5 DEF Jobs

LEMMA NoResolverFact == NoResolver.id = 0
BY DEF NoResolver, Resolver

LEMMA InitIInv == Init => IInv
<1> SUFFICES ASSUME Init PROVE IInv
  OBVIOUS
<1>1. graph = EmptyGraph /\ materialized = {} /\ revision = 1 /\ root = NoResolver /\ bound = NoResolver
      /\ entered = NoResolver /\ lock = None /\ torn = FALSE
  BY DEF Init
<1>2. block.opened = None /\ block.closed = None /\ block = [opened |-> None, closed |-> None]
  BY DEF Init
<1>3. ThreadsInv
  <2>1. pc \in [Thread -> Labels] /\ calls \in [Thread -> Nat] /\ job \in [Thread -> Jobs]
    <3>1. "idle" \in Labels
      BY DEF Labels
    <3>2. NoJob \in Jobs
      BY NoJobFact
    <3> QED BY <3>1, <3>2 DEF Init
  <2>2. \A t \in Thread : pc[t] = "idle"
    BY DEF Init
  <2>3. \A t \in Thread : Doing(job[t], pc[t])
    BY <2>2 DEF Doing, Holding, Asking
  <2>4. \A t \in Thread : pc[t] \in Holding <=> lock = t
    BY <1>1, <2>2, ContainerAssumption DEF Holding
  <2> QED BY <1>1, <2>1, <2>3, <2>4 DEF ThreadsInv
<1>4. GraphInv
  BY <1>1, EmptyInOrder DEF Init, GraphInv
<1>5. GraphOrder
  <2>1. ~ContractBroken(Without(EmptyGraph, OwnKeys({})))
    BY EmptyInOrder, ContractsWithoutNone
  <2>2. PICK g : g = EmptyGraph
    OBVIOUS
  <2>3. \A t \in Thread : pc[t] = "idle"
    BY DEF Init
  <2> QED BY <1>1, <2>1, <2>3, EmptyInOrder DEF GraphOrder, OrderInv
<1>6. RootInv
  BY <1>1, CurrentNone DEF RootInv
<1>7. NamesInv /\ BlockInv
  <2>1. \A t \in Thread : pc[t] = "idle" /\ job[t] = NoJob
    BY DEF Init
  <2>2. \A t \in Thread : job[t].kind # "enter"
    BY <2>1, NoJobFact
  <2>3. DOMAIN using = Thread
    BY DEF Init
  <2> QED BY <1>1, <1>2, <2>1, <2>2, <2>3, NoResolverFact DEF BlockInv, NamesInv
<1> QED BY <1>3, <1>4, <1>5, <1>6, <1>7 DEF IInv

-----------------------------------------------------------------------------
(* Where the threads are.                                                  *)
LEMMA ThreadMoves ==
    ASSUME ThreadsInv, NEW t \in Thread, NEW label \in Labels, NEW j \in Jobs, Doing(j, label),
           pc' = [pc EXCEPT ![t] = label], job' = [job EXCEPT ![t] = j],
           calls' \in [Thread -> Nat], torn' \in BOOLEAN,
           \/ lock' = lock /\ (label \in Holding <=> pc[t] \in Holding)
           \/ lock = None /\ lock' = t /\ label \in Holding
           \/ lock = t /\ lock' = None /\ label \notin Holding
    PROVE  ThreadsInv'
<1>1. pc \in [Thread -> Labels] /\ job \in [Thread -> Jobs] /\ lock \in Thread \cup {None} /\ None \notin Thread
  BY ContainerAssumption DEF ThreadsInv
<1>2. pc' \in [Thread -> Labels] /\ job' \in [Thread -> Jobs]
  BY <1>1
<1>3. pc'[t] = label /\ job'[t] = j /\ \A o \in Thread \ {t} : pc'[o] = pc[o] /\ job'[o] = job[o]
  BY <1>1
<1>4. \A o \in Thread : Doing(job'[o], pc'[o])
  BY <1>3 DEF ThreadsInv
<1>5. lock' \in Thread \cup {None}
  BY <1>1
<1>6. ASSUME NEW o \in Thread
      PROVE  pc'[o] \in Holding <=> lock' = o
  <2>1. /\ pc[o] \in Holding <=> lock = o
        /\ pc[t] \in Holding <=> lock = t
    BY DEF ThreadsInv
  <2>2. CASE o = t
    BY <1>1, <1>3, <2>1, <2>2
  <2>3. CASE o # t
    BY <1>1, <1>3, <2>1, <2>3
  <2> QED BY <2>2, <2>3
<1> QED BY <1>2, <1>4, <1>5, <1>6 DEF ThreadsInv

\* The work is the same.
LEMMA ThreadGoes ==
    ASSUME ThreadsInv, NEW t \in Thread, NEW label \in Labels, Doing(job[t], label),
           Goto(t, label), job' = job, calls' = calls, torn' \in BOOLEAN,
           \/ lock' = lock /\ (label \in Holding <=> pc[t] \in Holding)
           \/ lock = None /\ lock' = t /\ label \in Holding
           \/ lock = t /\ lock' = None /\ label \notin Holding
    PROVE  ThreadsInv'
<1>1. job \in [Thread -> Jobs] /\ calls' \in [Thread -> Nat]
  BY DEF ThreadsInv
<1>2. job[t] \in Jobs /\ job' = [job EXCEPT ![t] = job[t]]
  BY <1>1
<1>3. pc' = [pc EXCEPT ![t] = label]
  BY DEF Goto
<1> QED BY <1>1, <1>2, <1>3, ThreadMoves

\* The call is at its end.
LEMMA ThreadEnds ==
    ASSUME ThreadsInv, NEW t \in Thread, NEW a, End(t, a), calls' = calls, torn' \in BOOLEAN,
           \/ lock' = lock /\ pc[t] \notin Holding
           \/ lock = t /\ lock' = None
    PROVE  ThreadsInv'
<1>1. NoJob \in Jobs /\ calls' \in [Thread -> Nat]
  BY NoJobFact DEF ThreadsInv
<1>2. "idle" \in Labels /\ "idle" \notin Holding /\ Doing(NoJob, "idle")
  BY DEF Labels, Holding, Asking, Doing
<1>3. pc' = [pc EXCEPT ![t] = "idle"] /\ job' = [job EXCEPT ![t] = NoJob]
  BY DEF End, Goto
<1> QED BY <1>1, <1>2, <1>3, ThreadMoves

LEMMA ThreadCalls ==
    ASSUME ThreadsInv, NEW t \in Thread, NEW label \in {"target", "begin", "entry", "compile"}, NEW work \in Jobs,
           Doing(work, label), Call(t, label, work)
    PROVE  ThreadsInv'
<1>1. calls' \in [Thread -> Nat]
  <2>1. calls \in [Thread -> Nat] /\ calls' = [calls EXCEPT ![t] = @ + 1]
    BY DEF ThreadsInv, Call
  <2> QED BY <2>1
<1>2. label \in Labels /\ label \notin Holding /\ "idle" \notin Holding
  BY DEF Labels, Holding
<1>3. /\ pc' = [pc EXCEPT ![t] = label] /\ job' = [job EXCEPT ![t] = work] /\ pc[t] = "idle"
      /\ lock' = lock /\ torn' = torn
  BY DEF Call, Goto, state
<1>4. torn' \in BOOLEAN
  BY <1>3 DEF ThreadsInv
<1> QED BY <1>1, <1>2, <1>3, <1>4, ThreadMoves

LEMMA CallsThreads ==
    ASSUME ThreadsInv, NEW t \in Thread,
           Register(t) \/ (\E n \in Name : CallResolve(t, n)) \/ CallEnter(t)
    PROVE  ThreadsInv'
<1>1. NoJob \in Jobs
  BY NoJobFact
<1>2. Version(t) \in Nat
  BY DEF Version, ThreadsInv
<1>3. ASSUME NEW kind \in Kind, NEW n \in Name, NEW deep \in BOOLEAN, CallAdd(t, kind, n, deep)
      PROVE  ThreadsInv'
  <2>1. PICK j : j = Registration(kind, n, Version(t), deep)
    OBVIOUS
  <2>2. kind \in Kinds
    BY ContainerAssumption DEF Kinds
  <2>3. j \in Jobs /\ j.name = n /\ j.kind = kind
    BY <1>1, <1>2, <2>1, <2>2 DEF Registration, Jobs
  <2>4. Doing(j, "target")
    BY <2>3 DEF Doing, Binds, Holding, Asking
  <2>5. Call(t, "target", j)
    BY <1>3, <2>1 DEF CallAdd
  <2> QED BY <2>3, <2>4, <2>5, ThreadCalls
<1>4. ASSUME NEW n \in Generic, CallAddTemplate(t, n)
      PROVE  ThreadsInv'
  <2>1. PICK j : j = Registration("open", n, 0, FALSE)
    OBVIOUS
  <2>2. "open" \in Kinds /\ n \in Name
    BY GraphAssumption DEF Kinds, Providing
  <2>3. j \in Jobs /\ j.name = n /\ j.kind = "open"
    BY <1>1, <2>1, <2>2 DEF Registration, Jobs
  <2>4. Doing(j, "begin")
    BY <2>2, <2>3 DEF Doing, Holding, Asking
  <2>5. Call(t, "begin", j)
    BY <1>4, <2>1 DEF CallAddTemplate
  <2> QED BY <2>3, <2>4, <2>5, ThreadCalls
<1>5. ASSUME NEW n \in Name, NEW d \in Decorates[n], CallDecorate(t, n, d)
      PROVE  ThreadsInv'
  <2>1. PICK j : j = [NoJob EXCEPT !.kind = "decorate", !.name = n, !.decorator = d]
    OBVIOUS
  <2>2. "decorate" \in Kinds /\ d \in Decorator
    BY GraphAssumption DEF Kinds
  <2>3. j \in Jobs /\ j.name = n /\ j.kind = "decorate" /\ j.decorator = d
    BY <1>1, <2>1, <2>2 DEF Jobs
  <2>4. Doing(j, "begin")
    BY <2>3 DEF Doing, Holding, Asking
  <2>5. Call(t, "begin", j)
    BY <1>5, <2>1 DEF CallDecorate
  <2> QED BY <2>3, <2>4, <2>5, ThreadCalls
<1>6. ASSUME NEW n \in Name, CallResolve(t, n)
      PROVE  ThreadsInv'
  <2>1. PICK j : j = [NoJob EXCEPT !.kind = "resolve", !.name = n]
    OBVIOUS
  <2>2. "resolve" \in Kinds
    BY DEF Kinds
  <2>3. j \in Jobs /\ j.name = n /\ j.kind = "resolve"
    BY <1>1, <2>1, <2>2 DEF Jobs
  <2>4. Doing(j, "entry")
    BY <2>3 DEF Doing, Holding, Asking
  <2>5. Call(t, "entry", j)
    BY <1>6, <2>1 DEF CallResolve
  <2> QED BY <2>3, <2>4, <2>5, ThreadCalls
<1>7. ASSUME CallEnter(t)
      PROVE  ThreadsInv'
  <2>1. PICK j : j = [NoJob EXCEPT !.kind = "enter"]
    OBVIOUS
  <2>2. "enter" \in Kinds
    BY DEF Kinds
  <2>3. j \in Jobs /\ j.kind = "enter"
    BY <1>1, <2>1, <2>2 DEF Jobs
  <2>4. Doing(j, "compile")
    BY <2>3 DEF Doing, Holding, Asking
  <2>5. Call(t, "compile", j)
    BY <1>7, <2>1 DEF CallEnter
  <2> QED BY <2>3, <2>4, <2>5, ThreadCalls
<1> QED BY <1>3, <1>4, <1>5, <1>6, <1>7 DEF Register

LEMMA TargetOfFits ==
    ASSUME NEW g, Graph(g), NEW n \in Name, NEW target, target = TargetOf(g, n)
    PROVE  /\ target \in [key : Key, chained : BOOLEAN] /\ target.key[1] = n
           /\ IF target.chained THEN target.key[2] # 0 ELSE target.key = Own(n)
<1>1. CASE g.chain[n] = NoChain
  <2>1. target = [key |-> Own(n), chained |-> FALSE]
    BY <1>1 DEF TargetOf
  <2> QED BY <2>1, OwnFact
<1>2. CASE g.chain[n] # NoChain
  <2>1. target = [key |-> g.chain[n].base, chained |-> TRUE]
    BY <1>2 DEF TargetOf
  <2>2. Layered(n, g.chain[n], g.aliases) /\ g.aliases \in Nat
    BY <1>2, AnyGraphRule DEF Graph, ChainOK, Typed
  <2>3. g.chain[n].base \in Key /\ g.chain[n].base[1] = n
    BY <2>2, LayeredFact
  <2>4. g.chain[n].base[2] # 0
    BY <2>2 DEF Layered
  <2> QED BY <2>1, <2>3, <2>4
<1> QED BY <1>1, <1>2

\* What a thread works on when it has gone one step further.
LEMMA DoingGoes ==
    ASSUME NEW j
    PROVE  /\ Doing(j, "begin") => Doing(j, "body")
           /\ Doing(j, "body") => Doing(j, "finalize")
           /\ Doing(j, "finalize") => Doing(j, "commit")
           /\ Doing(j, "commit") /\ j.kind = "resolve" => Doing(j, "compare")
           /\ Doing(j, "entry") => Doing(j, "ask") /\ Doing(j, "compile")
           /\ Doing(j, "compile") /\ j.kind = "enter" => Doing(j, "enter")
           /\ Doing(j, "compile") /\ j.kind # "enter" => Doing(j, "ask")
           /\ Doing(j, "ask") => Doing(j, "revision")
           /\ Doing(j, "revision") => Doing(j, "ensure")
           /\ Doing(j, "ensure") => Doing(j, "target") /\ Doing(j, "compare")
           /\ Doing(j, "compare") => Doing(j, "compile")
<1> USE DEF Doing, Holding, Asking
<1>1. Doing(j, "begin") => Doing(j, "body")
  OBVIOUS
<1>2. Doing(j, "body") => Doing(j, "finalize")
  OBVIOUS
<1>3. Doing(j, "finalize") => Doing(j, "commit")
  OBVIOUS
<1>4. Doing(j, "commit") /\ j.kind = "resolve" => Doing(j, "compare")
  OBVIOUS
<1>5. Doing(j, "entry") => Doing(j, "ask") /\ Doing(j, "compile")
  OBVIOUS
<1>6. Doing(j, "compile") /\ j.kind = "enter" => Doing(j, "enter")
  OBVIOUS
<1>7. Doing(j, "compile") /\ j.kind # "enter" => Doing(j, "ask")
  OBVIOUS
<1>8. Doing(j, "ask") => Doing(j, "revision")
  OBVIOUS
<1>9. Doing(j, "revision") => Doing(j, "ensure")
  OBVIOUS
<1>10. Doing(j, "ensure") => Doing(j, "target") /\ Doing(j, "compare")
  BY DEF Binds
<1>11. Doing(j, "compare") => Doing(j, "compile")
  OBVIOUS
<1> HIDE DEF Doing, Holding, Asking
<1> QED BY <1>1, <1>2, <1>3, <1>4, <1>5, <1>6, <1>7, <1>8, <1>9, <1>10, <1>11

\* Doing looks at the dependency and at the method, and where a key was looked up, at the key.
LEMMA DoingAlike ==
    ASSUME NEW i, NEW j, j.name = i.name, j.kind = i.kind
    PROVE  /\ Doing(i, "revision") => Doing(j, "ensure")
           /\ Doing(i, "compare") => Doing(j, "compile")
           /\ Doing(i, "target") /\ TargetFits(j) => Doing(j, "begin")
<1>1. Doing(i, "revision") => Doing(j, "ensure")
  BY DEF Doing, Holding, Asking
<1>2. Doing(i, "compare") => Doing(j, "compile")
  BY DEF Doing, Holding, Asking
<1>3. Doing(i, "target") /\ TargetFits(j) => Doing(j, "begin")
  BY DEF Doing, Holding, Asking, Binds
<1> QED BY <1>1, <1>2, <1>3

\* What a thread is at says where it can go.
LEMMA StepsThreads ==
    ASSUME IInv, NEW t \in Thread, Step(t)
    PROVE  ThreadsInv'
<1>0. /\ ThreadsInv /\ torn \in BOOLEAN /\ job[t] \in Jobs /\ calls \in [Thread -> Nat]
      /\ pc[t] \in Holding <=> lock = t
  BY DEF IInv, ThreadsInv
<1>d. Doing(job[t], pc[t])
  BY DEF IInv, ThreadsInv
<1>1. Labels = {"idle", "target", "begin", "body", "finalize", "commit", "entry", "compile", "ask", "revision",
                "ensure", "compare", "enter"}
      /\ Holding = {"body", "finalize", "commit"} /\ Asking = {"entry", "ask", "revision", "ensure", "compare"}
  BY DEF Labels, Holding, Asking
<1>2. ASSUME FindTarget(t)
      PROVE  ThreadsInv'
  <2>1. PICK target : target = TargetOf(graph, job[t].name)
    OBVIOUS
  <2>2. PICK j : j = [job[t] EXCEPT !.target = target]
    OBVIOUS
  <2>3. job[t].name \in Name /\ Binds(job[t]) /\ Doing(job[t], "target")
    <3>1. pc[t] = "target"
      BY <1>2 DEF FindTarget
    <3> QED BY <1>d, <3>1 DEF Doing
  <2>4. /\ target \in [key : Key, chained : BOOLEAN] /\ target.key[1] = job[t].name
        /\ IF target.chained THEN target.key[2] # 0 ELSE target.key = Own(job[t].name)
    BY <2>1, <2>3, TargetOfFits DEF IInv, GraphInv
  <2>5. j \in Jobs /\ j.target = target /\ j.name = job[t].name /\ j.kind = job[t].kind
    BY <1>0, <2>2, <2>4 DEF Jobs, Targets
  <2>6. Doing(j, "begin")
    <3>1. TargetFits(j)
      BY <2>4, <2>5 DEF TargetFits
    <3> QED BY <2>3, <2>5, <3>1, DoingAlike
  <2>7. job' = [job EXCEPT ![t] = j] /\ pc' = [pc EXCEPT ![t] = "begin"] /\ lock' = lock /\ torn' = torn
        /\ calls' = calls /\ pc[t] = "target"
    BY <1>2, <2>1, <2>2 DEF FindTarget, Goto, state
  <2> QED BY <1>0, <1>1, <2>5, <2>6, <2>7, ThreadMoves
<1>3. ASSUME Begin(t)
      PROVE  ThreadsInv'
  <2>1. Goto(t, "body") /\ job' = job /\ calls' = calls /\ torn' = torn /\ lock = None /\ lock' = t /\ pc[t] = "begin"
    BY <1>3 DEF Begin
  <2>2. Doing(job[t], "body")
    BY <1>d, <2>1, DoingGoes
  <2> QED BY <1>0, <1>1, <2>1, <2>2, ThreadGoes
<1>4. ASSUME Body(t)
      PROVE  ThreadsInv'
  <2>1. Goto(t, "finalize") /\ job' = job /\ calls' = calls /\ torn' = torn /\ lock' = lock /\ pc[t] = "body"
    BY <1>4 DEF Body
  <2>2. Doing(job[t], "finalize")
    BY <1>d, <2>1, DoingGoes
  <2> QED BY <1>0, <1>1, <2>1, <2>2, ThreadGoes
<1>5. ASSUME BodyFails(t)
      PROVE  ThreadsInv'
  <2>1. /\ End(t, Answer("refused", job[t].name, 0, None))
        /\ calls' = calls /\ torn' = TRUE /\ lock' = None /\ pc[t] = "body"
    BY <1>5 DEF BodyFails
  <2>2. lock = t
    BY <1>0, <1>1, <2>1
  <2> QED BY <2>1, <2>2, <1>0, ThreadEnds
<1>6. ASSUME Finalize(t)
      PROVE  ThreadsInv'
  <2>1. Goto(t, "commit") /\ job' = job /\ calls' = calls /\ torn' = torn /\ lock' = lock /\ pc[t] = "finalize"
    BY <1>6 DEF Finalize
  <2>2. Doing(job[t], "commit")
    BY <1>d, <2>1, DoingGoes
  <2> QED BY <1>0, <1>1, <2>1, <2>2, ThreadGoes
<1>7. ASSUME Commit(t)
      PROVE  ThreadsInv'
  <2>0. calls' = calls /\ torn' = torn /\ lock' = None /\ pc[t] = "commit"
    BY <1>7 DEF Commit, Leave
  <2>1. calls' = calls /\ torn' = torn /\ lock' = None /\ lock = t /\ pc[t] = "commit"
    BY <1>0, <1>1, <2>0
  <2>2. CASE job[t].kind = "resolve"
    <3>1. Goto(t, "compare") /\ job' = job
      BY <1>7, <2>2 DEF Commit
    <3>2. Doing(job[t], "compare")
      BY <1>d, <2>1, <2>2, DoingGoes
    <3> QED BY <1>0, <1>1, <2>1, <3>1, <3>2, ThreadGoes
  <2>3. CASE job[t].kind # "resolve"
    <3>1. End(t, Answer("registered", job[t].name, 0, None))
      BY <1>7, <2>3 DEF Commit
    <3> QED BY <1>0, <2>1, <3>1, ThreadEnds
  <2> QED BY <2>2, <2>3
<1>8. ASSUME Rollback(t)
      PROVE  ThreadsInv'
  <2>0. /\ End(t, Answer("invalid", job[t].name, 0, None)) /\ calls' = calls /\ torn' = torn
        /\ lock' = None /\ pc[t] = "commit"
    BY <1>8 DEF Rollback, Leave
  <2>1. lock = t
    BY <1>0, <1>1, <2>0
  <2> QED BY <1>0, <2>0, <2>1, ThreadEnds
<1>9. ASSUME Entry(t)
      PROVE  ThreadsInv'
  <2>1. PICK label : label = IF using'[t] = NoResolver THEN "compile" ELSE "ask"
    OBVIOUS
  <2>2. Goto(t, label) /\ job' = job /\ calls' = calls /\ torn' = torn /\ lock' = lock /\ pc[t] = "entry"
    BY <1>9, <2>1 DEF Entry, state
  <2>3. Doing(job[t], label) /\ label \in Labels /\ label \notin Holding
    BY <1>1, <1>d, <2>1, <2>2, DoingGoes
  <2> QED BY <1>0, <1>1, <2>2, <2>3, ThreadGoes
<1>10. ASSUME Compile(t)
       PROVE  ThreadsInv'
  <2>1. PICK label : label = IF job[t].kind = "enter" THEN "enter" ELSE "ask"
    OBVIOUS
  <2>2. Goto(t, label) /\ job' = job /\ calls' = calls /\ torn' = torn /\ lock' = lock /\ pc[t] = "compile"
    BY <1>10, <2>1 DEF Compile
  <2>3. Doing(job[t], label) /\ label \in Labels /\ label \notin Holding
    BY <1>1, <1>d, <2>1, <2>2, DoingGoes
  <2> QED BY <1>0, <1>1, <2>2, <2>3, ThreadGoes
<1>11. ASSUME CompileFails(t)
       PROVE  ThreadsInv'
  <2>1. /\ End(t, Answer("missing", job[t].name, 0, None)) /\ calls' = calls /\ torn' = torn
        /\ lock' = lock /\ pc[t] = "compile"
    BY <1>11 DEF CompileFails
  <2> QED BY <1>0, <1>1, <2>1, ThreadEnds
<1>12. ASSUME Known(t)
       PROVE  ThreadsInv'
  <2>1. /\ \E a : End(t, a)
        /\ calls' = calls /\ torn' = torn /\ lock' = lock /\ pc[t] = "ask"
    BY <1>12 DEF Known, state
  <2> QED BY <1>0, <1>1, <2>1, ThreadEnds
<1>13. ASSUME Materialize(t)
       PROVE  ThreadsInv'
  <2>1. /\ \E a : End(t, a)
        /\ calls' = calls /\ torn' = torn /\ lock' = lock /\ pc[t] = "ask"
    BY <1>13 DEF Materialize, Misses
  <2> QED BY <1>0, <1>1, <2>1, ThreadEnds
<1>14. ASSUME Refuse(t)
       PROVE  ThreadsInv'
  <2>1. /\ End(t, Answer("refused", job[t].name, using[t].id, None))
        /\ calls' = calls /\ torn' = torn /\ lock' = lock /\ pc[t] = "ask"
    BY <1>14 DEF Refuse, Misses, state
  <2> QED BY <1>0, <1>1, <2>1, ThreadEnds
<1>15. ASSUME Missing(t)
       PROVE  ThreadsInv'
  <2>1. calls' = calls /\ torn' = torn /\ lock' = lock /\ pc[t] = "ask"
    BY <1>15 DEF Missing, Misses, state
  <2>2. CASE strict \/ job[t].retried
    <3>1. End(t, Answer("missing", job[t].name, using[t].id, None))
      BY <1>15, <2>2 DEF Missing
    <3> QED BY <1>0, <1>1, <2>1, <3>1, ThreadEnds
  <2>3. CASE ~(strict \/ job[t].retried)
    <3>1. Goto(t, "revision") /\ job' = job
      BY <1>15, <2>3 DEF Missing
    <3>2. Doing(job[t], "revision")
      BY <1>d, <2>1, DoingGoes
    <3> QED BY <1>0, <1>1, <2>1, <3>1, <3>2, ThreadGoes
  <2> QED BY <2>2, <2>3
<1>16. ASSUME ReadRevision(t)
       PROVE  ThreadsInv'
  <2>1. PICK j : j = [job[t] EXCEPT !.seen = revision]
    OBVIOUS
  <2>2. j \in Jobs /\ j.name = job[t].name /\ j.kind = job[t].kind
    <3>1. revision \in Nat
      BY DEF IInv, NamesInv
    <3> QED BY <1>0, <2>1, <3>1 DEF Jobs
  <2>3. job' = [job EXCEPT ![t] = j] /\ pc' = [pc EXCEPT ![t] = "ensure"] /\ lock' = lock /\ torn' = torn
        /\ calls' = calls /\ pc[t] = "revision"
    BY <1>16, <2>1 DEF ReadRevision, Goto, state
  <2>4. Doing(j, "ensure")
    BY <1>d, <2>2, <2>3, DoingAlike
  <2> QED BY <1>0, <1>1, <2>2, <2>3, <2>4, ThreadMoves
<1>17. ASSUME EnsureAutoregistration(t)
       PROVE  ThreadsInv'
  <2>1. PICK label : label = IF Unserved(graph, job[t].name) /\ job[t].name \in Concrete THEN "target" ELSE "compare"
    OBVIOUS
  <2>2. Goto(t, label) /\ job' = job /\ calls' = calls /\ torn' = torn /\ lock' = lock /\ pc[t] = "ensure"
    BY <1>17, <2>1 DEF EnsureAutoregistration, state
  <2>3. Doing(job[t], label) /\ label \in Labels /\ label \notin Holding
    BY <1>1, <1>d, <2>1, <2>2, DoingGoes
  <2> QED BY <1>0, <1>1, <2>2, <2>3, ThreadGoes
<1>18. ASSUME CompareRevision(t)
       PROVE  ThreadsInv'
  <2>1. calls' = calls /\ torn' = torn /\ lock' = lock /\ pc[t] = "compare"
    BY <1>18 DEF CompareRevision, state
  <2>2. CASE GraphChanged(t)
    <3>1. PICK j : j = [job[t] EXCEPT !.retried = TRUE]
      OBVIOUS
    <3>2. j \in Jobs /\ j.name = job[t].name /\ j.kind = job[t].kind
      BY <1>0, <3>1 DEF Jobs
    <3>3. job' = [job EXCEPT ![t] = j] /\ pc' = [pc EXCEPT ![t] = "compile"]
      BY <1>18, <2>2, <3>1 DEF CompareRevision, Goto
    <3>4. Doing(j, "compile")
      BY <1>d, <2>1, <3>2, DoingAlike
    <3> QED BY <1>0, <1>1, <2>1, <3>2, <3>3, <3>4, ThreadMoves
  <2>3. CASE ~GraphChanged(t)
    <3>1. End(t, Answer("missing", job[t].name, using[t].id, None))
      BY <1>18, <2>3 DEF CompareRevision
    <3> QED BY <1>0, <1>1, <2>1, <3>1, ThreadEnds
  <2> QED BY <2>2, <2>3
<1>19. ASSUME EnterContainer(t)
       PROVE  ThreadsInv'
  <2>1. /\ End(t, NoAnswer)
        /\ calls' = calls /\ torn' = torn /\ lock' = lock /\ pc[t] = "enter"
    BY <1>19 DEF EnterContainer
  <2> QED BY <1>0, <1>1, <2>1, ThreadEnds
<1> QED BY <1>2, <1>3, <1>4, <1>5, <1>6, <1>7, <1>8, <1>9, <1>10, <1>11, <1>12, <1>13, <1>14, <1>15, <1>16,
           <1>17, <1>18, <1>19 DEF Step

LEMMA ThreadsKept ==
    ASSUME IInv, NEW t \in Thread, ThreadStep(t)
    PROVE  ThreadsInv'
<1>1. ThreadsInv
  BY DEF IInv
<1>2. ASSUME ExitContainer(t)
      PROVE  ThreadsInv'
  <2>1. pc' = pc /\ job' = job /\ calls' = calls /\ lock' = lock /\ torn' = torn
    BY <1>2 DEF ExitContainer, threads
  <2> QED BY <1>1, <2>1 DEF ThreadsInv
<1> QED BY <1>1, <1>2, CallsThreads, StepsThreads DEF ThreadStep

-----------------------------------------------------------------------------
(* The graph, step by step.                                                *)
LEMMA PcMoves ==
    ASSUME ThreadsInv, NEW t \in Thread, NEW label, Goto(t, label)
    PROVE  pc'[t] = label /\ \A o \in Thread \ {t} : pc'[o] = pc[o]
BY DEF ThreadsInv, Goto

\* Who is at a place that needs the lock has it, and nobody else.
LEMMA HoldsLock ==
    ASSUME ThreadsInv, NEW t \in Thread
    PROVE  /\ pc[t] \in {"body", "finalize", "commit"} => lock = t /\ lock # None
           /\ lock \in {None, t} => \A o \in Thread \ {t} : pc[o] \notin {"body", "finalize", "commit"}
<1>1. Holding = {"body", "finalize", "commit"} /\ None \notin Thread
  BY ContainerAssumption DEF Holding
<1>2. \A o \in Thread : pc[o] \in {"body", "finalize", "commit"} <=> lock = o
  BY <1>1 DEF ThreadsInv
<1>3. pc[t] \in {"body", "finalize", "commit"} => lock = t /\ lock # None
  BY <1>1, <1>2
<1>4. ASSUME lock \in {None, t}, NEW o \in Thread \ {t}
      PROVE  pc[o] \notin {"body", "finalize", "commit"}
  <2>1. lock # o
    BY <1>1, <1>4
  <2> QED BY <1>2, <2>1
<1> QED BY <1>3, <1>4

\* After a step nobody has the lock.
LEMMA NobodyHolds ==
    ASSUME ThreadsInv', lock' = None
    PROVE  \A o \in Thread : pc'[o] \notin {"body", "finalize", "commit"}
BY ContainerAssumption DEF ThreadsInv, Holding

\* After a step t has it.
LEMMA OneHolds ==
    ASSUME ThreadsInv', NEW t \in Thread, lock' = t
    PROVE  \A o \in Thread \ {t} : pc'[o] \notin {"body", "finalize", "commit"}
BY ContainerAssumption DEF ThreadsInv, Holding

LEMMA Unheld ==
    ASSUME ThreadsInv', lock' = None, Graph(graph'), materialized' \subseteq Generic
    PROVE  /\ GraphInv'
           /\ AllGood(graph') /\ ~ContractBroken(Without(graph', OwnKeys(materialized'))) => OrderInv'
<1>1. \A o \in Thread : pc'[o] # "finalize" /\ pc'[o] # "body" /\ pc'[o] # "commit"
  BY NobodyHolds
<1>2. GraphInv'
  BY <1>1 DEF GraphInv
<1>3. ASSUME AllGood(graph'), ~ContractBroken(Without(graph', OwnKeys(materialized')))
      PROVE  OrderInv'
  BY <1>1, <1>3 DEF OrderInv
<1> QED BY <1>2, <1>3

LEMMA Held ==
    ASSUME ThreadsInv', NEW t \in Thread, lock' = t, Graph(graph'), Graph(snapshot'), materialized' = {},
           pc'[t] = "finalize" => BindingPut(graph', job'[t])
    PROVE  /\ GraphInv'
           /\ /\ AllGood(snapshot') /\ ~ContractBroken(snapshot')
              /\ pc'[t] \in {"body", "commit"} => AllGood(graph')
              /\ pc'[t] = "finalize" => Pending(graph', job'[t])
              => OrderInv'
<1>1. \A o \in Thread \ {t} : pc'[o] # "finalize" /\ pc'[o] # "body" /\ pc'[o] # "commit"
  BY OneHolds
<1>2. lock' # None
  BY ContainerAssumption
<1>3. \A o \in Thread : pc'[o] = "finalize" => BindingPut(graph', job'[o])
  BY <1>1
<1>4. GraphInv'
  BY <1>3 DEF GraphInv
<1>5. ASSUME AllGood(snapshot') /\ ~ContractBroken(snapshot'),
             pc'[t] \in {"body", "commit"} => AllGood(graph'),
             pc'[t] = "finalize" => Pending(graph', job'[t])
      PROVE  OrderInv'
  <2>1. \A o \in Thread : pc'[o] \in {"body", "commit"} => AllGood(graph')
    BY <1>1, <1>5
  <2>2. \A o \in Thread : pc'[o] = "finalize" => Pending(graph', job'[o])
    BY <1>1, <1>5
  <2> QED BY <1>2, <1>5, <2>1, <2>2 DEF OrderInv
<1> QED BY <1>4, <1>5

\* A step that has nothing to do with the graph.
LEMMA GraphStays ==
    ASSUME GraphInv, GraphOrder,
           graph' = graph, materialized' = materialized, lock' = lock, snapshot' = snapshot, torn' = torn,
           \A o \in Thread : pc'[o] \in {"body", "finalize", "commit"} => pc'[o] = pc[o] /\ job'[o] = job[o]
    PROVE  GraphInv' /\ GraphOrder'
<1>1. \A o \in Thread : pc'[o] = "finalize" => pc[o] = "finalize" /\ job'[o] = job[o]
  OBVIOUS
<1>2. \A o \in Thread : pc'[o] \in {"body", "commit"} => pc[o] \in {"body", "commit"}
  OBVIOUS
<1>3. GraphInv'
  BY <1>1 DEF GraphInv
<1>4. ASSUME ~torn
      PROVE  OrderInv'
  <2>1. OrderInv
    BY <1>4 DEF GraphOrder
  <2>2. \A o \in Thread : pc'[o] \in {"body", "commit"} => AllGood(graph')
    BY <1>2, <2>1 DEF OrderInv
  <2>3. \A o \in Thread : pc'[o] = "finalize" => Pending(graph', job'[o])
    BY <1>1, <2>1 DEF OrderInv
  <2> QED BY <2>1, <2>2, <2>3 DEF OrderInv
<1> QED BY <1>3, <1>4 DEF GraphOrder

\* Nor has one of a thread that is at no place that needs the lock, before or after.
LEMMA GraphAside ==
    ASSUME ThreadsInv, GraphInv, GraphOrder, NEW t \in Thread,
           graph' = graph, materialized' = materialized, lock' = lock, snapshot' = snapshot, torn' = torn,
           pc'[t] \notin {"body", "finalize", "commit"},
           \A o \in Thread \ {t} : pc'[o] = pc[o] /\ job'[o] = job[o]
    PROVE  GraphInv' /\ GraphOrder'
<1>1. \A o \in Thread : pc'[o] \in {"body", "finalize", "commit"} => pc'[o] = pc[o] /\ job'[o] = job[o]
  OBVIOUS
<1> QED BY <1>1, GraphStays

LEMMA BeginGraph ==
    ASSUME IInv, ThreadsInv', NEW t \in Thread, Begin(t)
    PROVE  GraphInv' /\ GraphOrder'
<1>1. /\ ThreadsInv /\ Graph(graph) /\ materialized \subseteq Generic
      /\ ~torn => OrderInv
  BY DEF IInv, GraphInv, GraphOrder
<1>2. PICK purged : purged = IF materialized = {} THEN graph ELSE Without(graph, OwnKeys(materialized))
  OBVIOUS
<1>3. /\ lock = None /\ lock' = t /\ graph' = purged /\ snapshot' = purged /\ materialized' = {}
      /\ torn' = torn /\ Goto(t, "body")
  BY <1>2 DEF Begin
<1>4. pc'[t] = "body"
  BY <1>1, <1>3, PcMoves
<1>5. Graph(purged) /\ (AllGood(graph) => AllGood(purged))
  <2>1. CASE materialized = {}
    BY <1>1, <1>2, <2>1
  <2>2. CASE materialized # {}
    <3>1. purged = Without(graph, OwnKeys(materialized))
      BY <1>2, <2>2
    <3> QED BY <1>1, <3>1, WithoutGraph
  <2> QED BY <2>1, <2>2
<1>6. GraphInv'
  BY <1>3, <1>4, <1>5, Held
<1>7. ASSUME ~torn
      PROVE  OrderInv'
  <2>1. AllGood(graph) /\ ~ContractBroken(Without(graph, OwnKeys(materialized)))
    BY <1>1, <1>3, <1>7 DEF OrderInv
  <2>2. ~ContractBroken(purged)
    <3>1. CASE materialized = {}
      <4>1. ~ContractBroken(Without(graph, OwnKeys({})))
        BY <2>1, <3>1
      <4> QED BY <1>1, <1>2, <3>1, <4>1, ContractsWithoutNone
    <3>2. CASE materialized # {}
      BY <1>2, <2>1, <3>2
    <3> QED BY <3>1, <3>2
  <2> QED BY <1>3, <1>4, <1>5, <2>1, <2>2, Held
<1> QED BY <1>3, <1>6, <1>7 DEF GraphOrder

\* What the arguments of the thread's binding make of the graph.
LEMMA BodyGraph ==
    ASSUME IInv, ThreadsInv', NEW t \in Thread, Body(t)
    PROVE  GraphInv' /\ GraphOrder'
<1>1. /\ ThreadsInv /\ GraphInv /\ Graph(graph) /\ job[t] \in Jobs /\ Doing(job[t], pc[t])
      /\ ~torn => OrderInv
  BY DEF IInv, ThreadsInv, GraphInv, GraphOrder
<1>2. PICK names : names = Arguments(job[t])
  OBVIOUS
<1>3. /\ pc[t] = "body" /\ graph' = AutoregisterAll(Bind(graph, job[t]), names, job[t].deep)
      /\ Goto(t, "finalize") /\ job' = job /\ torn' = torn /\ lock' = lock
      /\ materialized' = materialized /\ snapshot' = snapshot
  BY <1>2 DEF Body, Autoregister
<1>4. pc'[t] = "finalize" /\ job'[t] = job[t] /\ Doing(job[t], "body")
  BY <1>1, <1>3, PcMoves
<1>5. lock = t /\ lock # None
  BY <1>1, <1>3, HoldsLock
<1>6. materialized = {} /\ Graph(snapshot)
  BY <1>1, <1>5 DEF GraphInv
<1>7. job[t].kind = "decorate" => names = {}
  BY <1>2 DEF Arguments
<1>8. Graph(graph') /\ BindingPut(graph', job[t]) /\ (AllGood(graph) => Pending(graph', job[t]))
  <2>1. PICK h : h = AutoregisterAll(Bind(graph, job[t]), names, job[t].deep)
    OBVIOUS
  <2>2. Graph(h) /\ BindingPut(h, job[t]) /\ (AllGood(graph) => Pending(h, job[t]))
    BY <1>1, <1>4, <1>7, <2>1, BodyRule
  <2> QED BY <1>3, <2>1, <2>2
<1>9. GraphInv'
  BY <1>3, <1>4, <1>5, <1>6, <1>8, Held
<1>10. ASSUME ~torn
       PROVE  OrderInv'
  <2>1. AllGood(graph) /\ AllGood(snapshot) /\ ~ContractBroken(snapshot)
    BY <1>1, <1>3, <1>5, <1>10 DEF OrderInv
  <2> QED BY <1>3, <1>4, <1>5, <1>6, <1>8, <2>1, Held
<1> QED BY <1>3, <1>9, <1>10 DEF GraphOrder

LEMMA BodyFailsGraph ==
    ASSUME IInv, ThreadsInv', NEW t \in Thread, BodyFails(t)
    PROVE  GraphInv' /\ GraphOrder'
<1>1. ThreadsInv /\ GraphInv /\ Graph(graph) /\ job[t] \in Jobs /\ Doing(job[t], pc[t])
  BY DEF IInv, ThreadsInv, GraphInv
<1>2. /\ pc[t] = "body" /\ RefusedArguments(t) # {} /\ lock' = None /\ torn' = TRUE /\ materialized' = materialized
  BY DEF BodyFails
<1>3. PICK before : graph' = AutoregisterAll(Bind(graph, job[t]), before, job[t].deep)
  BY DEF BodyFails, Autoregister
<1>4. job[t].kind # "decorate"
  BY <1>2 DEF RefusedArguments, Arguments
<1>5. Graph(graph')
  <2>1. PICK h : h = AutoregisterAll(Bind(graph, job[t]), before, job[t].deep)
    OBVIOUS
  <2>2. Graph(h)
    BY <1>1, <1>2, <1>4, <2>1, BodyRule
  <2> QED BY <1>3, <2>1, <2>2
<1>6. materialized \subseteq Generic
  BY <1>1 DEF GraphInv
<1> QED BY <1>2, <1>5, <1>6, Unheld DEF GraphOrder

LEMMA FinalizeGraph ==
    ASSUME IInv, ThreadsInv', NEW t \in Thread, Finalize(t)
    PROVE  GraphInv' /\ GraphOrder'
<1>1. /\ ThreadsInv /\ GraphInv /\ Graph(graph) /\ job[t] \in Jobs /\ Doing(job[t], pc[t])
      /\ ~torn => OrderInv
  BY DEF IInv, ThreadsInv, GraphInv, GraphOrder
<1>2. PICK j : j = job[t]
  OBVIOUS
<1>3. PICK waits : waits = (j.kind = "decorate" /\ graph.chain[j.name] = NoChain /\ ~HasBinding(graph, j.name))
  OBVIOUS
<1>4. PICK wired : wired = IF j.kind = "decorate" THEN Decorated(graph, j.name)
                           ELSE Finalized(graph, j.name, j.target.chained)
  OBVIOUS
<1>5. PICK wants : wants = IF wired.chain[j.name] = NoChain THEN {} ELSE RuleWants(wired, j.name)
  OBVIOUS
<1>6. PICK h : h = AutoregisterAll(wired, wants, wired.reg[Own(j.name)].deep)
  OBVIOUS
<1>7. /\ pc[t] = "finalize" /\ graph' = IF waits \/ j.kind = "open" THEN graph ELSE h
      /\ Goto(t, "commit") /\ job' = job /\ torn' = torn /\ lock' = lock
      /\ materialized' = materialized /\ snapshot' = snapshot
  BY <1>2, <1>3, <1>4, <1>5, <1>6 DEF Finalize
<1>8. pc'[t] = "commit" /\ lock = t /\ lock # None
  BY <1>1, <1>7, PcMoves, HoldsLock
<1>9. materialized = {} /\ Graph(snapshot) /\ BindingPut(graph, j)
  BY <1>1, <1>2, <1>7, <1>8 DEF GraphInv
<1>10. Doing(j, "finalize") /\ j \in Jobs
  BY <1>1, <1>2, <1>7
<1>11. Graph(graph') /\ (Pending(graph, j) => AllGood(graph'))
  <2>1. CASE waits \/ j.kind = "open"
    <3>1. j.name \in Name
      BY <1>10 DEF Doing, Holding
    <3>2. Pending(graph, j) => AllGood(graph)
      BY <1>1, <1>3, <2>1, <3>1, WaitsInOrder
    <3> QED BY <1>1, <1>7, <2>1, <3>2
  <2>2. CASE ~(waits \/ j.kind = "open")
    <3>1. Graph(h) /\ (Pending(graph, j) => AllGood(h))
      BY <1>1, <1>4, <1>5, <1>6, <1>9, <1>10, <2>2, FinalizeRule
    <3> QED BY <1>7, <2>2, <3>1
  <2> QED BY <2>1, <2>2
<1>12. GraphInv'
  BY <1>7, <1>8, <1>9, <1>11, Held
<1>13. ASSUME ~torn
       PROVE  OrderInv'
  <2>1. Pending(graph, j) /\ AllGood(snapshot) /\ ~ContractBroken(snapshot)
    BY <1>1, <1>2, <1>7, <1>8, <1>13 DEF OrderInv
  <2> QED BY <1>7, <1>8, <1>9, <1>11, <2>1, Held
<1> QED BY <1>7, <1>12, <1>13 DEF GraphOrder

LEMMA CommitGraph ==
    ASSUME IInv, ThreadsInv', NEW t \in Thread, Commit(t)
    PROVE  GraphInv' /\ GraphOrder'
<1>1. ThreadsInv /\ GraphInv /\ Graph(graph) /\ (~torn => OrderInv)
  BY DEF IInv, GraphInv, GraphOrder
<1>2. /\ pc[t] = "commit" /\ ~ContractBroken(graph) /\ lock' = None /\ graph' = graph
      /\ materialized' = materialized /\ torn' = torn
  BY DEF Commit, Leave
<1>3. lock = t /\ lock # None
  BY <1>1, <1>2, HoldsLock
<1>4. materialized = {} /\ materialized' = {}
  BY <1>1, <1>2, <1>3 DEF GraphInv
<1>5. ~ContractBroken(Without(graph', OwnKeys(materialized')))
  <2>1. ~ContractBroken(Without(graph, OwnKeys({})))
    BY <1>1, <1>2, ContractsWithoutNone
  <2> QED BY <1>2, <1>4, <2>1
<1>6. ~torn => AllGood(graph')
  BY <1>1, <1>2 DEF OrderInv
<1> QED BY <1>1, <1>2, <1>4, <1>5, <1>6, Unheld DEF GraphOrder

LEMMA RollbackGraph ==
    ASSUME IInv, ThreadsInv', NEW t \in Thread, Rollback(t)
    PROVE  GraphInv' /\ GraphOrder'
<1>1. ThreadsInv /\ GraphInv /\ (~torn => OrderInv)
  BY DEF IInv, GraphOrder
<1>2. PICK h : h = [snapshot EXCEPT !.reg = Refresh(@)]
  OBVIOUS
<1>3. /\ pc[t] = "commit" /\ lock' = None /\ graph' = h
      /\ materialized' = materialized /\ torn' = torn
  BY <1>2 DEF Rollback, Restored, Leave
<1>4. lock = t /\ lock # None
  BY <1>1, <1>3, HoldsLock
<1>5. materialized = {} /\ materialized' = {} /\ Graph(snapshot)
  BY <1>1, <1>3, <1>4 DEF GraphInv
<1>6. PICK old : old = snapshot
  OBVIOUS
<1>7. Alike(old.reg, h.reg) /\ Graph(h) /\ (AllGood(old) => AllGood(h))
  <2>1. Graph(old) /\ h = [old EXCEPT !.reg = Refresh(@)]
    BY <1>2, <1>5, <1>6
  <2> QED BY <2>1, RestoredGraph
<1>8. ASSUME ~torn
      PROVE  AllGood(graph') /\ ~ContractBroken(Without(graph', OwnKeys(materialized')))
  <2>1. AllGood(old) /\ ~ContractBroken(old)
    BY <1>1, <1>4, <1>6, <1>8 DEF OrderInv
  <2>2. ~ContractBroken(h)
    BY <1>5, <1>6, <1>7, <2>1, ContractsOfAlike
  <2>3. ~ContractBroken(Without(h, OwnKeys({})))
    BY <1>7, <2>2, ContractsWithoutNone
  <2> QED BY <1>3, <1>5, <1>7, <2>1, <2>3
<1> QED BY <1>3, <1>5, <1>7, <1>8, Unheld DEF GraphOrder

\* The keys that a compilation registers are generics that were not registered.
LEMMA ClosedKeys ==
    ASSUME NEW g, Graph(g), NEW h, h = Materialized(g), NEW new,
           new = {n \in Generic : IsRegistered(h, n) /\ ~IsRegistered(g, n)}
    PROVE  /\ new \subseteq Generic /\ Extended(g, h)
           /\ DOMAIN h.reg = DOMAIN g.reg \cup OwnKeys(new) /\ OwnKeys(new) \cap DOMAIN g.reg = {}
<1>1. Extended(g, h)
  BY MaterializedRule
<1>2. ASSUME NEW k \in DOMAIN h.reg \ DOMAIN g.reg
      PROVE  k \in OwnKeys(new)
  <2>1. PICK n \in Generic : k = Own(n)
    BY <1>1 DEF Extended, OwnKeys
  <2>2. n \in new
    BY <2>1 DEF IsRegistered
  <2> QED BY <2>1, <2>2 DEF OwnKeys
<1>3. ASSUME NEW k \in OwnKeys(new)
      PROVE  k \in DOMAIN h.reg /\ k \notin DOMAIN g.reg
  <2>1. PICK n \in new : k = Own(n)
    BY DEF OwnKeys
  <2> QED BY <2>1 DEF IsRegistered
<1>4. DOMAIN g.reg \subseteq DOMAIN h.reg
  BY <1>1 DEF Extended
<1> QED BY <1>1, <1>2, <1>3, <1>4

LEMMA ClosedGraph ==
    ASSUME IInv, ThreadsInv', lock = None, lock' = None, torn' = torn, MaterializeRegistered
    PROVE  GraphInv' /\ GraphOrder'
<1>1. Graph(graph) /\ materialized \subseteq Generic /\ (~torn => OrderInv)
  BY DEF IInv, GraphInv, GraphOrder
<1>2. PICK h : h = Materialized(graph)
  OBVIOUS
<1>3. PICK new : new = {n \in Generic : IsRegistered(h, n) /\ ~IsRegistered(graph, n)}
  OBVIOUS
<1>4. graph' = h /\ materialized' = materialized \cup new
  BY <1>2, <1>3 DEF MaterializeRegistered
<1>5. /\ new \subseteq Generic /\ Extended(graph, h)
      /\ DOMAIN h.reg = DOMAIN graph.reg \cup OwnKeys(new) /\ OwnKeys(new) \cap DOMAIN graph.reg = {}
  BY <1>1, <1>2, <1>3, ClosedKeys
<1>6. Graph(h) /\ (AllGood(graph) => AllGood(h))
  BY <1>5 DEF Extended
<1>7. ASSUME ~torn
      PROVE  AllGood(graph') /\ ~ContractBroken(Without(graph', OwnKeys(materialized')))
  <2>1. AllGood(graph) /\ ~ContractBroken(Without(graph, OwnKeys(materialized)))
    BY <1>1, <1>7 DEF OrderInv
  <2>2. ~ContractBroken(Without(h, OwnKeys(materialized \cup new)))
    BY <1>1, <1>5, <2>1, ContractsWithMore
  <2> QED BY <1>4, <1>6, <2>1, <2>2
<1>8. materialized' \subseteq Generic
  BY <1>1, <1>4, <1>5
<1> QED BY <1>4, <1>6, <1>7, <1>8, Unheld DEF GraphOrder

LEMMA CompileGraph ==
    ASSUME IInv, ThreadsInv', NEW t \in Thread, Compile(t)
    PROVE  GraphInv' /\ GraphOrder'
<1>1. ThreadsInv /\ GraphInv /\ GraphOrder
  BY DEF IInv
<1>2. PICK label : label = IF job[t].kind = "enter" THEN "enter" ELSE "ask"
  OBVIOUS
<1>3. /\ lock = None /\ lock' = None /\ torn' = torn /\ snapshot' = snapshot /\ job' = job /\ Goto(t, label)
  BY <1>2 DEF Compile
<1>4. CASE root = NoResolver
  BY <1>3, <1>4, ClosedGraph DEF Compile
<1>5. CASE root # NoResolver
  <2>1. graph' = graph /\ materialized' = materialized
    BY <1>5 DEF Compile
  <2>2. pc'[t] = label /\ \A o \in Thread \ {t} : pc'[o] = pc[o]
    BY <1>1, <1>3, PcMoves
  <2>3. pc'[t] \notin {"body", "finalize", "commit"}
    BY <1>2, <2>2
  <2> QED BY <1>1, <1>3, <2>1, <2>2, <2>3, GraphAside
<1> QED BY <1>4, <1>5

LEMMA CompileFailsGraph ==
    ASSUME IInv, ThreadsInv', NEW t \in Thread, CompileFails(t)
    PROVE  GraphInv' /\ GraphOrder'
BY ClosedGraph DEF CompileFails

\* A thread whose call ends is idle, and the others are where they were.
LEMMA EndMoves ==
    ASSUME ThreadsInv, NEW t \in Thread, NEW a, End(t, a)
    PROVE  /\ pc'[t] = "idle" /\ job'[t] = NoJob
           /\ \A o \in Thread \ {t} : pc'[o] = pc[o] /\ job'[o] = job[o]
<1>1. job' = [job EXCEPT ![t] = NoJob] /\ Goto(t, "idle")
  BY DEF End
<1>2. DOMAIN job = Thread
  BY DEF ThreadsInv
<1> QED BY <1>1, <1>2, PcMoves

LEMMA MaterializeGraph ==
    ASSUME IInv, ThreadsInv', NEW t \in Thread, Materialize(t)
    PROVE  GraphInv' /\ GraphOrder'
<1>1. ThreadsInv /\ GraphInv /\ GraphOrder /\ Graph(graph) /\ materialized \subseteq Generic /\ (~torn => OrderInv)
  BY DEF IInv, GraphInv, GraphOrder
<1>2. PICK n : n = job[t].name
  OBVIOUS
<1>3. lock' = lock /\ snapshot' = snapshot /\ torn' = torn /\ n \in graph.open /\ (Tells(t) \in told \/ lock = None)
  BY <1>2 DEF Materialize, Matched
<1>4. n \in Generic
  BY <1>1, <1>3, AnyGraphRule DEF Graph, Typed
<1>5. CASE Tells(t) \in told \/ IsRegistered(graph, n)
  <2>1. graph' = graph /\ materialized' = materialized
    BY <1>2, <1>5 DEF Materialize
  <2>2. PICK a : End(t, a)
    BY DEF Materialize
  <2>3. pc'[t] = "idle" /\ \A o \in Thread \ {t} : pc'[o] = pc[o] /\ job'[o] = job[o]
    BY <1>1, <2>2, EndMoves
  <2> QED BY <1>1, <1>3, <2>1, <2>3, GraphAside
<1>6. CASE ~(Tells(t) \in told \/ IsRegistered(graph, n))
  <2>1. PICK h : h = Put(graph, Own(n), ClosedSpec(n))
    OBVIOUS
  <2>2. graph' = h /\ materialized' = materialized \cup {n}
    BY <1>2, <1>6, <2>1 DEF Materialize
  <2>3. Puts(graph, Own(n), ClosedSpec(n), h) /\ Extended(graph, h)
    BY <1>1, <1>3, <1>4, <1>6, <2>1, CloseOne
  <2>4. Graph(h) /\ (AllGood(graph) => AllGood(h))
    BY <2>3 DEF Extended
  <2>5. lock = None /\ lock' = None
    BY <1>3, <1>6
  <2>6. ASSUME ~torn
        PROVE  AllGood(graph') /\ ~ContractBroken(Without(graph', OwnKeys(materialized')))
    <3>1. AllGood(graph) /\ ~ContractBroken(Without(graph, OwnKeys(materialized)))
      BY <1>1, <2>5, <2>6 DEF OrderInv
    <3>2. OwnKeys({n}) = {Own(n)}
      BY DEF OwnKeys
    <3>3. DOMAIN h.reg = DOMAIN graph.reg \cup OwnKeys({n}) /\ OwnKeys({n}) \cap DOMAIN graph.reg = {}
      BY <1>6, <2>3, <3>2 DEF Puts, IsRegistered
    <3>4. {n} \subseteq Generic
      BY <1>4
    <3>5. ~ContractBroken(Without(h, OwnKeys(materialized \cup {n})))
      BY <1>1, <2>3, <3>1, <3>3, <3>4, ContractsWithMore
    <3> QED BY <2>2, <2>4, <3>1, <3>5
  <2>7. materialized' \subseteq Generic
    BY <1>1, <1>4, <2>2
  <2> QED BY <1>3, <2>2, <2>4, <2>5, <2>6, <2>7, Unheld DEF GraphOrder
<1> QED BY <1>5, <1>6

\* The steps that neither have the lock nor change the graph.
Aside(t) ==
    \/ FindTarget(t) \/ Entry(t) \/ Known(t) \/ Refuse(t) \/ Missing(t) \/ ReadRevision(t)
    \/ EnsureAutoregistration(t) \/ CompareRevision(t) \/ EnterContainer(t)

LEMMA AsideMoves ==
    ASSUME IInv, NEW t \in Thread, Aside(t)
    PROVE  /\ graph' = graph /\ materialized' = materialized /\ lock' = lock /\ snapshot' = snapshot /\ torn' = torn
           /\ revision' = revision /\ root' = root /\ bound' = bound
           /\ pc[t] \notin {"body", "finalize", "commit"} /\ pc'[t] \notin {"body", "finalize", "commit"}
           /\ \A o \in Thread \ {t} : pc'[o] = pc[o] /\ job'[o] = job[o]
<1>1. ThreadsInv /\ DOMAIN job = Thread
  BY DEF IInv, ThreadsInv
<1>2. /\ graph' = graph /\ materialized' = materialized /\ lock' = lock /\ snapshot' = snapshot /\ torn' = torn
      /\ revision' = revision /\ root' = root /\ bound' = bound
      /\ pc[t] \notin {"body", "finalize", "commit"}
  BY DEF Aside, FindTarget, Entry, Known, Refuse, Missing, Misses, ReadRevision, EnsureAutoregistration,
         CompareRevision, EnterContainer, state
<1>3. ASSUME NEW label, Goto(t, label), label \notin {"body", "finalize", "commit"},
             NEW j, job' = job \/ job' = [job EXCEPT ![t] = j]
      PROVE  /\ pc'[t] \notin {"body", "finalize", "commit"}
             /\ \A o \in Thread \ {t} : pc'[o] = pc[o] /\ job'[o] = job[o]
  BY <1>1, <1>3, PcMoves
<1>4. ASSUME NEW a, End(t, a)
      PROVE  /\ pc'[t] \notin {"body", "finalize", "commit"}
             /\ \A o \in Thread \ {t} : pc'[o] = pc[o] /\ job'[o] = job[o]
  BY <1>1, <1>4, EndMoves
<1>5. /\ pc'[t] \notin {"body", "finalize", "commit"}
      /\ \A o \in Thread \ {t} : pc'[o] = pc[o] /\ job'[o] = job[o]
  <2>1. CASE FindTarget(t)
    <3>1. PICK j : job' = [job EXCEPT ![t] = j]
      BY <2>1 DEF FindTarget
    <3>2. Goto(t, "begin")
      BY <2>1 DEF FindTarget
    <3> QED BY <1>3, <3>1, <3>2
  <2>2. CASE Entry(t)
    <3>1. PICK label : label = IF using'[t] = NoResolver THEN "compile" ELSE "ask"
      OBVIOUS
    <3>2. Goto(t, label) /\ job' = job
      BY <2>2, <3>1 DEF Entry
    <3> QED BY <1>3, <3>1, <3>2
  <2>3. CASE Known(t) \/ Refuse(t) \/ EnterContainer(t)
    BY <1>4, <2>3 DEF Known, Refuse, EnterContainer
  <2>4. CASE Missing(t)
    <3>1. (\E a : End(t, a)) \/ (Goto(t, "revision") /\ job' = job)
      BY <2>4 DEF Missing
    <3> QED BY <1>3, <1>4, <3>1
  <2>5. CASE ReadRevision(t)
    <3>1. PICK j : job' = [job EXCEPT ![t] = j]
      BY <2>5 DEF ReadRevision
    <3>2. Goto(t, "ensure")
      BY <2>5 DEF ReadRevision
    <3> QED BY <1>3, <3>1, <3>2
  <2>6. CASE EnsureAutoregistration(t)
    <3>1. PICK label : label = IF Unserved(graph, job[t].name) /\ job[t].name \in Concrete THEN "target" ELSE "compare"
      OBVIOUS
    <3>2. Goto(t, label) /\ job' = job
      BY <2>6, <3>1 DEF EnsureAutoregistration
    <3> QED BY <1>3, <3>1, <3>2
  <2>7. CASE CompareRevision(t)
    <3>1. (\E a : End(t, a)) \/ (Goto(t, "compile") /\ \E j : job' = [job EXCEPT ![t] = j])
      BY <2>7 DEF CompareRevision
    <3> QED BY <1>3, <1>4, <3>1
  <2> QED BY <2>1, <2>2, <2>3, <2>4, <2>5, <2>6, <2>7 DEF Aside
<1> QED BY <1>2, <1>5

\* A call begins: the thread is nowhere near the lock.
LEMMA CallMoves ==
    ASSUME ThreadsInv, NEW t \in Thread,
           Register(t) \/ (\E n \in Name : CallResolve(t, n)) \/ CallEnter(t)
    PROVE  /\ state' = state /\ using' = using
           /\ pc[t] = "idle" /\ pc'[t] \in {"target", "begin", "entry", "compile"}
           /\ \A o \in Thread \ {t} : pc'[o] = pc[o] /\ job'[o] = job[o]
<1>1. PICK label \in {"target", "begin", "entry", "compile"} : \E work : Call(t, label, work)
  BY DEF Register, CallAdd, CallAddTemplate, CallDecorate, CallResolve, CallEnter
<1>2. PICK work : Call(t, label, work)
  BY <1>1
<1>3. state' = state /\ using' = using /\ pc[t] = "idle" /\ Goto(t, label) /\ job' = [job EXCEPT ![t] = work]
  BY <1>2 DEF Call, state
<1>4. DOMAIN job = Thread
  BY DEF ThreadsInv
<1> QED BY <1>3, <1>4, PcMoves

LEMMA GraphKept ==
    ASSUME IInv, NEW t \in Thread, ThreadStep(t), ThreadsInv'
    PROVE  GraphInv' /\ GraphOrder'
<1>1. ThreadsInv /\ GraphInv /\ GraphOrder
  BY DEF IInv
<1>2. CASE Aside(t)
  BY <1>1, <1>2, AsideMoves, GraphAside
<1>3. CASE Register(t) \/ (\E n \in Name : CallResolve(t, n)) \/ CallEnter(t)
  <2>1. /\ state' = state /\ pc'[t] \in {"target", "begin", "entry", "compile"}
        /\ \A o \in Thread \ {t} : pc'[o] = pc[o] /\ job'[o] = job[o]
    BY <1>1, <1>3, CallMoves
  <2>2. graph' = graph /\ materialized' = materialized /\ lock' = lock /\ snapshot' = snapshot /\ torn' = torn
    BY <2>1 DEF state
  <2>3. pc'[t] \notin {"body", "finalize", "commit"}
    BY <2>1
  <2> QED BY <1>1, <2>1, <2>2, <2>3, GraphAside
<1>4. CASE ExitContainer(t)
  <2>1. /\ graph' = graph /\ materialized' = materialized /\ lock' = lock /\ snapshot' = snapshot /\ torn' = torn
        /\ pc' = pc /\ job' = job
    BY <1>4 DEF ExitContainer, threads
  <2> QED BY <1>1, <2>1, GraphStays
<1> QED BY <1>2, <1>3, <1>4, BeginGraph, BodyGraph, BodyFailsGraph, FinalizeGraph, CommitGraph, RollbackGraph,
           CompileGraph, CompileFailsGraph, MaterializeGraph DEF ThreadStep, Step, Aside

-----------------------------------------------------------------------------
(* The root resolver, step by step.                                        *)
LEMMA RootGone ==
    ASSUME root' = NoResolver, bound' = NoResolver
    PROVE  RootInv'
BY DEF RootInv, Current

LEMMA RootStays ==
    ASSUME RootInv, root' = root, bound' = bound, torn' = torn, graph' = graph, materialized' = materialized,
           ~torn /\ (lock' = None \/ \E o \in Thread : Unmoved(o)') => lock = None \/ \E o \in Thread : Unmoved(o)
    PROVE  RootInv'
BY DEF RootInv

LEMMA RootAside ==
    ASSUME RootInv, NEW t \in Thread, root' = root, bound' = bound, torn' = torn,
           graph' = graph, materialized' = materialized, lock' = lock,
           pc'[t] \notin {"body", "finalize", "commit"},
           \A o \in Thread \ {t} : pc'[o] = pc[o] /\ job'[o] = job[o]
    PROVE  RootInv'
<1>1. ASSUME NEW o \in Thread, Unmoved(o)'
      PROVE  Unmoved(o)
  <2>1. pc'[o] \in {"body", "finalize", "commit"}
    BY <1>1 DEF Unmoved
  <2>2. pc'[o] = pc[o] /\ job'[o] = job[o]
    BY <2>1
  <2> QED BY <1>1, <2>2 DEF Unmoved
<1> QED BY <1>1, RootStays

LEMMA BeginRoot ==
    ASSUME IInv, NEW t \in Thread, Begin(t)
    PROVE  RootInv'
<1>1. CASE materialized = {}
  <2>1. /\ root' = root /\ bound' = bound /\ torn' = torn /\ graph' = graph
        /\ materialized' = materialized /\ lock = None
    BY <1>1 DEF Begin
  <2> QED BY <2>1, RootStays DEF IInv
<1>2. CASE materialized # {}
  BY <1>2, RootGone DEF Begin, Invalidate
<1> QED BY <1>1, <1>2

LEMMA BodyRoot ==
    ASSUME IInv, ThreadsInv', NEW t \in Thread, Body(t)
    PROVE  RootInv'
<1>1. /\ ThreadsInv /\ RootInv /\ Graph(graph) /\ job[t] \in Jobs /\ Doing(job[t], pc[t])
  BY DEF IInv, ThreadsInv, GraphInv
<1>2. PICK names : names = Arguments(job[t])
  OBVIOUS
<1>3. PICK h : h = AutoregisterAll(Bind(graph, job[t]), names, job[t].deep)
  OBVIOUS
<1>4. /\ pc[t] = "body" /\ graph' = h /\ Goto(t, "finalize") /\ job' = job /\ torn' = torn /\ lock' = lock
      /\ materialized' = materialized
      /\ UNCHANGED <<root, bound>> \/ Invalidate
  BY <1>2, <1>3 DEF Body, Autoregister
<1>5. CASE Invalidate
  BY <1>5, RootGone DEF Invalidate
<1>6. CASE UNCHANGED <<root, bound>>
  <2>1. bound' # NoResolver => bound' = root'
    BY <1>1, <1>6 DEF RootInv
  <2>2. ASSUME ~torn, lock' = None \/ \E o \in Thread : Unmoved(o)'
        PROVE  Current(root', graph', materialized')
    <3>1. lock = t /\ lock # None /\ pc'[t] = "finalize"
      BY <1>1, <1>4, HoldsLock, PcMoves
    <3>2. PICK o \in Thread : Unmoved(o)'
      BY <1>4, <2>2, <3>1
    <3>3. o = t
      BY <1>4, <3>1, <3>2, OneHolds DEF Unmoved
    <3>4. job[t].kind = "decorate"
      BY <1>4, <3>1, <3>2, <3>3 DEF Unmoved
    <3>5. names = {}
      BY <1>2, <3>4 DEF Arguments
    <3>6. h.reg = graph.reg /\ h.open = graph.open
      BY <1>1, <1>3, <1>4, <3>4, <3>5, BodyRule
    <3>7. Current(root, graph, materialized)
      <4>1. Unmoved(t)
        BY <1>4 DEF Unmoved
      <4> QED BY <1>1, <2>2, <4>1 DEF RootInv
    <3>8. Current(root, h, materialized)
      BY <3>6, <3>7 DEF Current
    <3> QED BY <1>4, <1>6, <3>8
  <2> QED BY <1>4, <2>1, <2>2 DEF RootInv
<1> QED BY <1>4, <1>5, <1>6

LEMMA BodyFailsRoot ==
    ASSUME IInv, NEW t \in Thread, BodyFails(t)
    PROVE  RootInv'
<1>1. torn' = TRUE /\ (UNCHANGED <<root, bound>> \/ Invalidate) /\ RootInv
  BY DEF BodyFails, Autoregister, IInv
<1>2. CASE Invalidate
  BY <1>2, RootGone DEF Invalidate
<1>3. CASE UNCHANGED <<root, bound>>
  BY <1>1, <1>3 DEF RootInv
<1> QED BY <1>1, <1>2, <1>3

LEMMA FinalizeRoot ==
    ASSUME IInv, NEW t \in Thread, Finalize(t)
    PROVE  RootInv'
<1>1. CASE Invalidate
  BY <1>1, RootGone DEF Invalidate
<1>2. CASE ~Invalidate
  <2>1. PICK waits : waits = (/\ job[t].kind = "decorate" /\ graph.chain[job[t].name] = NoChain
                              /\ ~HasBinding(graph, job[t].name))
    OBVIOUS
  <2>2. waits /\ graph' = graph /\ UNCHANGED <<root, bound>>
    BY <1>2, <2>1 DEF Finalize
  <2>3. pc[t] = "finalize" /\ torn' = torn /\ materialized' = materialized
    BY DEF Finalize
  <2>4. Unmoved(t)
    BY <2>1, <2>2, <2>3 DEF Unmoved
  <2> QED BY <2>2, <2>3, <2>4, RootStays DEF IInv
<1> QED BY <1>1, <1>2

LEMMA CommitRoot ==
    ASSUME IInv, NEW t \in Thread, Commit(t)
    PROVE  RootInv'
<1>1. /\ pc[t] = "commit" /\ graph' = graph /\ root' = root /\ bound' = bound
      /\ torn' = torn /\ materialized' = materialized
  BY DEF Commit
<1>2. Unmoved(t)
  BY <1>1 DEF Unmoved
<1> QED BY <1>1, <1>2, RootStays DEF IInv

LEMMA CompileRoot ==
    ASSUME IInv, NEW t \in Thread, Compile(t)
    PROVE  RootInv'
<1>1. RootInv
  BY DEF IInv
<1>2. lock = None /\ torn' = torn /\ bound' = IF strict THEN root' ELSE bound
  BY DEF Compile
<1>3. CASE root = NoResolver
  <2>1. Complete(graph') /\ root' = Resolver(revision', graph')
    BY <1>3 DEF Compile
  <2>2. Current(root', graph', materialized')
    BY <2>1, CurrentCompiled
  <2>3. bound = NoResolver
    BY <1>1, <1>3 DEF RootInv
  <2>4. bound' # NoResolver => bound' = root'
    BY <1>2, <2>3
  <2> QED BY <2>2, <2>4 DEF RootInv
<1>4. CASE root # NoResolver
  <2>1. graph' = graph /\ materialized' = materialized /\ root' = root
    BY <1>4 DEF Compile
  <2>2. bound' # NoResolver => bound' = root'
    BY <1>1, <1>2, <2>1 DEF RootInv
  <2>3. ~torn => Current(root, graph, materialized)
    BY <1>1, <1>2 DEF RootInv
  <2> QED BY <1>2, <2>1, <2>2, <2>3 DEF RootInv
<1> QED BY <1>3, <1>4

LEMMA CompileFailsRoot ==
    ASSUME IInv, NEW t \in Thread, CompileFails(t)
    PROVE  RootInv'
<1>1. root = NoResolver /\ root' = root /\ bound' = bound /\ RootInv
  BY DEF CompileFails, IInv
<1>2. bound = NoResolver
  BY <1>1 DEF RootInv
<1> QED BY <1>1, <1>2, RootGone

LEMMA MaterializeRoot ==
    ASSUME IInv, NEW t \in Thread, Materialize(t)
    PROVE  RootInv'
<1>1. ThreadsInv /\ Graph(graph) /\ RootInv
  BY DEF IInv, GraphInv
<1>2. PICK n : n = job[t].name
  OBVIOUS
<1>3. lock' = lock /\ torn' = torn /\ n \in graph.open /\ (Tells(t) \in told \/ lock = None)
  BY <1>2 DEF Materialize, Matched
<1>4. n \in Generic
  BY <1>1, <1>3, AnyGraphRule DEF Graph, Typed
<1>5. CASE Tells(t) \in told \/ IsRegistered(graph, n)
  <2>1. graph' = graph /\ materialized' = materialized /\ root' = root /\ bound' = bound
    BY <1>2, <1>5 DEF Materialize
  <2>2. PICK a : End(t, a)
    BY DEF Materialize
  <2>3. pc'[t] = "idle" /\ \A o \in Thread \ {t} : pc'[o] = pc[o] /\ job'[o] = job[o]
    BY <1>1, <2>2, EndMoves
  <2> QED BY <1>1, <1>3, <2>1, <2>3, RootAside
<1>6. CASE ~(Tells(t) \in told \/ IsRegistered(graph, n))
  <2>1. PICK h : h = Put(graph, Own(n), ClosedSpec(n))
    OBVIOUS
  <2>2. /\ graph' = h /\ materialized' = materialized \cup {n} /\ lock = None
        /\ Invalidate \/ UNCHANGED <<root, bound>>
    BY <1>2, <1>3, <1>6, <2>1 DEF Materialize
  <2>3. CASE Invalidate
    BY <2>3, RootGone DEF Invalidate
  <2>4. CASE UNCHANGED <<root, bound>>
    <3>1. ASSUME ~torn
          PROVE  Current(root, h, materialized \cup {n})
      <4>1. Current(root, graph, materialized)
        BY <1>1, <2>2, <3>1 DEF RootInv
      <4> QED BY <1>1, <1>3, <1>4, <1>6, <2>1, <4>1, CurrentClosed
    <3>2. bound' # NoResolver => bound' = root'
      BY <1>1, <2>4 DEF RootInv
    <3> QED BY <1>3, <2>2, <2>4, <3>1, <3>2 DEF RootInv
  <2> QED BY <2>2, <2>3, <2>4
<1> QED BY <1>5, <1>6

LEMMA RootKept ==
    ASSUME IInv, NEW t \in Thread, ThreadStep(t), ThreadsInv'
    PROVE  RootInv'
<1>1. ThreadsInv /\ RootInv
  BY DEF IInv
<1>2. CASE Aside(t)
  BY <1>1, <1>2, AsideMoves, RootAside
<1>3. CASE Register(t) \/ (\E n \in Name : CallResolve(t, n)) \/ CallEnter(t)
  <2>1. /\ state' = state /\ pc'[t] \in {"target", "begin", "entry", "compile"}
        /\ \A o \in Thread \ {t} : pc'[o] = pc[o] /\ job'[o] = job[o]
    BY <1>1, <1>3, CallMoves
  <2>2. /\ graph' = graph /\ materialized' = materialized /\ lock' = lock /\ torn' = torn
        /\ root' = root /\ bound' = bound
    BY <2>1 DEF state
  <2>3. pc'[t] \notin {"body", "finalize", "commit"}
    BY <2>1
  <2> QED BY <1>1, <2>1, <2>2, <2>3, RootAside
<1>4. CASE ExitContainer(t)
  <2>1. /\ graph' = graph /\ materialized' = materialized /\ lock' = lock /\ torn' = torn
        /\ root' = root /\ bound' = bound /\ pc' = pc /\ job' = job
    BY <1>4 DEF ExitContainer, threads
  <2>2. \A o \in Thread : Unmoved(o)' => Unmoved(o)
    BY <2>1 DEF Unmoved
  <2> QED BY <1>1, <2>1, <2>2, RootStays
<1>5. CASE Rollback(t)
  BY <1>5, RootGone DEF Rollback, Invalidate
<1> QED BY <1>2, <1>3, <1>4, <1>5, BeginRoot, BodyRoot, BodyFailsRoot, FinalizeRoot, CommitRoot,
           CompileRoot, CompileFailsRoot, MaterializeRoot DEF ThreadStep, Step, Aside

-----------------------------------------------------------------------------
(* The resolvers' names, and the block of the container.                   *)
LEMMA InvalidateNames ==
    ASSUME NamesInv, Invalidate \/ UNCHANGED <<revision, root>>
    PROVE  revision' \in Nat \ {0} /\ root'.id \in Nat /\ (root' # NoResolver => root'.id # 0)
<1>1. revision \in Nat \ {0} /\ root.id \in Nat /\ (root # NoResolver => root.id # 0)
  BY DEF NamesInv
<1>2. CASE Invalidate
  <2>1. revision' = revision + 1 /\ root' = NoResolver
    BY <1>2 DEF Invalidate
  <2>2. revision' \in Nat \ {0}
    BY <1>1, <2>1
  <2> QED BY <2>1, <2>2, NoResolverFact
<1>3. CASE UNCHANGED <<revision, root>>
  BY <1>1, <1>3
<1> QED BY <1>2, <1>3

LEMMA ClosedRevision ==
    ASSUME NamesInv, MaterializeRegistered
    PROVE  revision' \in Nat \ {0}
<1>1. PICK new : new \subseteq Generic /\ revision' = revision + Cardinality(new \cap Unstable)
  BY DEF MaterializeRegistered
<1>2. IsFiniteSet(new \cap Unstable)
  BY <1>1, GraphAssumption, FS_Subset
<1>3. Cardinality(new \cap Unstable) \in Nat
  BY <1>2, FS_CardinalityType
<1>4. revision \in Nat \ {0}
  BY DEF NamesInv
<1> QED BY <1>1, <1>3, <1>4

\* What Compile compiles, or finds.
LEMMA CompiledNames ==
    ASSUME NamesInv, NEW t \in Thread, Compile(t)
    PROVE  revision' \in Nat \ {0} /\ root'.id \in Nat \ {0}
<1>1. CASE root = NoResolver
  <2>1. MaterializeRegistered /\ root' = Resolver(revision', graph')
    BY <1>1 DEF Compile
  <2>2. root'.id = revision'
    BY <2>1 DEF Resolver
  <2> QED BY <2>1, <2>2, ClosedRevision
<1>2. CASE root # NoResolver
  <2>1. revision' = revision /\ root' = root
    BY <1>2 DEF Compile
  <2> QED BY <1>2, <2>1 DEF NamesInv
<1> QED BY <1>1, <1>2

\* What a thread uses changes when it looks for a resolver, and when its call ends.
LEMMA NamesFollow ==
    ASSUME NamesInv, ThreadsInv, NEW t \in Thread,
           revision' \in Nat \ {0} /\ root'.id \in Nat /\ (root' # NoResolver => root'.id # 0),
           NEW r, using' = using \/ using' = [using EXCEPT ![t] = r],
           pc'[t] = "enter" => r.id \in Nat \ {0} /\ using' = [using EXCEPT ![t] = r],
           \A o \in Thread \ {t} : pc'[o] = pc[o]
    PROVE  NamesInv'
<1>1. DOMAIN using' = Thread
  BY DEF NamesInv
<1>2. ASSUME NEW o \in Thread, pc'[o] = "enter"
      PROVE  using'[o].id \in Nat \ {0}
  <2>1. CASE o = t
    <3>1. using' = [using EXCEPT ![t] = r] /\ r.id \in Nat \ {0} /\ DOMAIN using = Thread
      BY <1>2, <2>1 DEF NamesInv
    <3>2. using'[t] = r
      BY <3>1
    <3> QED BY <2>1, <3>1, <3>2
  <2>2. CASE o # t
    <3>1. pc[o] = "enter" /\ using'[o] = using[o]
      BY <1>2, <2>2 DEF NamesInv
    <3> QED BY <3>1 DEF NamesInv
  <2> QED BY <2>1, <2>2
<1> QED BY <1>1, <1>2 DEF NamesInv

LEMMA StepNames ==
    ASSUME IInv, NEW t \in Thread, Step(t)
    PROVE  NamesInv'
<1>1. ThreadsInv /\ NamesInv
  BY DEF IInv
<1>2. ASSUME NEW label, Goto(t, label), label # "enter", using' = using \/ \E r : using' = [using EXCEPT ![t] = r],
             Invalidate \/ UNCHANGED <<revision, root>>
      PROVE  NamesInv'
  <2>1. pc'[t] # "enter" /\ \A o \in Thread \ {t} : pc'[o] = pc[o]
    BY <1>1, <1>2, PcMoves
  <2>2. PICK r : using' = using \/ using' = [using EXCEPT ![t] = r]
    BY <1>2
  <2> QED BY <1>1, <1>2, <2>1, <2>2, InvalidateNames, NamesFollow
<1>3. ASSUME NEW a, End(t, a), Invalidate \/ UNCHANGED <<revision, root>>
      PROVE  NamesInv'
  <2>1. Goto(t, "idle") /\ using' = [using EXCEPT ![t] = NoResolver]
    BY <1>3 DEF End
  <2> QED BY <1>2, <1>3, <2>1
<1>4. CASE Compile(t)
  <2>1. using' = [using EXCEPT ![t] = root'] /\ \E label : Goto(t, label)
    BY <1>4 DEF Compile
  <2>2. \A o \in Thread \ {t} : pc'[o] = pc[o]
    BY <1>1, <2>1, PcMoves
  <2>3. revision' \in Nat \ {0} /\ root'.id \in Nat \ {0}
    BY <1>1, <1>4, CompiledNames
  <2>4. PICK r : r = root'
    OBVIOUS
  <2> QED BY <1>1, <2>1, <2>2, <2>3, <2>4, NamesFollow
<1>5. CASE CompileFails(t)
  <2>1. MaterializeRegistered /\ root = NoResolver /\ root' = root
    BY <1>5 DEF CompileFails
  <2>2. revision' \in Nat \ {0}
    BY <1>1, <2>1, ClosedRevision
  <2>3. using' = [using EXCEPT ![t] = NoResolver] /\ Goto(t, "idle")
    BY <1>5 DEF CompileFails, End
  <2>4. pc'[t] # "enter" /\ \A o \in Thread \ {t} : pc'[o] = pc[o]
    BY <1>1, <2>3, PcMoves
  <2>5. root'.id \in Nat /\ root' = NoResolver
    BY <2>1, NoResolverFact
  <2>6. PICK r : r = NoResolver
    OBVIOUS
  <2>7. using' = [using EXCEPT ![t] = r]
    BY <2>3, <2>6
  <2> QED BY <1>1, <2>2, <2>4, <2>5, <2>7, NamesFollow
<1>6. CASE FindTarget(t)
  BY <1>2, <1>6 DEF FindTarget, state
<1>7. CASE Begin(t)
  BY <1>2, <1>7 DEF Begin
<1>8. CASE Body(t)
  BY <1>2, <1>8 DEF Body, Autoregister
<1>9. CASE BodyFails(t)
  BY <1>3, <1>9 DEF BodyFails, Autoregister
<1>10. CASE Finalize(t)
  <2>1. Goto(t, "commit") /\ using' = using /\ (Invalidate \/ UNCHANGED <<revision, root>>)
    BY <1>10 DEF Finalize
  <2> QED BY <1>2, <2>1
<1>11. CASE Commit(t)
  <2>1. CASE job[t].kind = "resolve"
    BY <1>2, <1>11, <2>1 DEF Commit
  <2>2. CASE job[t].kind # "resolve"
    BY <1>3, <1>11, <2>2 DEF Commit
  <2> QED BY <2>1, <2>2
<1>12. CASE Rollback(t)
  BY <1>3, <1>12 DEF Rollback
<1>13. CASE Entry(t)
  <2>1. PICK label : label = IF using'[t] = NoResolver THEN "compile" ELSE "ask"
    OBVIOUS
  <2>2. Goto(t, label) /\ label # "enter" /\ (\E r : using' = [using EXCEPT ![t] = r]) /\ UNCHANGED <<revision, root>>
    BY <1>13, <2>1 DEF Entry, state
  <2> QED BY <1>2, <2>2
<1>14. CASE Known(t) \/ Refuse(t)
  <2>1. (\E a : End(t, a)) /\ UNCHANGED <<revision, root>>
    BY <1>14 DEF Known, Refuse, state
  <2> QED BY <1>3, <2>1
<1>15. CASE Materialize(t)
  <2>1. PICK a : End(t, a)
    BY <1>15 DEF Materialize
  <2>2. Invalidate \/ UNCHANGED <<revision, root>>
    BY <1>15 DEF Materialize
  <2> QED BY <1>3, <2>1, <2>2
<1>16. CASE Missing(t)
  <2>1. (\E a : End(t, a)) \/ (Goto(t, "revision") /\ using' = using)
    BY <1>16 DEF Missing
  <2>2. UNCHANGED <<revision, root>>
    BY <1>16 DEF Missing, state
  <2> QED BY <1>2, <1>3, <2>1, <2>2
<1>17. CASE ReadRevision(t)
  BY <1>2, <1>17 DEF ReadRevision, state
<1>18. CASE EnsureAutoregistration(t)
  <2>1. PICK label : label = IF Unserved(graph, job[t].name) /\ job[t].name \in Concrete THEN "target" ELSE "compare"
    OBVIOUS
  <2>2. Goto(t, label) /\ label # "enter" /\ using' = using /\ UNCHANGED <<revision, root>>
    BY <1>18, <2>1 DEF EnsureAutoregistration, state
  <2> QED BY <1>2, <2>2
<1>19. CASE CompareRevision(t)
  <2>1. (\E a : End(t, a)) \/ (Goto(t, "compile") /\ using' = using)
    BY <1>19 DEF CompareRevision
  <2>2. UNCHANGED <<revision, root>>
    BY <1>19 DEF CompareRevision, state
  <2> QED BY <1>2, <1>3, <2>1, <2>2
<1>20. CASE EnterContainer(t)
  BY <1>3, <1>20 DEF EnterContainer
<1> QED BY <1>4, <1>5, <1>6, <1>7, <1>8, <1>9, <1>10, <1>11, <1>12, <1>13, <1>14, <1>15, <1>16, <1>17, <1>18,
           <1>19, <1>20 DEF Step

LEMMA NamesKept ==
    ASSUME IInv, NEW t \in Thread, ThreadStep(t)
    PROVE  NamesInv'
<1>1. ThreadsInv /\ NamesInv
  BY DEF IInv
<1>2. CASE Register(t) \/ (\E n \in Name : CallResolve(t, n)) \/ CallEnter(t)
  <2>1. /\ state' = state /\ using' = using /\ pc'[t] \in {"target", "begin", "entry", "compile"}
        /\ \A o \in Thread \ {t} : pc'[o] = pc[o]
    BY <1>1, <1>2, CallMoves
  <2>2. UNCHANGED <<revision, root>> /\ pc'[t] # "enter"
    BY <2>1 DEF state
  <2>3. revision' \in Nat \ {0} /\ root'.id \in Nat /\ (root' # NoResolver => root'.id # 0)
    BY <1>1, <2>2 DEF NamesInv
  <2> QED BY <1>1, <2>1, <2>2, <2>3, NamesFollow
<1>3. CASE ExitContainer(t)
  <2>1. revision' = revision /\ root' = root /\ using' = using /\ pc' = pc
    BY <1>3 DEF ExitContainer, threads
  <2> QED BY <1>1, <2>1 DEF NamesInv
<1> QED BY <1>2, <1>3, StepNames DEF ThreadStep

\* Nobody begins to enter the container, and the block is as it was.
LEMMA BlockStays ==
    ASSUME BlockInv, block' = block, entered' = entered,
           \A o \in Thread : job'[o].kind = "enter" => job[o].kind = "enter"
    PROVE  BlockInv'
BY DEF BlockInv

\* A step of a thread leaves its method as it is, or ends its call.
LEMMA KindsStay ==
    ASSUME IInv, NEW t \in Thread, Step(t)
    PROVE  \A o \in Thread : job'[o].kind = "enter" => job[o].kind = "enter"
<1>1. DOMAIN job = Thread /\ job[t] \in Jobs
  BY DEF IInv, ThreadsInv
<1>2. ASSUME NEW a, End(t, a)
      PROVE  \A o \in Thread : job'[o].kind = "enter" => job[o].kind = "enter"
  <2>1. job' = [job EXCEPT ![t] = NoJob]
    BY <1>2 DEF End
  <2> QED BY <1>1, <2>1, NoJobFact
<1>3. ASSUME NEW j, j.kind = job[t].kind, job' = [job EXCEPT ![t] = j]
      PROVE  \A o \in Thread : job'[o].kind = "enter" => job[o].kind = "enter"
  BY <1>1, <1>3
<1>4. \/ job' = job
      \/ \E a : End(t, a)
      \/ \E j : j.kind = job[t].kind /\ job' = [job EXCEPT ![t] = j]
  <2>1. CASE FindTarget(t)
    <3>1. PICK target : target = TargetOf(graph, job[t].name)
      OBVIOUS
    <3>2. PICK j : j = [job[t] EXCEPT !.target = target]
      OBVIOUS
    <3>3. j.kind = job[t].kind /\ job' = [job EXCEPT ![t] = j]
      BY <1>1, <2>1, <3>1, <3>2 DEF FindTarget, Jobs
    <3> QED BY <3>3
  <2>2. CASE ReadRevision(t)
    <3>1. PICK j : j = [job[t] EXCEPT !.seen = revision]
      OBVIOUS
    <3>2. j.kind = job[t].kind /\ job' = [job EXCEPT ![t] = j]
      BY <1>1, <2>2, <3>1 DEF ReadRevision, Jobs
    <3> QED BY <3>2
  <2>3. CASE CompareRevision(t)
    <3>1. PICK j : j = [job[t] EXCEPT !.retried = TRUE]
      OBVIOUS
    <3>2. j.kind = job[t].kind
      BY <1>1, <3>1 DEF Jobs
    <3>3. job' = [job EXCEPT ![t] = j] \/ \E a : End(t, a)
      BY <2>3, <3>1 DEF CompareRevision
    <3> QED BY <3>2, <3>3
  <2>4. CASE \/ Known(t) \/ Materialize(t) \/ Refuse(t) \/ BodyFails(t) \/ Rollback(t) \/ CompileFails(t)
             \/ EnterContainer(t)
    BY <2>4 DEF Known, Materialize, Refuse, BodyFails, Rollback, CompileFails, EnterContainer
  <2>5. CASE Begin(t) \/ Body(t) \/ Finalize(t) \/ Entry(t) \/ Compile(t) \/ EnsureAutoregistration(t)
    BY <2>5 DEF Begin, Body, Finalize, Entry, Compile, EnsureAutoregistration
  <2>6. CASE Commit(t)
    BY <2>6 DEF Commit
  <2>7. CASE Missing(t)
    BY <2>7 DEF Missing
  <2> QED BY <2>1, <2>2, <2>3, <2>4, <2>5, <2>6, <2>7 DEF Step
<1> QED BY <1>2, <1>3, <1>4

LEMMA EnterBlock ==
    ASSUME IInv, NEW t \in Thread, EnterContainer(t)
    PROVE  BlockInv'
<1>1. ThreadsInv /\ NamesInv /\ BlockInv /\ Doing(job[t], pc[t])
  BY DEF IInv, ThreadsInv
<1>2. PICK r : r = using[t]
  OBVIOUS
<1>3. pc[t] = "enter" /\ entered' = r /\ block' = [block EXCEPT !.opened = r.id] /\ \E a : End(t, a)
  BY <1>2 DEF EnterContainer
<1>4. r.id \in Nat \ {0} /\ r # NoResolver
  BY <1>1, <1>2, <1>3, NoResolverFact DEF NamesInv
<1>5. job[t].kind = "enter"
  BY <1>1, <1>3 DEF Doing
<1>6. \A o \in Thread : job'[o].kind # "enter"
  <2>1. job'[t] = NoJob /\ \A o \in Thread \ {t} : job'[o] = job[o]
    BY <1>1, <1>3, EndMoves
  <2>2. \A o \in Thread \ {t} : job[o].kind # "enter"
    BY <1>1, <1>5 DEF BlockInv
  <2> QED BY <2>1, <2>2, NoJobFact
<1>7. block.opened = None /\ block.closed = None /\ block = [opened |-> None, closed |-> None]
  <2>1. block.opened = None
    BY <1>1, <1>5 DEF BlockInv
  <2>2. block.closed = None /\ block = [opened |-> block.opened, closed |-> block.closed]
    BY <1>1, <2>1 DEF BlockInv
  <2> QED BY <2>1, <2>2
<1>8. block'.opened = r.id /\ block'.closed = None /\ block' = [opened |-> block'.opened, closed |-> block'.closed]
  BY <1>3, <1>7
<1> QED BY <1>3, <1>4, <1>6, <1>8 DEF BlockInv

LEMMA ExitBlock ==
    ASSUME IInv, NEW t \in Thread, ExitContainer(t)
    PROVE  BlockInv'
<1>1. BlockInv
  BY DEF IInv
<1>2. /\ block.opened # None /\ block.closed = None /\ block' = [block EXCEPT !.closed = ActiveRoot.id]
      /\ job' = job
  BY DEF ExitContainer, threads
<1>3. ActiveRoot.id = block.opened
  BY <1>1, <1>2 DEF BlockInv, ActiveRoot
<1>4. block = [opened |-> block.opened, closed |-> block.closed] /\ block.opened \in Nat \cup {None}
  BY <1>1 DEF BlockInv
<1>5. block'.opened = block.opened /\ block'.closed = block.opened
      /\ block' = [opened |-> block'.opened, closed |-> block'.closed]
  BY <1>2, <1>3, <1>4
<1>6. \A o \in Thread : job[o].kind # "enter"
  BY <1>1, <1>2 DEF BlockInv
<1> QED BY <1>2, <1>4, <1>5, <1>6 DEF BlockInv

LEMMA CallsBlock ==
    ASSUME IInv, NEW t \in Thread,
           Register(t) \/ (\E n \in Name : CallResolve(t, n)) \/ CallEnter(t)
    PROVE  BlockInv'
<1>1. ThreadsInv /\ BlockInv
  BY DEF IInv
<1>2. state' = state /\ \A o \in Thread \ {t} : job'[o] = job[o]
  BY <1>1, CallMoves
<1>3. block' = block /\ entered' = entered
  BY <1>2 DEF state
<1>4. CASE CallEnter(t)
  <2>1. block.opened = None /\ \A o \in Thread : job[o].kind # "enter"
    BY <1>4 DEF CallEnter
  <2>2. \A o \in Thread : job'[o].kind = "enter" => o = t
    BY <1>2, <2>1
  <2> QED BY <1>1, <1>3, <2>1, <2>2 DEF BlockInv
<1>5. CASE Register(t) \/ \E n \in Name : CallResolve(t, n)
  <2>1. NoJob \in Jobs /\ DOMAIN job = Thread /\ "enter" \notin Kind
    BY <1>1, NoJobFact, ContainerAssumption DEF ThreadsInv, Providing
  <2>2. PICK label, work : Call(t, label, work) /\ work.kind # "enter"
    <3>1. CASE \E kind \in Kind, n \in Name, deep \in BOOLEAN : CallAdd(t, kind, n, deep)
      <4>1. PICK kind \in Kind, n \in Name, deep \in BOOLEAN : CallAdd(t, kind, n, deep)
        BY <3>1
      <4>2. PICK work : work = Registration(kind, n, Version(t), deep)
        OBVIOUS
      <4>3. work.kind = kind /\ Call(t, "target", work)
        BY <2>1, <4>1, <4>2 DEF Registration, Jobs, CallAdd
      <4> QED BY <2>1, <4>3
    <3>2. CASE \E n \in Generic : CallAddTemplate(t, n)
      <4>1. PICK n \in Generic : CallAddTemplate(t, n)
        BY <3>2
      <4>2. PICK work : work = Registration("open", n, 0, FALSE)
        OBVIOUS
      <4>3. work.kind = "open" /\ Call(t, "begin", work)
        BY <2>1, <4>1, <4>2 DEF Registration, Jobs, CallAddTemplate
      <4> QED BY <4>3
    <3>3. CASE \E n \in Name : \E d \in Decorates[n] : CallDecorate(t, n, d)
      <4>1. PICK n \in Name : \E d \in Decorates[n] : CallDecorate(t, n, d)
        BY <3>3
      <4>2. PICK d \in Decorates[n] : CallDecorate(t, n, d)
        BY <4>1
      <4>3. PICK work : work = [NoJob EXCEPT !.kind = "decorate", !.name = n, !.decorator = d]
        OBVIOUS
      <4>4. work.kind = "decorate" /\ Call(t, "begin", work)
        BY <2>1, <4>2, <4>3 DEF Jobs, CallDecorate
      <4> QED BY <4>4
    <3>4. CASE \E n \in Name : CallResolve(t, n)
      <4>1. PICK n \in Name : CallResolve(t, n)
        BY <3>4
      <4>2. PICK work : work = [NoJob EXCEPT !.kind = "resolve", !.name = n]
        OBVIOUS
      <4>3. work.kind = "resolve" /\ Call(t, "entry", work)
        BY <2>1, <4>1, <4>2 DEF Jobs, CallResolve
      <4> QED BY <4>3
    <3> QED BY <1>5, <3>1, <3>2, <3>3, <3>4 DEF Register
  <2>3. job'[t] = work
    BY <2>1, <2>2 DEF Call
  <2>4. \A o \in Thread : job'[o].kind = "enter" => job[o].kind = "enter"
    BY <1>2, <2>2, <2>3
  <2> QED BY <1>1, <1>3, <2>4, BlockStays
<1> QED BY <1>4, <1>5

LEMMA BlockKept ==
    ASSUME IInv, NEW t \in Thread, ThreadStep(t)
    PROVE  BlockInv'
<1>1. BlockInv
  BY DEF IInv
<1>2. CASE Step(t) /\ ~EnterContainer(t)
  <2>1. block' = block /\ entered' = entered
    BY <1>2 DEF Step, FindTarget, Begin, Body, BodyFails, Finalize, Commit, Rollback, Entry, Compile, CompileFails,
                Known, Materialize, Refuse, Missing, ReadRevision, EnsureAutoregistration, CompareRevision, state
  <2> QED BY <1>1, <1>2, <2>1, KindsStay, BlockStays
<1> QED BY <1>2, EnterBlock, ExitBlock, CallsBlock DEF ThreadStep

-----------------------------------------------------------------------------
(* The invariant is inductive: no step of any thread, at whatever place    *)
(* the others are, leaves it.                                              *)
LEMMA Inert == IInv /\ UNCHANGED vars => IInv'
<1> SUFFICES ASSUME IInv, UNCHANGED vars PROVE IInv'
  OBVIOUS
<1>1. UNCHANGED state /\ UNCHANGED threads
  BY DEF vars
<1>2. /\ graph' = graph /\ materialized' = materialized /\ lock' = lock /\ snapshot' = snapshot /\ torn' = torn
      /\ revision' = revision /\ root' = root /\ bound' = bound /\ entered' = entered /\ block' = block
      /\ pc' = pc /\ job' = job /\ using' = using /\ calls' = calls
  BY <1>1 DEF state, threads
<1>3. ThreadsInv'
  BY <1>2 DEF IInv, ThreadsInv
<1>4. GraphInv' /\ GraphOrder'
  BY <1>2, GraphStays DEF IInv
<1>5. RootInv'
  <2>1. \A o \in Thread : Unmoved(o)' => Unmoved(o)
    BY <1>2 DEF Unmoved
  <2> QED BY <1>2, <2>1, RootStays DEF IInv
<1>6. NamesInv'
  BY <1>2 DEF IInv, NamesInv
<1>7. BlockInv'
  BY <1>2, BlockStays DEF IInv
<1> QED BY <1>3, <1>4, <1>5, <1>6, <1>7 DEF IInv

(* However the threads interleave, and wherever a registration is refused, *)
(* rolled back or torn: who has the lock, what is half done, and what the  *)
(* compiled root knows fit together (_registration_mutation, compile and   *)
(* _invalidate_compilation of container.py).                               *)
THEOREM Inductive == Spec => []IInv
<1>1. IInv /\ [Next]_vars => IInv'
  <2> SUFFICES ASSUME IInv, [Next]_vars PROVE IInv'
    OBVIOUS
  <2>1. CASE \E t \in Thread : ThreadStep(t)
    <3>1. PICK t \in Thread : ThreadStep(t)
      BY <2>1
    <3>2. ThreadsInv'
      BY <3>1, ThreadsKept
    <3> QED BY <3>1, <3>2, GraphKept, RootKept, NamesKept, BlockKept DEF IInv
  <2>2. CASE UNCHANGED vars
    BY <2>2, Inert
  <2> QED BY <2>1, <2>2 DEF Next, Done
<1> QED BY <1>1, InitIInv, PTL DEF Spec

(* A thread is between the halves of a mutation exactly while it holds the *)
(* graph lock (_registration_mutation), and what is registered is          *)
(* registered at keys of the application's dependencies.                   *)
THEOREM TypeCorrect == Spec => []TypeOK
<1>1. IInv => TypeOK
  <2> SUFFICES ASSUME IInv PROVE TypeOK
    OBVIOUS
  <2>1. /\ pc \in [Thread -> Labels] /\ lock \in Thread \cup {None} /\ torn \in BOOLEAN
        /\ \A t \in Thread : pc[t] \in Holding <=> lock = t
    BY DEF IInv, ThreadsInv
  <2>2. Labels = {"idle", "target", "begin", "body", "finalize", "commit", "entry",
                  "compile", "ask", "revision", "ensure", "compare", "enter"}
        /\ Holding = {"body", "finalize", "commit"}
    BY DEF Labels, Holding
  <2>3. DOMAIN graph.reg \subseteq Key /\ graph.open \subseteq Generic /\ materialized \subseteq Generic
    BY AnyGraphRule DEF IInv, GraphInv, Graph, Registry, Typed
  <2>4. revision \in Nat
    BY DEF IInv, NamesInv
  <2> QED BY <2>1, <2>2, <2>3, <2>4 DEF TypeOK
<1> QED BY <1>1, Inductive, PTL

(* At every moment, even half way through a registration or after a torn   *)
(* one, the cleanup flag of a provider says that it or something it is     *)
(* wired with is a resource: _refresh_needs_cleanup_flags of providers.py  *)
(* reaches the fixed point, for any acyclic application.                   *)
THEOREM FlagsExact == Spec => []CleanupFlagsExact
<1>1. IInv => CleanupFlagsExact
  <2> SUFFICES ASSUME IInv PROVE CleanupFlagsExact
    OBVIOUS
  <2>1. Registry(graph.reg) /\ Stable(graph.reg)
    BY AnyGraphRule DEF IInv, GraphInv, Graph
  <2> QED BY <2>1, StableIsExact DEF CleanupFlagsExact
<1> QED BY <1>1, Inductive, PTL

(* Whatever was registered, decorated, redecorated and rolled back, in     *)
(* whatever order: a decorated key has all its decorators, in the order    *)
(* they were added (decorate, _rebuild_decoration_chain).                   *)
THEOREM DecoratedCorrectly == Spec => []DecoratedInOrder
<1>1. IInv => DecoratedInOrder
  <2> SUFFICES ASSUME IInv, Settled, NEW n \in Name, NEW g, g = graph, NEW c, c = g.chain[n]
               PROVE  IF g.rules[n] = <<>> \/ ~IsRegistered(g, n)
                      THEN IsRegistered(g, n) => g.reg[Own(n)].by \notin Decorator
                      ELSE /\ g.chain[n] # NoChain /\ Last(g.chain[n].layers) = Own(n)
                           /\ \A i \in DOMAIN g.rules[n] :
                                LET k == g.chain[n].layers[i]
                                    inner == IF i = 1 THEN g.chain[n].base ELSE g.chain[n].layers[i - 1]
                                IN  k \in DOMAIN g.reg /\ g.reg[k].by = g.rules[n][i] /\ inner \in g.reg[k].deps
                           /\ g.reg[g.chain[n].base].by \notin Decorator
    BY DEF DecoratedInOrder
  <2>1. Graph(g) /\ Good(g, n) /\ ChainOK(g, n)
    BY DEF IInv, GraphInv, GraphOrder, OrderInv, Settled, AllGood, Graph
  <2>2. g.rules[n] \in Seq(Decorator)
    BY <2>1, AnyGraphRule DEF Graph, Typed
  <2>3. CASE c = NoChain
    <3>1. IsRegistered(g, n) => g.rules[n] = <<>> /\ g.reg[Own(n)].by \notin Decorator
      BY <2>1, <2>3 DEF Good, Plain, IsRegistered
    <3> QED BY <3>1
  <2>4. CASE c # NoChain
    <3>1. /\ Layered(n, c, g.aliases) /\ Len(c.layers) <= Len(g.rules[n])
          /\ c.base \in DOMAIN g.reg /\ Own(n) \in DOMAIN g.reg
      BY <2>1, <2>4 DEF ChainOK
    <3>2. Len(c.layers) > 0 /\ c.layers[Len(c.layers)] = Own(n) /\ Len(c.layers) \in Nat
      BY <3>1 DEF Layered, ChainType
    <3>3. g.rules[n] # <<>> /\ IsRegistered(g, n)
      BY <2>2, <3>1, <3>2 DEF IsRegistered
    <3>4. Len(c.layers) = Len(g.rules[n]) /\ Plain(g, c.base) /\ \A i \in 1..Len(c.layers) : WiredLayer(g, n, c, i)
      BY <2>1, <2>4 DEF Good, InOrder
    <3>5. g.reg[c.base].by \notin Decorator
      BY <3>1, <3>4 DEF Plain
    <3>6. Last(c.layers) = Own(n)
      BY <3>2 DEF Last
    <3>7. DOMAIN g.rules[n] = 1..Len(c.layers)
      BY <2>2, <3>4
    <3>8. ASSUME NEW i \in DOMAIN g.rules[n]
          PROVE  /\ c.layers[i] \in DOMAIN g.reg /\ g.reg[c.layers[i]].by = g.rules[n][i]
                 /\ (IF i = 1 THEN c.base ELSE c.layers[i - 1]) \in g.reg[c.layers[i]].deps
      BY <3>4, <3>7 DEF WiredLayer, Inner
    <3> QED BY <2>4, <3>3, <3>5, <3>6, <3>8
  <2> QED BY <2>3, <2>4
<1> QED BY <1>1, Inductive, PTL

(* While no registration is under way, the compiled root, and the entry    *)
(* points bound to it, resolve what is registered, and `with container`    *)
(* closes the root that it entered, for any number of threads that         *)
(* register, decorate, compile and resolve (_invalidate_compilation).      *)
THEOREM RootCurrent == Spec => []RootIsCurrent
<1>1. IInv => RootIsCurrent
  <2> SUFFICES ASSUME IInv PROVE RootIsCurrent
    OBVIOUS
  <2>1. RootInv /\ BlockInv
    BY DEF IInv
  <2>2. Settled => Current(root, graph, materialized)
    BY <2>1 DEF RootInv, Settled
  <2>3. bound # NoResolver => bound = root
    BY <2>1 DEF RootInv
  <2>4. block.closed \in {None, block.opened}
    BY <2>1 DEF BlockInv
  <2> QED BY <2>2, <2>3, <2>4 DEF RootIsCurrent, Current
<1> QED BY <1>1, Inductive, PTL

(* No registration that is kept makes an injected callable need a deeper   *)
(* scope than the root: one that would is undone, and what its rollback    *)
(* restores is what was there (_revalidate_injected_scope_contracts,       *)
(* _registration_mutation).                                                *)
THEOREM ContractsOutlast == Spec => []ContractsKept
<1>1. IInv => ContractsKept
  BY DEF IInv, GraphOrder, OrderInv, ContractsKept, Settled
<1> QED BY <1>1, Inductive, PTL

-----------------------------------------------------------------------------
(* The search for a dependency.  While no other thread registers anything  *)
(* and nothing is torn, a thread that resolves knows what the registry has *)
(* of the dependency: what it was found to lack is lacking, what it has    *)
(* registered stays, and its resolver lacks only keys made at run time.    *)
Covers(r, g, M) ==
    /\ r # NoResolver /\ (r.wrapped <=> g.open # {})
    /\ DOMAIN g.reg \ DOMAIN r.graph.reg \subseteq OwnKeys(M)

\* A second lookup follows the registration of what can be registered.
Tried(g, j) == j.retried => j.name \notin Concrete \/ IsRegistered(g, j.name)

\* What a thread with this work knows at this place, of the graph g at revision v.
Searching(j, label, r, g, M, v) ==
    /\ label = "entry" => ~j.retried
    /\ label = "compile" => Tried(g, j)
    /\ label = "ask" => Covers(r, g, M) /\ Tried(r.graph, j)
    /\ label \in {"revision", "ensure", "target", "begin", "body"} => Unserved(g, j.name)
    /\ label \in {"ensure", "target", "begin", "body", "finalize"} => j.seen <= v
    /\ label \in {"target", "begin", "body", "finalize", "commit"} => j.name \in Concrete
    /\ label \in {"begin", "body", "finalize"} => j.target = [key |-> Own(j.name), chained |-> FALSE]
    /\ label \in {"finalize", "commit"} => IsRegistered(g, j.name)
    /\ label = "commit" => j.seen < v
    /\ label = "compare" =>
        IF j.name \in Concrete THEN j.seen < v /\ IsRegistered(g, j.name) ELSE Unserved(g, j.name)

\* A resolution that no other registration interferes with.
Lone(t) == alone[t] /\ ~torn /\ job[t].kind = "resolve"

\* A thread at work has no answer yet, and an idle one no work.
AnswersInv ==
    /\ DOMAIN answer = Thread /\ alone \in [Thread -> BOOLEAN]
    /\ \A t \in Thread : job[t].kind # "none" => answer[t] = NoAnswer
    /\ \A t \in Thread : pc[t] = "idle" => job[t].kind = "none"

Informed(t) ==
    lock \in {None, t} /\ Searching(job[t], pc[t], using[t], graph, materialized, revision)

SearchInv == AnswersInv /\ materialized \subseteq graph.open /\ \A t \in Thread : Lone(t) => Informed(t)

LEMMA OwnSame ==
    ASSUME NEW m, NEW n, Own(m) = Own(n)
    PROVE  m = n
BY DEF Own

LEMMA StillUnserved ==
    ASSUME NEW g, NEW h, Extended(g, h), NEW n, Unserved(g, n)
    PROVE  Unserved(h, n)
<1>1. Own(n) \notin DOMAIN g.reg /\ n \notin g.open /\ h.open = g.open
  BY DEF Unserved, IsRegistered, Extended
<1>2. ASSUME Own(n) \in DOMAIN h.reg
      PROVE  FALSE
  <2>1. Own(n) \in OwnKeys(g.open \cap Generic)
    BY <1>1, <1>2 DEF Extended
  <2>2. PICK m \in g.open : Own(n) = Own(m)
    BY <2>1 DEF OwnKeys
  <2> QED BY <1>1, <2>2, OwnSame
<1> QED BY <1>1, <1>2 DEF Unserved, IsRegistered

\* Keys that are made at run time change nothing of what a thread knows.
LEMMA SearchGrows ==
    ASSUME NEW j, j.seen \in Nat, NEW label, label \notin {"body", "finalize", "commit"}, NEW r,
           NEW g, NEW h, Extended(g, h), NEW M, NEW all, M \subseteq all,
           DOMAIN h.reg \ DOMAIN g.reg \subseteq OwnKeys(all),
           NEW v \in Nat, NEW w \in Nat, v <= w, Searching(j, label, r, g, M, v)
    PROVE  Searching(j, label, r, h, all, w)
<1>1. \A n : IsRegistered(g, n) => IsRegistered(h, n)
  BY DEF Extended, IsRegistered
<1>2. Unserved(g, j.name) => Unserved(h, j.name)
  BY StillUnserved
<1>3. ASSUME Covers(r, g, M)
      PROVE  Covers(r, h, all)
  <2>1. OwnKeys(M) \subseteq OwnKeys(all)
    BY DEF OwnKeys
  <2>2. h.open = g.open
    BY DEF Extended
  <2>3. r # NoResolver /\ (r.wrapped <=> g.open # {}) /\ DOMAIN g.reg \ DOMAIN r.graph.reg \subseteq OwnKeys(M)
    BY <1>3 DEF Covers
  <2> QED BY <2>1, <2>2, <2>3 DEF Covers
<1>4. Tried(g, j) => Tried(h, j)
  BY <1>1 DEF Tried
<1>5. (j.seen <= v => j.seen <= w) /\ (j.seen < v => j.seen < w)
  OBVIOUS
<1> QED BY <1>1, <1>2, <1>3, <1>4, <1>5 DEF Searching

(* What cannot be provided.  A dependency that is neither registered nor   *)
(* served by a template, and that nothing registers, is one of its needs.  *)
LEMMA Unprovidable ==
    ASSUME NEW g, NEW n \in Name, Unserved(g, n), strict \/ n \notin Concrete
    PROVE  ~Providable(g, n)
<1> DEFINE N == Cardinality(Name)
           S == SUBSET Name
           more(found) == found \cup UNION {DepsOf[m] : m \in found}
           step == [i \in 1..N |-> [found \in S |-> more(found)]]
           Rule(h) == h = [i \in 0..N |-> IF i = 0 THEN {n} ELSE more(h[i - 1])]
<1>1. N \in Nat
  BY GraphAssumption, FS_CardinalityType
<1>2. \A found \in S : more(found) \in S
  BY GraphAssumption
<1>3. step \in [1..N -> [S -> S]]
  <2> HIDE DEF more, S
  <2> QED BY <1>2
<1>4. PICK f \in [0..N -> S] : Passes(N, {n}, step, f)
  <2>1. {n} \in S
    OBVIOUS
  <2> HIDE DEF step, N, S
  <2> QED BY <1>1, <1>3, <2>1, PassesExist
<1>5. Rule(f)
  <2>1. f = [i \in 0..N |-> IF i = 0 THEN {n} ELSE step[i][f[i - 1]]]
    BY <1>4 DEF Passes
  <2>2. ASSUME NEW i \in 0..N
        PROVE  (IF i = 0 THEN {n} ELSE step[i][f[i - 1]]) = IF i = 0 THEN {n} ELSE more(f[i - 1])
    <3>1. CASE i = 0
      BY <3>1
    <3>2. CASE i # 0
      <4>1. i - 1 \in 0..N /\ i \in 1..N
        BY <1>1, <3>2
      <4>2. f[i - 1] \in S
        BY <4>1
      <4> HIDE DEF N, more, S
      <4> QED BY <3>2, <4>1, <4>2
    <3> QED BY <3>1, <3>2
  <2> HIDE DEF N, step, more
  <2> QED BY <2>1, <2>2
<1> DEFINE h == CHOOSE h : Rule(h)
<1>6. Providable(g, n) =>
        \A m \in h[N] : IsRegistered(g, m) \/ m \in g.open \/ (~strict /\ m \in Concrete)
  BY DEF Providable
<1>7. Rule(h)
  <2> HIDE DEF Rule
  <2> QED BY <1>5
<1> HIDE DEF h
<1>8. h[0] = {n} /\ \A i \in 1..N : h[i] = more(h[i - 1])
  <2>1. 0 \in 0..N /\ \A i \in 1..N : i \in 0..N /\ i # 0
    BY <1>1
  <2>2. \A i \in 0..N : h[i] = IF i = 0 THEN {n} ELSE more(h[i - 1])
    <3> HIDE DEF N, more
    <3> QED BY <1>7
  <2> HIDE DEF N, Rule, more
  <2> QED BY <2>1, <2>2
<1> DEFINE T == {i \in 0..N : n \in h[i]}
<1>9. 0 \in T
  BY <1>1, <1>8
<1>10. \A i \in 1..N : i - 1 \in T => i \in T
  <2> SUFFICES ASSUME NEW i \in 1..N, i - 1 \in T PROVE i \in T
    OBVIOUS
  <2>1. i \in 0..N /\ n \in h[i - 1]
    BY <1>1
  <2>2. n \in more(h[i - 1])
    BY <2>1
  <2> HIDE DEF N, more
  <2> QED BY <1>8, <2>1, <2>2
<1>11. n \in h[N]
  <2>1. N \in 0..N
    BY <1>1
  <2>2. \A i \in 0..N : i \in T
    <3> HIDE DEF T, N
    <3> QED BY <1>1, <1>9, <1>10, Induction
  <2> QED BY <2>1, <2>2
<1> QED BY <1>6, <1>11 DEF Unserved

-----------------------------------------------------------------------------
(* A step of a thread leaves the others alone, ends its call, or goes on.  *)
Goes(o) ==
    /\ answer' = answer /\ alone' \in [Thread -> BOOLEAN] /\ \A t \in Thread : alone'[t] => alone[t]
    /\ \E label : label # "idle" /\ Goto(o, label)
    /\ \E j : j.kind = job[o].kind /\ job' = [job EXCEPT ![o] = j]
    /\ using' = using \/ \E r : using' = [using EXCEPT ![o] = r]

Ends(o) == \E a : End(o, a)
Begins(o) == \E label, work : label # "idle" /\ Call(o, label, work)

LEMMA GoesOn ==
    ASSUME ThreadsInv, AnswersInv, NEW o \in Thread, answer' = answer, alone' = alone, job' = job,
           using' = using \/ (\E r : using' = [using EXCEPT ![o] = r]),
           NEW label, label # "idle", Goto(o, label)
    PROVE  Goes(o)
<1>1. job' = [job EXCEPT ![o] = job[o]]
  BY DEF ThreadsInv
<1>2. alone' \in [Thread -> BOOLEAN] /\ \A t \in Thread : alone'[t] => alone[t]
  BY DEF AnswersInv
<1> QED BY <1>1, <1>2 DEF Goes

LEMMA StepKinds ==
    ASSUME IInv, SearchInv, NEW o \in Thread, ThreadStep(o)
    PROVE  Goes(o) \/ Ends(o) \/ Begins(o) \/ ExitContainer(o)
<1>1. ThreadsInv /\ AnswersInv
  BY DEF IInv, SearchInv
<1>2. job[o] \in Jobs /\ job \in [Thread -> Jobs]
  BY <1>1 DEF ThreadsInv
<1>3. alone \in [Thread -> BOOLEAN]
  BY <1>1 DEF AnswersInv
<1>4. CASE Register(o) \/ (\E n \in Name : CallResolve(o, n)) \/ CallEnter(o)
  BY <1>4 DEF Begins, Register, CallAdd, CallAddTemplate, CallDecorate, CallResolve, CallEnter
<1>5. CASE FindTarget(o)
  <2>1. PICK j : j = [job[o] EXCEPT !.target = TargetOf(graph, job[o].name)]
    OBVIOUS
  <2>2. job' = [job EXCEPT ![o] = j] /\ j.kind = job[o].kind
    BY <1>2, <1>5, <2>1 DEF FindTarget, Jobs
  <2>3. answer' = answer /\ alone' = alone /\ using' = using /\ Goto(o, "begin")
    BY <1>5 DEF FindTarget
  <2>4. alone' \in [Thread -> BOOLEAN] /\ \A t \in Thread : alone'[t] => alone[t]
    BY <1>3, <2>3
  <2> QED BY <2>2, <2>3, <2>4 DEF Goes
<1>6. CASE ReadRevision(o)
  <2>1. PICK j : j = [job[o] EXCEPT !.seen = revision]
    OBVIOUS
  <2>2. job' = [job EXCEPT ![o] = j] /\ j.kind = job[o].kind
    BY <1>2, <1>6, <2>1 DEF ReadRevision, Jobs
  <2>3. answer' = answer /\ alone' = alone /\ using' = using /\ Goto(o, "ensure")
    BY <1>6 DEF ReadRevision
  <2>4. alone' \in [Thread -> BOOLEAN] /\ \A t \in Thread : alone'[t] => alone[t]
    BY <1>3, <2>3
  <2> QED BY <2>2, <2>3, <2>4 DEF Goes
<1>7. CASE CompareRevision(o) /\ GraphChanged(o)
  <2>1. PICK j : j = [job[o] EXCEPT !.retried = TRUE]
    OBVIOUS
  <2>2. job' = [job EXCEPT ![o] = j] /\ j.kind = job[o].kind
    BY <1>2, <1>7, <2>1 DEF CompareRevision, Jobs
  <2>3. answer' = answer /\ alone' = alone /\ using' = using /\ Goto(o, "compile")
    BY <1>7 DEF CompareRevision
  <2>4. alone' \in [Thread -> BOOLEAN] /\ \A t \in Thread : alone'[t] => alone[t]
    BY <1>3, <2>3
  <2> QED BY <2>2, <2>3, <2>4 DEF Goes
<1>8. CASE Begin(o)
  <2>1. answer' = answer /\ using' = using /\ Goto(o, "body") /\ job' = [job EXCEPT ![o] = job[o]]
    BY <1>2, <1>8 DEF Begin
  <2>2. alone' = [t \in Thread |-> alone[t] /\ (t = o \/ pc[t] = "idle")]
    BY <1>8 DEF Begin
  <2>3. alone' \in [Thread -> BOOLEAN] /\ \A t \in Thread : alone'[t] => alone[t]
    BY <2>2
  <2> QED BY <2>1, <2>3 DEF Goes
<1>9. CASE Body(o) \/ Finalize(o)
  <2>1. answer' = answer /\ alone' = alone /\ job' = job /\ using' = using
    BY <1>9 DEF Body, Finalize
  <2>2. Goto(o, "finalize") \/ Goto(o, "commit")
    BY <1>9 DEF Body, Finalize
  <2> QED BY <1>1, <2>1, <2>2, GoesOn
<1>10. CASE Commit(o)
  <2>1. CASE job[o].kind = "resolve"
    <3>1. answer' = answer /\ alone' = alone /\ job' = job /\ using' = using /\ Goto(o, "compare")
      BY <1>10, <2>1 DEF Commit
    <3> QED BY <1>1, <3>1, GoesOn
  <2>2. CASE job[o].kind # "resolve"
    BY <1>10, <2>2 DEF Commit, Ends
  <2> QED BY <2>1, <2>2
<1>11. CASE Entry(o) \/ Compile(o)
  <2>1. answer' = answer /\ alone' = alone /\ job' = job
    BY <1>11 DEF Entry, Compile
  <2>2. \E r : using' = [using EXCEPT ![o] = r]
    BY <1>11 DEF Entry, Compile
  <2>3. \E label \in {"compile", "ask", "enter"} : Goto(o, label)
    BY <1>11 DEF Entry, Compile
  <2> QED BY <1>1, <2>1, <2>2, <2>3, GoesOn
<1>12. CASE Missing(o)
  <2>1. CASE strict \/ job[o].retried
    BY <1>12, <2>1 DEF Missing, Ends
  <2>2. CASE ~(strict \/ job[o].retried)
    <3>1. answer' = answer /\ alone' = alone /\ job' = job /\ using' = using /\ Goto(o, "revision")
      BY <1>12, <2>2 DEF Missing
    <3> QED BY <1>1, <3>1, GoesOn
  <2> QED BY <2>1, <2>2
<1>13. CASE EnsureAutoregistration(o)
  <2>1. answer' = answer /\ alone' = alone /\ job' = job /\ using' = using
    BY <1>13 DEF EnsureAutoregistration
  <2>2. \E label \in {"target", "compare"} : Goto(o, label)
    BY <1>13 DEF EnsureAutoregistration
  <2> QED BY <1>1, <2>1, <2>2, GoesOn
<1>14. CASE CompareRevision(o) /\ ~GraphChanged(o)
  BY <1>14 DEF CompareRevision, Ends
<1>15. CASE BodyFails(o) \/ Rollback(o) \/ CompileFails(o) \/ Known(o) \/ Materialize(o) \/ Refuse(o)
            \/ EnterContainer(o)
  BY <1>15 DEF Ends, BodyFails, Rollback, CompileFails, Known, Materialize, Refuse, EnterContainer
<1> QED BY <1>4, <1>5, <1>6, <1>7, <1>8, <1>9, <1>10, <1>11, <1>12, <1>13, <1>14, <1>15 DEF ThreadStep, Step

\* What the others have is theirs.
Alongside(t) ==
    /\ pc'[t] = pc[t] /\ job'[t] = job[t] /\ using'[t] = using[t] /\ answer'[t] = answer[t]
    /\ alone'[t] => alone[t]

LEMMA StepOthers ==
    ASSUME IInv, SearchInv, NEW o \in Thread, ThreadStep(o)
    PROVE  AnswersInv' /\ \A t \in Thread \ {o} : Alongside(t)
<1>1. ThreadsInv /\ AnswersInv /\ DOMAIN using = Thread
  BY DEF IInv, SearchInv, NamesInv
<1>2. DOMAIN job = Thread /\ DOMAIN pc = Thread /\ DOMAIN answer = Thread /\ alone \in [Thread -> BOOLEAN]
  BY <1>1 DEF ThreadsInv, AnswersInv
<1>3. ASSUME \A t \in Thread \ {o} : Alongside(t), DOMAIN answer' = Thread, alone' \in [Thread -> BOOLEAN],
             job'[o].kind # "none" => answer'[o] = NoAnswer, pc'[o] = "idle" => job'[o].kind = "none"
      PROVE  AnswersInv'
  BY <1>1, <1>3 DEF AnswersInv, Alongside
<1>4. CASE Goes(o)
  <2>1. PICK label : label # "idle" /\ Goto(o, label)
    BY <1>4 DEF Goes
  <2>2. PICK j : j.kind = job[o].kind /\ job' = [job EXCEPT ![o] = j]
    BY <1>4 DEF Goes
  <2>3. answer' = answer /\ alone' \in [Thread -> BOOLEAN] /\ \A t \in Thread : alone'[t] => alone[t]
    BY <1>4 DEF Goes
  <2>4. using' = using \/ \E r : using' = [using EXCEPT ![o] = r]
    BY <1>4 DEF Goes
  <2>5. pc'[o] # "idle" /\ job'[o].kind = job[o].kind
    BY <1>2, <2>1, <2>2 DEF Goto
  <2>6. ASSUME NEW t \in Thread \ {o}
        PROVE  Alongside(t)
    <3>1. pc'[t] = pc[t] /\ job'[t] = job[t]
      BY <1>2, <2>1, <2>2 DEF Goto
    <3>2. using'[t] = using[t]
      BY <1>1, <2>4
    <3> QED BY <2>3, <3>1, <3>2 DEF Alongside
  <2>7. job'[o].kind # "none" => answer'[o] = NoAnswer
    BY <1>1, <2>3, <2>5 DEF AnswersInv
  <2> QED BY <1>2, <1>3, <2>3, <2>5, <2>6, <2>7
<1>5. CASE Ends(o)
  <2>1. PICK a : End(o, a)
    BY <1>5 DEF Ends
  <2>2. /\ answer' = [answer EXCEPT ![o] = a] /\ job' = [job EXCEPT ![o] = NoJob]
        /\ using' = [using EXCEPT ![o] = NoResolver] /\ pc' = [pc EXCEPT ![o] = "idle"]
    BY <2>1 DEF End, Goto
  <2>3. alone' = [alone EXCEPT ![o] = TRUE]
    BY <2>1 DEF End
  <2>4. alone' \in [Thread -> BOOLEAN] /\ \A t \in Thread \ {o} : alone'[t] => alone[t]
    BY <1>2, <2>3
  <2>5. \A t \in Thread \ {o} : Alongside(t)
    BY <1>1, <1>2, <2>2, <2>4 DEF Alongside
  <2>6. job'[o].kind = "none" /\ DOMAIN answer' = Thread
    BY <1>2, <2>2, NoJobFact
  <2> QED BY <1>3, <2>4, <2>5, <2>6
<1>6. CASE Begins(o)
  <2>1. PICK label, work : label # "idle" /\ Call(o, label, work)
    BY <1>6 DEF Begins
  <2>2. /\ answer' = [answer EXCEPT ![o] = NoAnswer] /\ job' = [job EXCEPT ![o] = work]
        /\ using' = using /\ pc' = [pc EXCEPT ![o] = label]
    BY <2>1 DEF Call, Goto
  <2>3. alone' = [alone EXCEPT ![o] = lock = None]
    BY <2>1 DEF Call
  <2>4. alone' \in [Thread -> BOOLEAN] /\ \A t \in Thread \ {o} : alone'[t] => alone[t]
    BY <1>2, <2>3
  <2>5. \A t \in Thread \ {o} : Alongside(t)
    BY <1>1, <1>2, <2>2, <2>4 DEF Alongside
  <2>6. pc'[o] # "idle" /\ answer'[o] = NoAnswer /\ DOMAIN answer' = Thread
    BY <1>2, <2>1, <2>2
  <2> QED BY <1>3, <2>4, <2>5, <2>6
<1>7. CASE ExitContainer(o)
  <2>1. pc' = pc /\ job' = job /\ using' = using /\ answer' = answer /\ alone' = alone
    BY <1>7 DEF ExitContainer, threads
  <2> QED BY <1>1, <2>1 DEF AnswersInv, Alongside
<1> QED BY <1>4, <1>5, <1>6, <1>7, StepKinds

-----------------------------------------------------------------------------
(* Compilation and resolution make the registry grow by keys of open       *)
(* templates, when nobody has the lock.                                    *)
Grows ==
    /\ lock' = lock
    /\ \/ UNCHANGED <<graph, materialized, revision>>
       \/ /\ lock = None /\ Extended(graph, graph') /\ materialized \subseteq materialized'
          /\ DOMAIN graph'.reg \ DOMAIN graph.reg \subseteq OwnKeys(materialized')
          /\ materialized' \ materialized \subseteq graph.open
          /\ revision' \in Nat /\ revision <= revision'

LEMMA ClosedGrows ==
    ASSUME IInv, lock = None, lock' = lock, MaterializeRegistered
    PROVE  Grows /\ Extended(graph, Materialized(graph))
<1>1. Graph(graph) /\ revision \in Nat
  BY DEF IInv, GraphInv, NamesInv
<1>2. PICK h : h = Materialized(graph)
  OBVIOUS
<1>3. PICK new : new = {n \in Generic : IsRegistered(h, n) /\ ~IsRegistered(graph, n)}
  OBVIOUS
<1>4. graph' = h /\ materialized' = materialized \cup new /\ revision' = revision + Cardinality(new \cap Unstable)
  BY <1>2, <1>3 DEF MaterializeRegistered
<1>5. /\ new \subseteq Generic /\ Extended(graph, h)
      /\ DOMAIN h.reg = DOMAIN graph.reg \cup OwnKeys(new) /\ OwnKeys(new) \cap DOMAIN graph.reg = {}
  BY <1>1, <1>2, <1>3, ClosedKeys
<1>6. ASSUME NEW n \in new
      PROVE  n \in graph.open
  <2>1. Own(n) \in DOMAIN h.reg \ DOMAIN graph.reg
    BY <1>5 DEF OwnKeys
  <2>2. Own(n) \in OwnKeys(graph.open \cap Generic)
    BY <1>5, <2>1 DEF Extended
  <2>3. PICK m \in graph.open : Own(n) = Own(m)
    BY <2>2 DEF OwnKeys
  <2> QED BY <2>3, OwnSame
<1>7. revision' \in Nat /\ revision <= revision'
  <2>1. IsFiniteSet(new \cap Unstable)
    BY <1>5, GraphAssumption, FS_Subset
  <2>2. PICK c \in Nat : c = Cardinality(new \cap Unstable)
    BY <2>1, FS_CardinalityType
  <2>3. revision' = revision + c
    BY <1>4, <2>2
  <2> QED BY <1>1, <2>3
<1>8. DOMAIN graph'.reg \ DOMAIN graph.reg \subseteq OwnKeys(materialized')
  <2>1. OwnKeys(new) \subseteq OwnKeys(materialized')
    BY <1>4 DEF OwnKeys
  <2> QED BY <1>4, <1>5, <2>1
<1>9. Extended(graph, graph')
  BY <1>4, <1>5
<1> QED BY <1>2, <1>4, <1>5, <1>6, <1>7, <1>8, <1>9 DEF Grows

LEMMA GrowingSteps ==
    ASSUME IInv, NEW t \in Thread, Compile(t) \/ CompileFails(t) \/ Materialize(t)
    PROVE  Grows
<1>1. CASE (Compile(t) /\ root = NoResolver) \/ CompileFails(t)
  <2>1. lock = None /\ lock' = lock /\ MaterializeRegistered
    BY <1>1 DEF Compile, CompileFails
  <2> QED BY <2>1, ClosedGrows
<1>2. CASE Compile(t) /\ root # NoResolver
  BY <1>2 DEF Compile, Grows
<1>3. CASE Materialize(t)
  <2>1. Graph(graph) /\ revision \in Nat
    BY DEF IInv, GraphInv, NamesInv
  <2>2. PICK n : n = job[t].name
    OBVIOUS
  <2>3. lock' = lock /\ n \in graph.open /\ (Tells(t) \in told \/ lock = None)
    BY <1>3, <2>2 DEF Materialize, Matched
  <2>4. n \in Generic
    BY <2>1, <2>3, AnyGraphRule DEF Graph, Typed
  <2>5. CASE Tells(t) \in told \/ IsRegistered(graph, n)
    <3>1. UNCHANGED <<graph, materialized, revision>>
      BY <1>3, <2>2, <2>5 DEF Materialize
    <3> QED BY <2>3, <3>1 DEF Grows
  <2>6. CASE ~(Tells(t) \in told \/ IsRegistered(graph, n))
    <3>1. PICK h : h = Put(graph, Own(n), ClosedSpec(n))
      OBVIOUS
    <3>2. /\ graph' = h /\ materialized' = materialized \cup {n}
          /\ Invalidate \/ UNCHANGED <<revision, root, bound>>
      BY <1>3, <2>2, <2>6, <3>1 DEF Materialize
    <3>3. Puts(graph, Own(n), ClosedSpec(n), h) /\ Extended(graph, h)
      BY <2>1, <2>3, <2>4, <2>6, <3>1, CloseOne
    <3>4. DOMAIN h.reg \ DOMAIN graph.reg \subseteq OwnKeys(materialized')
      BY <3>2, <3>3 DEF Puts, OwnKeys
    <3>5. revision' \in Nat /\ revision <= revision'
      BY <2>1, <3>2 DEF Invalidate
    <3>6. Extended(graph, graph')
      BY <3>2, <3>3
    <3> QED BY <2>3, <2>6, <3>2, <3>4, <3>5, <3>6 DEF Grows
  <2> QED BY <2>5, <2>6
<1> QED BY <1>1, <1>2, <1>3

\* What was made at run time is served by a template.
LEMMA MaterializedOpen ==
    ASSUME IInv, IInv', SearchInv, NEW t \in Thread, ThreadStep(t)
    PROVE  materialized' \subseteq graph'.open
<1>1. ThreadsInv /\ materialized \subseteq graph.open
  BY DEF IInv, SearchInv
<1>2. CASE Aside(t)
  BY <1>1, <1>2, AsideMoves
<1>3. CASE Register(t) \/ (\E n \in Name : CallResolve(t, n)) \/ CallEnter(t)
  <2>1. state' = state
    BY <1>1, <1>3, CallMoves
  <2> QED BY <1>1, <2>1 DEF state
<1>4. CASE ExitContainer(t)
  BY <1>1, <1>4 DEF ExitContainer
<1>5. CASE Begin(t)
  BY <1>5 DEF Begin
<1>6. CASE Body(t) \/ BodyFails(t) \/ Finalize(t) \/ Commit(t) \/ Rollback(t)
  <2>1. pc[t] \in {"body", "finalize", "commit"} /\ materialized' = materialized
    BY <1>6 DEF Body, BodyFails, Finalize, Commit, Rollback
  <2>2. materialized = {}
    BY <1>1, <2>1, HoldsLock DEF IInv, GraphInv
  <2> QED BY <2>1, <2>2
<1>7. CASE Compile(t) \/ CompileFails(t) \/ Materialize(t)
  <2>1. Grows
    BY <1>7, GrowingSteps
  <2>2. CASE UNCHANGED <<graph, materialized, revision>>
    BY <1>1, <2>2
  <2>3. CASE Extended(graph, graph') /\ materialized' \ materialized \subseteq graph.open
    <3>1. graph'.open = graph.open
      BY <2>3 DEF Extended
    <3> QED BY <1>1, <2>3, <3>1
  <2> QED BY <2>1, <2>2, <2>3 DEF Grows
<1> QED BY <1>2, <1>3, <1>4, <1>5, <1>6, <1>7 DEF ThreadStep, Step, Aside

-----------------------------------------------------------------------------
(* What a thread knows of its search is not disturbed by the others, and   *)
(* follows at each place from what it knew at the one before.              *)
LEMMA TornStays ==
    ASSUME IInv, NEW o \in Thread, ThreadStep(o)
    PROVE  torn' = torn \/ torn' = TRUE
<1>1. CASE Aside(o)
  BY <1>1, AsideMoves
<1>2. CASE Register(o) \/ (\E n \in Name : CallResolve(o, n)) \/ CallEnter(o)
  <2>1. state' = state
    BY <1>2, CallMoves DEF IInv
  <2> QED BY <2>1 DEF state
<1>3. CASE ~Aside(o) /\ Step(o)
  BY <1>3 DEF Aside, Step, Begin, Body, BodyFails, Finalize, Commit, Rollback, Compile, CompileFails, Materialize
<1>4. CASE ExitContainer(o)
  BY <1>4 DEF ExitContainer
<1> QED BY <1>1, <1>2, <1>3, <1>4 DEF ThreadStep

LEMMA LoneFacts ==
    ASSUME IInv, SearchInv, NEW t \in Thread, Lone(t)
    PROVE  /\ ThreadsInv /\ Graph(graph) /\ revision \in Nat /\ DOMAIN using = Thread
           /\ materialized \subseteq Generic /\ materialized \subseteq graph.open
           /\ job \in [Thread -> Jobs] /\ job[t] \in Jobs /\ job[t].kind = "resolve" /\ ~torn
           /\ Searching(job[t], pc[t], using[t], graph, materialized, revision)
           /\ lock \in {None, t} /\ (pc[t] \notin {"body", "finalize", "commit"} => lock = None)
           /\ pc[t] \in Labels \ {"idle", "enter"} => job[t].name \in Name
<1>1. ThreadsInv /\ Graph(graph) /\ revision \in Nat /\ DOMAIN using = Thread /\ materialized \subseteq Generic
  BY DEF IInv, GraphInv, NamesInv
<1>2. Informed(t) /\ job[t].kind = "resolve" /\ ~torn /\ materialized \subseteq graph.open
  BY DEF SearchInv, Lone
<1>3. job \in [Thread -> Jobs] /\ job[t] \in Jobs /\ Doing(job[t], pc[t]) /\ (pc[t] \in Holding <=> lock = t)
  BY <1>1 DEF ThreadsInv
<1>4. pc[t] \notin {"body", "finalize", "commit"} => lock = None
  BY <1>2, <1>3 DEF Informed, Holding
<1>5. pc[t] \in Labels \ {"idle", "enter"} => job[t].name \in Name
  BY <1>2, <1>3 DEF Doing, Labels, Holding, Asking
<1> QED BY <1>1, <1>2, <1>3, <1>4, <1>5 DEF Informed

LEMMA OthersInform ==
    ASSUME IInv, IInv', SearchInv, NEW o \in Thread, ThreadStep(o), NEW t \in Thread \ {o}, Lone(t)'
    PROVE  Informed(t)'
<1>1. Alongside(t) /\ alone'[t] /\ job'[t].kind = "resolve"
  BY StepOthers DEF Lone
<1>2. Lone(t)
  <2>1. ~torn
    BY TornStays DEF Lone
  <2> QED BY <1>1, <2>1 DEF Lone, Alongside
<1>3. /\ ThreadsInv /\ revision \in Nat /\ job[t] \in Jobs /\ lock \in {None, t}
      /\ Searching(job[t], pc[t], using[t], graph, materialized, revision)
  BY <1>2, LoneFacts
<1>4. ASSUME graph' = graph, materialized' = materialized, lock' = lock, revision' = revision
      PROVE  Informed(t)'
  BY <1>1, <1>3, <1>4 DEF Informed, Alongside
<1>5. CASE Aside(o)
  BY <1>4, <1>5, AsideMoves
<1>6. CASE Register(o) \/ (\E n \in Name : CallResolve(o, n)) \/ CallEnter(o)
  <2>1. state' = state
    BY <1>3, <1>6, CallMoves
  <2> QED BY <1>4, <2>1 DEF state
<1>7. CASE ExitContainer(o)
  BY <1>4, <1>7 DEF ExitContainer
<1>8. CASE Begin(o)
  <2>1. alone' = [x \in Thread |-> alone[x] /\ (x = o \/ pc[x] = "idle")]
    BY <1>8 DEF Begin
  <2>2. pc[t] = "idle"
    BY <1>1, <2>1
  <2>3. job[t].kind = "none"
    BY <2>2 DEF SearchInv, AnswersInv
  <2> QED BY <1>2, <2>3 DEF Lone
<1>9. CASE Body(o) \/ BodyFails(o) \/ Finalize(o) \/ Commit(o) \/ Rollback(o)
  <2>1. pc[o] \in {"body", "finalize", "commit"}
    BY <1>9 DEF Body, BodyFails, Finalize, Commit, Rollback
  <2>2. lock = o /\ lock # None
    BY <1>3, <2>1, HoldsLock
  <2> QED BY <1>3, <2>2
<1>10. CASE Compile(o) \/ CompileFails(o) \/ Materialize(o)
  <2>1. Grows
    BY <1>10, GrowingSteps
  <2>2. CASE UNCHANGED <<graph, materialized, revision>>
    BY <1>4, <2>1, <2>2 DEF Grows
  <2>3. CASE /\ lock = None /\ Extended(graph, graph') /\ materialized \subseteq materialized'
             /\ DOMAIN graph'.reg \ DOMAIN graph.reg \subseteq OwnKeys(materialized')
             /\ revision' \in Nat /\ revision <= revision'
    <3>1. pc[t] \notin {"body", "finalize", "commit"}
      BY <1>3, <2>3, HoldsLock
    <3>2. job[t].seen \in Nat
      BY <1>3 DEF Jobs
    <3>3. Searching(job[t], pc[t], using[t], graph', materialized', revision')
      BY <1>3, <2>3, <3>1, <3>2, SearchGrows
    <3> QED BY <1>1, <1>3, <2>1, <3>3 DEF Informed, Alongside, Grows
  <2> QED BY <2>1, <2>2, <2>3 DEF Grows
<1> QED BY <1>5, <1>6, <1>7, <1>8, <1>9, <1>10 DEF ThreadStep, Step, Aside

LEMMA CallInforms ==
    ASSUME IInv, NEW t \in Thread, NEW n \in Name, CallResolve(t, n), alone \in [Thread -> BOOLEAN], Lone(t)'
    PROVE  Informed(t)'
<1>1. ThreadsInv
  BY DEF IInv
<1>2. PICK work : work = [NoJob EXCEPT !.kind = "resolve", !.name = n]
  OBVIOUS
<1>3. Call(t, "entry", work)
  BY <1>2 DEF CallResolve
<1>4. alone' = [alone EXCEPT ![t] = lock = None] /\ state' = state
  BY <1>3 DEF Call
<1>5. lock = None /\ lock' = None
  BY <1>4 DEF Lone, state
<1>6. pc'[t] = "entry" /\ job'[t] = work
  BY <1>1, <1>3 DEF Call, Goto, ThreadsInv
<1>7. ~work.retried
  BY <1>2 DEF NoJob
<1>8. Searching(work, "entry", using'[t], graph', materialized', revision')
  BY <1>7 DEF Searching
<1> QED BY <1>5, <1>6, <1>8 DEF Informed

LEMMA EntryInforms ==
    ASSUME IInv, SearchInv, NEW t \in Thread, Entry(t), Lone(t)
    PROVE  Informed(t)'
<1>1. pc[t] = "entry" /\ job' = job /\ state' = state
  BY DEF Entry
<1>2. /\ ThreadsInv /\ DOMAIN using = Thread /\ ~torn /\ lock = None
      /\ Searching(job[t], "entry", using[t], graph, materialized, revision)
  BY <1>1, LoneFacts
<1>3. ~job[t].retried
  BY <1>2 DEF Searching
<1>4. (bound # NoResolver => bound = root) /\ Current(root, graph, materialized)
  BY <1>2 DEF IInv, RootInv
<1>5. using'[t] = root
  BY <1>2, <1>4 DEF Entry
<1>6. PICK label : label = IF using'[t] = NoResolver THEN "compile" ELSE "ask"
  OBVIOUS
<1>7. Goto(t, label)
  BY <1>6 DEF Entry
<1>8. pc'[t] = IF root = NoResolver THEN "compile" ELSE "ask"
  BY <1>2, <1>5, <1>6, <1>7, PcMoves
<1>9. root # NoResolver => Covers(root, graph, materialized)
  BY <1>4 DEF Current, Covers
<1>10. Searching(job[t], pc'[t], root, graph, materialized, revision)
  BY <1>3, <1>8, <1>9 DEF Searching, Tried
<1> QED BY <1>1, <1>2, <1>5, <1>10 DEF Informed, state

LEMMA CompileInforms ==
    ASSUME IInv, SearchInv, NEW t \in Thread, Compile(t), Lone(t)
    PROVE  Informed(t)'
<1>1. pc[t] = "compile" /\ job' = job /\ lock' = lock
  BY DEF Compile
<1>2. /\ ThreadsInv /\ Graph(graph) /\ DOMAIN using = Thread /\ ~torn /\ lock = None /\ job[t].kind = "resolve"
      /\ materialized \subseteq Generic
      /\ Searching(job[t], "compile", using[t], graph, materialized, revision)
  BY <1>1, LoneFacts
<1>3. Tried(graph, job[t])
  BY <1>2 DEF Searching
<1>4. pc'[t] = "ask" /\ using'[t] = root'
  <2>1. Goto(t, "ask")
    BY <1>2 DEF Compile
  <2> QED BY <1>2, <2>1, PcMoves DEF Compile
<1>5. ASSUME Covers(root', graph', materialized'), Tried(root'.graph, job[t])
      PROVE  Informed(t)'
  <2>1. Searching(job[t], "ask", root', graph', materialized', revision')
    BY <1>5 DEF Searching
  <2> QED BY <1>1, <1>2, <1>4, <2>1 DEF Informed
<1>6. CASE root = NoResolver
  <2>1. PICK h : h = Materialized(graph)
    OBVIOUS
  <2>2. MaterializeRegistered /\ graph' = h /\ root' = Resolver(revision', h)
    BY <1>6, <2>1 DEF Compile, MaterializeRegistered
  <2>3. Extended(graph, h)
    BY <1>1, <1>2, <2>1, <2>2, ClosedGrows
  <2>4. root'.id = revision' /\ root'.graph = h /\ root'.wrapped = (h.open # {})
    BY <2>2 DEF Resolver
  <2>5. root' # NoResolver
    BY <2>2, <2>4, ClosedRevision, NoResolverFact DEF IInv
  <2>6. Covers(root', graph', materialized')
    BY <2>2, <2>4, <2>5 DEF Covers
  <2>7. Tried(root'.graph, job[t])
    BY <1>3, <2>3, <2>4 DEF Tried, Extended, IsRegistered
  <2> QED BY <1>5, <2>6, <2>7
<1>7. CASE root # NoResolver
  <2>1. graph' = graph /\ materialized' = materialized /\ root' = root
    BY <1>7 DEF Compile
  <2>2. Current(root, graph, materialized)
    BY <1>2 DEF IInv, RootInv
  <2>3. Covers(root, graph, materialized)
    BY <1>7, <2>2 DEF Current, Covers
  <2>4. Tried(root.graph, job[t])
    <3> SUFFICES ASSUME job[t].retried, job[t].name \in Concrete PROVE IsRegistered(root.graph, job[t].name)
      BY DEF Tried
    <3>1. Own(job[t].name) \in DOMAIN graph.reg
      BY <1>3 DEF Tried, IsRegistered
    <3>2. ASSUME Own(job[t].name) \in OwnKeys(materialized)
          PROVE  FALSE
      <4>1. PICK m \in materialized : Own(job[t].name) = Own(m)
        BY <3>2 DEF OwnKeys
      <4> QED BY <1>2, <4>1, OwnSame, GraphAssumption
    <3> QED BY <2>3, <3>1, <3>2 DEF Covers, IsRegistered
  <2> QED BY <1>5, <2>1, <2>3, <2>4
<1> QED BY <1>6, <1>7

\* What its resolver misses and no template serves is not registered.
LEMMA MissedIsUnserved ==
    ASSUME NEW r, NEW g, NEW M, Covers(r, g, M), M \subseteq g.open, NEW n, ~IsRegistered(r.graph, n),
           ~(r.wrapped /\ n \in g.open)
    PROVE  Unserved(g, n)
<1>1. n \notin g.open
  BY DEF Covers
<1>2. ASSUME Own(n) \in DOMAIN g.reg
      PROVE  FALSE
  <2>1. Own(n) \in OwnKeys(M)
    BY <1>2 DEF Covers, IsRegistered
  <2>2. PICK m \in M : Own(n) = Own(m)
    BY <2>1 DEF OwnKeys
  <2> QED BY <1>1, <2>2, OwnSame
<1> QED BY <1>1, <1>2 DEF Unserved, IsRegistered

LEMMA MissingUnserved ==
    ASSUME IInv, SearchInv, NEW t \in Thread, Missing(t), Lone(t)
    PROVE  Unserved(graph, job[t].name) /\ Tried(using[t].graph, job[t])
<1>1. pc[t] = "ask" /\ ~IsRegistered(using[t].graph, job[t].name) /\ ~(using[t].wrapped /\ job[t].name \in graph.open)
  BY DEF Missing, Misses, Matched
<1>2. /\ materialized \subseteq graph.open
      /\ Searching(job[t], "ask", using[t], graph, materialized, revision)
  BY <1>1, LoneFacts
<1>3. Covers(using[t], graph, materialized) /\ Tried(using[t].graph, job[t])
  BY <1>2 DEF Searching
<1> QED BY <1>1, <1>2, <1>3, MissedIsUnserved

LEMMA MissingInforms ==
    ASSUME IInv, SearchInv, NEW t \in Thread, Missing(t), Lone(t), ~(strict \/ job[t].retried)
    PROVE  Informed(t)'
<1>1. pc[t] = "ask" /\ job' = job /\ state' = state /\ Goto(t, "revision")
  BY DEF Missing, Misses
<1>2. ThreadsInv /\ lock = None
  BY <1>1, LoneFacts
<1>3. pc'[t] = "revision"
  BY <1>1, <1>2, PcMoves
<1>4. Unserved(graph, job[t].name)
  BY MissingUnserved
<1>5. Searching(job[t], "revision", using'[t], graph, materialized, revision)
  BY <1>4 DEF Searching
<1> QED BY <1>1, <1>2, <1>3, <1>5 DEF Informed, state

LEMMA ReadInforms ==
    ASSUME IInv, SearchInv, NEW t \in Thread, ReadRevision(t), Lone(t)
    PROVE  Informed(t)'
<1>1. pc[t] = "revision" /\ job' = [job EXCEPT ![t].seen = revision] /\ state' = state /\ Goto(t, "ensure")
  BY DEF ReadRevision
<1>2. /\ ThreadsInv /\ lock = None /\ revision \in Nat /\ job \in [Thread -> Jobs] /\ job[t] \in Jobs
      /\ Searching(job[t], "revision", using[t], graph, materialized, revision)
  BY <1>1, LoneFacts
<1>3. pc'[t] = "ensure"
  BY <1>1, <1>2, PcMoves
<1>4. job'[t].seen = revision /\ job'[t].name = job[t].name
  BY <1>1, <1>2 DEF Jobs
<1>5. Unserved(graph, job'[t].name) /\ job'[t].seen <= revision
  BY <1>2, <1>4 DEF Searching
<1>6. Searching(job'[t], "ensure", using'[t], graph, materialized, revision)
  BY <1>5 DEF Searching
<1> QED BY <1>1, <1>2, <1>3, <1>6 DEF Informed, state

LEMMA EnsureInforms ==
    ASSUME IInv, SearchInv, NEW t \in Thread, EnsureAutoregistration(t), Lone(t)
    PROVE  Informed(t)'
<1>1. PICK label : label = IF Unserved(graph, job[t].name) /\ job[t].name \in Concrete THEN "target" ELSE "compare"
  OBVIOUS
<1>2. pc[t] = "ensure" /\ job' = job /\ state' = state /\ Goto(t, label)
  BY <1>1 DEF EnsureAutoregistration
<1>3. ThreadsInv /\ lock = None /\ Searching(job[t], "ensure", using[t], graph, materialized, revision)
  BY <1>2, LoneFacts
<1>4. pc'[t] = label
  BY <1>2, <1>3, PcMoves
<1>5. Unserved(graph, job[t].name) /\ job[t].seen <= revision
  BY <1>3 DEF Searching
<1>6. Searching(job[t], label, using'[t], graph, materialized, revision)
  BY <1>1, <1>5 DEF Searching
<1> QED BY <1>2, <1>3, <1>4, <1>6 DEF Informed, state

LEMMA TargetInforms ==
    ASSUME IInv, SearchInv, NEW t \in Thread, FindTarget(t), Lone(t)
    PROVE  Informed(t)'
<1>1. PICK target : target = TargetOf(graph, job[t].name)
  OBVIOUS
<1>2. pc[t] = "target" /\ job' = [job EXCEPT ![t].target = target] /\ state' = state /\ Goto(t, "begin")
  BY <1>1 DEF FindTarget
<1>3. /\ ThreadsInv /\ Graph(graph) /\ lock = None /\ job \in [Thread -> Jobs] /\ job[t] \in Jobs
      /\ Searching(job[t], "target", using[t], graph, materialized, revision)
  BY <1>2, LoneFacts
<1>4. job[t].name \in Name
  BY <1>2, LoneFacts DEF Labels
<1>5. pc'[t] = "begin"
  BY <1>2, <1>3, PcMoves
<1>6. Unserved(graph, job[t].name) /\ job[t].seen <= revision /\ job[t].name \in Concrete
  BY <1>3 DEF Searching
<1>7. graph.chain[job[t].name] = NoChain
  BY <1>3, <1>4, <1>6 DEF Graph, ChainOK, Unserved, IsRegistered
<1>8. target = [key |-> Own(job[t].name), chained |-> FALSE]
  BY <1>1, <1>7 DEF TargetOf
<1>9. job'[t].target = target /\ job'[t].name = job[t].name /\ job'[t].seen = job[t].seen
  BY <1>2, <1>3 DEF Jobs
<1>10. Searching(job'[t], "begin", using'[t], graph, materialized, revision)
  BY <1>6, <1>8, <1>9 DEF Searching
<1> QED BY <1>2, <1>3, <1>5, <1>10 DEF Informed, state

LEMMA BeginInforms ==
    ASSUME IInv, SearchInv, NEW t \in Thread, Begin(t), Lone(t)
    PROVE  Informed(t)'
<1>1. PICK purged : purged = IF materialized = {} THEN graph ELSE Without(graph, OwnKeys(materialized))
  OBVIOUS
<1>2. /\ pc[t] = "begin" /\ graph' = purged /\ lock' = t /\ job' = job /\ Goto(t, "body")
      /\ Invalidate \/ UNCHANGED <<revision, root, bound>>
  BY <1>1 DEF Begin
<1>3. /\ ThreadsInv /\ Graph(graph) /\ revision \in Nat /\ job[t] \in Jobs /\ materialized \subseteq Generic
      /\ Searching(job[t], "begin", using[t], graph, materialized, revision)
  BY <1>2, LoneFacts
<1>4. pc'[t] = "body"
  BY <1>2, <1>3, PcMoves
<1>5. /\ Unserved(graph, job[t].name) /\ job[t].seen <= revision /\ job[t].name \in Concrete
      /\ job[t].target = [key |-> Own(job[t].name), chained |-> FALSE]
  BY <1>3 DEF Searching
<1>6. Unserved(purged, job[t].name)
  <2>1. CASE materialized = {}
    BY <1>1, <1>5, <2>1
  <2>2. CASE materialized # {}
    <3>1. purged = Without(graph, OwnKeys(materialized))
      BY <1>1, <2>2
    <3>2. LeavesOut(graph, OwnKeys(materialized), purged)
      BY <1>3, <3>1, WithoutGraph
    <3> QED BY <1>5, <3>2 DEF LeavesOut, SameButReg, Unserved, IsRegistered
  <2> QED BY <2>1, <2>2
<1>7. job[t].seen <= revision'
  <2>1. revision' = revision \/ revision' = revision + 1
    BY <1>2 DEF Invalidate
  <2>2. job[t].seen \in Nat
    BY <1>3 DEF Jobs
  <2> QED BY <1>3, <1>5, <2>1, <2>2
<1>8. Searching(job[t], "body", using'[t], purged, materialized', revision')
  BY <1>5, <1>6, <1>7 DEF Searching
<1> QED BY <1>2, <1>4, <1>8 DEF Informed

LEMMA BodyInforms ==
    ASSUME IInv, SearchInv, NEW t \in Thread, Body(t), Lone(t)
    PROVE  Informed(t)'
<1>1. PICK names : names = Arguments(job[t])
  OBVIOUS
<1>2. PICK h : h = AutoregisterAll(Bind(graph, job[t]), names, job[t].deep)
  OBVIOUS
<1>3. /\ pc[t] = "body" /\ graph' = h /\ lock' = lock /\ job' = job /\ Goto(t, "finalize")
      /\ Invalidate \/ UNCHANGED <<revision, root, bound>>
  BY <1>1, <1>2 DEF Body, Autoregister
<1>4. /\ ThreadsInv /\ Graph(graph) /\ revision \in Nat /\ job[t] \in Jobs /\ job[t].kind = "resolve"
      /\ lock \in {None, t}
      /\ Searching(job[t], "body", using[t], graph, materialized, revision)
  BY <1>3, LoneFacts
<1>5. pc'[t] = "finalize"
  BY <1>3, <1>4, PcMoves
<1>6. /\ job[t].seen <= revision /\ job[t].name \in Concrete
      /\ job[t].target = [key |-> Own(job[t].name), chained |-> FALSE]
  BY <1>4 DEF Searching
<1>7. IsRegistered(h, job[t].name)
  <2>1. Doing(job[t], "body") /\ Binds(job[t]) /\ job[t].kind # "decorate" /\ ~job[t].target.chained
    BY <1>3, <1>4, <1>6 DEF ThreadsInv, Binds
  <2> QED BY <1>2, <1>4, <2>1, BodyRule
<1>8. job[t].seen <= revision'
  <2>1. revision' = revision \/ revision' = revision + 1
    BY <1>3 DEF Invalidate
  <2>2. job[t].seen \in Nat
    BY <1>4 DEF Jobs
  <2> QED BY <1>4, <1>6, <2>1, <2>2
<1>9. Searching(job[t], "finalize", using'[t], h, materialized', revision')
  BY <1>6, <1>7, <1>8 DEF Searching
<1> QED BY <1>3, <1>4, <1>5, <1>9 DEF Informed

LEMMA FinalizeInforms ==
    ASSUME IInv, SearchInv, NEW t \in Thread, Finalize(t), Lone(t)
    PROVE  Informed(t)'
<1>1. PICK j : j = job[t]
  OBVIOUS
<1>2. pc[t] = "finalize"
  BY DEF Finalize
<1>3. /\ ThreadsInv /\ Graph(graph) /\ revision \in Nat /\ j \in Jobs /\ j.kind = "resolve" /\ lock \in {None, t}
      /\ Searching(j, "finalize", using[t], graph, materialized, revision)
  BY <1>1, <1>2, LoneFacts
<1>4. PICK wired : wired = IF j.kind = "decorate" THEN Decorated(graph, j.name)
                           ELSE Finalized(graph, j.name, j.target.chained)
  OBVIOUS
<1>5. PICK wants : wants = IF wired.chain[j.name] = NoChain THEN {} ELSE RuleWants(wired, j.name)
  OBVIOUS
<1>6. PICK h : h = AutoregisterAll(wired, wants, wired.reg[Own(j.name)].deep)
  OBVIOUS
<1>7. graph' = h /\ Invalidate /\ Goto(t, "commit") /\ job' = job /\ lock' = lock
  BY <1>1, <1>3, <1>4, <1>5, <1>6 DEF Finalize
<1>8. pc'[t] = "commit" /\ job'[t] = j
  BY <1>1, <1>3, <1>7, PcMoves
<1>9. j.seen <= revision /\ j.name \in Concrete /\ IsRegistered(graph, j.name)
  BY <1>3 DEF Searching
<1>10. IsRegistered(h, j.name)
  <2>1. BindingPut(graph, j) /\ Doing(j, "finalize") /\ j.kind # "open"
    BY <1>1, <1>2, <1>3 DEF IInv, GraphInv, ThreadsInv
  <2> QED BY <1>3, <1>4, <1>5, <1>6, <1>9, <2>1, FinalizeRule
<1>11. j.seen < revision'
  <2>1. revision' = revision + 1 /\ j.seen \in Nat
    BY <1>3, <1>7 DEF Invalidate, Jobs
  <2> QED BY <1>3, <1>9, <2>1
<1>12. Searching(j, "commit", using'[t], h, materialized', revision')
  BY <1>9, <1>10, <1>11 DEF Searching
<1> QED BY <1>3, <1>7, <1>8, <1>12 DEF Informed

LEMMA CommitInforms ==
    ASSUME IInv, SearchInv, NEW t \in Thread, Commit(t), Lone(t)
    PROVE  Informed(t)'
<1>1. pc[t] = "commit" /\ graph' = graph /\ materialized' = materialized /\ revision' = revision /\ lock' = None
  BY DEF Commit, Leave
<1>2. /\ ThreadsInv /\ job[t].kind = "resolve"
      /\ Searching(job[t], "commit", using[t], graph, materialized, revision)
  BY <1>1, LoneFacts
<1>3. Goto(t, "compare") /\ job' = job
  BY <1>2 DEF Commit
<1>4. pc'[t] = "compare"
  BY <1>2, <1>3, PcMoves
<1>5. Searching(job[t], "compare", using'[t], graph, materialized, revision)
  BY <1>2 DEF Searching
<1> QED BY <1>1, <1>3, <1>4, <1>5 DEF Informed

LEMMA CompareInforms ==
    ASSUME IInv, SearchInv, NEW t \in Thread, CompareRevision(t), GraphChanged(t), Lone(t)
    PROVE  Informed(t)'
<1>1. pc[t] = "compare" /\ job' = [job EXCEPT ![t].retried = TRUE] /\ state' = state /\ Goto(t, "compile")
  BY DEF CompareRevision
<1>2. /\ ThreadsInv /\ lock = None /\ job \in [Thread -> Jobs] /\ job[t] \in Jobs
      /\ Searching(job[t], "compare", using[t], graph, materialized, revision)
  BY <1>1, LoneFacts
<1>3. pc'[t] = "compile"
  BY <1>1, <1>2, PcMoves
<1>4. job'[t].name = job[t].name
  BY <1>1, <1>2 DEF Jobs
<1>5. Tried(graph, job'[t])
  BY <1>2, <1>4 DEF Searching, Tried
<1>6. Searching(job'[t], "compile", using'[t], graph, materialized, revision)
  BY <1>5 DEF Searching
<1> QED BY <1>1, <1>2, <1>3, <1>6 DEF Informed, state

-----------------------------------------------------------------------------
LEMMA OwnInforms ==
    ASSUME IInv, SearchInv, NEW t \in Thread, ThreadStep(t), Lone(t)'
    PROVE  Informed(t)'
<1>1. ThreadsInv /\ DOMAIN job = Thread /\ AnswersInv /\ alone \in [Thread -> BOOLEAN]
  BY DEF IInv, ThreadsInv, SearchInv, AnswersInv
<1>2. job'[t].kind = "resolve" /\ alone'[t] /\ ~torn'
  BY DEF Lone
<1>3. CASE Register(t) \/ CallEnter(t)
  <2>1. PICK label, work : Call(t, label, work) /\ work.kind # "resolve"
    <3>1. \A kind, n, v, deep : Registration(kind, n, v, deep).kind = kind
      BY DEF Registration, NoJob
    <3>2. [NoJob EXCEPT !.kind = "enter"].kind # "resolve"
      BY DEF NoJob
    <3>3. \A n, d : [NoJob EXCEPT !.kind = "decorate", !.name = n, !.decorator = d].kind # "resolve"
      BY DEF NoJob
    <3>4. "resolve" \notin Kind
      BY ContainerAssumption DEF Providing
    <3>5. CASE CallEnter(t)
      BY <3>2, <3>5 DEF CallEnter
    <3>6. CASE \E n \in Name : \E d \in Decorates[n] : CallDecorate(t, n, d)
      BY <3>3, <3>6 DEF CallDecorate
    <3>7. CASE \E n \in Generic : CallAddTemplate(t, n)
      <4>1. PICK n \in Generic : Call(t, "begin", Registration("open", n, 0, FALSE))
        BY <3>7 DEF CallAddTemplate
      <4>2. Registration("open", n, 0, FALSE).kind = "open"
        BY <3>1
      <4> QED BY <4>1, <4>2
    <3>8. CASE \E kind \in Kind, n \in Name, deep \in BOOLEAN : CallAdd(t, kind, n, deep)
      BY <3>1, <3>4, <3>8 DEF CallAdd
    <3> QED BY <1>3, <3>5, <3>6, <3>7, <3>8 DEF Register
  <2>2. job' = [job EXCEPT ![t] = work]
    BY <2>1 DEF Call
  <2> QED BY <1>1, <1>2, <2>1, <2>2
<1>4. CASE \E n \in Name : CallResolve(t, n)
  BY <1>1, <1>4, CallInforms
<1>5. CASE ExitContainer(t)
  <2>1. pc[t] = "idle" /\ job' = job
    BY <1>5 DEF ExitContainer, threads
  <2> QED BY <1>1, <1>2, <2>1 DEF AnswersInv
<1>6. CASE Ends(t)
  <2>1. job'[t].kind = "none"
    BY <1>1, <1>6, EndMoves, NoJobFact DEF Ends
  <2> QED BY <1>2, <2>1
<1>7. CASE Step(t) /\ Goes(t)
  <2>1. Lone(t)
    <3>1. job[t].kind = "resolve"
      <4>1. PICK j : j.kind = job[t].kind /\ job' = [job EXCEPT ![t] = j]
        BY <1>7 DEF Goes
      <4> QED BY <1>1, <1>2, <4>1
    <3>2. alone[t]
      BY <1>2, <1>7 DEF Goes
    <3>3. ~torn
      BY <1>2, TornStays
    <3> QED BY <3>1, <3>2, <3>3 DEF Lone
  <2>2. pc'[t] # "idle"
    BY <1>1, <1>7, PcMoves DEF Goes
  <2>3. CASE Entry(t) \/ Compile(t) \/ ReadRevision(t) \/ EnsureAutoregistration(t)
    BY <2>1, <2>3, EntryInforms, CompileInforms, ReadInforms, EnsureInforms
  <2>4. CASE FindTarget(t) \/ Begin(t) \/ Body(t) \/ Finalize(t) \/ Commit(t)
    BY <2>1, <2>4, TargetInforms, BeginInforms, BodyInforms, FinalizeInforms, CommitInforms
  <2>5. CASE Missing(t)
    <3>1. CASE strict \/ job[t].retried
      <4>1. Ends(t)
        BY <2>5, <3>1 DEF Missing, Ends
      <4> QED BY <1>6, <4>1
    <3>2. CASE ~(strict \/ job[t].retried)
      BY <2>1, <2>5, <3>2, MissingInforms
    <3> QED BY <3>1, <3>2
  <2>6. CASE CompareRevision(t)
    <3>1. CASE GraphChanged(t)
      BY <2>1, <2>6, <3>1, CompareInforms
    <3>2. CASE ~GraphChanged(t)
      <4>1. Ends(t)
        BY <2>6, <3>2 DEF CompareRevision, Ends
      <4> QED BY <1>6, <4>1
    <3> QED BY <3>1, <3>2
  <2>7. CASE BodyFails(t) \/ Rollback(t) \/ CompileFails(t) \/ Known(t) \/ Materialize(t) \/ Refuse(t)
             \/ EnterContainer(t)
    <3>1. Ends(t)
      BY <2>7 DEF Ends, BodyFails, Rollback, CompileFails, Known, Materialize, Refuse, EnterContainer
    <3> QED BY <1>6, <3>1
  <2> QED BY <1>7, <2>3, <2>4, <2>5, <2>6, <2>7 DEF Step
<1>8. CASE Begins(t)
  <2>1. PICK label, work : Call(t, label, work)
    BY <1>8 DEF Begins
  <2>2. pc[t] = "idle"
    BY <2>1 DEF Call
  <2>3. ~Step(t)
    BY <2>2 DEF Step, FindTarget, Begin, Body, BodyFails, Finalize, Commit, Rollback, Entry, Compile,
                CompileFails, Known, Materialize, Refuse, Missing, Misses, ReadRevision,
                EnsureAutoregistration, CompareRevision, EnterContainer
  <2> QED BY <1>3, <1>4, <1>5, <2>3 DEF ThreadStep
<1> QED BY <1>3, <1>4, <1>5, <1>6, <1>7, <1>8, StepKinds DEF ThreadStep

LEMMA SearchInit == Init => SearchInv
<1> SUFFICES ASSUME Init PROVE SearchInv
  OBVIOUS
<1>1. /\ job = [t \in Thread |-> NoJob] /\ answer = [t \in Thread |-> NoAnswer]
      /\ alone = [t \in Thread |-> TRUE] /\ materialized = {}
  BY DEF Init
<1>2. \A t \in Thread : job[t].kind = "none"
  BY <1>1, NoJobFact
<1>3. alone \in [Thread -> BOOLEAN] /\ DOMAIN answer = Thread
  BY <1>1
<1>4. AnswersInv
  BY <1>2, <1>3 DEF AnswersInv
<1>5. \A t \in Thread : ~Lone(t)
  BY <1>2 DEF Lone
<1> QED BY <1>1, <1>4, <1>5 DEF SearchInv

LEMMA SearchStep ==
    ASSUME IInv, IInv', SearchInv, [Next]_vars
    PROVE  SearchInv'
<1>1. ASSUME NEW o \in Thread, ThreadStep(o)
      PROVE  SearchInv'
  <2>1. AnswersInv' /\ materialized' \subseteq graph'.open
    BY <1>1, StepOthers, MaterializedOpen
  <2>2. ASSUME NEW t \in Thread, Lone(t)'
        PROVE  Informed(t)'
    <3>1. CASE t = o
      BY <1>1, <2>2, <3>1, OwnInforms
    <3>2. CASE t # o
      BY <1>1, <2>2, <3>2, OthersInform
    <3> QED BY <3>1, <3>2
  <2> QED BY <2>1, <2>2 DEF SearchInv
<1>2. CASE UNCHANGED vars
  BY <1>2 DEF vars, deployment, state, threads, SearchInv, AnswersInv, Lone, Informed
<1> QED BY <1>1, <1>2 DEF Next, Done

LEMMA Searched == Spec => []SearchInv
BY SearchInit, SearchStep, Inductive, PTL DEF Spec

\* The steps that end a resolution without its dependency.
LEMMA ReportsMissing ==
    ASSUME IInv, SearchInv, NEW o \in Thread, ThreadStep(o), NEW t \in Thread,
           job[t].kind = "resolve", answer'[t].outcome = "missing"
    PROVE  /\ t = o
           /\ CompileFails(t) \/ (Missing(t) /\ (strict \/ job[t].retried))
              \/ (CompareRevision(t) /\ ~GraphChanged(t))
<1>1. DOMAIN answer = Thread /\ answer[t] = NoAnswer
  BY DEF SearchInv, AnswersInv
<1>2. NoAnswer.outcome # "missing" /\ \A out, n, id, spec : Answer(out, n, id, spec).outcome = out
  BY DEF NoAnswer, Answer
<1>3. answer'[t] # NoAnswer
  BY <1>2
<1>4. t = o
  BY <1>1, <1>3, StepOthers DEF Alongside
<1>5. ~Goes(t)
  BY <1>1, <1>3 DEF Goes
<1>6. ASSUME NEW a, End(t, a)
      PROVE  answer'[t] = a
  BY <1>1, <1>6 DEF End
<1>7. CASE Begins(t)
  <2>1. answer' = [answer EXCEPT ![t] = NoAnswer]
    BY <1>7 DEF Begins, Call
  <2> QED BY <1>1, <1>3, <2>1
<1>8. CASE ExitContainer(t)
  <2>1. answer' = answer
    BY <1>8 DEF ExitContainer, threads
  <2> QED BY <1>1, <1>3, <2>1
<1>9. CASE Register(t) \/ (\E n \in Name : CallResolve(t, n)) \/ CallEnter(t)
  <2>1. Begins(t)
    BY <1>9 DEF Begins, Register, CallAdd, CallAddTemplate, CallDecorate, CallResolve, CallEnter
  <2> QED BY <1>7, <2>1
<1>10. CASE BodyFails(t) \/ Rollback(t) \/ Commit(t) \/ Known(t) \/ Materialize(t) \/ Refuse(t)
  <2>1. PICK a : End(t, a) /\ a.outcome # "missing"
    <3>1. CASE BodyFails(t)
      BY <1>2, <3>1 DEF BodyFails
    <3>2. CASE Rollback(t)
      BY <1>2, <3>2 DEF Rollback
    <3>3. CASE Commit(t)
      <4>1. End(t, Answer("registered", job[t].name, 0, None)) \/ answer' = answer
        BY <3>3 DEF Commit
      <4> QED BY <1>1, <1>2, <1>3, <4>1
    <3>4. CASE Known(t)
      <4>1. PICK out, n, id, spec : out \in {"mismatch", "ok"} /\ End(t, Answer(out, n, id, spec))
        BY <3>4 DEF Known, ScopeOutcome
      <4> QED BY <1>2, <4>1
    <3>5. CASE Materialize(t)
      BY <1>2, <3>5 DEF Materialize
    <3>6. CASE Refuse(t)
      BY <1>2, <3>6 DEF Refuse
    <3> QED BY <1>10, <3>1, <3>2, <3>3, <3>4, <3>5, <3>6
  <2> QED BY <1>6, <2>1
<1>11. CASE EnterContainer(t)
  <2>1. End(t, NoAnswer)
    BY <1>11 DEF EnterContainer
  <2> QED BY <1>3, <1>6, <2>1
<1>12. CASE Missing(t) /\ ~(strict \/ job[t].retried)
  <2>1. answer' = answer
    BY <1>12 DEF Missing
  <2> QED BY <1>1, <1>3, <2>1
<1>13. CASE CompareRevision(t) /\ GraphChanged(t)
  <2>1. answer' = answer
    BY <1>13 DEF CompareRevision
  <2> QED BY <1>1, <1>3, <2>1
<1>14. CASE FindTarget(t) \/ Begin(t) \/ Body(t) \/ Finalize(t) \/ Entry(t) \/ Compile(t) \/ ReadRevision(t)
            \/ EnsureAutoregistration(t)
  <2>1. answer' = answer
    BY <1>14 DEF FindTarget, Begin, Body, Finalize, Entry, Compile, ReadRevision, EnsureAutoregistration
  <2> QED BY <1>1, <1>3, <2>1
<1> QED BY <1>4, <1>8, <1>9, <1>10, <1>11, <1>12, <1>13, <1>14 DEF ThreadStep, Step

(* A thread that no registration of another interfered with is told that   *)
(* its dependency is missing only if that cannot be provided, or if some   *)
(* registered provider asks for what cannot: resolve and                   *)
(* _ensure_autoregistration register it and look again, whatever closed    *)
(* keys the other threads make meanwhile.                                  *)
THEOREM MissingJustified == Spec => MissingIsJustified
<1> DEFINE Justified(t) ==
      job[t].kind = "resolve" /\ answer'[t].outcome = "missing" /\ alone[t] /\ ~torn
        => ~Providable(graph, job[t].name) \/ ~Complete(Materialized(graph))
<1>1. ASSUME IInv, SearchInv, [Next]_vars
      PROVE  [\A t \in Thread : Justified(t)]_vars
  <2>1. ASSUME NEW o \in Thread, ThreadStep(o), NEW t \in Thread
        PROVE  Justified(t)
    <3> SUFFICES ASSUME job[t].kind = "resolve", answer'[t].outcome = "missing", alone[t], ~torn
                 PROVE  ~Providable(graph, job[t].name) \/ ~Complete(Materialized(graph))
      OBVIOUS
    <3>1. Lone(t)
      BY DEF Lone
    <3>2. /\ job[t] \in Jobs /\ Searching(job[t], pc[t], using[t], graph, materialized, revision)
          /\ pc[t] \in {"ask", "compare"} => job[t].name \in Name
      <4>1. {"ask", "compare"} \subseteq Labels \ {"idle", "enter"}
        BY DEF Labels
      <4> QED BY <1>1, <3>1, <4>1, LoneFacts
    <3>3. CASE CompileFails(t)
      <4>1. PICK h : h = Materialized(graph)
        OBVIOUS
      <4>2. graph' = h /\ ~Complete(graph')
        BY <3>3, <4>1 DEF CompileFails, MaterializeRegistered
      <4> QED BY <4>1, <4>2
    <3>4. CASE Missing(t) /\ (strict \/ job[t].retried)
      <4>1. pc[t] = "ask" /\ ~IsRegistered(using[t].graph, job[t].name)
        BY <3>4 DEF Missing, Misses
      <4>2. Unserved(graph, job[t].name) /\ Tried(using[t].graph, job[t])
        BY <1>1, <3>1, <3>4, MissingUnserved
      <4>3. strict \/ job[t].name \notin Concrete
        BY <3>4, <4>1, <4>2 DEF Tried
      <4> QED BY <3>2, <4>1, <4>2, <4>3, Unprovidable
    <3>5. CASE CompareRevision(t) /\ ~GraphChanged(t)
      <4>1. pc[t] = "compare" /\ revision = job[t].seen
        BY <3>5 DEF CompareRevision, GraphChanged
      <4>2. job[t].name \notin Concrete /\ Unserved(graph, job[t].name)
        <5>1. ~(job[t].seen < revision)
          BY <3>2, <4>1 DEF Jobs
        <5> QED BY <3>2, <4>1, <5>1 DEF Searching
      <4> QED BY <3>2, <4>1, <4>2, Unprovidable
    <3> QED BY <1>1, <2>1, <3>3, <3>4, <3>5, ReportsMissing
  <2> QED BY <1>1, <2>1 DEF Next, Done
<1>2. (\A t \in Thread : Justified(t)) =>
        \A t \in Thread :
            /\ job[t].kind = "resolve" /\ answer'[t].outcome = "missing"
            /\ alone[t] /\ ~torn
            => ~Providable(graph, job[t].name) \/ ~Complete(Materialized(graph))
  OBVIOUS
<1> QED BY <1>1, <1>2, Inductive, Searched, PTL DEF Spec, MissingIsJustified
=============================================================================
