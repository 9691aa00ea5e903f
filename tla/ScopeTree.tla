----------------------------- MODULE ScopeTree -----------------------------
(***************************************************************************)
(* The tree of scope resolvers: what enter_scope creates and refuses, the  *)
(* references to enclosing scopes a resolver is given when it is created,  *)
(* what leaving a block closes, and how a resolve method finds the scope   *)
(* of its slot through those references (diwire/_internal/resolvers/       *)
(* assembly/compiler.py).                                                  *)
(*                                                                         *)
(* A node is an opened resolver, node 1 the root resolver; node 0 stands   *)
(* for _MISSING_RESOLVER.  Which levels may be skipped is a choice of the  *)
(* application's scope collection, made once.                              *)
(***************************************************************************)
EXTENDS Naturals, Sequences, FiniteSets, Functions

CONSTANTS
    Levels,      \* the levels of the scope collection, the root level first
    OtherLevel,  \* a level that is not one of them
    Default,     \* the argument of enter_scope()
    Slot,        \* provider slots
    Args,        \* Args[s]: the slots of s's provider arguments, in order
    SlotLevel,   \* scope level each slot is registered at
    Cached,      \* slots that are not TRANSIENT
    Specialised, \* slots with a specialised method at their own level
    MaxNodes,    \* bound: resolvers opened
    MaxBlocks    \* bound: `with` blocks entered

RootLevel == CHOOSE l \in Levels : \A k \in Levels : l <= k

ASSUME TreeAssumption ==
    /\ Levels \subseteq Nat /\ Levels # {} /\ IsFiniteSet(Levels)
    /\ OtherLevel \in Nat \ Levels /\ Default \notin Nat
    /\ SlotLevel \in [Slot -> Levels] /\ Args \in [Slot -> Seq(Slot)]
    /\ IsFiniteSet(Slot) /\ Cached \subseteq Slot /\ Specialised \subseteq Slot

\* What the planner checks: no slot depends on itself, at any distance.
Ranks(rank) == \A s \in Slot : \A i \in DOMAIN Args[s] : rank[Args[s][i]] < rank[s]

ASSUME AcyclicAssumption == \E rank \in [Slot -> 0..Cardinality(Slot)] : Ranks(rank)

VARIABLES
    skippable, \* levels that enter_scope() passes over
    node,      \* node[n]: level, parent, references, owned resolvers, `_active`
    block      \* block[k]: the resolver a `with` block was given, and if it was left

vars == <<skippable, node, block>>

Missing == 0
Root == 1
Node == DOMAIN node

NoReferences == [l \in Levels |-> Missing]

Init ==
    /\ skippable \in SUBSET (Levels \ {RootLevel})
    /\ node = <<[level |-> RootLevel, parent |-> Missing,
                 ref |-> [NoReferences EXCEPT ![RootLevel] = Root],
                 owned |-> <<>>, active |-> TRUE]>>
    /\ block = <<>>

-----------------------------------------------------------------------------
(* next_scope_options_by_level *)
Deeper(l) == {k \in Levels : k > l}
Shallowest(levels) == CHOOSE l \in levels : \A k \in levels : l <= k

ImmediateNext(l) == Shallowest(Deeper(l))

DefaultNext(l) ==
    IF Deeper(l) \ skippable = {} THEN ImmediateNext(l) ELSE Shallowest(Deeper(l) \ skippable)

NextOnTheWay_Direct(l, target) == target   \* mutant: one transition, whatever is between

\* The step of _build_transition_plan_to_target.
NextOnTheWay(l, target) ==
    IF ImmediateNext(l) # target /\ DefaultNext(l) <= target
    THEN DefaultNext(l) ELSE ImmediateNext(l)

\* plan[l]: the levels passed through from l (not included) to the target.
TransitionPlan(from, target) ==
    LET plan[l \in {k \in Levels : from <= k /\ k <= target}] ==
            IF l = target THEN <<>>
            ELSE LET next == NextOnTheWay(l, target) IN <<next>> \o plan[next]
    IN  plan[from]

Open_Forgetful(nodes, parent, level) ==   \* mutant: only the parent's own level is inherited
    LET self == Len(nodes) + 1
        ref(l) == IF l = RootLevel THEN Root
                  ELSE IF l = level THEN self
                  ELSE IF l = nodes[parent].level THEN parent ELSE Missing
    IN  Append(nodes, [level |-> level, parent |-> parent, ref |-> [l \in Levels |-> ref(l)],
                       owned |-> <<>>, active |-> TRUE])

(* The constructor: a new resolver of that level, child of `parent`, and   *)
(* what it finds for its attribute of each level.                          *)
Open(nodes, parent, level) ==
    LET self == Len(nodes) + 1
        ref(l) == IF l = RootLevel THEN Root
                  ELSE IF l = level THEN self
                  ELSE IF l > level \/ nodes[parent].level = RootLevel THEN Missing
                  ELSE IF l = nodes[parent].level THEN parent ELSE nodes[parent].ref[l]
    IN  Append(nodes, [level |-> level, parent |-> parent, ref |-> [l \in Levels |-> ref(l)],
                       owned |-> <<>>, active |-> TRUE])

-----------------------------------------------------------------------------
(* enter_scope on resolver n.  The resolver handed out is the last of the  *)
(* chain, each a child of the one before, and owns the others.             *)
Target(n, scope) == IF scope = Default THEN DefaultNext(node[n].level) ELSE scope

\* opening[i]: the resolvers after the first i transitions of the plan.
Opening(nodes, n, plan) ==
    LET opening[i \in 0..Len(plan)] ==
            IF i = 0 THEN nodes
            ELSE LET before == opening[i - 1]
                 IN  Open(before, IF i = 1 THEN n ELSE Len(before), plan[i])
    IN  opening[Len(plan)]

Opened(nodes, n, target) == Opening(nodes, n, TransitionPlan(nodes[n].level, target))

Chain_Unowned(n, target) ==   \* mutant: the first resolver of the chain has no owner
    LET nodes == Opened(node, n, target)
    IN  [nodes EXCEPT ![Len(nodes)].owned =
            [i \in 1..(Len(nodes) - Len(node) - 2) |-> Len(node) + 1 + i]]

Chain(n, target) ==
    LET nodes == Opened(node, n, target)
    IN  [nodes EXCEPT ![Len(nodes)].owned =
            [i \in 1..(Len(nodes) - Len(node) - 1) |-> Len(node) + i]]

Enter(n, scope) ==
    /\ Len(block) < MaxBlocks
    /\ node[n].active /\ Deeper(node[n].level) # {}
    /\ LET target == Target(n, scope)
       IN  /\ target \in Deeper(node[n].level)
           /\ node' = Chain(n, target)
           /\ Len(node') <= MaxNodes
           /\ block' = Append(block, [handle |-> Len(node'), left |-> FALSE])
    /\ UNCHANGED skippable

\* Entering the level one is at gives the same resolver again.
EnterSame(n) ==
    /\ Len(block) < MaxBlocks
    /\ node[n].active /\ Deeper(node[n].level) # {}
    /\ block' = Append(block, [handle |-> n, left |-> FALSE])
    /\ UNCHANGED <<skippable, node>>

\* The block is left: its resolver closes, and the ones it owns.
Leave(k) ==
    /\ ~block[k].left
    /\ LET h == block[k].handle
           closed == {h} \cup Range(node[h].owned)
       IN  node' = [n \in Node |-> [node[n] EXCEPT !.active = @ /\ n \notin closed]]
    /\ block' = [block EXCEPT ![k].left = TRUE]
    /\ UNCHANGED skippable

\* Outside all blocks the application may do nothing more.
Done == (\A k \in DOMAIN block : block[k].left) /\ UNCHANGED vars

Next ==
    \/ \E n \in Node, scope \in Levels \cup {Default, OtherLevel} : Enter(n, scope)
    \/ \E n \in Node : EnterSame(n)
    \/ \E k \in DOMAIN block : Leave(k)
    \/ Done

Spec == Init /\ [][Next]_vars

-----------------------------------------------------------------------------
(* Resolution of a slot on a resolver: it ends at the resolver on which    *)
(* the provider is called ("ok"), with a DIWireScopeMismatchError          *)
(* ("mismatch"), or with an attribute error on _MISSING_RESOLVER.          *)
MaxRequiredLevel[s \in Slot] ==
    LET levels == {SlotLevel[s]} \cup {MaxRequiredLevel[Args[s][i]] : i \in DOMAIN Args[s]}
    IN  CHOOSE l \in levels : \A k \in levels : k <= l

\* A slot whose method does its work on the resolver of its own level.
OwnLevelOnly(s) == s \in Cached \/ MaxRequiredLevel[s] <= SlotLevel[s]

Outcome(o, n) == [outcome |-> o, at |-> n]

ReadsReference_Shallow(s, n, d) ==   \* mutant: also for what needs a deeper level
    s \in Specialised /\ SlotLevel[s] = node[n].level /\ SlotLevel[d] < node[n].level

(* The arguments of s on resolver n.  A specialised method reads those of  *)
(* a shallower level through its own reference and never compares it with  *)
(* _MISSING_RESOLVER; all others call the argument's method on n.          *)
ReadsReference(s, n, d) ==
    /\ s \in Specialised /\ SlotLevel[s] = node[n].level
    /\ SlotLevel[d] < node[n].level /\ MaxRequiredLevel[d] <= SlotLevel[d]

Resolve[s \in Slot] ==
    LET arg(n, d) ==
            IF ~ReadsReference(s, n, d) THEN Resolve[d][n]
            ELSE LET owner == node[n].ref[SlotLevel[d]]
                 IN  IF owner = Missing THEN Outcome("attribute", Missing) ELSE Resolve[d][owner]
        build(n) ==
            LET args == [i \in DOMAIN Args[s] |-> arg(n, Args[s][i])]
                failed == {i \in DOMAIN args : args[i].outcome # "ok"}
            IN  IF failed = {} THEN Outcome("ok", n)
                ELSE Outcome(args[Shallowest(failed)].outcome, Missing)
    IN  [n \in Node |->
            LET owner == node[n].ref[SlotLevel[s]]
            IN  IF SlotLevel[s] > node[n].level \/ owner = Missing
                THEN Outcome("mismatch", Missing)
                ELSE build(IF OwnLevelOnly(s) THEN owner ELSE n)]

-----------------------------------------------------------------------------
(* The open generic wrappers around the resolvers (open_generics.py) work  *)
(* out the way to the target themselves and enter one scope of the wrapped *)
(* resolver at a time.                                                     *)
WrapperNext_Strict(l, target) ==   \* mutant: the target itself is not a default step
    LET immediate == Shallowest(Deeper(l))  mandatory == Deeper(l) \ skippable
        default == IF mandatory = {} THEN immediate ELSE Shallowest(mandatory)
    IN  IF immediate # target /\ default < target THEN default ELSE immediate

WrapperNext(l, target) ==
    LET immediate == Shallowest(Deeper(l))  mandatory == Deeper(l) \ skippable
        default == IF mandatory = {} THEN immediate ELSE Shallowest(mandatory)
    IN  IF immediate # target /\ default <= target THEN default ELSE immediate

WrapperPath(from, target) ==
    LET path[l \in {k \in Levels : from <= k /\ k <= target}] ==
            IF l = target THEN <<>>
            ELSE LET next == WrapperNext(l, target) IN <<next>> \o path[next]
    IN  path[from]

WrapperOpened(n, target) ==
    LET path == WrapperPath(node[n].level, target)
        entered[i \in 0..Len(path)] ==
            IF i = 0 THEN node
            ELSE LET before == entered[i - 1]
                 IN  Opened(before, IF i = 1 THEN n ELSE Len(before), path[i])
    IN  entered[Len(path)]

-----------------------------------------------------------------------------
TypeOK ==
    /\ skippable \subseteq Levels
    /\ \A n \in Node :
        node[n] \in [level : Levels, parent : 0..Len(node), ref : [Levels -> 0..Len(node)],
                     owned : Seq(Node), active : BOOLEAN]
    /\ block \in Seq([handle : Node, left : BOOLEAN])

\* The resolver of level l that n was opened in, along the parents; 0: none.
Enclosing(n, l) ==
    LET up[m \in 0..Len(node)] ==
            IF m = Missing THEN Missing
            ELSE IF node[m].level = l THEN m ELSE up[node[m].parent]
    IN  up[n]

(* What a resolver knows of the scopes around it is what it was opened in: *)
(* at every level the enclosing resolver, if there is one, never a sibling *)
(* nor a deeper one.  SlotResolution takes this for granted.               *)
ReferencesEnclose ==
    \A n \in Node, l \in Levels : node[n].ref[l] = Enclosing(n, l)

(* However deep the scope that is entered, at once or in steps, no level   *)
(* that may not be skipped is missing on the way to it (docs/core/         *)
(* scopes.rst: enter_scope() goes to the next non-skippable level).        *)
MandatoryLevelsOpen ==
    \A n \in Node : \A l \in Levels \ skippable :
        l <= node[n].level => node[n].ref[l] # Missing

(* When the application has left all its blocks, all the resolvers opened  *)
(* for them are closed, those opened on the way to a deeper level too.     *)
AllClosed ==
    (\A k \in DOMAIN block : block[k].left) => \A n \in Node \ {Root} : ~node[n].active

(* A slot can be resolved exactly when the scope it is registered at is    *)
(* around the resolver, and so are the scopes its arguments need seen      *)
(* from where its provider is called; it is then called on the enclosing   *)
(* resolver of its level, or on the resolver asked if it is a transient    *)
(* that needs something deeper.                                            *)
Provided[s \in Slot] ==
    [n \in Node |->
        LET home == IF OwnLevelOnly(s) THEN Enclosing(n, SlotLevel[s]) ELSE n
        IN  IF /\ Enclosing(n, SlotLevel[s]) # Missing
               /\ \A i \in DOMAIN Args[s] : Provided[Args[s][i]][home] # Missing
            THEN home ELSE Missing]

ResolvesWhereOpen == \A s \in Slot, n \in Node : Resolve[s][n].at = Provided[s][n]

(* An application with open generics enters the same scopes as one without *)
(* them: the wrappers open the resolvers that the wrapped one would open   *)
(* at once, with the same references.                                      *)
WrappersOpenTheSame ==
    \A n \in Node, target \in Levels :
        target > node[n].level => WrapperOpened(n, target) = Opened(node, n, target)

(* docs/core/errors.rst:23, "raised when resolution requires a scope that  *)
(* is not currently active": no other error is raised for that.            *)
MismatchReported == \A s \in Slot, n \in Node : Resolve[s][n].outcome \in {"ok", "mismatch"}
=============================================================================
