-------------------------- MODULE Dispatch_proofs --------------------------
(***************************************************************************)
(* Proofs about the two ways to remember how a dependency is dispatched,   *)
(* for any number of callers, child wrappers and dependencies: what a hit  *)
(* of a resolver's memo calls (DispatchMemo), and why the methods the open *)
(* generic wrappers remember are the right ones for synchronous callers,   *)
(* and for the tasks of one event loop (WrapperDispatch).                  *)
(***************************************************************************)
EXTENDS DispatchMemo, WrapperDispatch, TLAPS

-----------------------------------------------------------------------------
(* The memo of a generated resolver.                                       *)

(* Beyond the test of the inlined dependency a caller has asked for        *)
(* another one, and it writes the memo only for a TRANSIENT.               *)
AskedPlaces ==
    \A c \in Caller :
        /\ pc[c] # "idle" => asked[c] \in Dependency
        /\ pc[c] \in {"hit", "dispatch", "write"} => asked[c] \notin Fused
        /\ pc[c] \in {"hit", "write"} => asked[c] \in Transient

MemoTypeInv == MemoTypeOK /\ AskedPlaces

LEMMA MemoTypeInitial == MemoInit => MemoTypeInv
BY MemoAssumption, CallersAssumption DEF MemoInit, MemoTypeInv, MemoTypeOK, AskedPlaces

LEMMA MemoTypeStep ==
    ASSUME MemoTypeInv, [MemoNext]_memoVars
    PROVE  MemoTypeInv'
<1> USE MemoAssumption, CallersAssumption DEF MemoTypeInv, MemoTypeOK, AskedPlaces
<1>1. ASSUME NEW c \in Caller, MemoStep(c), UNCHANGED freeThreaded
      PROVE  MemoTypeInv'
  <2>1. ASSUME NEW d \in Dependency, Resolve(c, d)
        PROVE  MemoTypeInv'
    BY <1>1, <2>1 DEF Resolve, Goto, memo
  <2>2. CASE Inlined(c)
    BY <1>1, <2>2 DEF Inlined, Choose, Goto
  <2>3. CASE Hit(c) \/ ReadMethod(c)
    BY <1>1, <2>3 DEF Hit, Hits, ReadMethod, Choose, Goto, memo
  <2>4. CASE CompareHit(c) \/ Miss(c)
    BY <1>1, <2>4 DEF CompareHit, Hits, Miss, Goto, memo
  <2>5. CASE DispatchCached(c)
    BY <1>1, <2>5 DEF DispatchCached, Choose, Goto, memo
  <2>6. CASE Remember(c)
    BY <1>1, <2>6 DEF Remember, Remembers, Choose, Goto
  <2>7. CASE WriteDependency(c)
    BY <1>1, <2>7 DEF WriteDependency, Remembers, Goto
  <2>8. CASE WriteMethod(c)
    BY <1>1, <2>8 DEF WriteMethod, Choose, Goto
  <2>9. CASE ReturnCall(c)
    BY <1>1, <2>9 DEF ReturnCall, Goto, memo
  <2> QED BY <1>1, <2>1, <2>2, <2>3, <2>4, <2>5, <2>6, <2>7, <2>8, <2>9 DEF MemoStep
<1>2. CASE UNCHANGED memoVars
  BY <1>2 DEF memoVars, memo
<1> QED BY <1>1, <1>2 DEF MemoNext, MemoDone

(* Every variable keeps its type: no fused or cached dependency's method   *)
(* ever gets into the memo.                                                *)
THEOREM MemoTypeCorrect == MemoSpec => []MemoTypeOK
<1>1. MemoTypeInv => MemoTypeOK
  BY DEF MemoTypeInv
<1> QED BY <1>1, MemoTypeInitial, MemoTypeStep, PTL DEF MemoSpec

-----------------------------------------------------------------------------
(* With the GIL the two fields name one dependency, unless the first holds *)
(* the inlined one, which no hit compares with.                            *)
MemoWhole == ~freeThreaded /\ lastDependency \notin Fused => lastMethod = lastDependency

(* Free-threaded steps are only taken on a free-threaded build.            *)
GilSteps == ~freeThreaded => \A c \in Caller : pc[c] \notin {"hit", "write"}

AnswerInv == MemoTypeInv /\ MemoWhole /\ GilSteps /\ AnswersWithGil /\ AnswersOutsideMemo

LEMMA AnswerInitial == MemoInit => AnswerInv
BY MemoTypeInitial
   DEF MemoInit, AnswerInv, MemoWhole, GilSteps, AnswersWithGil, AnswersTheQuestion, AnswersOutsideMemo

LEMMA AnswerStep ==
    ASSUME AnswerInv, [MemoNext]_memoVars
    PROVE  AnswerInv'
<1>1. MemoTypeInv'
  BY MemoTypeStep DEF AnswerInv
<1> USE <1>1, MemoAssumption, CallersAssumption
    DEF AnswerInv, MemoTypeInv, MemoTypeOK, AskedPlaces, MemoWhole, GilSteps, AnswersWithGil,
        AnswersTheQuestion, AnswersOutsideMemo
<1>2. ASSUME NEW c \in Caller, MemoStep(c), UNCHANGED freeThreaded
      PROVE  AnswerInv'
  <2>1. ASSUME NEW d \in Dependency, Resolve(c, d)
        PROVE  AnswerInv'
    BY <1>2, <2>1 DEF Resolve, Goto, memo
  <2>2. CASE Inlined(c)
    BY <1>2, <2>2 DEF Inlined, Choose, Goto
  <2>3. CASE Hit(c)
    BY <1>2, <2>3 DEF Hit, Hits, Choose, Goto, memo
  <2>4. CASE ReadMethod(c)
    BY <1>2, <2>4 DEF ReadMethod, Choose, Goto, memo
  <2>5. CASE CompareHit(c) \/ Miss(c)
    BY <1>2, <2>5 DEF CompareHit, Hits, Miss, Goto, memo
  <2>6. CASE DispatchCached(c)
    BY <1>2, <2>6 DEF DispatchCached, Remembers, Choose, Goto, memo
  <2>7. CASE Remember(c)
    BY <1>2, <2>7 DEF Remember, Remembers, Choose, Goto
  <2>8. CASE WriteDependency(c)
    BY <1>2, <2>8 DEF WriteDependency, Remembers, Goto
  <2>9. CASE WriteMethod(c)
    BY <1>2, <2>9 DEF WriteMethod, Choose, Goto
  <2>10. CASE ReturnCall(c)
    BY <1>2, <2>10 DEF ReturnCall, Goto, memo
  <2> QED
    BY <1>2, <2>1, <2>2, <2>3, <2>4, <2>5, <2>6, <2>7, <2>8, <2>9, <2>10 DEF MemoStep
<1>3. CASE UNCHANGED memoVars
  BY <1>3 DEF memoVars, memo
<1> QED BY <1>2, <1>3 DEF MemoNext, MemoDone

(* With the GIL every caller ends up in the method of the dependency it    *)
(* asked for, whatever other threads resolve on the same resolver.         *)
THEOREM Answers == MemoSpec => []AnswersWithGil
<1>1. AnswerInv => AnswersWithGil
  BY DEF AnswerInv
<1> QED BY <1>1, AnswerInitial, AnswerStep, PTL DEF MemoSpec

(* Without it so does every caller of a dependency that is cached or       *)
(* inlined: its answer never goes through the memo.                        *)
THEOREM AnswersElsewhere == MemoSpec => []AnswersOutsideMemo
<1>1. AnswerInv => AnswersOutsideMemo
  BY DEF AnswerInv
<1> QED BY <1>1, AnswerInitial, AnswerStep, PTL DEF MemoSpec

-----------------------------------------------------------------------------
(* The caches of the open generic wrappers.                                *)

(* Where a caller can be: a dispatch is asked for something, only an       *)
(* asynchronous one on a child looks at a hot pair of aresolve, and who is *)
(* inside the lock holds it for a dependency with a slot.                  *)
Places ==
    \A c \in Caller :
        /\ pc[c] # "idle" => asked[c] \in Dependency
        /\ pc[c] = "resolve" => ~IsAsync(c)
        /\ pc[c] \in {"aresolve", "hotdep", "hotfn", "hot"} => IsAsync(c)
        /\ pc[c] \in {"hotdep", "hotfn", "hot"} => on[c] \in Child
        /\ pc[c] \in Inside <=> locked = c
        /\ pc[c] \in Inside => asked[c] \in Slotted

TypeInv == TypeOK /\ Places

LEMMA TypeInitial == Init => TypeInv
BY DispatchAssumption, CallersAssumption
   DEF Init, TypeInv, TypeOK, Places, PairType, Pair, NoPair, Mode, Wrapper, Place, Inside, IsAsync

(* A dispatch that moves on to a label keeps the places, if the label is   *)
(* one where its caller may be.                                            *)
LEMMA Moved ==
    ASSUME TypeInv, NEW c \in Caller, NEW label \in Place, Goto(c, label), pc[c] # "idle",
           kind' = kind, on' = on, asked' = asked,
           label # "resolve",
           label \in {"aresolve", "hotdep", "hotfn", "hot"} => IsAsync(c) /\ on[c] \in Child,
           label \in Inside <=> locked' = c,
           label \in Inside => asked[c] \in Slotted,
           \A d \in Caller \ {c} : locked' = d <=> locked = d
    PROVE  /\ pc' \in [Caller -> Place]
           /\ Places'
<1>1. pc' \in [Caller -> Place] /\ pc'[c] = label /\ \A d \in Caller \ {c} : pc'[d] = pc[d]
  BY DEF Goto, TypeInv, TypeOK
<1>2. ASSUME NEW d \in Caller
      PROVE  /\ pc'[d] # "idle" => asked'[d] \in Dependency
             /\ pc'[d] = "resolve" => ~IsAsync(d)'
             /\ pc'[d] \in {"aresolve", "hotdep", "hotfn", "hot"} => IsAsync(d)'
             /\ pc'[d] \in {"hotdep", "hotfn", "hot"} => on'[d] \in Child
             /\ pc'[d] \in Inside <=> locked' = d
             /\ pc'[d] \in Inside => asked'[d] \in Slotted
  <2>1. CASE d = c  BY <1>1, <2>1 DEF TypeInv, Places, IsAsync
  <2>2. CASE d # c  BY <1>1, <2>2 DEF TypeInv, Places, IsAsync
  <2> QED BY <2>1, <2>2
<1> QED BY <1>1, <1>2 DEF Places

(* The caller who holds the lock is where it is held.                      *)
LEMMA Locked ==
    ASSUME TypeInv, NEW c \in Caller, NEW d \in Caller, pc[c] \in Inside
    PROVE  /\ locked = c
           /\ asked[c] \in Slotted
           /\ locked = d <=> c = d
BY DEF TypeInv, Places

LEMMA Chosen ==
    ASSUME TypeOK, NEW c \in Caller, NEW m \in Dependency \cup {None}, Choose(c, m)
    PROVE  method' \in [Caller -> Dependency \cup {None}] /\ Goto(c, "call")
<1>1. method' = [method EXCEPT ![c] = m] /\ method \in [Caller -> Dependency \cup {None}]
  BY DEF Choose, TypeOK
<1> QED BY <1>1 DEF Choose

(* Binding a method of a dependency with a slot.                           *)
LEMMA BoundMore ==
    ASSUME TypeOK, NEW m \in Mode, NEW w \in Wrapper, NEW d \in Slotted
    PROVE  [bound EXCEPT ![m][w] = @ \cup {d}] \in [Mode -> [Wrapper -> SUBSET Slotted]]
<1>1. bound[m][w] \cup {d} \in SUBSET Slotted
  BY DEF TypeOK
<1>2. [bound[m] EXCEPT ![w] = @ \cup {d}] \in [Wrapper -> SUBSET Slotted]
  BY <1>1 DEF TypeOK
<1> QED BY <1>2 DEF TypeOK

LEMMA TypeStep ==
    ASSUME TypeInv, [Next]_vars
    PROVE  TypeInv'
<1> USE DispatchAssumption, CallersAssumption DEF TypeInv, At, ModeOf, deployment
<1>1. ASSUME NEW w \in Child, EnterScope(w), UNCHANGED deployment
      PROVE  TypeInv'
  <2>1. /\ opened' = opened \cup {w} /\ childHot' = [childHot EXCEPT ![w] = snapshot]
        /\ UNCHANGED <<kind, oneLoop, functions, dispatched, hot, snapshot, asyncHot, inline, bound,
                       locked, pc, on, asked, method, calls>>
    BY <1>1 DEF EnterScope, SharedHotPair
  <2>2. opened' \subseteq Wrapper /\ Root \in opened'
    BY <2>1 DEF TypeOK, Wrapper
  <2>3. childHot' \in [Child -> PairType({None})]
    BY <2>1 DEF TypeOK
  <2>4. TypeOK'
    BY <2>1, <2>2, <2>3 DEF TypeOK
  <2>5. Places'
    BY <2>1 DEF Places, IsAsync
  <2> QED BY <2>4, <2>5
<1>2. ASSUME NEW c \in Caller, CallerStep(c), UNCHANGED deployment
      PROVE  TypeInv'
  <2>0. /\ kind[c] \in Mode /\ on[c] \in Wrapper /\ kind' = kind /\ oneLoop' = oneLoop
        /\ pc[c] # "idle" => asked[c] \in Dependency
        /\ locked \notin Caller => locked = None
    BY <1>2 DEF TypeOK, Places
  <2>1. ASSUME NEW w \in Wrapper, NEW d \in Dependency, Call(c, w, d)
        PROVE  TypeInv'
    <3>1. TypeOK'
      <4>1. pc' \in [Caller -> Place]
        BY <2>1 DEF Call, Goto, TypeOK, Place
      <4>2. on' \in [Caller -> Wrapper] /\ asked' \in [Caller -> Dependency \cup {None}]
        BY <2>1 DEF Call, TypeOK
      <4>3. calls' \in [Caller -> 0..MaxCalls]
        BY <2>1 DEF Call, TypeOK
      <4> QED BY <2>0, <2>1, <4>1, <4>2, <4>3 DEF Call, shared, TypeOK
    <3>2. Places'
      BY <2>0, <2>1 DEF Call, shared, TypeOK, Places, IsAsync, Goto, Inside
    <3> QED BY <3>1, <3>2
  <2>2. CASE ResolveSync(c)
    <3>0. /\ inline["sync"][on[c]] \in PairType({None}) /\ HotPair(on[c]) \in PairType({None})
          /\ pc[c] = "resolve"
      BY <2>0, <2>2 DEF ResolveSync, HotPair, NoPair, Pair, PairType, TypeOK, Mode, Wrapper
    <3>1. \/ \E m \in Dependency \cup {None} : Choose(c, m)
          \/ Goto(c, "slow") /\ UNCHANGED method
      BY <2>2, <3>0 DEF ResolveSync, PairType
    <3>2. (\E label \in {"call", "slow"} : Goto(c, label)) /\ method' \in [Caller -> Dependency \cup {None}]
      BY <3>1, Chosen DEF TypeOK
    <3>3. pc' \in [Caller -> Place] /\ Places'
      BY <2>0, <2>2, <3>0, <3>2, Moved DEF ResolveSync, shared, Places, Place, Inside
    <3> QED BY <2>0, <2>2, <3>2, <3>3 DEF ResolveSync, shared, TypeOK
  <2>3. CASE ResolveAsync(c)
    <3>0. inline["async"][on[c]] \in PairType({None}) /\ pc[c] = "aresolve" /\ IsAsync(c)
      <4>1. inline["async"] \in [Wrapper -> PairType({None})]
        BY DEF TypeOK, Mode
      <4>2. pc[c] = "aresolve"
        BY <2>3 DEF ResolveAsync
      <4> QED BY <2>0, <4>1, <4>2 DEF Places
    <3>1. \/ \E m \in Dependency \cup {None} : Choose(c, m)
          \/ Goto(c, "slow") /\ UNCHANGED method
          \/ on[c] \in Child /\ (\E label \in {"hotdep", "hot"} : Goto(c, label)) /\ UNCHANGED method
      BY <2>0, <2>3, <3>0 DEF ResolveAsync, PairType, Wrapper
    <3>2. /\ method' \in [Caller -> Dependency \cup {None}]
          /\ \E label \in {"call", "slow", "hotdep", "hot"} :
                /\ Goto(c, label)
                /\ label \in {"hotdep", "hot"} => on[c] \in Child
      BY <3>1, Chosen DEF TypeOK
    <3>3. pc' \in [Caller -> Place] /\ Places'
      BY <2>0, <2>3, <3>0, <3>2, Moved DEF ResolveAsync, shared, Places, Place, Inside
    <3> QED BY <2>0, <2>3, <3>2, <3>3 DEF ResolveAsync, shared, TypeOK
  <2>4. CASE TakeHotDependency(c)
    <3>0. pc[c] = "hotdep" /\ IsAsync(c) /\ on[c] \in Child /\ hot["async"] \in PairType({None})
      BY <2>0, <2>4 DEF TakeHotDependency, TypeOK, Places, Mode
    <3>1. /\ [asyncHot[on[c]] EXCEPT !.dep = hot["async"].dep] \in PairType({None, Unset})
          /\ asyncHot' = [asyncHot EXCEPT ![on[c]] = [asyncHot[on[c]] EXCEPT !.dep = hot["async"].dep]]
      BY <2>4, <3>0 DEF TakeHotDependency, TypeOK, PairType
    <3>2. asyncHot' \in [Child -> PairType({None, Unset})]
      BY <3>0, <3>1 DEF TypeOK
    <3>3. pc' \in [Caller -> Place] /\ Places'
      BY <2>0, <2>4, <3>0, Moved DEF TakeHotDependency, Places, Place, Inside
    <3> QED BY <2>0, <2>4, <3>2, <3>3 DEF TakeHotDependency, TypeOK
  <2>5. CASE TakeHotFunction(c)
    <3>0. pc[c] = "hotfn" /\ IsAsync(c) /\ on[c] \in Child /\ hot["async"] \in PairType({None})
      BY <2>0, <2>5 DEF TakeHotFunction, TypeOK, Places, Mode
    <3>1. /\ [asyncHot[on[c]] EXCEPT !.fn = hot["async"].fn] \in PairType({None, Unset})
          /\ asyncHot' = [asyncHot EXCEPT ![on[c]] = [asyncHot[on[c]] EXCEPT !.fn = hot["async"].fn]]
      BY <2>5, <3>0 DEF TakeHotFunction, TypeOK, PairType
    <3>2. asyncHot' \in [Child -> PairType({None, Unset})]
      BY <3>0, <3>1 DEF TypeOK
    <3>3. pc' \in [Caller -> Place] /\ Places'
      BY <2>0, <2>5, <3>0, Moved DEF TakeHotFunction, Places, Place, Inside
    <3> QED BY <2>0, <2>5, <3>2, <3>3 DEF TakeHotFunction, TypeOK
  <2>6. CASE UseHot(c)
    <3>0. pc[c] = "hot" /\ on[c] \in Child /\ asyncHot[on[c]] \in PairType({None, Unset})
      BY <2>0, <2>6 DEF UseHot, TypeOK, Places
    <3>1. \/ \E m \in Dependency \cup {None} : Choose(c, m)
          \/ Goto(c, "slow") /\ UNCHANGED method
      BY <2>6, <3>0 DEF UseHot, PairType
    <3>2. (\E label \in {"call", "slow"} : Goto(c, label)) /\ method' \in [Caller -> Dependency \cup {None}]
      BY <3>1, Chosen DEF TypeOK
    <3>3. pc' \in [Caller -> Place] /\ Places'
      BY <2>0, <2>6, <3>0, <3>2, Moved DEF UseHot, shared, Places, Place, Inside
    <3> QED BY <2>0, <2>6, <3>2, <3>3 DEF UseHot, shared, TypeOK
  <2>7. CASE UseBound(c)
    <3>1. pc' \in [Caller -> Place] /\ Places' /\ method' \in [Caller -> Dependency \cup {None}]
      BY <2>0, <2>7, Moved DEF UseBound, Choose, TypeOK, Places, Place, Inside
    <3>2. inline' \in [Mode -> [Wrapper -> PairType({None})]]
      BY <2>0, <2>7 DEF UseBound, SetInline, Pair, PairType, TypeOK
    <3> QED BY <2>0, <2>7, <3>1, <3>2 DEF UseBound, TypeOK
  <2>8. CASE SharedIndex(c)
    <3>0. pc[c] = "slow" /\ asked[c] \in Slotted
      BY <2>0, <2>8 DEF SharedIndex, TypeOK
    <3>1. pc' \in [Caller -> Place] /\ Places'
      BY <2>0, <2>8, <3>0, Moved DEF SharedIndex, Bind, Places, Place, Inside
    <3>2. bound' \in [Mode -> [Wrapper -> SUBSET Slotted]] /\ locked' \in Caller
      BY <2>0, <2>8, <3>0, BoundMore DEF SharedIndex, Bind, TypeOK
    <3> QED BY <2>0, <2>8, <3>1, <3>2 DEF SharedIndex, TypeOK
  <2>9. CASE SetHotDependency(c)
    <3>0. pc[c] \in {"sethot", "learnhot"} /\ hot[kind[c]] \in PairType({None})
      BY <2>0, <2>9 DEF SetHotDependency, TypeOK
    <3>1. \E label \in Inside : Goto(c, label)
      BY <2>9, <3>0 DEF SetHotDependency, Inside
    <3>2. pc' \in [Caller -> Place] /\ Places'
      BY <2>0, <2>9, <3>0, <3>1, Moved, Locked DEF SetHotDependency, Places, Place, Inside
    <3>3. hot' \in [Mode -> PairType({None})]
      BY <2>0, <2>9, <3>0 DEF SetHotDependency, PairType, TypeOK
    <3> QED BY <2>0, <2>9, <3>2, <3>3 DEF SetHotDependency, TypeOK
  <2>10. CASE SetHotFunction(c)
    <3>0. pc[c] \in {"setfn", "learnfn"} /\ hot[kind[c]] \in PairType({None})
      BY <2>0, <2>10 DEF SetHotFunction, TypeOK
    <3>1. \E label \in Inside : Goto(c, label)
      BY <2>10, <3>0 DEF SetHotFunction, Inside
    <3>2. pc' \in [Caller -> Place] /\ Places'
      BY <2>0, <2>10, <3>0, <3>1, Moved, Locked DEF SetHotFunction, Places, Place, Inside
    <3>3. hot' \in [Mode -> PairType({None})]
      BY <2>0, <2>10, <3>0 DEF SetHotFunction, HotFunction, PairType, TypeOK
    <3>4. snapshot' \in PairType({None})
      BY <2>10, <3>3 DEF SetHotFunction, Mode
    <3> QED BY <2>0, <2>10, <3>2, <3>3, <3>4 DEF SetHotFunction, TypeOK
  <2>11. CASE LeaveIndex(c)
    <3>0. /\ pc[c] = "bound" /\ asked[c] \in Dependency /\ Choose(c, asked[c])
          /\ \A d \in Caller : locked = d <=> c = d
      BY <2>0, <2>11, Locked DEF LeaveIndex, Inside
    <3>3. Goto(c, "call") /\ method' \in [Caller -> Dependency \cup {None}]
      BY <3>0, Chosen
    <3>1. pc' \in [Caller -> Place] /\ Places'
      BY <2>0, <2>11, <3>0, <3>3, Moved DEF LeaveIndex, Place, Inside
    <3>2. inline' \in [Mode -> [Wrapper -> PairType({None})]]
      BY <2>0, <2>11 DEF LeaveIndex, SetInline, Pair, PairType, TypeOK
    <3> QED BY <2>0, <2>11, <3>1, <3>2, <3>3 DEF LeaveIndex, TypeOK
  <2>12. CASE UseDispatch(c)
    <3>1. (\E label \in {"call", "learn"} : Goto(c, label)) /\ method' \in [Caller -> Dependency \cup {None}]
      <4>1. asked[c] \in Dependency
        BY <2>0, <2>12 DEF UseDispatch
      <4>2. Choose(c, asked[c]) \/ (Goto(c, "learn") /\ UNCHANGED method)
        BY <2>12 DEF UseDispatch
      <4> QED BY <4>1, <4>2, Chosen DEF TypeOK
    <3>2. pc' \in [Caller -> Place] /\ Places'
      BY <2>0, <2>12, <3>1, Moved DEF UseDispatch, Places, Place, Inside
    <3>3. inline' \in [Mode -> [Wrapper -> PairType({None})]]
      <4>1. CASE asked[c] \in dispatched[kind[c]]
        <5> DEFINE pair == [inline[kind[c]][on[c]] EXCEPT !.dep = None]
        <5>1. pair \in PairType({None})
          <6>1. inline[kind[c]][on[c]] \in PairType({None})
            <7>1. inline \in [Mode -> [Wrapper -> PairType({None})]]
              BY DEF TypeOK
            <7> HIDE DEF TypeInv
            <7> QED BY <2>0, <7>1
          <6> QED BY <6>1 DEF PairType
        <5>2. [inline[kind[c]] EXCEPT ![on[c]] = pair] \in [Wrapper -> PairType({None})]
          BY <2>0, <5>1 DEF TypeOK
        <5>3. inline' = [inline EXCEPT ![kind[c]] = [inline[kind[c]] EXCEPT ![on[c]] = pair]]
          BY <2>12, <4>1 DEF UseDispatch, ForgetInline
        <5> HIDE DEF pair
        <5> QED BY <2>0, <5>2, <5>3 DEF TypeOK
      <4>2. CASE asked[c] \notin dispatched[kind[c]]
        BY <2>12, <4>2 DEF UseDispatch, TypeOK
      <4> QED BY <4>1, <4>2
    <3> QED BY <2>0, <2>12, <3>1, <3>2, <3>3 DEF UseDispatch, TypeOK
  <2>13. CASE Learn(c)
    <3>0. pc[c] = "learn" /\ asked[c] \in Dependency
      BY <2>0, <2>13 DEF Learn
    <3>1. CASE HasSlot(asked[c])
      <4>1. pc' \in [Caller -> Place] /\ Places'
        BY <2>0, <2>13, <3>0, <3>1, Moved DEF Learn, HasSlot, Bind, Places, Place, Inside
      <4>2. bound' \in [Mode -> [Wrapper -> SUBSET Slotted]] /\ locked' \in Caller
        <5>1. bound' = [bound EXCEPT ![kind[c]][on[c]] = @ \cup {asked[c]}] /\ locked' = c
          BY <2>13, <3>1 DEF Learn, Bind
        <5> QED BY <2>0, <3>1, <5>1, BoundMore DEF HasSlot
      <4>3. functions' \in [Mode -> SUBSET Slotted]
        <5>1. functions' = [functions EXCEPT ![kind[c]] = @ \cup {asked[c]}]
          BY <2>13, <3>1 DEF Learn
        <5>2. functions[kind[c]] \cup {asked[c]} \in SUBSET Slotted
          BY <2>0, <3>1 DEF HasSlot, TypeOK
        <5> QED BY <2>0, <5>1, <5>2 DEF TypeOK
      <4> QED BY <2>0, <2>13, <3>1, <4>1, <4>2, <4>3 DEF Learn, TypeOK
    <3>2. CASE ~HasSlot(asked[c])
      <4>0. Choose(c, asked[c])
        BY <2>13, <3>2 DEF Learn
      <4>3. Goto(c, "call") /\ method' \in [Caller -> Dependency \cup {None}]
        BY <3>0, <4>0, Chosen
      <4>1. pc' \in [Caller -> Place] /\ Places'
        BY <2>0, <2>13, <3>0, <3>2, <4>3, Moved DEF Learn, Places, Place, Inside
      <4>2. dispatched' \in [Mode -> SUBSET (Dependency \ Slotted)]
        <5>1. dispatched' = [dispatched EXCEPT ![kind[c]] = @ \cup {asked[c]}]
          BY <2>13, <3>2 DEF Learn
        <5>2. dispatched[kind[c]] \cup {asked[c]} \in SUBSET (Dependency \ Slotted)
          BY <2>0, <3>0, <3>2 DEF HasSlot, TypeOK
        <5> QED BY <2>0, <5>1, <5>2 DEF TypeOK
      <4> QED BY <2>0, <2>13, <3>2, <4>1, <4>2, <4>3 DEF Learn, TypeOK
    <3> QED BY <3>1, <3>2
  <2>14. CASE LeaveLearning(c)
    <3>0. /\ pc[c] = "learnt" /\ asked[c] \in Dependency /\ Choose(c, asked[c])
          /\ \A d \in Caller : locked = d <=> c = d
      BY <2>0, <2>14, Locked DEF LeaveLearning, Inside
    <3>1. Goto(c, "call") /\ method' \in [Caller -> Dependency \cup {None}]
      BY <3>0, Chosen
    <3>2. pc' \in [Caller -> Place] /\ Places'
      BY <2>0, <2>14, <3>0, <3>1, Moved DEF LeaveLearning, Place, Inside
    <3> QED BY <2>0, <2>14, <3>1, <3>2 DEF LeaveLearning, TypeOK
  <2>15. CASE Return(c)
    <3>1. TypeOK'
      <4>1. pc' \in [Caller -> Place] /\ on' \in [Caller -> Wrapper]
        BY <2>15 DEF Return, Goto, TypeOK, Place, Wrapper
      <4>2. asked' \in [Caller -> Dependency \cup {None}] /\ method' \in [Caller -> Dependency \cup {None}]
        BY <2>15 DEF Return, TypeOK
      <4> QED BY <2>0, <2>15, <4>1, <4>2 DEF Return, shared, TypeOK
    <3>2. Places'
      BY <2>0, <2>15 DEF Return, shared, TypeOK, Places, IsAsync, Goto, Inside
    <3> QED BY <3>1, <3>2
  <2> QED
    BY <1>2, <2>1, <2>2, <2>3, <2>4, <2>5, <2>6, <2>7, <2>8, <2>9, <2>10, <2>11, <2>12, <2>13,
       <2>14, <2>15 DEF CallerStep
<1>3. CASE UNCHANGED vars
  BY <1>3 DEF vars, shared, TypeOK, Places, IsAsync
<1> QED BY <1>1, <1>2, <1>3 DEF Next, Done

(* Every state has its types, and a caller is only where its dispatch may  *)
(* take it: diwire/_internal/open_generics.py, the wrappers' resolve and   *)
(* aresolve, for any number of callers, wrappers and dependencies.         *)
THEOREM TypeCorrect == Spec => []TypeOK
<1>1. Init => TypeInv  BY TypeInitial
<1>2. TypeInv /\ [Next]_vars => TypeInv'  BY TypeStep
<1>3. TypeInv => TypeOK  BY DEF TypeInv
<1> QED BY <1>1, <1>2, <1>3, PTL DEF Spec

-----------------------------------------------------------------------------
(* What is remembered is right.  A hot pair of the root is torn only while *)
(* a caller is between its two stores, inside the lock, and that caller    *)
(* has stored its own dependency.                                          *)
Storing == {"setfn", "learnfn"}

CopiesWhole == Whole(snapshot) /\ \A w \in Child : Whole(childHot[w])
InlineRight ==
    \A m \in Mode, w \in Wrapper : inline[m][w].dep # None => inline[m][w].fn = inline[m][w].dep
HotRight ==
    /\ \A m \in Mode : Whole(hot[m]) \/ \E c \in Caller : kind[c] = m /\ pc[c] \in Storing
    /\ \A c \in Caller : pc[c] \in Storing => hot[kind[c]].dep = asked[c]
Trusting(c) == ~IsAsync(c) \/ on[c] = Root
Trusted == \A c \in Caller : Trusting(c) => Answered(c)

Remembered == CopiesWhole /\ InlineRight /\ HotRight /\ Trusted

LEMMA RememberedInitially == Init => Remembered
BY DispatchAssumption, CallersAssumption
   DEF Init, Remembered, CopiesWhole, InlineRight, HotRight, Trusted, Storing, Whole, Answered,
       NoPair, Pair, Mode, Wrapper

(* Who moves without storing leaves the hot pairs as right as they were.   *)
LEMMA HotKept ==
    ASSUME TypeInv, HotRight, NEW c \in Caller, NEW label, Goto(c, label),
           label \notin Storing, pc[c] \notin Storing, hot' = hot, kind' = kind, asked' = asked
    PROVE  HotRight'
<1>1. pc'[c] = label /\ \A d \in Caller \ {c} : pc'[d] = pc[d]
  BY DEF Goto, TypeInv, TypeOK
<1> QED BY <1>1 DEF HotRight, Whole, Storing

(* Moving on without choosing a method leaves every answer as it was, and  *)
(* choosing one only concerns the caller who chooses.                      *)
LEMMA AnsweredKept ==
    ASSUME TypeInv, NEW c \in Caller, NEW label, Goto(c, label), label # "call",
           asked' = asked, method' = method
    PROVE  \A d \in Caller : Answered(d) => Answered(d)'
<1>1. pc'[c] = label /\ \A d \in Caller \ {c} : pc'[d] = pc[d]
  BY DEF Goto, TypeInv, TypeOK
<1> QED BY <1>1 DEF Answered

LEMMA AnsweredChosen ==
    ASSUME TypeInv, NEW c \in Caller, NEW m, Choose(c, m), asked' = asked
    PROVE  /\ \A d \in Caller \ {c} : Answered(d) => Answered(d)'
           /\ m = asked[c] => Answered(c)'
<1>1. /\ method'[c] = m
      /\ \A d \in Caller \ {c} : method'[d] = method[d] /\ pc'[d] = pc[d]
  BY DEF Choose, Goto, TypeInv, TypeOK
<1> QED BY <1>1 DEF Answered

(* An inline pair that is replaced by one of a dependency and its method.  *)
LEMMA InlineSet ==
    ASSUME TypeOK, InlineRight, NEW m \in Mode, NEW w \in Wrapper, NEW d, SetInline(m, w, d, d)
    PROVE  InlineRight'
<1>1. inline' = [inline EXCEPT ![m] = [inline[m] EXCEPT ![w] = Pair(d, d)]]
  BY DEF SetInline
<1>2. inline \in [Mode -> [Wrapper -> PairType({None})]]
  BY DEF TypeOK
<1>3. ASSUME NEW n \in Mode, NEW v \in Wrapper
      PROVE  inline'[n][v] = IF n = m /\ v = w THEN Pair(d, d) ELSE inline[n][v]
  BY <1>1, <1>2, <1>3
<1> QED BY <1>3 DEF InlineRight, Pair

(* An inline pair that is given up, as the dispatch of the resolver does.  *)
LEMMA InlineForgotten ==
    ASSUME TypeOK, InlineRight, NEW m \in Mode, NEW w \in Wrapper, ForgetInline(m, w)
    PROVE  InlineRight'
<1> DEFINE pair == [inline[m][w] EXCEPT !.dep = None]
<1>1. inline' = [inline EXCEPT ![m] = [inline[m] EXCEPT ![w] = pair]]
  BY DEF ForgetInline
<1>2. inline \in [Mode -> [Wrapper -> PairType({None})]]
  BY DEF TypeOK
<1>3. pair.dep = None
  BY <1>2 DEF PairType
<1> HIDE DEF pair
<1>4. ASSUME NEW n \in Mode, NEW v \in Wrapper
      PROVE  inline'[n][v] = IF n = m /\ v = w THEN pair ELSE inline[n][v]
  BY <1>1, <1>2, <1>4
<1> QED BY <1>3, <1>4 DEF InlineRight

LEMMA RememberedStep ==
    ASSUME TypeInv, Remembered, [Next]_vars
    PROVE  Remembered'
<1> USE DispatchAssumption, CallersAssumption DEF Remembered, At, ModeOf, deployment
<1>1. ASSUME NEW w \in Child, EnterScope(w), UNCHANGED deployment
      PROVE  Remembered'
  BY <1>1 DEF EnterScope, SharedHotPair, CopiesWhole, InlineRight, HotRight, Trusted, Trusting,
              Answered, Whole, IsAsync, TypeInv, TypeOK
<1>2. ASSUME NEW c \in Caller, CallerStep(c), UNCHANGED deployment
      PROVE  Remembered'
  <2>0. /\ kind[c] \in Mode /\ on[c] \in Wrapper /\ kind' = kind
        /\ pc[c] # "idle" => asked[c] \in Dependency
        /\ None \notin Dependency
    BY <1>2 DEF TypeInv, TypeOK, Places
  <2>1. ASSUME NEW w \in Wrapper, NEW d \in Dependency, Call(c, w, d)
        PROVE  Remembered'
    <3>1. /\ \A b \in Caller \ {c} : pc'[b] = pc[b] /\ asked'[b] = asked[b] /\ on'[b] = on[b]
          /\ pc[c] \notin Storing /\ pc'[c] \notin Storing \cup {"call"} /\ hot' = hot /\ method' = method
          /\ UNCHANGED shared
      BY <2>1 DEF Call, Goto, Storing, shared, TypeInv, TypeOK
    <3>2. HotRight' /\ Trusted'
      BY <2>0, <3>1 DEF HotRight, Trusted, Trusting, Answered, Whole, IsAsync
    <3> QED BY <3>1, <3>2 DEF shared, CopiesWhole, InlineRight, Whole
  <2>2. CASE ResolveSync(c)
    <3>0. pc[c] = "resolve" /\ inline["sync"] = inline[kind[c]]
      BY <2>0, <2>2 DEF ResolveSync, IsAsync, Mode, TypeInv, Places
    <3>1. Whole(HotPair(on[c]))
      BY <2>0 DEF HotPair, CopiesWhole, Whole, NoPair, Pair, Wrapper
    <3>2. \/ Choose(c, asked[c])
          \/ Goto(c, "slow") /\ UNCHANGED method
      BY <2>0, <2>2, <3>0, <3>1 DEF ResolveSync, InlineRight, Whole, Mode
    <3>3. HotRight'
      BY <2>0, <2>2, <3>0, <3>2, HotKept DEF ResolveSync, shared, Choose, Storing
    <3>4. Trusted'
      BY <2>0, <2>2, <3>2, AnsweredKept, AnsweredChosen DEF ResolveSync, Trusted, Trusting, IsAsync
    <3> QED BY <2>2, <3>3, <3>4 DEF ResolveSync, shared, CopiesWhole, InlineRight, Whole
  <2>3. CASE ResolveAsync(c)
    <3>0. pc[c] = "aresolve" /\ IsAsync(c)
      BY <2>0, <2>3 DEF ResolveAsync, TypeInv, Places
    <3>1. \/ Choose(c, asked[c])
          \/ (\E label \in {"slow", "hotdep", "hot"} : Goto(c, label)) /\ UNCHANGED method
      BY <2>0, <2>3, <3>0 DEF ResolveAsync, InlineRight, Mode
    <3>2. HotRight'
      BY <2>0, <2>3, <3>0, <3>1, HotKept DEF ResolveAsync, shared, Choose, Storing
    <3>3. Trusted'
      BY <2>0, <2>3, <3>1, AnsweredKept, AnsweredChosen DEF ResolveAsync, Trusted, Trusting, IsAsync
    <3> QED BY <2>3, <3>2, <3>3 DEF ResolveAsync, shared, CopiesWhole, InlineRight, Whole
  <2>4. CASE TakeHotDependency(c)
    <3>1. HotRight'
      BY <2>0, <2>4, HotKept DEF TakeHotDependency, Storing
    <3>2. Trusted'
      BY <2>0, <2>4, AnsweredKept DEF TakeHotDependency, Trusted, Trusting, IsAsync
    <3> QED BY <2>4, <3>1, <3>2 DEF TakeHotDependency, CopiesWhole, InlineRight, Whole
  <2>5. CASE TakeHotFunction(c)
    <3>1. HotRight'
      BY <2>0, <2>5, HotKept DEF TakeHotFunction, Storing
    <3>2. Trusted'
      BY <2>0, <2>5, AnsweredKept DEF TakeHotFunction, Trusted, Trusting, IsAsync
    <3> QED BY <2>5, <3>1, <3>2 DEF TakeHotFunction, CopiesWhole, InlineRight, Whole
  <2>6. CASE UseHot(c)
    <3>0. pc[c] = "hot" /\ ~Trusting(c)
      BY <2>0, <2>6 DEF UseHot, Trusting, TypeInv, Places
    <3>1. \/ \E m \in {asyncHot[on[c]].fn} : Choose(c, m)
          \/ Goto(c, "slow") /\ UNCHANGED method
      BY <2>6 DEF UseHot
    <3>2. HotRight'
      BY <2>0, <2>6, <3>0, <3>1, HotKept DEF UseHot, shared, Choose, Storing
    <3>3. Trusted'
      BY <2>0, <2>6, <3>0, <3>1, AnsweredKept, AnsweredChosen DEF UseHot, Trusted, Trusting, IsAsync
    <3> QED BY <2>6, <3>2, <3>3 DEF UseHot, shared, CopiesWhole, InlineRight, Whole
  <2>7. CASE UseBound(c)
    <3>1. HotRight'
      BY <2>0, <2>7, HotKept DEF UseBound, Choose, Storing
    <3>2. Trusted'
      BY <2>0, <2>7, AnsweredChosen DEF UseBound, Trusted, Trusting, IsAsync
    <3>3. InlineRight'
      BY <2>0, <2>7, InlineSet DEF UseBound, TypeInv
    <3> QED BY <2>7, <3>1, <3>2, <3>3 DEF UseBound, CopiesWhole, Whole
  <2>8. CASE SharedIndex(c)
    <3>1. HotRight'
      BY <2>0, <2>8, HotKept DEF SharedIndex, Storing
    <3>2. Trusted'
      BY <2>0, <2>8, AnsweredKept DEF SharedIndex, Trusted, Trusting, IsAsync
    <3> QED BY <2>8, <3>1, <3>2 DEF SharedIndex, CopiesWhole, InlineRight, Whole
  <2>9. CASE SetHotDependency(c)
    <3>0. /\ pc[c] \in {"sethot", "learnhot"} /\ hot[kind[c]] \in PairType({None})
          /\ \A b \in Caller \ {c} : pc[b] \notin Storing
      BY <2>0, <2>9, Locked DEF SetHotDependency, Storing, Inside, TypeInv, TypeOK, Places
    <3>1. \E label \in Inside :
            /\ Goto(c, label)
            /\ label \notin Storing => hot[kind[c]].dep = asked[c]
      BY <2>9, <3>0 DEF SetHotDependency, Storing, Inside
    <3>2. \A m \in Mode : Whole(hot[m])
      BY <3>0 DEF HotRight, Storing
    <3>3. /\ \A m \in Mode \ {kind[c]} : hot'[m] = hot[m]
          /\ hot'[kind[c]].dep = asked[c] /\ hot'[kind[c]].fn = hot[kind[c]].fn
      BY <2>0, <2>9, <3>0 DEF SetHotDependency, TypeInv, TypeOK, PairType
    <3>4. HotRight'
      <4>1. PICK label \in Inside :
              /\ Goto(c, label)
              /\ label \notin Storing => hot[kind[c]].dep = asked[c]
        BY <3>1
      <4>2. pc'[c] = label /\ (\A d \in Caller \ {c} : pc'[d] = pc[d]) /\ asked' = asked
        BY <2>9, <4>1 DEF SetHotDependency, Goto, TypeInv, TypeOK
      <4>3. ASSUME NEW m \in Mode
            PROVE  Whole(hot[m])' \/ \E d \in Caller : kind'[d] = m /\ pc'[d] \in Storing
        <5>1. CASE m # kind[c]  BY <3>2, <3>3, <5>1 DEF Whole
        <5>2. CASE m = kind[c] /\ label \in Storing  BY <2>0, <4>2, <5>2
        <5>3. CASE m = kind[c] /\ label \notin Storing
          BY <2>0, <3>2, <3>3, <4>1, <5>3 DEF Whole
        <5> QED BY <5>1, <5>2, <5>3
      <4>4. \A d \in Caller : pc'[d] \in Storing => hot'[kind'[d]].dep = asked'[d]
        BY <2>0, <3>0, <3>3, <4>2
      <4> QED BY <4>3, <4>4 DEF HotRight
    <3>5. Trusted'
      BY <2>0, <2>9, <3>1, AnsweredKept DEF SetHotDependency, Trusted, Trusting, IsAsync, Inside
    <3> QED BY <2>9, <3>4, <3>5 DEF SetHotDependency, CopiesWhole, InlineRight, Whole
  <2>10. CASE SetHotFunction(c)
    <3>0. /\ pc[c] \in Storing /\ hot[kind[c]] \in PairType({None})
          /\ \A b \in Caller \ {c} : pc[b] \notin Storing
      BY <2>0, <2>10, Locked DEF SetHotFunction, Storing, Inside, TypeInv, TypeOK, Places
    <3>1. \E label \in {"bound", "learnt"} : Goto(c, label)
      BY <2>10 DEF SetHotFunction
    <3>2. \A m \in Mode \ {kind[c]} : Whole(hot[m])
      BY <3>0 DEF HotRight, Storing
    <3>3. /\ \A m \in Mode \ {kind[c]} : hot'[m] = hot[m]
          /\ hot'[kind[c]].fn = asked[c] /\ hot'[kind[c]].dep = hot[kind[c]].dep
      BY <2>0, <2>10, <3>0 DEF SetHotFunction, HotFunction, TypeInv, TypeOK, PairType
    <3>4. hot[kind[c]].dep = asked[c]
      BY <3>0 DEF HotRight
    <3>5. \A m \in Mode : Whole(hot[m])'
      BY <2>0, <3>2, <3>3, <3>4 DEF Whole
    <3>6. HotRight'
      <4>1. \A d \in Caller : pc'[d] \notin Storing
        BY <3>0, <3>1 DEF Goto, TypeInv, TypeOK, Storing
      <4> QED BY <3>5, <4>1 DEF HotRight
    <3>7. Trusted'
      BY <2>0, <2>10, <3>1, AnsweredKept DEF SetHotFunction, Trusted, Trusting, IsAsync
    <3>8. CopiesWhole'
      BY <2>10, <3>5 DEF SetHotFunction, CopiesWhole, Whole, Mode
    <3> QED BY <2>10, <3>6, <3>7, <3>8 DEF SetHotFunction, InlineRight
  <2>11. CASE LeaveIndex(c)
    <3>1. HotRight'
      BY <2>0, <2>11, HotKept DEF LeaveIndex, Choose, Storing
    <3>2. Trusted'
      BY <2>0, <2>11, AnsweredChosen DEF LeaveIndex, Trusted, Trusting, IsAsync
    <3>3. InlineRight'
      BY <2>0, <2>11, InlineSet DEF LeaveIndex, TypeInv
    <3> QED BY <2>11, <3>1, <3>2, <3>3 DEF LeaveIndex, CopiesWhole, Whole
  <2>12. CASE UseDispatch(c)
    <3>0. \/ Choose(c, asked[c]) /\ ForgetInline(kind[c], on[c])
          \/ Goto(c, "learn") /\ UNCHANGED <<inline, method>>
      BY <2>12 DEF UseDispatch
    <3>1. HotRight'
      BY <2>0, <2>12, <3>0, HotKept DEF UseDispatch, Choose, Storing
    <3>2. Trusted'
      BY <2>0, <2>12, <3>0, AnsweredKept, AnsweredChosen DEF UseDispatch, Trusted, Trusting, IsAsync
    <3>3. InlineRight'
      BY <2>0, <3>0, InlineForgotten DEF InlineRight, TypeInv
    <3> QED BY <2>12, <3>1, <3>2, <3>3 DEF UseDispatch, CopiesWhole, Whole
  <2>13. CASE Learn(c)
    <3>0. Choose(c, asked[c]) \/ (Goto(c, "learnhot") /\ UNCHANGED method)
      BY <2>13 DEF Learn
    <3>1. HotRight'
      BY <2>0, <2>13, <3>0, HotKept DEF Learn, Choose, Storing
    <3>2. Trusted'
      BY <2>0, <2>13, <3>0, AnsweredKept, AnsweredChosen DEF Learn, Trusted, Trusting, IsAsync
    <3> QED BY <2>13, <3>1, <3>2 DEF Learn, CopiesWhole, InlineRight, Whole
  <2>14. CASE LeaveLearning(c)
    <3>1. HotRight'
      BY <2>0, <2>14, HotKept DEF LeaveLearning, Choose, Storing
    <3>2. Trusted'
      BY <2>0, <2>14, AnsweredChosen DEF LeaveLearning, Trusted, Trusting, IsAsync
    <3> QED BY <2>14, <3>1, <3>2 DEF LeaveLearning, CopiesWhole, InlineRight, Whole
  <2>15. CASE Return(c)
    <3>1. /\ \A b \in Caller \ {c} :
                pc'[b] = pc[b] /\ asked'[b] = asked[b] /\ on'[b] = on[b] /\ method'[b] = method[b]
          /\ pc[c] \notin Storing /\ pc'[c] = "idle" /\ hot' = hot
          /\ UNCHANGED shared
      BY <2>15 DEF Return, Goto, Storing, shared, TypeInv, TypeOK
    <3>2. HotRight' /\ Trusted'
      BY <2>0, <3>1 DEF HotRight, Trusted, Trusting, Answered, Whole, IsAsync, Storing
    <3> QED BY <3>1, <3>2 DEF shared, CopiesWhole, InlineRight, Whole
  <2> QED
    BY <1>2, <2>1, <2>2, <2>3, <2>4, <2>5, <2>6, <2>7, <2>8, <2>9, <2>10, <2>11, <2>12, <2>13,
       <2>14, <2>15 DEF CallerStep
<1>3. CASE UNCHANGED vars
  BY <1>3 DEF vars, shared, CopiesWhole, InlineRight, HotRight, Trusted, Trusting, Answered,
              Whole, IsAsync
<1> QED BY <1>1, <1>2, <1>3 DEF Next, Done

THEOREM Memory == Spec => [](TypeInv /\ Remembered)
<1>1. Init => TypeInv /\ Remembered  BY TypeInitial, RememberedInitially
<1>2. TypeInv /\ Remembered /\ [Next]_vars => (TypeInv /\ Remembered)'
  BY TypeStep, RememberedStep
<1> QED BY <1>1, <1>2, PTL DEF Spec

(* resolvers/protocol.py:25: whatever other threads resolve through the    *)
(* wrappers, and whatever their scopes, a synchronous caller ends up in    *)
(* the method of the dependency it asked for.                              *)
THEOREM SyncAnswered == Spec => []SyncAnswers
<1>1. TypeInv /\ Remembered => SyncAnswers
  BY DEF Remembered, Trusted, Trusting, SyncAnswers
<1> QED BY <1>1, Memory, PTL

(* A caller on the root wrapper is answered too, on any number of loops.   *)
THEOREM RootAnswered == Spec => []RootAnswers
<1>1. TypeInv /\ Remembered => RootAnswers
  BY DEF Remembered, Trusted, Trusting, RootAnswers
<1> QED BY <1>1, Memory, PTL

(* The hot pairs children are made with, and the root's when nobody is in  *)
(* the lock, never name the function of another dependency.                *)
THEOREM HotPairsAreWhole == Spec => []HotPairsWhole
<1>1. TypeInv /\ Remembered => HotPairsWhole
  <2> SUFFICES ASSUME TypeInv, Remembered
               PROVE  HotPairsWhole
    OBVIOUS
  <2>1. ASSUME locked = None, NEW m \in Mode
        PROVE  Whole(hot[m])
    <3>1. \A c \in Caller : pc[c] \notin Storing
      BY <2>1, DispatchAssumption, CallersAssumption DEF TypeInv, Places, Inside, Storing
    <3> QED BY <3>1 DEF Remembered, HotRight
  <2> QED BY <2>1 DEF Remembered, CopiesWhole, HotPairsWhole
<1> QED BY <1>1, Memory, PTL

-----------------------------------------------------------------------------
(* One event loop: only one of its tasks is inside a dispatch, so the root *)
(* cannot exchange its asynchronous hot pair between the two calls that    *)
(* copy it, and a copy is whole.                                           *)
Alone ==
    \A c, d \in Caller : IsAsync(c) /\ IsAsync(d) /\ Busy(c) /\ Busy(d) => c = d
CopiesRight ==
    /\ \A w \in Child : Whole(asyncHot[w]) /\ (asyncHot[w].dep = Unset => asyncHot[w].fn = None)
    /\ \A c \in Caller :
          /\ pc[c] = "hotdep" => asyncHot[on[c]].dep = Unset
          /\ pc[c] = "hotfn" => asyncHot[on[c]].dep = hot["async"].dep
AsyncTrusted == \A c \in Caller : IsAsync(c) => Answered(c)

OneLoop == Alone /\ CopiesRight /\ AsyncTrusted

LEMMA OneLoopInitially == Init => OneLoop
BY DispatchAssumption, CallersAssumption
   DEF Init, OneLoop, Alone, CopiesRight, AsyncTrusted, Busy, Whole, Answered, Pair

(* Who may run is alone with its dispatch, wherever it goes.               *)
LEMMA AloneKept ==
    ASSUME TypeInv, oneLoop, Alone, NEW c \in Caller, MayRun(c), kind' = kind,
           \A d \in Caller \ {c} : pc'[d] = pc[d]
    PROVE  Alone'
BY DEF Alone, MayRun, Busy, IsAsync

(* A step that leaves the hot pairs alone, and whose caller does not come  *)
(* to the two labels where one is copied, keeps the copies right.          *)
LEMMA CopiesKept ==
    ASSUME TypeInv, CopiesRight, NEW c \in Caller, asyncHot' = asyncHot, hot' = hot,
           \A d \in Caller \ {c} : pc'[d] = pc[d] /\ on'[d] = on[d],
           pc'[c] \notin {"hotdep", "hotfn"}
    PROVE  CopiesRight'
BY DEF CopiesRight, Whole

(* While a task is inside a dispatch no other one looks at a hot pair.     *)
LEMMA NobodyCopies ==
    ASSUME TypeInv, oneLoop, NEW c \in Caller, IsAsync(c), MayRun(c), NEW d \in Caller \ {c}
    PROVE  pc[d] \notin {"hotdep", "hotfn", "hot"}
BY DEF MayRun, Busy, TypeInv, Places

LEMMA Others ==
    ASSUME TypeInv, NEW c \in Caller, NEW label, Goto(c, label)
    PROVE  pc'[c] = label /\ \A d \in Caller \ {c} : pc'[d] = pc[d]
BY DEF Goto, TypeInv, TypeOK

LEMMA OneLoopStep ==
    ASSUME TypeInv, Remembered, oneLoop, OneLoop, [Next]_vars
    PROVE  OneLoop'
<1> USE DispatchAssumption, CallersAssumption DEF OneLoop, At, ModeOf, deployment
<1>1. ASSUME NEW w \in Child, EnterScope(w), UNCHANGED deployment
      PROVE  OneLoop'
  BY <1>1 DEF EnterScope, Alone, CopiesRight, AsyncTrusted, Answered, Whole, IsAsync, Busy
<1>2. ASSUME NEW c \in Caller, CallerStep(c), UNCHANGED deployment
      PROVE  OneLoop'
  <2>0. /\ kind[c] \in Mode /\ on[c] \in Wrapper /\ kind' = kind
        /\ pc[c] # "idle" => asked[c] \in Dependency
        /\ None \notin Dependency /\ Unset \notin Dependency /\ None # Unset
    BY <1>2 DEF TypeInv, TypeOK, Places
  <2>1. ASSUME NEW w \in Wrapper, NEW d \in Dependency, Call(c, w, d)
        PROVE  OneLoop'
    <3>1. /\ \A b \in Caller \ {c} : pc'[b] = pc[b] /\ asked'[b] = asked[b] /\ on'[b] = on[b]
          /\ pc'[c] \notin {"hotdep", "hotfn", "call"} /\ hot' = hot /\ asyncHot' = asyncHot
          /\ method' = method /\ MayRun(c)
      BY <2>1 DEF Call, Goto, shared, TypeInv, TypeOK
    <3>2. Alone'  BY <2>0, <3>1, AloneKept
    <3>3. CopiesRight'  BY <3>1, CopiesKept
    <3>4. AsyncTrusted'  BY <2>0, <3>1 DEF AsyncTrusted, Answered, IsAsync
    <3> QED BY <3>2, <3>3, <3>4
  <2>2. CASE ResolveSync(c)
    <3>0. ~IsAsync(c)
      BY <2>2 DEF ResolveSync, TypeInv, Places
    <3>1. \/ \E m \in {inline["sync"][on[c]].fn, HotPair(on[c]).fn} : Choose(c, m)
          \/ Goto(c, "slow") /\ UNCHANGED method
      BY <2>2 DEF ResolveSync
    <3>2. \E label \in {"slow", "call"} : Goto(c, label)
      BY <3>1 DEF Choose
    <3>3. Alone' /\ CopiesRight'
      BY <2>0, <2>2, <3>2, Others, AloneKept, CopiesKept DEF ResolveSync, shared
    <3>4. AsyncTrusted'
      BY <2>0, <2>2, <3>0, <3>1, AnsweredKept, AnsweredChosen DEF ResolveSync, AsyncTrusted, IsAsync
    <3> QED BY <3>3, <3>4
  <2>3. CASE ResolveAsync(c)
    <3>0. pc[c] = "aresolve" /\ IsAsync(c) /\ MayRun(c)
      BY <2>3 DEF ResolveAsync, TypeInv, Places
    <3>1. \/ Choose(c, asked[c])
          \/ (\E label \in {"slow", "hot"} : Goto(c, label)) /\ UNCHANGED method
          \/ Goto(c, "hotdep") /\ asyncHot[on[c]].dep = Unset /\ UNCHANGED method
      BY <2>0, <2>3, <3>0 DEF ResolveAsync, Remembered, InlineRight, Mode
    <3>2. \E label \in {"call", "slow", "hot", "hotdep"} :
            Goto(c, label) /\ (label = "hotdep" => asyncHot[on[c]].dep = Unset)
      BY <3>1 DEF Choose
    <3>3. Alone'
      BY <2>0, <3>0, <3>2, Others, AloneKept
    <3>4. CopiesRight'
      BY <2>3, <3>2, Others DEF ResolveAsync, shared, CopiesRight, Whole
    <3>5. AsyncTrusted'
      BY <2>0, <2>3, <3>1, AnsweredKept, AnsweredChosen DEF ResolveAsync, AsyncTrusted, IsAsync
    <3> QED BY <3>3, <3>4, <3>5
  <2>4. CASE TakeHotDependency(c)
    <3>0. /\ pc[c] = "hotdep" /\ on[c] \in Child /\ MayRun(c) /\ IsAsync(c) /\ Goto(c, "hotfn")
          /\ hot["async"] \in PairType({None}) /\ asyncHot[on[c]] \in PairType({None, Unset})
          /\ asyncHot[on[c]].dep = Unset /\ asyncHot[on[c]].fn = None
      BY <2>0, <2>4 DEF TakeHotDependency, TypeInv, TypeOK, Places, CopiesRight, Mode
    <3>1. /\ asyncHot'[on[c]].dep = hot["async"].dep /\ asyncHot'[on[c]].fn = None
          /\ \A w \in Child \ {on[c]} : asyncHot'[w] = asyncHot[w]
      BY <2>4, <3>0 DEF TakeHotDependency, TypeInv, TypeOK, PairType
    <3>2. Alone'
      BY <2>0, <3>0, Others, AloneKept
    <3>3. \A d \in Caller \ {c} : pc'[d] \notin {"hotdep", "hotfn"}
      BY <3>0, Others, NobodyCopies
    <3>4. CopiesRight'
      <4>1. ASSUME NEW w \in Child
            PROVE  Whole(asyncHot[w])' /\ (asyncHot'[w].dep = Unset => asyncHot'[w].fn = None)
        BY <3>0, <3>1 DEF CopiesRight, Whole
      <4>2. pc'[c] = "hotfn" /\ on' = on /\ hot' = hot
        BY <2>4, <3>0, Others DEF TakeHotDependency
      <4> QED BY <3>1, <3>3, <4>1, <4>2 DEF CopiesRight
    <3>5. AsyncTrusted'
      BY <2>0, <2>4, AnsweredKept DEF TakeHotDependency, AsyncTrusted, IsAsync
    <3> QED BY <3>2, <3>4, <3>5
  <2>5. CASE TakeHotFunction(c)
    <3>0. /\ pc[c] = "hotfn" /\ on[c] \in Child /\ MayRun(c) /\ IsAsync(c) /\ Goto(c, "hot")
          /\ hot["async"] \in PairType({None}) /\ asyncHot[on[c]] \in PairType({None, Unset})
          /\ asyncHot[on[c]].dep = hot["async"].dep
      BY <2>0, <2>5 DEF TakeHotFunction, TypeInv, TypeOK, Places, CopiesRight, Mode
    <3>1. Whole(hot["async"])
      <4>1. \A d \in Caller : kind[d] = "async" => pc[d] \notin Storing
        BY <3>0 DEF MayRun, Busy, IsAsync, Storing
      <4> QED BY <4>1 DEF Remembered, HotRight, Mode
    <3>2. /\ asyncHot'[on[c]].dep = hot["async"].dep /\ asyncHot'[on[c]].fn = hot["async"].fn
          /\ \A w \in Child \ {on[c]} : asyncHot'[w] = asyncHot[w]
      BY <2>5, <3>0 DEF TakeHotFunction, TypeInv, TypeOK, PairType
    <3>3. Alone'
      BY <2>0, <3>0, Others, AloneKept
    <3>4. \A d \in Caller : pc'[d] \notin {"hotdep", "hotfn"}
      BY <3>0, Others, NobodyCopies
    <3>5. CopiesRight'
      <4>1. ASSUME NEW w \in Child
            PROVE  Whole(asyncHot[w])' /\ (asyncHot'[w].dep = Unset => asyncHot'[w].fn = None)
        BY <2>0, <3>0, <3>1, <3>2 DEF CopiesRight, Whole, PairType
      <4> QED BY <3>4, <4>1 DEF CopiesRight
    <3>6. AsyncTrusted'
      BY <2>0, <2>5, AnsweredKept DEF TakeHotFunction, AsyncTrusted, IsAsync
    <3> QED BY <3>3, <3>5, <3>6
  <2>6. CASE UseHot(c)
    <3>0. pc[c] = "hot" /\ on[c] \in Child /\ Whole(asyncHot[on[c]])
      BY <2>0, <2>6 DEF UseHot, TypeInv, Places, CopiesRight
    <3>1. \/ Choose(c, asked[c])
          \/ Goto(c, "slow") /\ UNCHANGED method
      BY <2>0, <2>6, <3>0 DEF UseHot, Whole
    <3>2. \E label \in {"slow", "call"} : Goto(c, label)
      BY <3>1 DEF Choose
    <3>3. Alone' /\ CopiesRight'
      BY <2>0, <2>6, <3>2, Others, AloneKept, CopiesKept DEF UseHot, shared
    <3>4. AsyncTrusted'
      BY <2>0, <2>6, <3>1, AnsweredKept, AnsweredChosen DEF UseHot, AsyncTrusted, IsAsync
    <3> QED BY <3>3, <3>4
  <2>7. CASE UseBound(c)
    <3>1. Choose(c, asked[c]) /\ Goto(c, "call")
      BY <2>7 DEF UseBound, Choose
    <3>2. Alone' /\ CopiesRight'
      BY <2>0, <2>7, <3>1, Others, AloneKept, CopiesKept DEF UseBound
    <3>3. AsyncTrusted'
      BY <2>0, <2>7, <3>1, AnsweredChosen DEF UseBound, AsyncTrusted, IsAsync
    <3> QED BY <3>2, <3>3
  <2>8. CASE SharedIndex(c)
    <3>1. Goto(c, "sethot")
      BY <2>8 DEF SharedIndex
    <3>2. Alone' /\ CopiesRight'
      BY <2>0, <2>8, <3>1, Others, AloneKept, CopiesKept DEF SharedIndex
    <3>3. AsyncTrusted'
      BY <2>0, <2>8, <3>1, AnsweredKept DEF SharedIndex, AsyncTrusted, IsAsync
    <3> QED BY <3>2, <3>3
  <2>9. CASE SetHotDependency(c)
    <3>1. \E label \in Inside : Goto(c, label)
      BY <2>9 DEF SetHotDependency, Inside
    <3>2. /\ pc'[c] \notin {"hotdep", "hotfn", "call"} /\ MayRun(c)
          /\ \A d \in Caller \ {c} : pc'[d] = pc[d]
      BY <2>9, <3>1, Others DEF SetHotDependency, Inside
    <3>3. Alone'
      BY <2>0, <3>2, AloneKept
    <3>4. \/ IsAsync(c) /\ \A d \in Caller \ {c} : pc'[d] \notin {"hotdep", "hotfn"}
          \/ hot'["async"] = hot["async"]
      <4>1. CASE IsAsync(c)  BY <3>2, <4>1, NobodyCopies
      <4>2. CASE ~IsAsync(c)
        BY <2>0, <2>9, <4>2 DEF SetHotDependency, IsAsync, TypeInv, TypeOK, Mode
      <4> QED BY <4>1, <4>2
    <3>5. CopiesRight'
      BY <2>9, <3>2, <3>4 DEF SetHotDependency, CopiesRight, Whole
    <3>6. AsyncTrusted'
      BY <2>0, <2>9, <3>1, AnsweredKept DEF SetHotDependency, AsyncTrusted, IsAsync, Inside
    <3> QED BY <3>3, <3>5, <3>6
  <2>10. CASE SetHotFunction(c)
    <3>1. \E label \in Inside : Goto(c, label)
      BY <2>10 DEF SetHotFunction, Inside
    <3>2. /\ pc'[c] \notin {"hotdep", "hotfn", "call"} /\ MayRun(c)
          /\ \A d \in Caller \ {c} : pc'[d] = pc[d]
      BY <2>10, <3>1, Others DEF SetHotFunction, Inside
    <3>3. Alone'
      BY <2>0, <3>2, AloneKept
    <3>4. \/ IsAsync(c) /\ \A d \in Caller \ {c} : pc'[d] \notin {"hotdep", "hotfn"}
          \/ hot'["async"] = hot["async"]
      <4>1. CASE IsAsync(c)  BY <3>2, <4>1, NobodyCopies
      <4>2. CASE ~IsAsync(c)
        BY <2>0, <2>10, <4>2 DEF SetHotFunction, IsAsync, TypeInv, TypeOK, Mode
      <4> QED BY <4>1, <4>2
    <3>5. CopiesRight'
      BY <2>10, <3>2, <3>4 DEF SetHotFunction, CopiesRight, Whole
    <3>6. AsyncTrusted'
      BY <2>0, <2>10, <3>1, AnsweredKept DEF SetHotFunction, AsyncTrusted, IsAsync, Inside
    <3> QED BY <3>3, <3>5, <3>6
  <2>11. CASE LeaveIndex(c)
    <3>1. Choose(c, asked[c]) /\ Goto(c, "call")
      BY <2>11 DEF LeaveIndex, Choose
    <3>2. Alone' /\ CopiesRight'
      BY <2>0, <2>11, <3>1, Others, AloneKept, CopiesKept DEF LeaveIndex
    <3>3. AsyncTrusted'
      BY <2>0, <2>11, <3>1, AnsweredChosen DEF LeaveIndex, AsyncTrusted, IsAsync
    <3> QED BY <3>2, <3>3
  <2>12. CASE UseDispatch(c)
    <3>1. Choose(c, asked[c]) \/ (Goto(c, "learn") /\ UNCHANGED method)
      BY <2>12 DEF UseDispatch
    <3>2. \E label \in {"call", "learn"} : Goto(c, label)
      BY <3>1 DEF Choose
    <3>3. Alone' /\ CopiesRight'
      BY <2>0, <2>12, <3>2, Others, AloneKept, CopiesKept DEF UseDispatch
    <3>4. AsyncTrusted'
      BY <2>0, <2>12, <3>1, AnsweredKept, AnsweredChosen DEF UseDispatch, AsyncTrusted, IsAsync
    <3> QED BY <3>3, <3>4
  <2>13. CASE Learn(c)
    <3>1. Choose(c, asked[c]) \/ (Goto(c, "learnhot") /\ UNCHANGED method)
      BY <2>13 DEF Learn
    <3>2. \E label \in {"call", "learnhot"} : Goto(c, label)
      BY <3>1 DEF Choose
    <3>3. Alone' /\ CopiesRight'
      BY <2>0, <2>13, <3>2, Others, AloneKept, CopiesKept DEF Learn
    <3>4. AsyncTrusted'
      BY <2>0, <2>13, <3>1, AnsweredKept, AnsweredChosen DEF Learn, AsyncTrusted, IsAsync
    <3> QED BY <3>3, <3>4
  <2>14. CASE LeaveLearning(c)
    <3>1. Choose(c, asked[c]) /\ Goto(c, "call")
      BY <2>14 DEF LeaveLearning, Choose
    <3>2. Alone' /\ CopiesRight'
      BY <2>0, <2>14, <3>1, Others, AloneKept, CopiesKept DEF LeaveLearning
    <3>3. AsyncTrusted'
      BY <2>0, <2>14, <3>1, AnsweredChosen DEF LeaveLearning, AsyncTrusted, IsAsync
    <3> QED BY <3>2, <3>3
  <2>15. CASE Return(c)
    <3>1. /\ \A b \in Caller \ {c} :
                pc'[b] = pc[b] /\ asked'[b] = asked[b] /\ on'[b] = on[b] /\ method'[b] = method[b]
          /\ pc'[c] = "idle" /\ hot' = hot /\ asyncHot' = asyncHot
      BY <2>15 DEF Return, Goto, shared, TypeInv, TypeOK
    <3>2. Alone'
      BY <2>0, <3>1 DEF Alone, Busy, IsAsync
    <3>3. CopiesRight'
      BY <3>1, CopiesKept
    <3>4. AsyncTrusted'
      BY <2>0, <3>1 DEF AsyncTrusted, Answered, IsAsync
    <3> QED BY <3>2, <3>3, <3>4
  <2> QED
    BY <1>2, <2>1, <2>2, <2>3, <2>4, <2>5, <2>6, <2>7, <2>8, <2>9, <2>10, <2>11, <2>12, <2>13,
       <2>14, <2>15 DEF CallerStep
<1>3. CASE UNCHANGED vars
  BY <1>3 DEF vars, shared, Alone, CopiesRight, AsyncTrusted, Answered, Whole, IsAsync, Busy
<1> QED BY <1>1, <1>2, <1>3 DEF Next, Done

(* The tasks of one event loop are answered by the method of what they     *)
(* asked for; on several loops only the synchronous callers and the ones   *)
(* on the root are.                                                        *)
THEOREM AsyncAnswered == Spec => []AsyncAnswersOnOneLoop
<1> DEFINE Inv == oneLoop => OneLoop
<1>1. Init => Inv  BY OneLoopInitially
<1>2. TypeInv /\ Remembered /\ Inv /\ [Next]_vars => Inv'
  <2>1. [Next]_vars => oneLoop' = oneLoop
    BY DEF Next, Done, vars, deployment
  <2> QED BY <2>1, OneLoopStep
<1>3. Inv => AsyncAnswersOnOneLoop
  BY DEF OneLoop, AsyncTrusted, AsyncAnswersOnOneLoop
<1> HIDE DEF Inv
<1> QED BY <1>1, <1>2, <1>3, Memory, PTL DEF Spec
=============================================================================
