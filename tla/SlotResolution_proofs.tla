----------------------- MODULE SlotResolution_proofs -----------------------
(***************************************************************************)
(* Proofs about SlotResolution, for any number of callers, threads,        *)
(* scopes and slots, any acyclic graph and any lock modes.                 *)
(***************************************************************************)
EXTENDS SlotResolution, TLAPS

(* The planner's topological order: every argument ranks below its slot. *)
LEMMA RankType ==
    /\ Rank \in [Slot -> Nat]
    /\ \A s \in Slot : \A i \in DOMAIN Args[s] : Rank[Args[s][i]] < Rank[s]
<1>1. Rank \in [Slot -> 0..Cardinality(Slot)] /\ Ranks(Rank)
  BY AcyclicAssumption DEF Rank
<1> QED BY <1>1 DEF Ranks

(* A slot's arguments are slots of a lower rank. *)
LEMMA ArgOfSlot ==
    ASSUME NEW s \in Slot, NEW i \in DOMAIN Args[s]
    PROVE  Args[s][i] \in Slot /\ Rank[Args[s][i]] < Rank[s]
<1>1. Args[s] \in Seq(Slot)
  BY SlotsAssumption
<1>2. Args[s][i] \in Slot
  BY <1>1
<1> QED BY <1>2, RankType

(* The resolver a slot's method works on is an open one, or none. *)
LEMMA HomeType ==
    ASSUME NEW r \in Scope, NEW s \in Slot
    PROVE  Home(r, s) \in Scope \cup {NoScope}
<1>1. RefAt(r, SlotLevel[s]) \in Scope \cup {NoScope}
  <2>1. ScopeRef[r] \in [LevelOf[Root]..LevelOf[r] -> Scope \cup {NoScope}]
    BY ScopesAssumption
  <2>2. /\ SlotLevel[s] \in Nat /\ LevelOf[Root] <= SlotLevel[s]
        /\ LevelOf[r] \in Nat /\ LevelOf[Root] \in Nat
    BY ScopesAssumption, SlotsAssumption
  <2> QED BY <2>1, <2>2 DEF RefAt
<1> QED BY <1>1 DEF Home

(* Assigning one entry of a table of tables. *)
LEMMA Update ==
    ASSUME NEW X, NEW Y, NEW V, NEW f \in [X -> [Y -> V]],
           NEW x \in X, NEW y \in Y, NEW v \in V
    PROVE  /\ [f EXCEPT ![x][y] = v] \in [X -> [Y -> V]]
           /\ [f EXCEPT ![x][y] = v][x][y] = v
           /\ \A a \in X, b \in Y :
                 a # x \/ b # y => [f EXCEPT ![x][y] = v][a][b] = f[a][b]
OBVIOUS

(* Frames take one argument at a time and stop at the last one. *)
FrameInv ==
    \A t \in Task, s \in Slot :
        /\ Len(got[t][s]) <= Len(Args[s])
        /\ At(t, s, "wait") => Len(got[t][s]) < Len(Args[s])

TypeInv == TypeOK /\ FrameInv

LEMMA NextArgType ==
    ASSUME TypeInv, NEW t \in Task, NEW s \in Slot,
           At(t, s, "wait") \/ ~HasAllArgs(t, s)
    PROVE  /\ NextArg(t, s) \in Slot /\ NextArg(t, s) # s
           /\ Rank[NextArg(t, s)] < Rank[s]
<1>1. Args[s] \in Seq(Slot) /\ got[t][s] \in Seq(Nat)
  BY SlotsAssumption DEF TypeInv, TypeOK
<1>2. Len(got[t][s]) < Len(Args[s])
  BY <1>1 DEF TypeInv, FrameInv, HasAllArgs
<1>3. Len(got[t][s]) + 1 \in DOMAIN Args[s]
  BY <1>1, <1>2
<1>4. NextArg(t, s) \in Slot /\ Rank[NextArg(t, s)] < Rank[s]
  BY <1>3, ArgOfSlot DEF NextArg
<1>5. Rank[s] \in Nat
  BY RankType
<1>6. NextArg(t, s) # s
  BY <1>4, <1>5
<1> QED BY <1>4, <1>6

LEMMA TypeInit == Init => TypeInv
<1> SUFFICES ASSUME Init PROVE TypeInv
  OBVIOUS
<1>1. TypeOK
  BY ScopesAssumption DEF Init, TypeOK, PC
<1>2. FrameInv
  BY SlotsAssumption DEF Init, FrameInv, At
<1> QED BY <1>1, <1>2 DEF TypeInv

LEMMA ControlType ==
    ASSUME TypeOK, NEW t \in Task, NEW next \in {t, Nobody}, Control(t, next)
    PROVE  running' \in [Thread -> Task \cup {Nobody}]
BY CallersAssumption DEF TypeOK, Control

LEMMA GotoType ==
    ASSUME TypeOK, NEW t \in Task, NEW s \in Slot, NEW label \in PC, Goto(t, s, label)
    PROVE  /\ pc' \in [Task -> [Slot -> PC]]
           /\ pc'[t][s] = label
           /\ \A u \in Task, x \in Slot : u # t \/ x # s => pc'[u][x] = pc[u][x]
BY DEF TypeOK, Goto

LEMMA PopType ==
    ASSUME TypeOK, NEW t \in Task, NEW s \in Slot, Pop(t, s)
    PROVE  /\ self' \in [Task -> [Slot -> Scope]]
           /\ value' \in [Task -> [Slot -> Nat]]
BY ScopesAssumption DEF TypeOK, Pop

LEMMA DeliverType ==
    ASSUME TypeOK, NEW t \in Task, NEW s \in Slot, Deliver(t, s)
    PROVE  delivered' \in [Scope -> [Slot -> SUBSET Nat]]
<1>1. self[t][s] \in Scope /\ value[t][s] \in Nat
  BY DEF TypeOK
<1> QED BY <1>1 DEF TypeOK, Deliver

(* A step that moves one frame, and waits for no argument, keeps FrameInv. *)
LEMMA GotoFrame ==
    ASSUME TypeInv, NEW t \in Task, NEW s \in Slot, NEW label \in PC \ {"wait"},
           Goto(t, s, label), got' = got
    PROVE  FrameInv'
BY GotoType DEF TypeInv, FrameInv, At

(* Every step keeps the type invariant: one step per action. *)
LEMMA TypeStep == TypeInv /\ [Next]_vars => TypeInv'
<1> SUFFICES ASSUME TypeInv PROVE [Next]_vars => TypeInv'
  OBVIOUS
<1> USE DEF TypeInv, shared, frame, Runs, Yields
<1>1. ASSUME NEW t \in Task, NEW r \in Scope, NEW s \in Slot, Call(t, r, s)
      PROVE  TypeInv'
  <2>1. running' \in [Thread -> Task \cup {Nobody}]
    BY <1>1, ControlType DEF Call
  <2>2. "enter" \in PC \ {"wait"} /\ Goto(t, s, "enter")
    BY <1>1 DEF Call, PC
  <2>5. goal' \in [Task -> (Scope \X Slot) \cup {Nobody}]
    BY <1>1 DEF Call, TypeOK
  <2>6. calls' \in [Task -> Nat]
    BY <1>1 DEF Call, TypeOK
  <2>7. self' \in [Task -> [Slot -> Scope]]
    BY <1>1 DEF Call, TypeOK
  <2>3. TypeOK'
    BY <1>1, <2>1, <2>2, <2>5, <2>6, <2>7, GotoType DEF Call, TypeOK
  <2> QED BY <1>1, <2>2, <2>3, GotoFrame DEF Call
<1>2. ASSUME NEW t \in Task, NEW s \in Slot, Delegate(t, s) PROVE TypeInv'
  <2>0. Home(self[t][s], s) \in Scope \cup {NoScope}
    BY HomeType DEF TypeOK
  <2>1. running' \in [Thread -> Task \cup {Nobody}]
    BY <1>2, ControlType DEF Delegate
  <2>2. PICK label \in PC \ {"wait"} : Goto(t, s, label)
    BY <1>2, <2>0 DEF Delegate, PC
  <2>5. self' \in [Task -> [Slot -> Scope]]
    <3>1. \/ self' = self
          \/ /\ self' = [self EXCEPT ![t][s] = Home(self[t][s], s)]
             /\ Home(self[t][s], s) \in Scope
      BY <1>2, <2>0 DEF Delegate
    <3>2. self \in [Task -> [Slot -> Scope]]
      BY DEF TypeOK
    <3> QED BY <3>1, <3>2, Update
  <2>3. TypeOK'
    BY <1>2, <2>1, <2>2, <2>5, GotoType DEF Delegate, TypeOK
  <2> QED BY <1>2, <2>2, <2>3, GotoFrame DEF Delegate
<1>3. ASSUME NEW t \in Task, NEW s \in Slot, CallRebound(t, s) PROVE TypeInv'
  <2>1. running' \in [Thread -> Task \cup {Nobody}]
    BY <1>3, ControlType DEF CallRebound
  <2>2. PICK label \in PC \ {"wait"} : Goto(t, s, label)
    BY <1>3, ScopesAssumption DEF CallRebound, PC
  <2>3. TypeOK'
    BY <1>3, <2>1, <2>2, GotoType, ScopesAssumption DEF CallRebound, TypeOK
  <2> QED BY <1>3, <2>2, <2>3, GotoFrame DEF CallRebound
<1>4. ASSUME NEW t \in Task, NEW s \in Slot, Look(t, s) PROVE TypeInv'
  <2>1. running' \in [Thread -> Task \cup {Nobody}]
    BY <1>4, ControlType DEF Look
  <2>2. PICK label \in PC \ {"wait"} : Goto(t, s, label)
    BY <1>4 DEF Look, PC
  <2>5. value' \in [Task -> [Slot -> Nat]]
    <3>1. cache[self[t][s]][s] \in Nat
      BY DEF TypeOK
    <3>2. \/ value' = value
          \/ value' = [value EXCEPT ![t][s] = cache[self[t][s]][s]]
      BY <1>4 DEF Look
    <3>3. value \in [Task -> [Slot -> Nat]]
      BY DEF TypeOK
    <3> QED BY <3>1, <3>2, <3>3, Update
  <2>3. TypeOK'
    BY <1>4, <2>1, <2>2, <2>5, GotoType DEF Look, TypeOK
  <2> QED BY <1>4, <2>2, <2>3, GotoFrame DEF Look
<1>5. ASSUME NEW t \in Task, NEW s \in Slot, Acquire(t, s) PROVE TypeInv'
  <2>1. running' \in [Thread -> Task \cup {Nobody}]
    BY <1>5, ControlType DEF Acquire
  <2>2. PICK label \in PC \ {"wait"} : Goto(t, s, label)
    BY <1>5 DEF Acquire, PC
  <2>3. TypeOK'
    BY <1>5, <2>1, <2>2, GotoType DEF Acquire, TypeOK
  <2> QED BY <1>5, <2>2, <2>3, GotoFrame DEF Acquire
<1>6. ASSUME NEW t \in Task, NEW s \in Slot, AwaitLock(t, s) PROVE TypeInv'
  <2>1. running' \in [Thread -> Task \cup {Nobody}]
    BY <1>6, ControlType DEF AwaitLock
  <2> QED BY <1>6, <2>1 DEF AwaitLock, TypeOK, FrameInv, At
<1>7. ASSUME NEW t \in Task, NEW s \in Slot, Relook(t, s) PROVE TypeInv'
  <2>1. running' \in [Thread -> Task \cup {Nobody}]
    BY <1>7, ControlType DEF Relook
  <2>2. PICK label \in PC \ {"wait"} : Goto(t, s, label)
    BY <1>7 DEF Relook, PC
  <2>5. value' \in [Task -> [Slot -> Nat]]
    <3>1. cache[self[t][s]][s] \in Nat
      BY DEF TypeOK
    <3>2. \/ value' = value
          \/ value' = [value EXCEPT ![t][s] = cache[self[t][s]][s]]
      BY <1>7 DEF Relook
    <3>3. value \in [Task -> [Slot -> Nat]]
      BY DEF TypeOK
    <3> QED BY <3>1, <3>2, <3>3, Update
  <2>3. TypeOK'
    BY <1>7, <2>1, <2>2, <2>5, GotoType DEF Relook, TypeOK
  <2> QED BY <1>7, <2>2, <2>3, GotoFrame DEF Relook
<1>8. ASSUME NEW t \in Task, NEW s \in Slot, CallArg(t, s) PROVE TypeInv'
  <2>1. NextArg(t, s) \in Slot /\ NextArg(t, s) # s
    BY <1>8, NextArgType DEF CallArg
  <2>2. Len(got[t][s]) < Len(Args[s])
    BY <1>8, SlotsAssumption DEF CallArg, HasAllArgs, FrameInv, TypeOK
  <2>3. running' \in [Thread -> Task \cup {Nobody}]
    BY <1>8, ControlType DEF CallArg
  <2>4. pc' \in [Task -> [Slot -> PC]] /\ self' \in [Task -> [Slot -> Scope]]
    BY <1>8, <2>1 DEF CallArg, TypeOK, PC
  <2>5. TypeOK'
    BY <1>8, <2>3, <2>4 DEF CallArg, TypeOK
  <2>6. FrameInv'
    BY <1>8, <2>1, <2>2 DEF CallArg, TypeOK, FrameInv, At
  <2> QED BY <2>5, <2>6
<1>9. ASSUME NEW t \in Task, NEW s \in Slot, TakeArg(t, s) PROVE TypeInv'
  <2> DEFINE d == NextArg(t, s)
  <2>1. d \in Slot /\ d # s
    BY <1>9, NextArgType DEF TakeArg
  <2>2. Len(got[t][s]) < Len(Args[s]) /\ Args[s] \in Seq(Slot)
    BY <1>9, SlotsAssumption DEF TakeArg, FrameInv
  <2>3. running' \in [Thread -> Task \cup {Nobody}]
    BY <1>9, ControlType DEF TakeArg
  <2>4. /\ self' \in [Task -> [Slot -> Scope]] /\ value' \in [Task -> [Slot -> Nat]]
        /\ delivered' \in [Scope -> [Slot -> SUBSET Nat]]
    BY <1>9, <2>1, PopType, DeliverType DEF TakeArg
  <2>5. /\ pc' \in [Task -> [Slot -> PC]]
        /\ \A u \in Task, x \in Slot :
              u # t \/ (x # s /\ x # d) => pc'[u][x] = pc[u][x]
    <3>1. pc \in [Task -> [Slot -> PC]]
      BY DEF TypeOK
    <3>2. pc' = [pc EXCEPT ![t][s] = "args", ![t][d] = "idle"]
      BY <1>9 DEF TakeArg
    <3>3. "args" \in PC /\ "idle" \in PC
      BY DEF PC
    <3> QED BY <2>1, <3>1, <3>2, <3>3
  <2>6. Append(got[t][s], value[t][d]) \in Seq(Nat) /\ <<>> \in Seq(Nat)
    BY <2>1 DEF TypeOK
  <2>7. /\ got' \in [Task -> [Slot -> Seq(Nat)]]
        /\ got'[t][s] = Append(got[t][s], value[t][d]) /\ got'[t][d] = <<>>
        /\ \A u \in Task, x \in Slot :
              u # t \/ (x # s /\ x # d) => got'[u][x] = got[u][x]
    <3>1. got \in [Task -> [Slot -> Seq(Nat)]]
      BY DEF TypeOK
    <3>2. got' = [got EXCEPT ![t][s] = Append(got[t][s], value[t][d]), ![t][d] = <<>>]
      BY <1>9 DEF TakeArg
    <3> QED BY <2>1, <2>6, <3>1, <3>2
  <2>8. TypeOK'
    BY <1>9, <2>3, <2>4, <2>5, <2>7 DEF TakeArg, TypeOK
  <2>9. Len(got'[t][s]) = Len(got[t][s]) + 1 /\ Len(got'[t][d]) = 0
    <3>1. got[t][s] \in Seq(Nat) /\ value[t][d] \in Nat
      BY <2>1 DEF TypeOK
    <3>2. Len(Append(got[t][s], value[t][d])) = Len(got[t][s]) + 1
      BY <3>1
    <3> QED BY <2>7, <3>2
  <2>10. FrameInv'
    <3> SUFFICES ASSUME NEW u \in Task, NEW x \in Slot
                 PROVE  /\ Len(got'[u][x]) <= Len(Args[x])
                        /\ At(u, x, "wait")' => Len(got'[u][x]) < Len(Args[x])
      BY DEF FrameInv
    <3>1. CASE u = t /\ x = s
      <4>1. pc'[t][s] = "args"
        BY <1>9, <2>1 DEF TakeArg, TypeOK
      <4>2. got[t][s] \in Seq(Nat)
        BY DEF TypeOK
      <4> QED BY <2>2, <2>9, <3>1, <4>1, <4>2 DEF At
    <3>2. CASE u = t /\ x = d
      BY <1>9, <2>1, <2>9, <3>2, SlotsAssumption DEF TakeArg, At, TypeOK
    <3>3. CASE u # t \/ (x # s /\ x # d)
      <4>1. got'[u][x] = got[u][x] /\ pc'[u][x] = pc[u][x]
        BY <2>5, <2>7, <3>3
      <4> QED BY <4>1 DEF FrameInv, At
    <3> QED BY <3>1, <3>2, <3>3
  <2> QED BY <2>8, <2>10
<1>10. ASSUME NEW t \in Task, NEW s \in Slot, ArgFailed(t, s) PROVE TypeInv'
  <2> DEFINE d == NextArg(t, s)
  <2>1. d \in Slot /\ d # s
    BY <1>10, NextArgType DEF ArgFailed
  <2>2. running' \in [Thread -> Task \cup {Nobody}]
    BY <1>10, ControlType DEF ArgFailed
  <2>3. self' \in [Task -> [Slot -> Scope]] /\ value' \in [Task -> [Slot -> Nat]]
    BY <1>10, <2>1, PopType DEF ArgFailed
  <2>4. Abort(s) \in PC \ {"wait"}
    BY DEF Abort, PC
  <2>5. pc' \in [Task -> [Slot -> PC]]
    BY <1>10, <2>1, <2>4 DEF ArgFailed, TypeOK, PC
  <2>6. got' \in [Task -> [Slot -> Seq(Nat)]]
    BY <1>10, <2>1 DEF ArgFailed, TypeOK
  <2>7. TypeOK'
    BY <1>10, <2>2, <2>3, <2>5, <2>6 DEF ArgFailed, TypeOK
  <2>8. FrameInv'
    <3> SUFFICES ASSUME NEW u \in Task, NEW x \in Slot
                 PROVE  /\ Len(got'[u][x]) <= Len(Args[x])
                        /\ At(u, x, "wait")' => Len(got'[u][x]) < Len(Args[x])
      BY DEF FrameInv
    <3>1. CASE u = t /\ x = d
      <4>1. got'[t][d] = <<>> /\ pc'[t][d] = "idle"
        BY <1>10, <2>1 DEF ArgFailed, TypeOK
      <4> QED BY <3>1, <4>1, SlotsAssumption DEF At
    <3>2. CASE u = t /\ x = s
      <4>1. got'[t][s] = got[t][s] /\ pc'[t][s] # "wait"
        BY <1>10, <2>1, <2>4 DEF ArgFailed, TypeOK
      <4> QED BY <3>2, <4>1 DEF At, FrameInv
    <3>3. CASE u # t \/ (x # s /\ x # d)
      <4>1. got'[u][x] = got[u][x] /\ pc'[u][x] = pc[u][x]
        BY <1>10, <2>1, <3>3 DEF ArgFailed, TypeOK
      <4> QED BY <4>1 DEF FrameInv, At
    <3> QED BY <3>1, <3>2, <3>3
  <2> QED BY <2>7, <2>8
<1>11. ASSUME NEW t \in Task, NEW s \in Slot, AwaitProvider(t, s) PROVE TypeInv'
  <2>1. running' \in [Thread -> Task \cup {Nobody}]
    BY <1>11, ControlType DEF AwaitProvider
  <2>2. PICK label \in PC \ {"wait"} : Goto(t, s, label)
    BY <1>11 DEF AwaitProvider, PC
  <2>3. TypeOK'
    BY <1>11, <2>1, <2>2, GotoType DEF AwaitProvider, TypeOK
  <2> QED BY <1>11, <2>2, <2>3, GotoFrame DEF AwaitProvider
<1>12. ASSUME NEW t \in Task, NEW s \in Slot, Build(t, s) PROVE TypeInv'
  <2>1. running' \in [Thread -> Task \cup {Nobody}]
    BY <1>12, ControlType DEF Build
  <2>2. PICK label \in PC \ {"wait"} : Goto(t, s, label)
    BY <1>12 DEF Build, PC
  <2>5. born' \in [Slot -> Seq(Instance)]
    <3> DEFINE instance == [scope |-> self[t][s], args |-> got[t][s]]
    <3>1. instance \in Instance
      BY DEF TypeOK, Instance
    <3>2. born' = [born EXCEPT ![s] = Append(born[s], instance)]
      BY <1>12 DEF Build
    <3> HIDE DEF instance
    <3>3. Append(born[s], instance) \in Seq(Instance)
      BY <3>1 DEF TypeOK
    <3> QED BY <3>2, <3>3 DEF TypeOK
  <2>6. value' \in [Task -> [Slot -> Nat]]
    BY <1>12 DEF Build, TypeOK
  <2>3. TypeOK'
    BY <1>12, <2>1, <2>2, <2>5, <2>6, GotoType DEF Build, TypeOK
  <2> QED BY <1>12, <2>2, <2>3, GotoFrame DEF Build
<1>13. ASSUME NEW t \in Task, NEW s \in Slot, Store(t, s) PROVE TypeInv'
  <2>1. running' \in [Thread -> Task \cup {Nobody}]
    BY <1>13, ControlType DEF Store
  <2>2. PICK label \in PC \ {"wait"} : Goto(t, s, label)
    BY <1>13 DEF Store, PC, Finish
  <2>5. cache' \in [Scope -> [Slot -> Nat]]
    BY <1>13 DEF Store, TypeOK
  <2>3. TypeOK'
    BY <1>13, <2>1, <2>2, <2>5, GotoType DEF Store, TypeOK
  <2> QED BY <1>13, <2>2, <2>3, GotoFrame DEF Store
<1>14. ASSUME NEW t \in Task, NEW s \in Slot, Rebind(t, s) PROVE TypeInv'
  <2>1. running' \in [Thread -> Task \cup {Nobody}]
    BY <1>14, ControlType DEF Rebind
  <2>2. PICK label \in PC \ {"wait"} : Goto(t, s, label)
    BY <1>14 DEF Rebind, PC, Finish
  <2>5. rebound' \in [Slot -> Nat]
    BY <1>14 DEF Rebind, TypeOK
  <2>3. TypeOK'
    BY <1>14, <2>1, <2>2, <2>5, GotoType DEF Rebind, TypeOK
  <2> QED BY <1>14, <2>2, <2>3, GotoFrame DEF Rebind
<1>15. ASSUME NEW t \in Task, NEW s \in Slot, Release(t, s) PROVE TypeInv'
  <2>1. running' \in [Thread -> Task \cup {Nobody}]
    BY <1>15, ControlType DEF Release
  <2>2. PICK label \in PC \ {"wait"} : Goto(t, s, label)
    BY <1>15 DEF Release, PC
  <2>3. TypeOK'
    BY <1>15, <2>1, <2>2, GotoType DEF Release, TypeOK
  <2> QED BY <1>15, <2>2, <2>3, GotoFrame DEF Release
<1>16. ASSUME NEW t \in Task, Return(t) PROVE TypeInv'
  <2> DEFINE s == goal[t][2]
  <2>1. s \in Slot
    BY <1>16 DEF Return, TypeOK
  <2>2. running' \in [Thread -> Task \cup {Nobody}]
    BY <1>16, ControlType DEF Return
  <2>3. self' \in [Task -> [Slot -> Scope]] /\ value' \in [Task -> [Slot -> Nat]]
    BY <1>16, <2>1, PopType DEF Return
  <2>4. delivered' \in [Scope -> [Slot -> SUBSET Nat]]
    BY <1>16, <2>1, DeliverType DEF Return, TypeOK
  <2>5. "idle" \in PC /\ Goto(t, s, "idle")
    BY <1>16 DEF Return, PC
  <2>6. got' \in [Task -> [Slot -> Seq(Nat)]]
    BY <1>16, <2>1 DEF Return, TypeOK
  <2>9. /\ got'[t][s] = <<>>
        /\ \A u \in Task, x \in Slot : u # t \/ x # s => got'[u][x] = got[u][x]
    BY <1>16, <2>1 DEF Return, TypeOK
  <2>7. TypeOK'
    BY <1>16, <2>1, <2>2, <2>3, <2>4, <2>5, <2>6, GotoType DEF Return, TypeOK
  <2>8. FrameInv'
    <3> SUFFICES ASSUME NEW u \in Task, NEW x \in Slot
                 PROVE  /\ Len(got'[u][x]) <= Len(Args[x])
                        /\ At(u, x, "wait")' => Len(got'[u][x]) < Len(Args[x])
      BY DEF FrameInv
    <3>1. CASE u = t /\ x = s
      <4>1. got'[t][s] = <<>> /\ pc'[t][s] = "idle"
        BY <2>1, <2>5, <2>9, GotoType
      <4> QED BY <3>1, <4>1, SlotsAssumption DEF At
    <3>2. CASE u # t \/ x # s
      <4>1. got'[u][x] = got[u][x] /\ pc'[u][x] = pc[u][x]
        BY <2>1, <2>5, <2>9, <3>2, GotoType
      <4> QED BY <4>1 DEF FrameInv, At
    <3> QED BY <3>1, <3>2
  <2> QED BY <2>7, <2>8
<1>17. ASSUME NEW t \in Task, NEW s \in Slot, Raise(t, s) PROVE TypeInv'
  <2>1. running' \in [Thread -> Task \cup {Nobody}]
    BY <1>17, ControlType DEF Raise
  <2>2. PICK label \in PC \ {"wait"} : Goto(t, s, label)
    BY <1>17 DEF Raise, PC, Abort
  <2>5. faults' \in Nat
    BY <1>17 DEF Raise, TypeOK
  <2>3. TypeOK'
    BY <1>17, <2>1, <2>2, <2>5, GotoType DEF Raise, TypeOK
  <2> QED BY <1>17, <2>2, <2>3, GotoFrame DEF Raise
<1>18. ASSUME NEW t \in Task, NEW s \in Slot, CancelWait(t, s) PROVE TypeInv'
  <2>1. running' \in [Thread -> Task \cup {Nobody}]
    BY <1>18, ControlType DEF CancelWait
  <2>2. PICK label \in PC \ {"wait"} : Goto(t, s, label)
    BY <1>18 DEF CancelWait, PC
  <2>5. faults' \in Nat
    BY <1>18 DEF CancelWait, TypeOK
  <2>3. TypeOK'
    BY <1>18, <2>1, <2>2, <2>5, GotoType DEF CancelWait, TypeOK
  <2> QED BY <1>18, <2>2, <2>3, GotoFrame DEF CancelWait
<1>19. CASE UNCHANGED vars
  BY <1>19 DEF vars, TypeOK, FrameInv, At
<1> QED
  BY <1>1, <1>2, <1>3, <1>4, <1>5, <1>6, <1>7, <1>8, <1>9, <1>10, <1>11, <1>12,
     <1>13, <1>14, <1>15, <1>16, <1>17, <1>18, <1>19
     DEF Next, TaskStep, FrameStep, Fault, Done

(* The variables of the model always have their types: in particular every *)
(* frame runs on an open resolver and every cached value is an instance.   *)
THEOREM TypeCorrect == Spec => []TypeOK
<1>1. TypeInv => TypeOK
  BY DEF TypeInv
<1> QED BY TypeInit, TypeStep, <1>1, PTL DEF Spec

-----------------------------------------------------------------------------
(* The frames of a caller form one chain.  Between calls there is none;    *)
(* during a call the goal's frame ranks highest, the running frame lowest, *)
(* every other one waits, and nothing ranks between a waiting frame and    *)
(* the argument it waits for.                                              *)
Active(t, s) == pc[t][s] # "idle"
Waits(t, s)  == pc[t][s] = "wait"

ChainInv ==
    \A t \in Task :
        /\ goal[t] = Nobody => \A s \in Slot : ~Active(t, s)
        /\ goal[t] # Nobody =>
              \A s \in Slot : Active(t, s) => s = goal[t][2] \/ Rank[s] < Rank[goal[t][2]]
        /\ \A s, x \in Slot :
              Active(t, s) /\ ~Waits(t, s) /\ Active(t, x) /\ x # s =>
                Waits(t, x) /\ Rank[s] < Rank[x]
        /\ \A s, x \in Slot :
              Waits(t, s) /\ Active(t, x) /\ x # s =>
                Rank[s] < Rank[x] \/ Rank[x] <= Rank[NextArg(t, s)]

(* The running frame of a call goes on to another label. *)
Move(t, s) ==
    /\ Active(t, s) /\ ~Waits(t, s)
    /\ \E label \in PC \ {"idle", "wait"} : Goto(t, s, label)
    /\ UNCHANGED <<got, goal>>

LEMMA MoveStep ==
    ASSUME TypeInv, NEW t \in Task, NEW s \in Slot,
           \/ Delegate(t, s) \/ CallRebound(t, s) \/ Look(t, s) \/ Acquire(t, s)
           \/ Relook(t, s) \/ AwaitProvider(t, s) \/ Build(t, s) \/ Store(t, s)
           \/ Rebind(t, s) \/ Release(t, s) \/ Raise(t, s) \/ CancelWait(t, s)
    PROVE  Move(t, s)
<1> USE DEF Move, Active, Waits, At, PC
<1>1. CASE Delegate(t, s)
  BY <1>1 DEF Delegate
<1>2. CASE CallRebound(t, s)
  BY <1>2 DEF CallRebound, shared
<1>3. CASE Look(t, s)
  BY <1>3 DEF Look
<1>4. CASE Acquire(t, s)
  BY <1>4 DEF Acquire
<1>5. CASE Relook(t, s)
  BY <1>5 DEF Relook
<1>6. CASE AwaitProvider(t, s)
  BY <1>6 DEF AwaitProvider
<1>7. CASE Build(t, s)
  BY <1>7 DEF Build, ProviderTurn
<1>8. CASE Store(t, s)
  BY <1>8 DEF Store, Finish
<1>9. CASE Rebind(t, s)
  BY <1>9 DEF Rebind, Finish
<1>10. CASE Release(t, s)
  BY <1>10 DEF Release
<1>11. CASE Raise(t, s)
  BY <1>11 DEF Raise, Abort, ProviderTurn
<1>12. CASE CancelWait(t, s)
  BY <1>12 DEF CancelWait
<1> QED BY <1>1, <1>2, <1>3, <1>4, <1>5, <1>6, <1>7, <1>8, <1>9, <1>10, <1>11, <1>12

LEMMA ChainMove ==
    ASSUME TypeInv, ChainInv, NEW t \in Task, NEW s \in Slot, Move(t, s)
    PROVE  ChainInv'
<1>1. PICK label \in PC \ {"idle", "wait"} : Goto(t, s, label)
  BY DEF Move
<1>2. /\ pc'[t][s] # "idle" /\ pc'[t][s] # "wait"
      /\ \A u \in Task, x \in Slot : u # t \/ x # s => pc'[u][x] = pc[u][x]
  BY <1>1, GotoType DEF TypeInv
<1>3. pc[t][s] # "idle" /\ pc[t][s] # "wait" /\ got' = got /\ goal' = goal
  BY DEF Move, Active, Waits
<1>4. \A u \in Task, x \in Slot :
        /\ Active(u, x)' <=> Active(u, x)
        /\ Waits(u, x)' <=> Waits(u, x)
        /\ NextArg(u, x)' = NextArg(u, x)
  BY <1>2, <1>3 DEF Active, Waits, NextArg
<1> QED BY <1>3, <1>4 DEF ChainInv

(* A call adds the goal's frame to an empty chain. *)
LEMMA ChainCall ==
    ASSUME TypeInv, ChainInv, NEW t \in Task, NEW r \in Scope, NEW s \in Slot, Call(t, r, s)
    PROVE  ChainInv'
<1>1. "enter" \in PC /\ Goto(t, s, "enter")
  BY DEF Call, PC
<1>2. /\ pc'[t][s] = "enter"
      /\ \A u \in Task, x \in Slot : u # t \/ x # s => pc'[u][x] = pc[u][x]
  BY <1>1, GotoType DEF TypeInv
<1>3. got' = got /\ goal[t] = Nobody /\ goal' = [goal EXCEPT ![t] = <<r, s>>]
  BY DEF Call
<1>4. /\ goal'[t] = <<r, s>> /\ goal'[t] # Nobody
      /\ \A u \in Task : u # t => goal'[u] = goal[u]
  BY <1>3, CallersAssumption DEF TypeInv, TypeOK
<1>5. \A u \in Task, x \in Slot :
        /\ u # t => (Active(u, x)' <=> Active(u, x)) /\ (Waits(u, x)' <=> Waits(u, x))
        /\ u = t => (Active(u, x)' <=> x = s) /\ ~Waits(u, x)'
        /\ NextArg(u, x)' = NextArg(u, x)
  BY <1>2, <1>3 DEF ChainInv, Active, Waits, NextArg
<1> QED BY <1>4, <1>5 DEF ChainInv

LEMMA ChainStep == TypeInv /\ ChainInv /\ [Next]_vars => ChainInv'
<1> SUFFICES ASSUME TypeInv, ChainInv PROVE [Next]_vars => ChainInv'
  OBVIOUS
<1>1. ASSUME NEW t \in Task, NEW r \in Scope, NEW s \in Slot, Call(t, r, s)
      PROVE  ChainInv'
  BY <1>1, ChainCall
<1>2. ASSUME NEW t \in Task, NEW s \in Slot,
             \/ Delegate(t, s) \/ CallRebound(t, s) \/ Look(t, s) \/ Acquire(t, s)
             \/ Relook(t, s) \/ AwaitProvider(t, s) \/ Build(t, s) \/ Store(t, s)
             \/ Rebind(t, s) \/ Release(t, s) \/ Raise(t, s) \/ CancelWait(t, s)
      PROVE  ChainInv'
  BY <1>2, MoveStep, ChainMove
<1>3. ASSUME NEW t \in Task, NEW s \in Slot, AwaitLock(t, s) PROVE ChainInv'
  BY <1>3 DEF AwaitLock, frame, ChainInv, Active, Waits, NextArg
<1>4. ASSUME NEW t \in Task, NEW s \in Slot, CallArg(t, s) PROVE ChainInv'
  <2> DEFINE d == NextArg(t, s)
  <2>1. d \in Slot /\ d # s /\ Rank[d] < Rank[s]
    BY <1>4, NextArgType DEF CallArg
  <2>2. pc[t][s] = "args" /\ got' = got /\ goal' = goal
    BY <1>4 DEF CallArg, At
  <2>3. /\ pc'[t][s] = "wait" /\ pc'[t][d] = "enter"
        /\ \A u \in Task, x \in Slot :
              u # t \/ (x # s /\ x # d) => pc'[u][x] = pc[u][x]
    BY <1>4, <2>1 DEF CallArg, TypeInv, TypeOK
  <2>4. ~Active(t, d)
    BY <2>1, <2>2, RankType DEF ChainInv, Active, Waits
  <2>5. \A u \in Task, x \in Slot :
          /\ Active(u, x)' <=> Active(u, x) \/ (u = t /\ x = d)
          /\ Waits(u, x)' <=> Waits(u, x) \/ (u = t /\ x = s)
          /\ NextArg(u, x)' = NextArg(u, x)
    BY <2>1, <2>2, <2>3, <2>4 DEF Active, Waits, NextArg
  <2> HIDE DEF d
  <2>6. Active(t, s) /\ ~Waits(t, s) /\ goal[t] # Nobody
    BY <2>2 DEF Active, Waits, ChainInv
  <2>7. \A u \in Task : u # t =>
          \A x \in Slot :
            /\ Active(u, x)' <=> Active(u, x)
            /\ Waits(u, x)' <=> Waits(u, x)
            /\ NextArg(u, x)' = NextArg(u, x)
    BY <2>5
  <2>8. \A x \in Slot :
          /\ Active(t, x)' <=> Active(t, x) \/ x = d
          /\ Waits(t, x)' <=> Waits(t, x) \/ x = s
          /\ NextArg(t, x)' = NextArg(t, x)
    BY <2>5
  <2>9. /\ \A x \in Slot : Active(t, x) => x = goal[t][2] \/ Rank[x] < Rank[goal[t][2]]
        /\ \A x \in Slot : Active(t, x) /\ x # s => Waits(t, x) /\ Rank[s] < Rank[x]
        /\ \A x, y \in Slot :
              Waits(t, x) /\ Active(t, y) /\ y # x =>
                Rank[x] < Rank[y] \/ Rank[y] <= Rank[NextArg(t, x)]
    BY <2>6 DEF ChainInv
  <2>10. goal[t][2] \in Slot /\ Rank \in [Slot -> Nat]
    BY <2>6, RankType DEF TypeInv, TypeOK
  <2>11. NextArg(t, s) = d
    BY DEF d
  <2>12. \A x \in Slot : Active(t, x)' => x = goal[t][2] \/ Rank[x] < Rank[goal[t][2]]
    <3> SUFFICES ASSUME NEW x \in Slot, Active(t, x)'
                 PROVE  x = goal[t][2] \/ Rank[x] < Rank[goal[t][2]]
      OBVIOUS
    <3>1. Active(t, x) \/ x = d
      BY <2>8
    <3>2. Rank[s] <= Rank[goal[t][2]]
      BY <2>6, <2>9, <2>10
    <3>3. Rank[d] < Rank[goal[t][2]]
      BY <2>1, <2>10, <3>2
    <3> QED BY <2>9, <3>1, <3>3
  <2>13. \A x, y \in Slot :
          Active(t, x)' /\ ~Waits(t, x)' /\ Active(t, y)' /\ y # x =>
            Waits(t, y)' /\ Rank[x] < Rank[y]
    <3> SUFFICES ASSUME NEW x \in Slot, NEW y \in Slot,
                        Active(t, x)', ~Waits(t, x)', Active(t, y)', y # x
                 PROVE  Waits(t, y)' /\ Rank[x] < Rank[y]
      OBVIOUS
    <3>1. x = d /\ Active(t, y)
      BY <2>8, <2>9
    <3>2. y = s \/ (Waits(t, y) /\ Rank[s] < Rank[y])
      BY <2>9, <3>1
    <3> QED BY <2>1, <2>8, <2>10, <3>1, <3>2
  <2>14. \A x, y \in Slot :
          Waits(t, x)' /\ Active(t, y)' /\ y # x =>
            Rank[x] < Rank[y] \/ Rank[y] <= Rank[NextArg(t, x)']
    <3> SUFFICES ASSUME NEW x \in Slot, NEW y \in Slot,
                        Waits(t, x)', Active(t, y)', y # x
                 PROVE  Rank[x] < Rank[y] \/ Rank[y] <= Rank[NextArg(t, x)']
      OBVIOUS
    <3>1. CASE x = s
      BY <2>1, <2>8, <2>9, <2>10, <2>11, <3>1
    <3>2. CASE x # s /\ y = d
      <4>1. Waits(t, x) /\ Active(t, s)
        BY <2>6, <2>8, <3>2
      <4>2. Rank[NextArg(t, x)] \in Nat
        BY <4>1, NextArgType, RankType DEF Waits, At
      <4>3. Rank[s] < Rank[x] /\ Rank[s] <= Rank[NextArg(t, x)]
        <5>1. Active(t, x)
          BY <4>1 DEF Active, Waits
        <5> QED BY <2>6, <2>9, <2>10, <3>2, <4>1, <5>1
      <4>4. Rank[d] <= Rank[NextArg(t, x)]
        BY <2>1, <2>10, <4>2, <4>3
      <4> QED BY <2>8, <3>2, <4>4
    <3>3. CASE x # s /\ y # d
      BY <2>8, <2>9, <3>3
    <3> QED BY <3>1, <3>2, <3>3
  <2> QED
    BY <2>2, <2>6, <2>7, <2>12, <2>13, <2>14 DEF ChainInv
<1>5. ASSUME NEW t \in Task, NEW s \in Slot, TakeArg(t, s) \/ ArgFailed(t, s)
      PROVE  ChainInv'
  <2> DEFINE d == NextArg(t, s)
  <2>1. Waits(t, s) /\ d \in Slot /\ d # s /\ Rank[d] < Rank[s]
    BY <1>5, NextArgType DEF TakeArg, ArgFailed, At, Waits
  <2>2. Active(t, d) /\ ~Waits(t, d) /\ goal' = goal
    BY <1>5 DEF TakeArg, ArgFailed, At, Active, Waits
  <2>3. /\ pc'[t][d] = "idle" /\ pc'[t][s] # "idle" /\ pc'[t][s] # "wait"
        /\ \A u \in Task, x \in Slot :
              u # t \/ (x # s /\ x # d) => pc'[u][x] = pc[u][x]
    <3>1. PICK label \in PC \ {"idle", "wait"} :
            pc' = [pc EXCEPT ![t][s] = label, ![t][d] = "idle"]
      BY <1>5 DEF TakeArg, ArgFailed, Abort, PC
    <3>2. pc \in [Task -> [Slot -> PC]]
      BY DEF TypeInv, TypeOK
    <3> QED BY <2>1, <3>1, <3>2
  <2>4. \A u \in Task, x \in Slot :
          u # t \/ (x # s /\ x # d) => got'[u][x] = got[u][x]
    <3>1. got \in [Task -> [Slot -> Seq(Nat)]]
      BY DEF TypeInv, TypeOK
    <3>2. CASE TakeArg(t, s)
      <4>1. got' = [got EXCEPT ![t][s] = Append(@, value[t][d]), ![t][d] = <<>>]
        BY <3>2 DEF TakeArg
      <4> QED BY <2>1, <3>1, <4>1
    <3>3. CASE ArgFailed(t, s)
      <4>1. got' = [got EXCEPT ![t][d] = <<>>]
        BY <3>3 DEF ArgFailed
      <4> QED BY <2>1, <3>1, <4>1
    <3> QED BY <1>5, <3>2, <3>3
  <2>5. \A u \in Task, x \in Slot :
          /\ Active(u, x)' <=> Active(u, x) /\ ~(u = t /\ x = d)
          /\ Waits(u, x)' <=> Waits(u, x) /\ ~(u = t /\ x = s)
          /\ Waits(u, x)' => NextArg(u, x)' = NextArg(u, x)
    BY <2>1, <2>2, <2>3, <2>4 DEF Active, Waits, NextArg
  <2> QED
    BY <2>1, <2>2, <2>5, RankType DEF ChainInv
<1>6. ASSUME NEW t \in Task, Return(t) PROVE ChainInv'
  <2> DEFINE s == goal[t][2]
  <2>1. s \in Slot /\ goal[t] # Nobody
    BY <1>6 DEF Return, TypeInv, TypeOK
  <2>2. Active(t, s) /\ ~Waits(t, s)
    BY <1>6 DEF Return, At, Active, Waits
  <2>3. "idle" \in PC /\ Goto(t, s, "idle")
    BY <1>6 DEF Return, PC
  <2>4. /\ pc'[t][s] = "idle"
        /\ \A u \in Task, x \in Slot : u # t \/ x # s => pc'[u][x] = pc[u][x]
    BY <2>1, <2>3, GotoType DEF TypeInv
  <2>5. \A u \in Task, x \in Slot : u # t => got'[u][x] = got[u][x]
    BY <1>6, <2>1 DEF Return, TypeInv, TypeOK
  <2>6. \A x \in Slot : x # s => ~Active(t, x)
    BY <2>1, <2>2, RankType DEF ChainInv
  <2>7. \A x \in Slot : ~Active(t, x)' /\ ~Waits(t, x)'
    BY <2>4, <2>6 DEF Active, Waits
  <2>8. \A u \in Task, x \in Slot : u # t =>
          /\ Active(u, x)' <=> Active(u, x)
          /\ Waits(u, x)' <=> Waits(u, x)
          /\ NextArg(u, x)' = NextArg(u, x)
    BY <2>4, <2>5 DEF Active, Waits, NextArg
  <2>9. \A u \in Task : u # t => goal'[u] = goal[u]
    BY <1>6 DEF Return, TypeInv, TypeOK
  <2>10. goal'[t] = Nobody
    BY <1>6 DEF Return, TypeInv, TypeOK
  <2> QED BY <2>7, <2>8, <2>9, <2>10 DEF ChainInv
<1>7. CASE UNCHANGED vars
  BY <1>7 DEF vars, frame, ChainInv, Active, Waits, NextArg
<1> QED
  BY <1>1, <1>2, <1>3, <1>4, <1>5, <1>6, <1>7
     DEF Next, TaskStep, FrameStep, Fault, Done

LEMMA ChainInit == Init => ChainInv
BY RankType DEF Init, ChainInv, Active, Waits

-----------------------------------------------------------------------------
(* The caller inside a slot's lock is the one whose frame is between the   *)
(* acquisition and the end of the `with` block.                            *)
Critical   == {"relook", "args", "wait", "await", "store", "rebind", "release", "unwind"}
LockLabels == {"lock", "relook", "release", "unwind"}

LockInv ==
    \A t \in Task, s \in Slot :
        /\ Locked(s) => (slotLock[s] = t <=> pc[t][s] \in Critical)
        /\ ~Locked(s) => slotLock[s] = Nobody
        /\ pc[t][s] \in LockLabels => Locked(s)

LEMMA LockInit == Init => LockInv
BY CallersAssumption DEF Init, LockInv, Critical, LockLabels

(* A step that moves one frame neither into nor out of its lock. *)
LEMMA LockMove ==
    ASSUME TypeInv, LockInv, NEW t \in Task, NEW s \in Slot, NEW label \in PC,
           Goto(t, s, label), slotLock' = slotLock,
           Locked(s) => (label \in Critical <=> pc[t][s] \in Critical),
           label \in LockLabels => Locked(s)
    PROVE  LockInv'
<1>1. /\ pc'[t][s] = label
      /\ \A u \in Task, x \in Slot : u # t \/ x # s => pc'[u][x] = pc[u][x]
  BY GotoType DEF TypeInv
<1> QED BY <1>1 DEF LockInv, Locked, UsesThreadLock, UsesAsyncLock, EffectiveLockMode

(* A step that starts or ends the frame of one argument. *)
LEMMA LockNest ==
    ASSUME LockInv, NEW t \in Task, NEW s \in Slot, NEW d \in Slot, slotLock' = slotLock,
           pc[t][s] \in Critical, Locked(s) => pc'[t][s] \in Critical,
           pc'[t][s] \in LockLabels => Locked(s),
           pc[t][d] \notin Critical, pc'[t][d] \in {"enter", "idle"},
           \A u \in Task, x \in Slot :
              u # t \/ (x # s /\ x # d) => pc'[u][x] = pc[u][x]
    PROVE  LockInv'
<1>1. pc'[t][d] \notin Critical /\ pc'[t][d] \notin LockLabels
  BY DEF Critical, LockLabels
<1> SUFFICES ASSUME NEW u \in Task, NEW x \in Slot
             PROVE  /\ Locked(x) => (slotLock[x] = u <=> pc'[u][x] \in Critical)
                    /\ ~Locked(x) => slotLock[x] = Nobody
                    /\ pc'[u][x] \in LockLabels => Locked(x)
  BY DEF LockInv, Locked, UsesThreadLock, UsesAsyncLock, EffectiveLockMode
<1>2. CASE u = t /\ x = s
  BY <1>2 DEF LockInv
<1>3. CASE u = t /\ x = d
  BY <1>1, <1>3 DEF LockInv
<1>4. CASE u # t \/ (x # s /\ x # d)
  BY <1>4 DEF LockInv
<1> QED BY <1>2, <1>3, <1>4

LEMMA LockStep == TypeInv /\ ChainInv /\ LockInv /\ [Next]_vars => LockInv'
<1> SUFFICES ASSUME TypeInv, ChainInv, LockInv PROVE [Next]_vars => LockInv'
  OBVIOUS
<1>1. ASSUME NEW t \in Task, NEW r \in Scope, NEW s \in Slot, Call(t, r, s)
      PROVE  LockInv'
  <2>1. Goto(t, s, "enter") /\ slotLock' = slotLock /\ pc[t][s] = "idle"
    BY <1>1 DEF Call, shared, ChainInv, Active
  <2>2. "enter" \in PC /\ "enter" \notin Critical /\ "idle" \notin Critical /\ "enter" \notin LockLabels
    BY DEF PC, Critical, LockLabels
  <2> QED BY <2>1, <2>2, LockMove
<1>2. ASSUME NEW t \in Task, NEW s \in Slot, Delegate(t, s) PROVE LockInv'
  <2>1. PICK label \in {"failed", "look", "args"} : Goto(t, s, label) /\ (label = "args" => s \notin Cached)
    BY <1>2 DEF Delegate
  <2>2. slotLock' = slotLock /\ pc[t][s] = "enter"
    BY <1>2 DEF Delegate, shared, At
  <2>3. Locked(s) => s \in Cached
    BY DEF Locked, UsesThreadLock, UsesAsyncLock
  <2> QED BY <2>1, <2>2, <2>3, LockMove DEF PC, Critical, LockLabels
<1>3. ASSUME NEW t \in Task, NEW s \in Slot, CallRebound(t, s) PROVE LockInv'
  <2>1. Goto(t, s, "done") /\ slotLock' = slotLock /\ pc[t][s] = "enter"
    BY <1>3 DEF CallRebound, shared, At
  <2> QED BY <2>1, LockMove DEF PC, Critical, LockLabels
<1>4. ASSUME NEW t \in Task, NEW s \in Slot, Look(t, s) PROVE LockInv'
  <2>1. PICK label \in {"done", "lock", "args"} :
          /\ Goto(t, s, label)
          /\ label = "args" => ~Locked(s)
          /\ label = "lock" => Locked(s)
    BY <1>4 DEF Look
  <2>2. slotLock' = slotLock /\ pc[t][s] = "look"
    BY <1>4 DEF Look, shared, At
  <2> QED BY <2>1, <2>2, LockMove DEF PC, Critical, LockLabels
<1>5. ASSUME NEW t \in Task, NEW s \in Slot, Acquire(t, s) PROVE LockInv'
  <2>1. "relook" \in PC /\ Goto(t, s, "relook") /\ pc[t][s] = "lock"
    BY <1>5 DEF Acquire, At, PC
  <2>2. /\ pc'[t][s] = "relook"
        /\ \A u \in Task, x \in Slot : u # t \/ x # s => pc'[u][x] = pc[u][x]
    BY <2>1, GotoType DEF TypeInv
  <2>3. slotLock[s] = Nobody /\ slotLock'[s] = t /\ \A x \in Slot : x # s => slotLock'[x] = slotLock[x]
    BY <1>5 DEF Acquire, TypeInv, TypeOK
  <2>4. Locked(s)
    BY <2>1 DEF LockInv, LockLabels
  <2>5. "relook" \in Critical
    BY DEF Critical
  <2>6. t # Nobody
    BY CallersAssumption
  <2> HIDE DEF Critical, LockLabels
  <2>7. \A u \in Task : u # t => pc[u][s] \notin Critical
    BY <2>3, <2>4, CallersAssumption DEF LockInv
  <2> QED
    BY <2>2, <2>3, <2>4, <2>5, <2>6, <2>7
       DEF LockInv, Locked, UsesThreadLock, UsesAsyncLock, EffectiveLockMode
<1>6. ASSUME NEW t \in Task, NEW s \in Slot, AwaitLock(t, s) PROVE LockInv'
  BY <1>6 DEF AwaitLock, frame, shared, LockInv, Locked, UsesThreadLock, UsesAsyncLock, EffectiveLockMode
<1>7. ASSUME NEW t \in Task, NEW s \in Slot, Relook(t, s) PROVE LockInv'
  <2>1. PICK label \in {"release", "args"} : Goto(t, s, label)
    BY <1>7 DEF Relook
  <2>2. slotLock' = slotLock /\ pc[t][s] = "relook" /\ Locked(s)
    BY <1>7 DEF Relook, shared, At, LockInv, LockLabels
  <2> QED BY <2>1, <2>2, LockMove DEF PC, Critical, LockLabels
<1>8. ASSUME NEW t \in Task, NEW s \in Slot, CallArg(t, s) PROVE LockInv'
  <2> DEFINE d == NextArg(t, s)
  <2>1. d \in Slot /\ d # s /\ Rank[d] < Rank[s]
    BY <1>8, NextArgType DEF CallArg
  <2>2. pc[t][s] = "args" /\ slotLock' = slotLock
    BY <1>8 DEF CallArg, At, shared
  <2>3. pc[t][d] = "idle"
    BY <2>1, <2>2, RankType DEF ChainInv, Active, Waits
  <2>4. /\ pc'[t][s] = "wait" /\ pc'[t][d] = "enter"
        /\ \A u \in Task, x \in Slot : u # t \/ (x # s /\ x # d) => pc'[u][x] = pc[u][x]
    BY <1>8, <2>1 DEF CallArg, TypeInv, TypeOK
  <2> HIDE DEF d
  <2> QED BY <2>1, <2>2, <2>3, <2>4, LockNest DEF Critical, LockLabels
<1>9. ASSUME NEW t \in Task, NEW s \in Slot, TakeArg(t, s) PROVE LockInv'
  <2> DEFINE d == NextArg(t, s)
  <2>1. d \in Slot /\ d # s
    BY <1>9, NextArgType DEF TakeArg
  <2>2. pc[t][s] = "wait" /\ pc[t][d] = "done" /\ slotLock' = slotLock
    BY <1>9 DEF TakeArg, At, shared
  <2>3. /\ pc'[t][s] = "args" /\ pc'[t][d] = "idle"
        /\ \A u \in Task, x \in Slot : u # t \/ (x # s /\ x # d) => pc'[u][x] = pc[u][x]
    <3>1. pc' = [pc EXCEPT ![t][s] = "args", ![t][d] = "idle"]
      BY <1>9 DEF TakeArg
    <3>2. pc \in [Task -> [Slot -> PC]]
      BY DEF TypeInv, TypeOK
    <3> QED BY <2>1, <3>1, <3>2
  <2> HIDE DEF d
  <2> QED BY <2>1, <2>2, <2>3, LockNest DEF Critical, LockLabels
<1>10. ASSUME NEW t \in Task, NEW s \in Slot, ArgFailed(t, s) PROVE LockInv'
  <2> DEFINE d == NextArg(t, s)
  <2>1. d \in Slot /\ d # s
    BY <1>10, NextArgType DEF ArgFailed
  <2>2. pc[t][s] = "wait" /\ pc[t][d] = "failed" /\ slotLock' = slotLock
    BY <1>10 DEF ArgFailed, At, shared
  <2>3. /\ pc'[t][s] = Abort(s) /\ pc'[t][d] = "idle"
        /\ \A u \in Task, x \in Slot : u # t \/ (x # s /\ x # d) => pc'[u][x] = pc[u][x]
    <3>1. pc' = [pc EXCEPT ![t][s] = Abort(s), ![t][d] = "idle"]
      BY <1>10 DEF ArgFailed
    <3>2. pc \in [Task -> [Slot -> PC]]
      BY DEF TypeInv, TypeOK
    <3> QED BY <2>1, <3>1, <3>2
  <2> HIDE DEF d
  <2> QED BY <2>1, <2>2, <2>3, LockNest DEF Abort, Critical, LockLabels
<1>11. ASSUME NEW t \in Task, NEW s \in Slot, AwaitProvider(t, s) PROVE LockInv'
  <2>1. Goto(t, s, "await") /\ slotLock' = slotLock /\ pc[t][s] = "args"
    BY <1>11 DEF AwaitProvider, shared, At
  <2> QED BY <2>1, LockMove DEF PC, Critical, LockLabels
<1>12. ASSUME NEW t \in Task, NEW s \in Slot, Build(t, s) PROVE LockInv'
  <2>1. PICK label \in {"store", "done"} : Goto(t, s, label) /\ (label = "done" => s \notin Cached)
    BY <1>12 DEF Build
  <2>2. slotLock' = slotLock /\ pc[t][s] \in {"args", "await"}
    BY <1>12 DEF Build, shared, ProviderTurn, At
  <2>3. Locked(s) => s \in Cached
    BY DEF Locked, UsesThreadLock, UsesAsyncLock
  <2> QED BY <2>1, <2>2, <2>3, LockMove DEF PC, Critical, LockLabels
<1>13. ASSUME NEW t \in Task, NEW s \in Slot, Store(t, s) \/ Rebind(t, s) PROVE LockInv'
  <2>1. PICK label \in {"rebind", "release", "done"} :
          /\ Goto(t, s, label)
          /\ label = "release" => Locked(s)
          /\ label = "done" => ~Locked(s)
    BY <1>13 DEF Store, Rebind, Finish
  <2>2. slotLock' = slotLock /\ pc[t][s] \in {"store", "rebind"}
    BY <1>13 DEF Store, Rebind, At
  <2> QED BY <2>1, <2>2, LockMove DEF PC, Critical, LockLabels
<1>14. ASSUME NEW t \in Task, NEW s \in Slot, Release(t, s) PROVE LockInv'
  <2>1. PICK label \in {"done", "failed"} : Goto(t, s, label)
    BY <1>14 DEF Release
  <2>2. /\ pc'[t][s] \notin Critical /\ pc'[t][s] \notin LockLabels
        /\ \A u \in Task, x \in Slot : u # t \/ x # s => pc'[u][x] = pc[u][x]
    BY <2>1, GotoType DEF TypeInv, PC, Critical, LockLabels
  <2>3. pc[t][s] \in Critical /\ Locked(s)
    BY <1>14 DEF Release, At, LockInv, LockLabels, Critical
  <2>4. slotLock'[s] = Nobody /\ \A x \in Slot : x # s => slotLock'[x] = slotLock[x]
    BY <1>14 DEF Release, TypeInv, TypeOK
  <2>5. slotLock[s] = t
    BY <2>3 DEF LockInv
  <2>6. \A u \in Task : u # t => pc[u][s] \notin Critical
    BY <2>3, <2>5 DEF LockInv
  <2> QED
    BY <2>2, <2>3, <2>4, <2>5, <2>6, CallersAssumption
       DEF LockInv, Locked, UsesThreadLock, UsesAsyncLock, EffectiveLockMode
<1>15. ASSUME NEW t \in Task, Return(t) PROVE LockInv'
  <2> DEFINE s == goal[t][2]
  <2>1. s \in Slot
    BY <1>15 DEF Return, TypeInv, TypeOK
  <2>2. Goto(t, s, "idle") /\ slotLock' = slotLock /\ pc[t][s] \in {"done", "failed"}
    BY <1>15 DEF Return, shared, At
  <2> HIDE DEF s
  <2> QED BY <2>1, <2>2, LockMove DEF PC, Critical, LockLabels
<1>16. ASSUME NEW t \in Task, NEW s \in Slot, Raise(t, s) PROVE LockInv'
  <2>1. PICK label \in {"unwind", "failed"} : Goto(t, s, label) /\ (label = "unwind" <=> Locked(s))
    BY <1>16 DEF Raise, Abort
  <2>2. slotLock' = slotLock /\ pc[t][s] \in {"args", "await"}
    BY <1>16 DEF Raise, shared, ProviderTurn, At
  <2> QED BY <2>1, <2>2, LockMove DEF PC, Critical, LockLabels
<1>17. ASSUME NEW t \in Task, NEW s \in Slot, CancelWait(t, s) PROVE LockInv'
  <2>1. Goto(t, s, "failed") /\ slotLock' = slotLock /\ pc[t][s] = "lock"
    BY <1>17 DEF CancelWait, shared, At
  <2> QED BY <2>1, LockMove DEF PC, Critical, LockLabels
<1>18. CASE UNCHANGED vars
  BY <1>18 DEF vars, shared, frame, LockInv, Locked, UsesThreadLock, UsesAsyncLock, EffectiveLockMode
<1> QED
  BY <1>1, <1>2, <1>3, <1>4, <1>5, <1>6, <1>7, <1>8, <1>9, <1>10, <1>11, <1>12,
     <1>13, <1>14, <1>15, <1>16, <1>17, <1>18
     DEF Next, TaskStep, FrameStep, Fault, Done

-----------------------------------------------------------------------------
(* A slot requires asynchronous resolution when its own provider does or   *)
(* one of its dependencies does: the planner's recursion has a solution,   *)
(* the least set of slots closed under both rules.                         *)
LEMMA RequiresAsyncRule ==
    \A s \in Slot :
        RequiresAsync[s] <=> s \in AsyncProvider \/ \E d \in DepsOf(s) : RequiresAsync[d]
<1> DEFINE Closed(X) == /\ AsyncProvider \subseteq X
                        /\ \A s \in Slot : (\E d \in DepsOf(s) : d \in X) => s \in X
           L == {s \in Slot : \A X \in SUBSET Slot : Closed(X) => s \in X}
           Rule(f) == f = [s \in Slot |-> s \in AsyncProvider \/ \E d \in DepsOf(s) : f[d]]
<1>1. AsyncProvider \subseteq L
  BY SlotsAssumption
<1>2. Closed(L)
  BY <1>1
<1>3. \A s \in Slot : \A d \in DepsOf(s) : d \in Slot
  BY ArgOfSlot DEF DepsOf
<1>4. \A s \in L : s \in AsyncProvider \/ \E d \in DepsOf(s) : d \in L
  <2> DEFINE F == {s \in Slot : s \in AsyncProvider \/ \E d \in DepsOf(s) : d \in L}
  <2>1. F \subseteq L
    BY <1>2
  <2>2. Closed(F)
    BY <2>1, SlotsAssumption
  <2>3. L \subseteq F
    BY <2>2
  <2> QED BY <2>3
<1>5. \A s \in Slot : s \in L <=> s \in AsyncProvider \/ \E d \in DepsOf(s) : d \in L
  BY <1>1, <1>2, <1>4
<1> HIDE DEF L
<1>6. Rule([s \in Slot |-> s \in L])
  <2> DEFINE g == [s \in Slot |-> s \in L]
  <2>1. \A s \in Slot : g[s] = (s \in L)
    OBVIOUS
  <2>2. \A s \in Slot : (s \in L) <=> (s \in AsyncProvider \/ \E d \in DepsOf(s) : g[d])
    <3>1. \A s \in Slot : (\E d \in DepsOf(s) : g[d]) <=> (\E d \in DepsOf(s) : d \in L)
      BY <1>3, <2>1, Zenon
    <3> QED BY <1>5, <3>1
  <2> HIDE DEF g
  <2>3. [s \in Slot |-> s \in L] = [s \in Slot |-> s \in AsyncProvider \/ \E d \in DepsOf(s) : g[d]]
    BY <2>2
  <2> QED BY <2>3 DEF g
<1>7. RequiresAsync = CHOOSE f : Rule(f)
  BY DEF RequiresAsync
<1> HIDE DEF Rule
<1>8. Rule(RequiresAsync)
  BY <1>6, <1>7
<1> QED BY <1>8 DEF Rule

LEMMA AsyncArgs ==
    ASSUME NEW s \in Slot, NEW i \in DOMAIN Args[s], RequiresAsync[Args[s][i]]
    PROVE  RequiresAsync[s]
BY RequiresAsyncRule DEF DepsOf

(* A step of one caller leaves the frames of the others alone. *)
LEMMA OthersKeep ==
    ASSUME TypeInv, NEW t \in Task,
           (\E r \in Scope, s \in Slot : Call(t, r, s)) \/ TaskStep(t) \/ Fault(t)
    PROVE  \A u \in Task : u # t =>
              /\ pc'[u] = pc[u] /\ self'[u] = self[u]
              /\ got'[u] = got[u] /\ value'[u] = value[u]
<1> USE DEF Goto, Pop, frame, shared
<1>1. CASE \E r \in Scope, s \in Slot : Call(t, r, s)
  BY <1>1 DEF Call, TypeInv, TypeOK
<1>2. CASE Return(t)
  BY <1>2 DEF Return, TypeInv, TypeOK
<1>3. ASSUME NEW s \in Slot,
             \/ Delegate(t, s) \/ CallRebound(t, s) \/ Look(t, s) \/ Acquire(t, s)
             \/ AwaitLock(t, s) \/ Relook(t, s)
      PROVE  \A u \in Task : u # t =>
                /\ pc'[u] = pc[u] /\ self'[u] = self[u]
                /\ got'[u] = got[u] /\ value'[u] = value[u]
  BY <1>3 DEF Delegate, CallRebound, Look, Acquire, AwaitLock, Relook, TypeInv, TypeOK
<1>4. ASSUME NEW s \in Slot,
             \/ AwaitProvider(t, s) \/ Build(t, s) \/ Store(t, s) \/ Rebind(t, s)
             \/ Release(t, s) \/ Raise(t, s) \/ CancelWait(t, s)
      PROVE  \A u \in Task : u # t =>
                /\ pc'[u] = pc[u] /\ self'[u] = self[u]
                /\ got'[u] = got[u] /\ value'[u] = value[u]
  BY <1>4 DEF AwaitProvider, Build, Store, Rebind, Release, Raise, CancelWait, TypeInv, TypeOK
<1>5. ASSUME NEW s \in Slot, CallArg(t, s) \/ TakeArg(t, s) \/ ArgFailed(t, s)
      PROVE  \A u \in Task : u # t =>
                /\ pc'[u] = pc[u] /\ self'[u] = self[u]
                /\ got'[u] = got[u] /\ value'[u] = value[u]
  BY <1>5 DEF CallArg, TakeArg, ArgFailed, TypeInv, TypeOK
<1> QED BY <1>1, <1>2, <1>3, <1>4, <1>5 DEF TaskStep, FrameStep, Fault

-----------------------------------------------------------------------------
(* Why a slot that needs no lock has none.  A frame that waits, directly   *)
(* or not, for an asynchronous one is asynchronous itself, so below a      *)
(* synchronous slot nothing gives up control of the thread: between its    *)
(* missed lookup and its store the caller keeps running.                   *)
Building == {"args", "wait", "await", "store"}

AsyncInv ==
    \A t \in Task, s, x \in Slot :
        Active(t, s) /\ Active(t, x) /\ Rank[x] < Rank[s] /\ RequiresAsync[x] =>
          RequiresAsync[s]

LoopInv ==
    \A t \in Task, s \in LoopGuarded :
        pc[t][s] \in Building => running[ThreadOf[t]] = t

LEMMA AsyncInit == Init => AsyncInv
BY DEF Init, AsyncInv, Active

LEMMA AsyncStep == TypeInv /\ ChainInv /\ AsyncInv /\ [Next]_vars => AsyncInv'
<1> SUFFICES ASSUME TypeInv, ChainInv, AsyncInv PROVE [Next]_vars => AsyncInv'
  OBVIOUS
<1>1. ASSUME \A t \in Task, s \in Slot : Active(t, s)' => Active(t, s)
      PROVE  AsyncInv'
  BY <1>1 DEF AsyncInv
<1>2. ASSUME NEW t \in Task, NEW r \in Scope, NEW s \in Slot, Call(t, r, s)
      PROVE  AsyncInv'
  <2>1. "enter" \in PC /\ Goto(t, s, "enter")
    BY <1>2 DEF Call, PC
  <2>2. \A u \in Task, x \in Slot : Active(u, x)' => Active(u, x) \/ (u = t /\ x = s)
    BY <2>1, GotoType DEF Active, TypeInv
  <2>3. \A x \in Slot : ~Active(t, x)
    BY <1>2 DEF Call, ChainInv
  <2> QED BY <2>2, <2>3, RankType DEF AsyncInv
<1>3. ASSUME NEW t \in Task, NEW s \in Slot,
             \/ Delegate(t, s) \/ CallRebound(t, s) \/ Look(t, s) \/ Acquire(t, s)
             \/ Relook(t, s) \/ AwaitProvider(t, s) \/ Build(t, s) \/ Store(t, s)
             \/ Rebind(t, s) \/ Release(t, s) \/ Raise(t, s) \/ CancelWait(t, s)
      PROVE  AsyncInv'
  <2>1. Move(t, s)
    BY <1>3, MoveStep
  <2>2. \A u \in Task, x \in Slot : Active(u, x)' => Active(u, x)
    BY <2>1, GotoType DEF Move, Active, TypeInv
  <2> QED BY <2>2, <1>1
<1>4. ASSUME NEW t \in Task, NEW s \in Slot, CallArg(t, s) PROVE AsyncInv'
  <2>1. PICK i \in DOMAIN Args[s] : Args[s][i] = NextArg(t, s)
    <3>1. Args[s] \in Seq(Slot) /\ got[t][s] \in Seq(Nat)
      BY SlotsAssumption DEF TypeInv, TypeOK
    <3>2. Len(got[t][s]) + 1 \in DOMAIN Args[s]
      BY <1>4, <3>1 DEF CallArg, HasAllArgs, TypeInv, FrameInv
    <3> QED BY <3>2 DEF NextArg
  <2>2. PICK d \in Slot : d = NextArg(t, s) /\ d # s /\ Rank[d] < Rank[s]
    BY <1>4, NextArgType DEF CallArg
  <2>3. RequiresAsync[d] => RequiresAsync[s]
    BY <2>1, <2>2, AsyncArgs
  <2>4. /\ pc[t][s] = "args"
        /\ pc' = [pc EXCEPT ![t][s] = "wait", ![t][d] = "enter"]
    BY <1>4, <2>2 DEF CallArg, At
  <2>5. Active(t, s) /\ ~Waits(t, s)
    BY <2>4 DEF Active, Waits
  <2>6. \A u \in Task, x \in Slot : Active(u, x)' => Active(u, x) \/ (u = t /\ x = d)
    BY <2>2, <2>4 DEF Active, TypeInv, TypeOK
  <2>7. \A x \in Slot : Active(t, x) => x = s \/ Rank[s] < Rank[x]
    BY <2>5 DEF ChainInv
  <2>8. \A x \in Slot : Active(t, x)' /\ RequiresAsync[d] => RequiresAsync[x] \/ x = d
    BY <2>3, <2>5, <2>6, <2>7 DEF AsyncInv
  <2>9. \A x \in Slot : Active(t, x)' => x = d \/ Rank[d] < Rank[x]
    BY <2>2, <2>6, <2>7, RankType
  <2> SUFFICES ASSUME NEW u \in Task, NEW y \in Slot, NEW x \in Slot,
                      Active(u, y)', Active(u, x)', Rank[x] < Rank[y], RequiresAsync[x]
               PROVE  RequiresAsync[y]
    BY DEF AsyncInv
  <2>10. CASE u = t /\ x = d
    BY <2>8, <2>10, RankType
  <2>11. CASE u = t /\ y = d
    BY <2>9, <2>11, RankType
  <2>12. CASE u # t \/ (x # d /\ y # d)
    BY <2>6, <2>12 DEF AsyncInv
  <2> QED BY <2>10, <2>11, <2>12
<1>5. ASSUME NEW t \in Task, NEW s \in Slot, TakeArg(t, s) \/ ArgFailed(t, s)
      PROVE  AsyncInv'
  <2>1. PICK d \in Slot : d = NextArg(t, s) /\ d # s
    BY <1>5, NextArgType DEF TakeArg, ArgFailed
  <2>2. PICK label \in PC : pc' = [pc EXCEPT ![t][s] = label, ![t][d] = "idle"]
    BY <1>5, <2>1 DEF TakeArg, ArgFailed, Abort, PC
  <2>3. pc[t][s] = "wait"
    BY <1>5 DEF TakeArg, ArgFailed, At
  <2>4. \A u \in Task, x \in Slot : Active(u, x)' => Active(u, x)
    BY <2>1, <2>2, <2>3 DEF Active, TypeInv, TypeOK
  <2> QED BY <2>4, <1>1
<1>6. ASSUME NEW t \in Task, Return(t) PROVE AsyncInv'
  <2>1. PICK s \in Slot : s = goal[t][2]
    BY <1>6 DEF Return, TypeInv, TypeOK
  <2>2. "idle" \in PC /\ Goto(t, s, "idle")
    BY <1>6, <2>1 DEF Return, PC
  <2>3. \A u \in Task, x \in Slot : Active(u, x)' => Active(u, x)
    BY <2>2, GotoType DEF Active, TypeInv
  <2> QED BY <2>3, <1>1
<1>7. ASSUME NEW t \in Task, NEW s \in Slot, AwaitLock(t, s) PROVE AsyncInv'
  BY <1>1, <1>7 DEF AwaitLock, frame, Active
<1>8. CASE UNCHANGED vars
  BY <1>1, <1>8 DEF vars, frame, Active
<1> QED
  BY <1>2, <1>3, <1>4, <1>5, <1>6, <1>7, <1>8 DEF Next, TaskStep, FrameStep, Fault, Done

LEMMA LoopInit == Init => LoopInv
BY SlotsAssumption DEF Init, LoopInv, Building, LoopGuarded

(* A caller that takes control of the loop finds nobody else between a     *)
(* missed lookup and a store.                                              *)
LEMMA LoopOthers ==
    ASSUME TypeInv, LoopInv, NEW t \in Task, running[ThreadOf[t]] \in {t, Nobody},
           NEW u \in Task, u # t, NEW s \in LoopGuarded
    PROVE  pc[u][s] \notin Building
<1>1. ThreadOf[u] = ThreadOf[t]
  BY DEF LoopGuarded, OneLoop
<1> QED BY <1>1, CallersAssumption DEF LoopInv

LEMMA LoopStep == TypeInv /\ ChainInv /\ AsyncInv /\ LoopInv /\ [Next]_vars => LoopInv'
<1> SUFFICES ASSUME TypeInv, ChainInv, AsyncInv, LoopInv PROVE [Next]_vars => LoopInv'
  OBVIOUS
<1>1. ASSUME NEW t \in Task, Runs(t), \A u \in Task : u # t => pc'[u] = pc[u]
      PROVE  LoopInv'
  <2>1. running[ThreadOf[t]] \in {t, Nobody} /\ running'[ThreadOf[t]] = t
    BY <1>1, CallersAssumption DEF Runs, Control, TypeInv, TypeOK
  <2> SUFFICES ASSUME NEW u \in Task, NEW s \in LoopGuarded, pc'[u][s] \in Building
               PROVE  running'[ThreadOf[u]] = u
    BY DEF LoopInv
  <2>2. CASE u = t
    BY <2>1, <2>2
  <2>3. CASE u # t
    BY <1>1, <2>1, <2>3, LoopOthers
  <2> QED BY <2>2, <2>3
<1>2. ASSUME NEW t \in Task, Yields(t), \A u \in Task : u # t => pc'[u] = pc[u],
             \A s \in LoopGuarded : pc'[t][s] \notin Building
      PROVE  LoopInv'
  <2>1. running[ThreadOf[t]] \in {t, Nobody}
    BY <1>2 DEF Yields, Control
  <2> SUFFICES ASSUME NEW u \in Task, NEW s \in LoopGuarded
               PROVE  pc'[u][s] \notin Building
    BY DEF LoopInv
  <2>2. CASE u = t
    BY <1>2, <2>2
  <2>3. CASE u # t
    BY <1>2, <2>1, <2>3, LoopOthers
  <2> QED BY <2>2, <2>3
<1>3. ASSUME NEW t \in Task, NEW r \in Scope, NEW s \in Slot, Call(t, r, s)
      PROVE  LoopInv'
  <2>1. Runs(t)
    BY <1>3 DEF Call
  <2>2. \A u \in Task : u # t => pc'[u] = pc[u]
    BY <1>3, OthersKeep
  <2> QED BY <1>1, <2>1, <2>2
<1>4. ASSUME NEW t \in Task, NEW s \in Slot,
             \/ Delegate(t, s) \/ CallRebound(t, s) \/ Look(t, s) \/ Acquire(t, s)
             \/ Relook(t, s) \/ CallArg(t, s) \/ TakeArg(t, s) \/ ArgFailed(t, s)
             \/ Build(t, s) \/ Store(t, s) \/ Rebind(t, s) \/ Release(t, s)
             \/ Raise(t, s) \/ CancelWait(t, s)
      PROVE  LoopInv'
  <2>1. Runs(t)
    BY <1>4 DEF Delegate, CallRebound, Look, Acquire, Relook, CallArg, TakeArg, ArgFailed,
                Build, Store, Rebind, Release, Raise, CancelWait
  <2>2. \A u \in Task : u # t => pc'[u] = pc[u]
    BY <1>4, OthersKeep DEF TaskStep, FrameStep, Fault
  <2> QED BY <1>1, <2>1, <2>2
<1>5. ASSUME NEW t \in Task, NEW x \in Slot, AwaitLock(t, x) \/ AwaitProvider(t, x)
      PROVE  LoopInv'
  <2>1. Yields(t) /\ RequiresAsync[x] /\ Active(t, x) /\ ~Waits(t, x)
    BY <1>5, RequiresAsyncRule
       DEF AwaitLock, AwaitProvider, UsesAsyncLock, At, Active, Waits
  <2>2. \A u \in Task : u # t => pc'[u] = pc[u]
    BY <1>5, OthersKeep DEF TaskStep, FrameStep
  <2>3. ASSUME NEW s \in LoopGuarded PROVE pc'[t][s] \notin Building
    <3>1. s \in Slot /\ ~RequiresAsync[s]
      BY SlotsAssumption DEF LoopGuarded
    <3>2. s # x
      BY <2>1, <3>1
    <3>3. Active(t, s) => Rank[x] < Rank[s]
      BY <2>1, <3>1, <3>2 DEF ChainInv
    <3>4. ~Active(t, s)
      BY <2>1, <3>1, <3>3 DEF AsyncInv
    <3>5. pc'[t][s] = pc[t][s]
      <4>1. CASE AwaitLock(t, x)
        BY <4>1 DEF AwaitLock, frame
      <4>2. CASE AwaitProvider(t, x)
        <5>1. "await" \in PC /\ Goto(t, x, "await")
          BY <4>2 DEF AwaitProvider, PC
        <5> QED BY <3>1, <3>2, <5>1, GotoType DEF TypeInv
      <4> QED BY <1>5, <4>1, <4>2
    <3> QED BY <3>4, <3>5 DEF Active, Building
  <2> QED BY <1>2, <2>1, <2>2, <2>3
<1>6. ASSUME NEW t \in Task, Return(t) PROVE LoopInv'
  <2>1. PICK x \in Slot : x = goal[t][2]
    BY <1>6 DEF Return, TypeInv, TypeOK
  <2>2. Yields(t) /\ Active(t, x) /\ ~Waits(t, x) /\ "idle" \in PC /\ Goto(t, x, "idle")
    BY <1>6, <2>1 DEF Return, At, Active, Waits, PC
  <2>3. \A u \in Task : u # t => pc'[u] = pc[u]
    BY <1>6, OthersKeep DEF TaskStep
  <2>4. ASSUME NEW s \in LoopGuarded PROVE pc'[t][s] \notin Building
    <3>1. s \in Slot
      BY SlotsAssumption DEF LoopGuarded
    <3>2. CASE s = x
      BY <2>2, <3>2, GotoType DEF TypeInv, Building
    <3>3. CASE s # x
      <4>1. Active(t, s) => s = x \/ Rank[s] < Rank[x]
        BY <1>6, <2>1, <3>1 DEF Return, ChainInv
      <4>2. Active(t, s) => Rank[x] < Rank[s]
        BY <2>2, <3>1, <3>3 DEF ChainInv
      <4>3. ~Active(t, s)
        BY <3>1, <3>3, <4>1, <4>2, RankType
      <4>4. pc'[t][s] = pc[t][s]
        BY <2>2, <3>1, <3>3, GotoType DEF TypeInv
      <4> QED BY <4>3, <4>4 DEF Active, Building
    <3> QED BY <3>2, <3>3
  <2> QED BY <1>2, <2>2, <2>3, <2>4
<1>7. CASE UNCHANGED vars
  BY <1>7 DEF vars, frame, LoopInv
<1> QED
  BY <1>3, <1>4, <1>5, <1>6, <1>7 DEF Next, TaskStep, FrameStep, Fault, Done

LEMMA GuardedSlot == Guarded \subseteq Slot /\ Guarded \subseteq Cached
BY SlotsAssumption DEF Guarded, LoopGuarded, Locked, UsesThreadLock, UsesAsyncLock

(* Of a guarded slot at most one frame is between its last lookup and its  *)
(* store: its lock, or the event loop, keeps the others out.               *)
LEMMA OneBuilder ==
    ASSUME TypeInv, LockInv, LoopInv, NEW s \in Guarded, NEW t \in Task, NEW u \in Task,
           pc[t][s] \in Building, pc[u][s] \in Building
    PROVE  t = u
<1>1. CASE Locked(s)
  <2>1. s \in Slot
    BY GuardedSlot
  <2>2. Building \subseteq Critical
    BY DEF Building, Critical
  <2> QED BY <1>1, <2>1, <2>2 DEF LockInv
<1>2. CASE s \in LoopGuarded
  <2>1. ThreadOf[t] = ThreadOf[u]
    BY <1>2 DEF LoopGuarded, OneLoop
  <2> QED BY <1>2, <2>1 DEF LoopInv
<1> QED BY <1>1, <1>2 DEF Guarded

-----------------------------------------------------------------------------
(* Why a guarded slot has one instance per scope.  A frame past its last   *)
(* check runs on a scope whose cache is still empty, and its lock or the   *)
(* event loop makes it the only one; a frame that has a value has the      *)
(* cached one, and so has the method that was put on the root.             *)
OnceFrame(t, s) ==
    /\ pc[t][s] \in {"args", "wait", "await", "store"} => cache[self[t][s]][s] = 0
    /\ pc[t][s] = "store" => value[t][s] # 0
    /\ pc[t][s] = "rebind" => self[t][s] = Root
    /\ pc[t][s] \in {"rebind", "release", "done"} =>
          value[t][s] # 0 /\ value[t][s] = cache[self[t][s]][s]

OnceSlot(s) ==
    /\ rebound[s] # 0 => rebound[s] = cache[Root][s]
    /\ \A r \in Scope : \A v \in delivered[r][s] : v # 0 /\ v = cache[r][s]

OnceInv == \A s \in Guarded : OnceSlot(s) /\ \A t \in Task : OnceFrame(t, s)

LEMMA OnceInit == Init => OnceInv
BY GuardedSlot DEF Init, OnceInv, OnceSlot, OnceFrame

(* A frame's locals are the same after the step. *)
Same(t, s) ==
    /\ pc'[t][s] = pc[t][s] /\ self'[t][s] = self[t][s] /\ value'[t][s] = value[t][s]

(* A step of one frame that writes no shared state. *)
LEMMA OnceMove ==
    ASSUME OnceInv, NEW t \in Task, NEW s \in Slot,
           UNCHANGED <<cache, rebound, delivered>>,
           \A u \in Task, x \in Slot : u # t \/ x # s => Same(u, x),
           s \in Guarded => OnceFrame(t, s)'
    PROVE  OnceInv'
<1> SUFFICES ASSUME NEW x \in Guarded
             PROVE  OnceSlot(x)' /\ \A u \in Task : OnceFrame(u, x)'
  BY DEF OnceInv
<1>1. OnceSlot(x)'
  BY DEF OnceInv, OnceSlot
<1>2. ASSUME NEW u \in Task PROVE OnceFrame(u, x)'
  <2>1. CASE u = t /\ x = s
    BY <2>1
  <2>2. CASE u # t \/ x # s
    BY <2>2, GuardedSlot DEF OnceInv, OnceFrame, Same
  <2> QED BY <2>1, <2>2
<1> QED BY <1>1, <1>2

(* A goto that leaves the other locals of its frame alone. *)
LEMMA OnceGoto ==
    ASSUME TypeInv, OnceInv, NEW t \in Task, NEW s \in Slot, NEW label \in PC,
           Goto(t, s, label), UNCHANGED <<cache, rebound, delivered, self, value>>,
           \/ label \notin {"args", "wait", "await", "store", "rebind", "release", "done"}
           \/ s \in Guarded => OnceFrame(t, s)'
    PROVE  OnceInv'
<1>1. /\ pc'[t][s] = label
      /\ \A u \in Task, x \in Slot : u # t \/ x # s => pc'[u][x] = pc[u][x]
  BY GotoType DEF TypeInv
<1>2. s \in Guarded => OnceFrame(t, s)'
  BY <1>1 DEF OnceFrame
<1> QED BY <1>1, <1>2, OnceMove DEF Same

LEMMA OnceStep == TypeInv /\ LockInv /\ LoopInv /\ OnceInv /\ [Next]_vars => OnceInv'
<1> SUFFICES ASSUME TypeInv, LockInv, LoopInv, OnceInv PROVE [Next]_vars => OnceInv'
  OBVIOUS
<1> USE GuardedSlot DEF shared, frame
<1>1. ASSUME NEW t \in Task, NEW r \in Scope, NEW s \in Slot, Call(t, r, s)
      PROVE  OnceInv'
  <2>1. "enter" \in PC /\ Goto(t, s, "enter")
    BY <1>1 DEF Call, PC
  <2>2. pc'[t][s] = "enter" /\ \A u \in Task, x \in Slot : u # t \/ x # s => Same(u, x)
    <3>1. \A u \in Task, x \in Slot : u # t \/ x # s => self'[u][x] = self[u][x]
      BY <1>1 DEF Call, TypeInv, TypeOK
    <3> QED BY <1>1, <2>1, <3>1, GotoType DEF Call, Same, TypeInv
  <2>3. OnceFrame(t, s)'
    BY <2>2 DEF OnceFrame
  <2> QED BY <1>1, <2>2, <2>3, OnceMove DEF Call
<1>2. ASSUME NEW t \in Task, NEW s \in Slot, Delegate(t, s) PROVE OnceInv'
  <2>1. PICK label \in PC : Goto(t, s, label) /\ (label = "args" => s \notin Cached)
                            /\ label \in {"failed", "look", "args"}
    BY <1>2 DEF Delegate, PC
  <2>2. \A u \in Task, x \in Slot : u # t \/ x # s => self'[u][x] = self[u][x]
    <3>1. self \in [Task -> [Slot -> Scope]]
      BY DEF TypeInv, TypeOK
    <3>2. self' = self \/ self' = [self EXCEPT ![t][s] = Home(self[t][s], s)]
      BY <1>2 DEF Delegate
    <3> QED BY <3>1, <3>2
  <2>3. pc'[t][s] = label /\ \A u \in Task, x \in Slot : u # t \/ x # s => Same(u, x)
    BY <1>2, <2>1, <2>2, GotoType DEF Delegate, Same, TypeInv
  <2>4. s \in Guarded => OnceFrame(t, s)'
    BY <2>1, <2>3 DEF OnceFrame
  <2> QED BY <1>2, <2>3, <2>4, OnceMove DEF Delegate
<1>3. ASSUME NEW t \in Task, NEW s \in Slot, CallRebound(t, s) PROVE OnceInv'
  <2>1. "done" \in PC /\ Goto(t, s, "done")
    BY <1>3 DEF CallRebound, PC
  <2>2. /\ self'[t][s] = Root /\ value'[t][s] = rebound[s]
        /\ \A u \in Task, x \in Slot : u # t \/ x # s =>
              self'[u][x] = self[u][x] /\ value'[u][x] = value[u][x]
    BY <1>3 DEF CallRebound, TypeInv, TypeOK
  <2>3. pc'[t][s] = "done" /\ \A u \in Task, x \in Slot : u # t \/ x # s => Same(u, x)
    BY <2>1, <2>2, GotoType DEF Same, TypeInv
  <2>4. s \in Guarded => OnceFrame(t, s)'
    BY <1>3, <2>2, <2>3 DEF CallRebound, OnceInv, OnceSlot, OnceFrame
  <2> QED BY <1>3, <2>3, <2>4, OnceMove DEF CallRebound
<1>4. ASSUME NEW t \in Task, NEW s \in Slot, Look(t, s) \/ Relook(t, s) PROVE OnceInv'
  <2> DEFINE cached == cache[self[t][s]][s]
  <2>0. cached \in Nat
    BY DEF TypeInv, TypeOK
  <2>1. PICK label \in PC :
          /\ Goto(t, s, label)
          /\ IF cached # 0 THEN label \in {"done", "release"} /\ value' = [value EXCEPT ![t][s] = cached]
                           ELSE label \in {"lock", "args"} /\ value' = value
    <3>1. "done" \in PC /\ "release" \in PC /\ "lock" \in PC /\ "args" \in PC
      BY DEF PC
    <3>2. CASE Look(t, s)
      BY <3>1, <3>2 DEF Look
    <3>3. CASE Relook(t, s)
      BY <3>1, <3>3 DEF Relook
    <3> QED BY <1>4, <3>2, <3>3
  <2>2. UNCHANGED <<cache, rebound, delivered, self>>
    BY <1>4 DEF Look, Relook
  <2>3. /\ cached # 0 => value'[t][s] = cached
        /\ \A u \in Task, x \in Slot : u # t \/ x # s => value'[u][x] = value[u][x]
    <3>1. value \in [Task -> [Slot -> Nat]]
      BY DEF TypeInv, TypeOK
    <3>2. IF cached # 0 THEN value' = [value EXCEPT ![t][s] = cached] ELSE value' = value
      BY <2>1
    <3> HIDE DEF cached
    <3> QED BY <3>1, <3>2
  <2>4. pc'[t][s] = label /\ \A u \in Task, x \in Slot : u # t \/ x # s => Same(u, x)
    BY <2>1, <2>2, <2>3, GotoType DEF Same, TypeInv
  <2>5. OnceFrame(t, s)'
    BY <2>1, <2>2, <2>3, <2>4 DEF OnceFrame
  <2> QED BY <2>2, <2>4, <2>5, OnceMove
<1>5. ASSUME NEW t \in Task, NEW s \in Slot, Acquire(t, s) PROVE OnceInv'
  <2>1. "relook" \in PC /\ Goto(t, s, "relook")
    BY <1>5 DEF Acquire, PC
  <2> QED BY <1>5, <2>1, OnceGoto DEF Acquire
<1>6. ASSUME NEW t \in Task, NEW s \in Slot, AwaitLock(t, s) PROVE OnceInv'
  BY <1>6 DEF AwaitLock, OnceInv, OnceSlot, OnceFrame
<1>7. ASSUME NEW t \in Task, NEW s \in Slot, CallArg(t, s) PROVE OnceInv'
  <2> DEFINE d == NextArg(t, s)
  <2>1. d \in Slot /\ d # s
    BY <1>7, NextArgType DEF CallArg
  <2>2. /\ pc[t][s] = "args" /\ pc'[t][s] = "wait" /\ pc'[t][d] = "enter"
        /\ self'[t][s] = self[t][s]
        /\ \A u \in Task, x \in Slot : u # t \/ (x # s /\ x # d) =>
              pc'[u][x] = pc[u][x] /\ self'[u][x] = self[u][x]
    BY <1>7, <2>1 DEF CallArg, At, TypeInv, TypeOK
  <2>3. UNCHANGED <<cache, rebound, delivered, value>>
    BY <1>7 DEF CallArg
  <2>4. ASSUME NEW u \in Task, NEW x \in Guarded PROVE OnceFrame(u, x)'
    <3>1. CASE u = t /\ x = d
      BY <2>2, <3>1 DEF OnceFrame
    <3>2. CASE u = t /\ x = s
      BY <2>2, <2>3, <2>4, <3>2 DEF OnceFrame, OnceInv
    <3>3. CASE u # t \/ (x # s /\ x # d)
      BY <2>2, <2>3, <2>4, <3>3 DEF OnceFrame, OnceInv
    <3> QED BY <3>1, <3>2, <3>3
  <2> QED
    BY <2>3, <2>4 DEF OnceInv, OnceSlot
<1>8. ASSUME NEW t \in Task, NEW s \in Slot, TakeArg(t, s) \/ ArgFailed(t, s)
      PROVE  OnceInv'
  <2> DEFINE d == NextArg(t, s)
  <2>1. d \in Slot /\ d # s
    BY <1>8, NextArgType DEF TakeArg, ArgFailed
  <2>2. PICK label \in {"args", "unwind", "failed"} :
          pc' = [pc EXCEPT ![t][s] = label, ![t][d] = "idle"]
    BY <1>8 DEF TakeArg, ArgFailed, Abort
  <2>3. /\ pc'[t][s] = label /\ pc'[t][d] = "idle"
        /\ \A u \in Task, x \in Slot : u # t \/ (x # s /\ x # d) => pc'[u][x] = pc[u][x]
    <3>1. pc \in [Task -> [Slot -> PC]]
      BY DEF TypeInv, TypeOK
    <3> QED BY <2>1, <2>2, <3>1
  <2>4. \A u \in Task, x \in Slot : u # t \/ x # d =>
          self'[u][x] = self[u][x] /\ value'[u][x] = value[u][x]
    <3>1. Pop(t, d)
      BY <1>8 DEF TakeArg, ArgFailed
    <3>2. self \in [Task -> [Slot -> Scope]] /\ value \in [Task -> [Slot -> Nat]]
      BY DEF TypeInv, TypeOK
    <3> QED BY <2>1, <3>1, <3>2 DEF Pop
  <2>5. pc[t][s] = "wait" /\ UNCHANGED <<cache, rebound>>
    BY <1>8 DEF TakeArg, ArgFailed, At
  <2>6. ASSUME NEW u \in Task, NEW x \in Guarded PROVE OnceFrame(u, x)'
    <3>1. CASE u = t /\ x = d
      BY <2>3, <3>1 DEF OnceFrame
    <3>2. CASE u = t /\ x = s
      <4>1. pc'[t][s] = label /\ self'[t][s] = self[t][s]
        BY <2>1, <2>3, <2>4
      <4>2. cache[self[t][s]][s] = 0
        BY <2>5, <2>6, <3>2 DEF OnceFrame, OnceInv
      <4> QED BY <2>2, <2>5, <3>2, <4>1, <4>2 DEF OnceFrame
    <3>3. CASE u # t \/ (x # s /\ x # d)
      BY <2>3, <2>4, <2>5, <2>6, <3>3 DEF OnceFrame, OnceInv
    <3> QED BY <3>1, <3>2, <3>3
  <2>7. ASSUME NEW x \in Guarded PROVE OnceSlot(x)'
    <3>1. CASE delivered' = delivered
      BY <2>5, <2>7, <3>1 DEF OnceInv, OnceSlot
    <3>2. CASE TakeArg(t, s)
      <4>1. pc[t][d] = "done" /\ Deliver(t, d)
        BY <3>2 DEF TakeArg, At
      <4>2. /\ delivered'[self[t][d]][d] = delivered[self[t][d]][d] \cup {value[t][d]}
            /\ \A r \in Scope, y \in Slot :
                  r # self[t][d] \/ y # d => delivered'[r][y] = delivered[r][y]
        <5>1. delivered \in [Scope -> [Slot -> SUBSET Nat]] /\ self[t][d] \in Scope
          BY <2>1 DEF TypeInv, TypeOK
        <5>2. delivered' = [delivered EXCEPT ![self[t][d]][d] = @ \cup {value[t][d]}]
          BY <4>1 DEF Deliver
        <5> HIDE DEF d
        <5> QED BY <2>1, <5>1, <5>2
      <4>3. x = d => value[t][d] # 0 /\ value[t][d] = cache[self[t][d]][d]
        BY <2>1, <2>7, <4>1 DEF OnceInv, OnceFrame
      <4> QED BY <2>5, <2>7, <4>2, <4>3 DEF OnceInv, OnceSlot
    <3>3. CASE ArgFailed(t, s)
      BY <3>1, <3>3 DEF ArgFailed
    <3> QED BY <1>8, <3>2, <3>3
  <2> QED
    BY <2>6, <2>7 DEF OnceInv
<1>9. ASSUME NEW t \in Task, NEW s \in Slot, AwaitProvider(t, s) PROVE OnceInv'
  <2>1. "await" \in PC /\ Goto(t, s, "await") /\ pc[t][s] = "args"
    BY <1>9 DEF AwaitProvider, At, PC
  <2>2. pc'[t][s] = "await"
    BY <2>1, GotoType DEF TypeInv
  <2>3. s \in Guarded => OnceFrame(t, s)'
    BY <1>9, <2>1, <2>2 DEF AwaitProvider, OnceInv, OnceFrame
  <2> QED BY <1>9, <2>1, <2>3, OnceGoto DEF AwaitProvider
<1>10. ASSUME NEW t \in Task, NEW s \in Slot, Build(t, s) PROVE OnceInv'
  <2>1. PICK label \in PC : Goto(t, s, label) /\ (s \in Cached => label = "store")
    BY <1>10 DEF Build, PC
  <2>2. /\ value'[t][s] # 0
        /\ \A u \in Task, x \in Slot : u # t \/ x # s => value'[u][x] = value[u][x]
    BY <1>10 DEF Build, TypeInv, TypeOK
  <2>3. pc'[t][s] = label /\ \A u \in Task, x \in Slot : u # t \/ x # s => Same(u, x)
    BY <1>10, <2>1, <2>2, GotoType DEF Build, Same, TypeInv
  <2>4. pc[t][s] \in {"args", "await"}
    BY <1>10 DEF Build, ProviderTurn, At
  <2>5. s \in Guarded => OnceFrame(t, s)'
    BY <1>10, <2>1, <2>2, <2>3, <2>4
       DEF Build, OnceInv, OnceFrame
  <2> QED BY <1>10, <2>3, <2>5, OnceMove DEF Build
<1>11. ASSUME NEW t \in Task, NEW s \in Slot, Store(t, s) PROVE OnceInv'
  <2> DEFINE r == self[t][s]
  <2>1. r \in Scope /\ pc[t][s] = "store"
    BY <1>11 DEF Store, At, TypeInv, TypeOK
  <2>2. PICK label \in {"rebind", "release", "done"} :
          Goto(t, s, label) /\ (label = "rebind" => r = Root)
    BY <1>11 DEF Store, Finish
  <2>3. /\ pc'[t][s] = label
        /\ \A u \in Task, x \in Slot : u # t \/ x # s => pc'[u][x] = pc[u][x]
    BY <2>2, GotoType DEF TypeInv, PC
  <2>4. /\ cache'[r][s] = value[t][s]
        /\ \A q \in Scope, x \in Slot : q # r \/ x # s => cache'[q][x] = cache[q][x]
    BY <1>11, <2>1 DEF Store, TypeInv, TypeOK
  <2>5. UNCHANGED <<rebound, self, value, delivered>>
    BY <1>11 DEF Store
  <2>6. ASSUME NEW x \in Guarded, x # s
        PROVE  OnceSlot(x)' /\ \A u \in Task : OnceFrame(u, x)'
    <3>1. \A q \in Scope : cache'[q][x] = cache[q][x]
      BY <2>4, <2>6
    <3>2. \A u \in Task : self[u][x] \in Scope
      BY DEF TypeInv, TypeOK
    <3>3. OnceSlot(x)'
      BY <2>5, <2>6, <3>1, ScopesAssumption DEF OnceInv, OnceSlot
    <3>4. \A u \in Task : OnceFrame(u, x)'
      BY <2>3, <2>5, <2>6, <3>1, <3>2 DEF OnceInv, OnceFrame
    <3> QED BY <3>3, <3>4
  <2>7. ASSUME s \in Guarded PROVE OnceSlot(s)' /\ \A u \in Task : OnceFrame(u, s)'
    <3>1. cache[r][s] = 0 /\ value[t][s] # 0
      BY <2>1, <2>7 DEF OnceInv, OnceFrame
    <3>2. delivered[r][s] = {} /\ (r = Root => rebound[s] = 0)
      BY <2>1, <2>7, <3>1 DEF OnceInv, OnceSlot, TypeInv, TypeOK
    <3>3. OnceSlot(s)'
      <4>1. rebound'[s] # 0 => rebound'[s] = cache'[Root][s]
        BY <2>4, <2>5, <2>7, <3>2, ScopesAssumption DEF OnceInv, OnceSlot
      <4>2. ASSUME NEW q \in Scope, NEW v \in delivered'[q][s]
            PROVE  v # 0 /\ v = cache'[q][s]
        <5>1. q # r /\ v \in delivered[q][s]
          BY <2>5, <3>2, <4>2
        <5> QED BY <2>4, <2>7, <5>1 DEF OnceInv, OnceSlot
      <4> QED BY <4>1, <4>2 DEF OnceSlot
    <3>4. pc[t][s] \in Building
      BY <2>1 DEF Building
    <3>5. ASSUME NEW u \in Task, u # t PROVE OnceFrame(u, s)'
      <4>1. self[u][s] \in Scope
        BY <2>7 DEF TypeInv, TypeOK
      <4>2. pc[u][s] \notin Building
        BY <2>7, <3>4, <3>5, OneBuilder
      <4>3. pc'[u][s] = pc[u][s] /\ self'[u][s] = self[u][s] /\ value'[u][s] = value[u][s]
        BY <2>3, <2>5, <3>5
      <4>4. pc[u][s] \in {"rebind", "release", "done"} =>
              value[u][s] # 0 /\ value[u][s] = cache[self[u][s]][s]
        BY <2>7 DEF OnceInv, OnceFrame
      <4>5. pc[u][s] \in {"rebind", "release", "done"} =>
              cache'[self[u][s]][s] = cache[self[u][s]][s]
        BY <2>4, <3>1, <4>1, <4>4
      <4>6. pc[u][s] = "rebind" => self[u][s] = Root
        BY <2>7 DEF OnceInv, OnceFrame
      <4> QED BY <4>2, <4>3, <4>4, <4>5, <4>6 DEF OnceFrame, Building
    <3>6. OnceFrame(t, s)'
      BY <2>2, <2>3, <2>4, <2>5, <3>1 DEF OnceFrame
    <3> QED BY <3>3, <3>5, <3>6
  <2> QED
    BY <2>6, <2>7 DEF OnceInv
<1>12. ASSUME NEW t \in Task, NEW s \in Slot, Rebind(t, s) PROVE OnceInv'
  <2>1. PICK label \in {"release", "done"} : Goto(t, s, label)
    BY <1>12 DEF Rebind, Finish
  <2>2. /\ pc'[t][s] = label
        /\ \A u \in Task, x \in Slot : u # t \/ x # s => pc'[u][x] = pc[u][x]
    BY <2>1, GotoType DEF TypeInv, PC
  <2>3. /\ pc[t][s] = "rebind" /\ UNCHANGED <<cache, delivered, self, value>>
        /\ rebound'[s] = value[t][s] /\ \A x \in Slot : x # s => rebound'[x] = rebound[x]
    BY <1>12 DEF Rebind, At, TypeInv, TypeOK
  <2>4. ASSUME NEW x \in Guarded PROVE OnceSlot(x)'
    BY <2>3, <2>4 DEF OnceInv, OnceSlot, OnceFrame
  <2>5. ASSUME NEW x \in Guarded, NEW u \in Task PROVE OnceFrame(u, x)'
    <3>1. CASE u = t /\ x = s
      BY <2>2, <2>3, <2>5, <3>1 DEF OnceInv, OnceFrame
    <3>2. CASE u # t \/ x # s
      BY <2>2, <2>3, <2>5, <3>2 DEF OnceInv, OnceFrame
    <3> QED BY <3>1, <3>2
  <2> QED
    BY <2>4, <2>5 DEF OnceInv
<1>13. ASSUME NEW t \in Task, NEW s \in Slot, Release(t, s) PROVE OnceInv'
  <2>1. PICK label \in {"done", "failed"} :
          /\ Goto(t, s, label)
          /\ label = "done" => pc[t][s] = "release"
    BY <1>13 DEF Release, At
  <2>2. pc'[t][s] = label /\ label \in PC
    BY <2>1, GotoType DEF TypeInv, PC
  <2>3. s \in Guarded => OnceFrame(t, s)'
    BY <1>13, <2>1, <2>2 DEF Release, OnceInv, OnceFrame
  <2> QED BY <1>13, <2>1, <2>2, <2>3, OnceGoto DEF Release
<1>14. ASSUME NEW t \in Task, Return(t) PROVE OnceInv'
  <2> DEFINE s == goal[t][2]
  <2>1. s \in Slot
    BY <1>14 DEF Return, TypeInv, TypeOK
  <2>2. "idle" \in PC /\ Goto(t, s, "idle") /\ UNCHANGED <<cache, rebound>>
    BY <1>14 DEF Return, PC
  <2>3. /\ pc'[t][s] = "idle"
        /\ \A u \in Task, x \in Slot : u # t \/ x # s => Same(u, x)
    <3>1. \A u \in Task, x \in Slot : u # t \/ x # s =>
            self'[u][x] = self[u][x] /\ value'[u][x] = value[u][x]
      BY <1>14, <2>1 DEF Return, Pop, TypeInv, TypeOK
    <3> QED BY <2>1, <2>2, <3>1, GotoType DEF Same, TypeInv
  <2>4. ASSUME NEW u \in Task, NEW x \in Guarded PROVE OnceFrame(u, x)'
    <3>1. CASE u = t /\ x = s
      BY <2>3, <3>1 DEF OnceFrame
    <3>2. CASE u # t \/ x # s
      BY <2>2, <2>3, <2>4, <3>2 DEF OnceInv, OnceFrame, Same
    <3> QED BY <3>1, <3>2
  <2>5. ASSUME NEW x \in Guarded PROVE OnceSlot(x)'
    <3>1. CASE delivered' = delivered
      BY <2>2, <2>5, <3>1 DEF OnceInv, OnceSlot
    <3>2. CASE pc[t][s] = "done" /\ Deliver(t, s)
      <4>1. /\ delivered'[self[t][s]][s] = delivered[self[t][s]][s] \cup {value[t][s]}
            /\ \A r \in Scope, y \in Slot :
                  r # self[t][s] \/ y # s => delivered'[r][y] = delivered[r][y]
        <5>1. delivered \in [Scope -> [Slot -> SUBSET Nat]] /\ self[t][s] \in Scope
          BY <2>1 DEF TypeInv, TypeOK
        <5>2. delivered' = [delivered EXCEPT ![self[t][s]][s] = @ \cup {value[t][s]}]
          BY <3>2 DEF Deliver
        <5> HIDE DEF s
        <5> QED BY <2>1, <5>1, <5>2
      <4>2. x = s => value[t][s] # 0 /\ value[t][s] = cache[self[t][s]][s]
        BY <2>1, <2>5, <3>2 DEF OnceInv, OnceFrame
      <4> QED BY <2>2, <2>5, <4>1, <4>2 DEF OnceInv, OnceSlot
    <3> QED BY <1>14, <3>1, <3>2 DEF Return, At
  <2> QED
    BY <2>4, <2>5 DEF OnceInv
<1>15. ASSUME NEW t \in Task, NEW s \in Slot, Raise(t, s) \/ CancelWait(t, s)
      PROVE  OnceInv'
  <2>1. PICK label \in {"unwind", "failed"} : Goto(t, s, label)
    BY <1>15 DEF Raise, CancelWait, Abort
  <2>2. UNCHANGED <<cache, rebound, delivered, self, value>>
    BY <1>15 DEF Raise, CancelWait
  <2> QED BY <2>1, <2>2, OnceGoto DEF PC
<1>16. CASE UNCHANGED vars
  BY <1>16 DEF vars, OnceInv, OnceSlot, OnceFrame
<1> QED
  BY <1>1, <1>2, <1>3, <1>4, <1>5, <1>6, <1>7, <1>8, <1>9, <1>10, <1>11, <1>12,
     <1>13, <1>14, <1>15, <1>16
     DEF Next, TaskStep, FrameStep, Fault, Done

-----------------------------------------------------------------------------
(* Where a caller's frames run: the frame of an argument starts on the     *)
(* resolver of the frame that waits for it and goes on in the scope that   *)
(* owns the argument's slot.                                               *)
Nested(t, s, d) ==
    /\ Active(t, d)
    /\ pc[t][d] = "enter" => self[t][d] = self[t][s]
    /\ pc[t][d] \notin {"enter", "failed"} => self[t][d] = Home(self[t][s], d)

NestInv ==
    \A t \in Task, s, d \in Slot : Waits(t, s) /\ NextArg(t, s) = d => Nested(t, s, d)

LEMMA NestInit == Init => NestInv
BY DEF Init, NestInv, Waits

(* The running frame moves on, and does it where its caller expects it. *)
LEMMA NestMove ==
    ASSUME TypeInv, NestInv, NEW t \in Task, NEW s \in Slot, Move(t, s),
           \A u \in Task, x \in Slot : u # t \/ x # s => self'[u][x] = self[u][x],
           \A q \in Scope :
              /\ pc[t][s] = "enter" => self[t][s] = q
              /\ pc[t][s] \notin {"enter", "failed"} => self[t][s] = Home(q, s)
              => \/ pc'[t][s] = "failed"
                 \/ pc'[t][s] # "enter" /\ self'[t][s] = Home(q, s)
    PROVE  NestInv'
<1>1. /\ \A u \in Task, x \in Slot : u # t \/ x # s => pc'[u][x] = pc[u][x]
      /\ pc'[t][s] \notin {"idle", "wait"} /\ got' = got
  BY GotoType DEF Move, TypeInv
<1> SUFFICES ASSUME NEW u \in Task, NEW p \in Slot, NEW d \in Slot,
                    Waits(u, p)', NextArg(u, p)' = d
             PROVE  Nested(u, p, d)'
  BY DEF NestInv
<1>2. Waits(u, p) /\ (u # t \/ p # s) /\ NextArg(u, p) = d /\ self'[u][p] = self[u][p]
  BY <1>1 DEF Waits, NextArg
<1>3. Nested(u, p, d)
  BY <1>2 DEF NestInv
<1>4. CASE u # t \/ d # s
  BY <1>1, <1>2, <1>3, <1>4 DEF Nested, Active
<1>5. CASE u = t /\ d = s
  <2>1. PICK q \in Scope : q = self[t][p]
    BY DEF TypeInv, TypeOK
  <2>2. /\ pc[t][s] = "enter" => self[t][s] = q
        /\ pc[t][s] \notin {"enter", "failed"} => self[t][s] = Home(q, s)
    BY <1>3, <1>5, <2>1 DEF Nested
  <2>3. self'[t][p] = q
    BY <1>2, <1>5, <2>1
  <2>4. Nested(t, p, s)'
    BY <1>1, <2>2, <2>3 DEF Nested, Active
  <2> QED BY <1>5, <2>4
<1> QED BY <1>4, <1>5

LEMMA NestStep == TypeInv /\ ChainInv /\ NestInv /\ [Next]_vars => NestInv'
<1> SUFFICES ASSUME TypeInv, ChainInv, NestInv PROVE [Next]_vars => NestInv'
  OBVIOUS
<1>0. ASSUME NEW t \in Task, \A x \in Slot : ~Waits(t, x)',
             \A u \in Task : u # t => pc'[u] = pc[u] /\ self'[u] = self[u] /\ got'[u] = got[u]
      PROVE  NestInv'
  <2> SUFFICES ASSUME NEW u \in Task, NEW p \in Slot, NEW e \in Slot,
                      Waits(u, p)', NextArg(u, p)' = e
               PROVE  Nested(u, p, e)'
    BY DEF NestInv
  <2>1. u # t /\ pc'[u] = pc[u] /\ self'[u] = self[u] /\ got'[u] = got[u]
    BY <1>0
  <2>2. Nested(u, p, e)
    BY <2>1 DEF NestInv, Waits, NextArg
  <2> QED BY <2>1, <2>2 DEF Nested, Active
<1>1. ASSUME NEW t \in Task, NEW r \in Scope, NEW s \in Slot, Call(t, r, s)
      PROVE  NestInv'
  <2>1. \A x \in Slot : ~Waits(t, x)'
    <3>1. "enter" \in PC /\ Goto(t, s, "enter") /\ \A x \in Slot : ~Active(t, x)
      BY <1>1 DEF Call, PC, ChainInv
    <3> QED BY <3>1, GotoType DEF TypeInv, Active, Waits
  <2>2. \A u \in Task : u # t => pc'[u] = pc[u] /\ self'[u] = self[u] /\ got'[u] = got[u]
    BY <1>1, OthersKeep
  <2> QED BY <1>0, <2>1, <2>2
<1>2. ASSUME NEW t \in Task, NEW s \in Slot, Delegate(t, s) PROVE NestInv'
  <2>1. Move(t, s)
    BY <1>2, MoveStep
  <2>2. pc[t][s] = "enter"
    BY <1>2 DEF Delegate, At
  <2>3. PICK r \in Scope : r = self[t][s]
    BY DEF TypeInv, TypeOK
  <2>4. PICK home \in Scope \cup {NoScope} : home = Home(r, s)
    BY HomeType
  <2>5. self \in [Task -> [Slot -> Scope]]
    BY DEF TypeInv, TypeOK
  <2>6. CASE home = NoScope
    <3>1. pc'[t][s] = "failed" /\ self' = self
      BY <1>2, <2>3, <2>4, <2>6 DEF Delegate, Goto, TypeInv, TypeOK
    <3> QED BY <2>1, <3>1, NestMove
  <2>7. CASE home # NoScope
    <3>1. pc'[t][s] # "enter" /\ self' = [self EXCEPT ![t][s] = home]
      BY <1>2, <2>3, <2>4, <2>7 DEF Delegate, Goto, TypeInv, TypeOK
    <3>2. /\ self'[t][s] = home
          /\ \A u \in Task, x \in Slot : u # t \/ x # s => self'[u][x] = self[u][x]
      BY <2>5, <2>7, <3>1
    <3> QED BY <2>1, <2>2, <2>3, <2>4, <3>1, <3>2, NestMove
  <2> QED BY <2>6, <2>7
<1>3. ASSUME NEW t \in Task, NEW s \in Slot, CallRebound(t, s) PROVE NestInv'
  <2>1. Move(t, s)
    BY <1>3, MoveStep
  <2>2. pc[t][s] = "enter" /\ pc'[t][s] = "done" /\ Home(self[t][s], s) = Root
    BY <1>3 DEF CallRebound, At, Goto, TypeInv, TypeOK
  <2>3. self'[t][s] = Root /\ \A u \in Task, x \in Slot : u # t \/ x # s => self'[u][x] = self[u][x]
    BY <1>3 DEF CallRebound, TypeInv, TypeOK
  <2> QED BY <2>1, <2>2, <2>3, NestMove
<1>4. ASSUME NEW t \in Task, NEW s \in Slot,
             \/ Look(t, s) \/ Acquire(t, s) \/ Relook(t, s) \/ AwaitProvider(t, s)
             \/ Build(t, s) \/ Store(t, s) \/ Rebind(t, s) \/ Release(t, s)
             \/ Raise(t, s) \/ CancelWait(t, s)
      PROVE  NestInv'
  <2>1. Move(t, s)
    BY <1>4, MoveStep
  <2>2. pc[t][s] \notin {"enter", "failed"} /\ self' = self
    BY <1>4 DEF Look, Acquire, Relook, AwaitProvider, Build, Store, Rebind, Release,
                Raise, CancelWait, ProviderTurn, At
  <2>3. PICK label \in PC \ {"enter"} : Goto(t, s, label)
    BY <1>4 DEF Look, Acquire, Relook, AwaitProvider, Build, Store, Rebind, Release, Raise,
                CancelWait, Finish, Abort, PC
  <2>4. pc'[t][s] # "enter"
    BY <2>3, GotoType DEF TypeInv
  <2> QED BY <2>1, <2>2, <2>4, NestMove
<1>5. ASSUME NEW t \in Task, NEW s \in Slot, CallArg(t, s) PROVE NestInv'
  <2>1. PICK d \in Slot : d = NextArg(t, s) /\ d # s /\ Rank[d] < Rank[s]
    BY <1>5, NextArgType DEF CallArg
  <2>2. /\ pc[t][s] = "args" /\ got' = got
        /\ pc' = [pc EXCEPT ![t][s] = "wait", ![t][d] = "enter"]
        /\ self' = [self EXCEPT ![t][d] = self[t][s]]
    BY <1>5, <2>1 DEF CallArg, At
  <2>3. ~Active(t, d)
    BY <2>1, <2>2, RankType DEF ChainInv, Active, Waits
  <2>4. /\ pc'[t][s] = "wait" /\ pc'[t][d] = "enter" /\ self'[t][d] = self[t][s]
        /\ \A u \in Task, x \in Slot : u # t \/ (x # s /\ x # d) => pc'[u][x] = pc[u][x]
        /\ \A u \in Task, x \in Slot : u # t \/ x # d => self'[u][x] = self[u][x]
    BY <2>1, <2>2 DEF TypeInv, TypeOK
  <2> SUFFICES ASSUME NEW u \in Task, NEW p \in Slot, NEW e \in Slot,
                      Waits(u, p)', NextArg(u, p)' = e
               PROVE  Nested(u, p, e)'
    BY DEF NestInv
  <2>5. NextArg(u, p) = e
    BY <2>2 DEF NextArg
  <2>6. CASE u = t /\ p = s
    <3>1. e = d
      BY <2>1, <2>5, <2>6
    <3> QED BY <2>1, <2>4, <2>6, <3>1 DEF Nested, Active
  <2>7. CASE u = t /\ p # s
    <3>1. Waits(t, p) /\ p # d
      BY <2>4, <2>7 DEF Waits
    <3>2. Nested(t, p, e)
      BY <2>5, <2>7, <3>1 DEF NestInv
    <3>3. e # d
      BY <2>3, <3>2 DEF Nested
    <3>4. self'[t][p] = self[t][p] /\ self'[t][e] = self[t][e]
      BY <2>4, <3>1, <3>3
    <3>5. CASE e = s
      <4>0. self \in [Task -> [Slot -> Scope]]
        BY DEF TypeInv, TypeOK
      <4>1. PICK q \in Scope : q = self[t][p]
        BY <4>0
      <4>2. self[t][s] = Home(q, s)
        BY <2>2, <3>2, <3>5, <4>1 DEF Nested
      <4>3. Nested(t, p, s)'
        BY <2>4, <3>4, <3>5, <4>1, <4>2 DEF Nested, Active
      <4> QED BY <2>7, <3>5, <4>3
    <3>6. CASE e # s
      BY <2>4, <2>7, <3>2, <3>3, <3>4, <3>6 DEF Nested, Active
    <3> QED BY <3>5, <3>6
  <2>8. CASE u # t
    <3>1. Nested(u, p, e)
      BY <2>4, <2>5, <2>8 DEF NestInv, Waits
    <3> QED BY <2>4, <2>8, <3>1 DEF Nested, Active
  <2> QED BY <2>6, <2>7, <2>8
<1>6. ASSUME NEW t \in Task, NEW s \in Slot, TakeArg(t, s) \/ ArgFailed(t, s)
      PROVE  NestInv'
  <2>1. PICK d \in Slot : d = NextArg(t, s) /\ d # s /\ Rank[d] < Rank[s]
    BY <1>6, NextArgType DEF TakeArg, ArgFailed
  <2>2. pc[t][s] = "wait" /\ pc[t][d] \in {"done", "failed"}
    BY <1>6, <2>1 DEF TakeArg, ArgFailed, At
  <2>3. PICK label \in {"args", "unwind", "failed"} :
          pc' = [pc EXCEPT ![t][s] = label, ![t][d] = "idle"]
    BY <1>6, <2>1 DEF TakeArg, ArgFailed, Abort
  <2>4. /\ pc'[t][s] = label /\ pc'[t][d] = "idle"
        /\ \A u \in Task, x \in Slot : u # t \/ (x # s /\ x # d) => pc'[u][x] = pc[u][x]
    BY <2>1, <2>3 DEF TypeInv, TypeOK
  <2>5. \A u \in Task, x \in Slot : u # t \/ x # d => self'[u][x] = self[u][x]
    <3>1. Pop(t, d)
      BY <1>6, <2>1 DEF TakeArg, ArgFailed
    <3> QED BY <3>1 DEF Pop, TypeInv, TypeOK
  <2>6. \A u \in Task, x \in Slot : u # t \/ (x # s /\ x # d) => got'[u][x] = got[u][x]
    <3>1. CASE TakeArg(t, s)
      BY <2>1, <3>1 DEF TakeArg, TypeInv, TypeOK
    <3>2. CASE ArgFailed(t, s)
      BY <2>1, <3>2 DEF ArgFailed, TypeInv, TypeOK
    <3> QED BY <1>6, <3>1, <3>2
  <2> SUFFICES ASSUME NEW u \in Task, NEW p \in Slot, NEW e \in Slot,
                      Waits(u, p)', NextArg(u, p)' = e
               PROVE  Nested(u, p, e)'
    BY DEF NestInv
  <2>7. CASE u = t
    <3>1. p # s /\ p # d /\ Waits(t, p)
      BY <2>4, <2>7 DEF Waits
    <3>2. NextArg(t, p) = e
      BY <2>6, <2>7, <3>1 DEF NextArg
    <3>3. Nested(t, p, e)
      BY <3>1, <3>2 DEF NestInv
    <3>4. e # d
      <4>1. SUFFICES ASSUME e = d PROVE FALSE
        OBVIOUS
      <4>2. Rank[d] < Rank[p]
        BY <3>1, <3>2, <4>1, NextArgType DEF Waits, At
      <4>3. Active(t, s) /\ Waits(t, s) /\ Active(t, p)
        BY <2>2, <3>1 DEF Active, Waits
      <4>4. Rank[s] < Rank[p] \/ Rank[p] <= Rank[d]
        BY <2>1, <3>1, <4>3 DEF ChainInv
      <4>5. Rank[p] < Rank[s] \/ Rank[s] <= Rank[d]
        BY <3>1, <3>2, <4>1, <4>3 DEF ChainInv
      <4> QED BY <2>1, <4>2, <4>4, <4>5, RankType
    <3> QED BY <2>2, <2>3, <2>4, <2>5, <2>7, <3>1, <3>3, <3>4 DEF Nested, Active
  <2>8. CASE u # t
    <3>1. Nested(u, p, e)
      BY <2>4, <2>6, <2>8 DEF NestInv, Waits, NextArg
    <3> QED BY <2>4, <2>5, <2>8, <3>1 DEF Nested, Active
  <2> QED BY <2>7, <2>8
<1>7. ASSUME NEW t \in Task, Return(t) PROVE NestInv'
  <2>1. PICK s \in Slot : s = goal[t][2]
    BY <1>7 DEF Return, TypeInv, TypeOK
  <2>2. Active(t, s) /\ ~Waits(t, s) /\ "idle" \in PC /\ Goto(t, s, "idle") /\ goal[t] # Nobody
    BY <1>7, <2>1 DEF Return, At, Active, Waits, PC
  <2>3. \A x \in Slot : x # s => ~Active(t, x)
    BY <2>1, <2>2, RankType DEF ChainInv
  <2>4. \A x \in Slot : ~Waits(t, x)'
    BY <2>2, <2>3, GotoType DEF TypeInv, Active, Waits
  <2>5. \A u \in Task : u # t => pc'[u] = pc[u] /\ self'[u] = self[u] /\ got'[u] = got[u]
    BY <1>7, OthersKeep DEF TaskStep
  <2> QED BY <1>0, <2>4, <2>5
<1>8. ASSUME UNCHANGED frame PROVE NestInv'
  BY <1>8 DEF frame, NestInv, Nested, Active, Waits, NextArg
<1>9. ASSUME NEW t \in Task, NEW s \in Slot, AwaitLock(t, s) PROVE NestInv'
  BY <1>8, <1>9 DEF AwaitLock
<1>10. CASE UNCHANGED vars
  BY <1>8, <1>10 DEF vars
<1> QED
  BY <1>1, <1>2, <1>3, <1>4, <1>5, <1>6, <1>7, <1>9, <1>10
     DEF Next, TaskStep, FrameStep, Fault, Done

-----------------------------------------------------------------------------
(* What instances are made of.  Instance v of slot d was built in scope r; *)
(* a provider that runs in scope r was given v for its argument d: v was   *)
(* built in the scope where r finds d, and is what that scope caches when  *)
(* d is guarded.                                                           *)
BornIn(b, d, v, r) == v \in DOMAIN b[d] /\ b[d][v].scope = r

Wired(b, c, r, d, v) ==
    /\ BornIn(b, d, v, Home(r, d))
    /\ d \in Guarded => v = c[Home(r, d)][d]

WireFrame(t, s) ==
    /\ pc[t][s] \in {"idle", "enter"} => got[t][s] = <<>>
    /\ pc[t][s] = "await" => HasAllArgs(t, s)
    /\ pc[t][s] = "rebind" => self[t][s] = Root
    /\ pc[t][s] \in {"store", "rebind", "release", "done"} =>
          BornIn(born, s, value[t][s], self[t][s])
    /\ \A i \in 1..Len(got[t][s]) :
          Wired(born, cache, self[t][s], Args[s][i], got[t][s][i])

WireSlot(s) ==
    /\ \A r \in Scope : cache[r][s] # 0 => BornIn(born, s, cache[r][s], r)
    /\ rebound[s] # 0 => BornIn(born, s, rebound[s], Root)
    /\ \A n \in DOMAIN born[s] :
          /\ Len(born[s][n].args) = Len(Args[s])
          /\ \A i \in DOMAIN Args[s] :
                Wired(born, cache, born[s][n].scope, Args[s][i], born[s][n].args[i])

WireInv == \A s \in Slot : WireSlot(s) /\ \A t \in Task : WireFrame(t, s)

LEMMA WireInit == Init => WireInv
<1> SUFFICES ASSUME Init, NEW s \in Slot PROVE WireSlot(s) /\ \A t \in Task : WireFrame(t, s)
  BY DEF WireInv
<1>1. WireSlot(s)
  BY DEF Init, WireSlot
<1>2. ASSUME NEW t \in Task PROVE WireFrame(t, s)
  BY DEF Init, WireFrame
<1> QED BY <1>1, <1>2

(* Instances stay what they were, and a guarded cell once filled is not    *)
(* written again.                                                          *)
Grown(b, b2, c, c2) ==
    /\ \A d \in Slot : \A v \in DOMAIN b[d] : v \in DOMAIN b2[d] /\ b2[d][v] = b[d][v]
    /\ \A r \in Scope, d \in Guarded : c[r][d] # 0 => c2[r][d] = c[r][d]

LEMMA BornKept ==
    ASSUME NEW b, NEW b2, NEW c, NEW c2, Grown(b, b2, c, c2),
           NEW d \in Slot, NEW v, NEW r, BornIn(b, d, v, r)
    PROVE  BornIn(b2, d, v, r)
BY DEF Grown, BornIn

LEMMA WiredKept ==
    ASSUME NEW b \in [Slot -> Seq(Instance)], NEW b2, NEW c, NEW c2, Grown(b, b2, c, c2),
           NEW d \in Slot, NEW v, NEW r, Wired(b, c, r, d, v)
    PROVE  Wired(b2, c2, r, d, v)
<1>1. BornIn(b, d, v, Home(r, d))
  BY DEF Wired
<1>2. BornIn(b2, d, v, Home(r, d))
  BY <1>1, BornKept
<1>3. Home(r, d) \in Scope /\ v # 0
  <2>1. b[d] \in Seq(Instance)
    OBVIOUS
  <2>2. v \in 1..Len(b[d]) /\ b[d][v] \in Instance
    BY <1>1, <2>1 DEF BornIn
  <2>3. b[d][v].scope \in Scope
    BY <2>2 DEF Instance
  <2> QED BY <1>1, <2>2, <2>3 DEF BornIn
<1> QED BY <1>2, <1>3 DEF Wired, Grown

LEMMA GrownStep ==
    ASSUME TypeInv, OnceInv, [Next]_vars
    PROVE  Grown(born, born', cache, cache')
<1>1. ASSUME UNCHANGED <<born, cache>> PROVE Grown(born, born', cache, cache')
  BY <1>1 DEF Grown
<1>2. ASSUME NEW t \in Task, NEW s \in Slot, Build(t, s)
      PROVE  Grown(born, born', cache, cache')
  <2> DEFINE instance == [scope |-> self[t][s], args |-> got[t][s]]
  <2>1. born' = [born EXCEPT ![s] = Append(born[s], instance)] /\ cache' = cache
    BY <1>2 DEF Build, shared
  <2> HIDE DEF instance
  <2>2. born \in [Slot -> Seq(Instance)]
    BY DEF TypeInv, TypeOK
  <2>3. ASSUME NEW d \in Slot, NEW v \in DOMAIN born[d]
        PROVE  v \in DOMAIN born'[d] /\ born'[d][v] = born[d][v]
    <3>1. CASE d = s
      BY <2>1, <2>2, <2>3, <3>1
    <3>2. CASE d # s
      BY <2>1, <2>2, <2>3, <3>2
    <3> QED BY <3>1, <3>2
  <2> QED BY <2>1, <2>3 DEF Grown
<1>3. ASSUME NEW t \in Task, NEW s \in Slot, Store(t, s)
      PROVE  Grown(born, born', cache, cache')
  <2>1. PICK r \in Scope : r = self[t][s]
    BY DEF TypeInv, TypeOK
  <2>2. /\ pc[t][s] = "store" /\ born' = born
        /\ cache' = [cache EXCEPT ![r][s] = value[t][s]]
    BY <1>3, <2>1 DEF Store, At
  <2>3. \A q \in Scope, d \in Slot : q # r \/ d # s => cache'[q][d] = cache[q][d]
    BY <2>2 DEF TypeInv, TypeOK
  <2>4. s \in Guarded => cache[r][s] = 0
    BY <2>1, <2>2 DEF OnceInv, OnceFrame
  <2> QED BY <2>2, <2>3, <2>4, GuardedSlot DEF Grown
<1>4. ASSUME NEW t \in Task, NEW s \in Slot,
             \/ Delegate(t, s) \/ CallRebound(t, s) \/ Look(t, s) \/ Acquire(t, s)
             \/ AwaitLock(t, s) \/ Relook(t, s) \/ CallArg(t, s) \/ TakeArg(t, s)
             \/ ArgFailed(t, s) \/ AwaitProvider(t, s) \/ Rebind(t, s) \/ Release(t, s)
             \/ Raise(t, s) \/ CancelWait(t, s) \/ \E r \in Scope : Call(t, r, s)
      PROVE  UNCHANGED <<born, cache>>
  BY <1>4 DEF Delegate, CallRebound, Look, Acquire, AwaitLock, Relook, CallArg, TakeArg,
              ArgFailed, AwaitProvider, Rebind, Release, Raise, CancelWait, Call, shared
<1>5. ASSUME NEW t \in Task, Return(t) PROVE UNCHANGED <<born, cache>>
  BY <1>5 DEF Return, shared
<1>6. CASE UNCHANGED vars
  BY <1>1, <1>6 DEF vars, shared
<1> QED
  BY <1>1, <1>2, <1>3, <1>4, <1>5, <1>6 DEF Next, TaskStep, FrameStep, Fault, Done

(* The frame of s keeps the arguments it has got. *)
LEMMA WireMove ==
    ASSUME TypeInv, Grown(born, born', cache, cache'), NEW t \in Task, NEW s \in Slot,
           WireFrame(t, s), got'[t][s] = got[t][s],
           self'[t][s] = self[t][s] \/ got[t][s] = <<>>,
           pc'[t][s] \in {"idle", "enter"} => got[t][s] = <<>>,
           pc'[t][s] = "await" => HasAllArgs(t, s),
           pc'[t][s] = "rebind" => self'[t][s] = Root,
           pc'[t][s] \in {"store", "rebind", "release", "done"} =>
              BornIn(born', s, value'[t][s], self'[t][s])
    PROVE  WireFrame(t, s)'
<1>1. PICK r \in Scope, g \in Seq(Nat) : r = self[t][s] /\ g = got[t][s]
  BY DEF TypeInv, TypeOK
<1>2. \A i \in 1..Len(g) : Args[s][i] \in Slot
  <2>1. Len(g) <= Len(Args[s]) /\ Args[s] \in Seq(Slot)
    BY <1>1, SlotsAssumption DEF TypeInv, FrameInv
  <2> QED BY <2>1
<1>3. \A i \in 1..Len(g) : Wired(born', cache', r, Args[s][i], g[i])
  <2>1. \A i \in 1..Len(g) : Wired(born, cache, r, Args[s][i], g[i])
    BY <1>1 DEF WireFrame
  <2>2. born \in [Slot -> Seq(Instance)]
    BY DEF TypeInv, TypeOK
  <2> QED BY <1>2, <2>1, <2>2, WiredKept
<1>4. \A i \in 1..Len(got'[t][s]) : Wired(born', cache', self'[t][s], Args[s][i], got'[t][s][i])
  BY <1>1, <1>3
<1> QED BY <1>4 DEF WireFrame, HasAllArgs

(* A frame that is left alone. *)
LEMMA WireSame ==
    ASSUME TypeInv, Grown(born, born', cache, cache'), NEW t \in Task, NEW s \in Slot,
           WireFrame(t, s), Same(t, s), got'[t][s] = got[t][s]
    PROVE  WireFrame(t, s)'
<1>1. PICK r \in Scope, v \in Nat : r = self[t][s] /\ v = value[t][s]
  BY DEF TypeInv, TypeOK
<1>2. BornIn(born, s, v, r) => BornIn(born', s, v, r)
  BY BornKept
<1> QED BY <1>1, <1>2, WireMove DEF WireFrame, Same

(* A step that moves one frame of caller t. *)
LEMMA WireOne ==
    ASSUME TypeInv, WireInv, Grown(born, born', cache, cache'),
           NEW t \in Task, NEW s \in Slot, Move(t, s),
           \A u \in Task, x \in Slot : u # t \/ x # s => Same(u, x),
           WireFrame(t, s)', \A x \in Slot : WireSlot(x)'
    PROVE  WireInv'
<1>1. got' = got
  BY DEF Move
<1>2. ASSUME NEW u \in Task, NEW x \in Slot, u # t \/ x # s PROVE WireFrame(u, x)'
  BY <1>1, <1>2, WireSame DEF WireInv
<1> QED BY <1>2 DEF WireInv

LEMMA WireSlotKept ==
    ASSUME WireInv, UNCHANGED <<cache, rebound, born>>
    PROVE  \A x \in Slot : WireSlot(x)'
BY DEF WireInv, WireSlot

LEMMA WireDelegate ==
    ASSUME TypeInv, WireInv, Grown(born, born', cache, cache'),
           NEW t \in Task, NEW s \in Slot, Delegate(t, s)
    PROVE  WireInv'
<1>1. Move(t, s) /\ \A x \in Slot : WireSlot(x)'
  BY MoveStep, WireSlotKept DEF Delegate, shared
<1>2. PICK label \in {"failed", "look", "args"} : Goto(t, s, label)
  BY DEF Delegate
<1>3. label \in PC
  BY DEF PC
<1>4. \A u \in Task, x \in Slot : u # t \/ x # s => self'[u][x] = self[u][x]
  <2>1. self \in [Task -> [Slot -> Scope]]
    BY DEF TypeInv, TypeOK
  <2>2. self' = self \/ self' = [self EXCEPT ![t][s] = Home(self[t][s], s)]
    BY DEF Delegate
  <2> QED BY <2>1, <2>2
<1>5. pc'[t][s] = label /\ \A u \in Task, x \in Slot : u # t \/ x # s => Same(u, x)
  BY <1>2, <1>3, <1>4, GotoType DEF Delegate, Same, TypeInv
<1>6. got[t][s] = <<>> /\ got'[t][s] = got[t][s] /\ WireFrame(t, s)
  BY DEF WireInv, WireFrame, Delegate, At
<1>7. WireFrame(t, s)'
  BY <1>5, <1>6, WireMove
<1> QED BY <1>1, <1>5, <1>7, WireOne

LEMMA WireRebound ==
    ASSUME TypeInv, WireInv, Grown(born, born', cache, cache'),
           NEW t \in Task, NEW s \in Slot, CallRebound(t, s)
    PROVE  WireInv'
<1>1. Move(t, s) /\ \A x \in Slot : WireSlot(x)'
  BY MoveStep, WireSlotKept DEF CallRebound, shared
<1>2. "done" \in PC /\ Goto(t, s, "done")
  BY DEF CallRebound, PC
<1>3. /\ self'[t][s] = Root /\ value'[t][s] = rebound[s]
      /\ \A u \in Task, x \in Slot : u # t \/ x # s =>
            self'[u][x] = self[u][x] /\ value'[u][x] = value[u][x]
  BY DEF CallRebound, TypeInv, TypeOK
<1>4. pc'[t][s] = "done" /\ \A u \in Task, x \in Slot : u # t \/ x # s => Same(u, x)
  BY <1>2, <1>3, GotoType DEF Same, TypeInv
<1>5. got[t][s] = <<>> /\ got'[t][s] = got[t][s] /\ WireFrame(t, s)
  BY DEF WireInv, WireFrame, CallRebound, At
<1>6. BornIn(born', s, value'[t][s], self'[t][s])
  BY <1>3 DEF CallRebound, WireInv, WireSlot
<1>7. WireFrame(t, s)'
  BY <1>4, <1>5, <1>6, WireMove
<1> QED BY <1>1, <1>4, <1>7, WireOne

LEMMA WireLook ==
    ASSUME TypeInv, WireInv, Grown(born, born', cache, cache'),
           NEW t \in Task, NEW s \in Slot, Look(t, s) \/ Relook(t, s)
    PROVE  WireInv'
<1>0. PICK r \in Scope, cached \in Nat : r = self[t][s] /\ cached = cache[r][s]
  BY DEF TypeInv, TypeOK
<1>1. Move(t, s) /\ self' = self /\ born' = born /\ \A x \in Slot : WireSlot(x)'
  BY MoveStep, WireSlotKept DEF Look, Relook, shared
<1>2. PICK label \in PC :
        /\ Goto(t, s, label)
        /\ \/ /\ cached # 0 /\ label \in {"done", "release"}
              /\ value' = [value EXCEPT ![t][s] = cached]
           \/ label \in {"lock", "args"} /\ value' = value
  <2>1. {"done", "release", "lock", "args"} \subseteq PC
    BY DEF PC
  <2>2. CASE Look(t, s)
    BY <1>0, <2>1, <2>2 DEF Look
  <2>3. CASE Relook(t, s)
    BY <1>0, <2>1, <2>3 DEF Relook
  <2> QED BY <2>2, <2>3
<1>3. /\ label \in {"done", "release"} => cached # 0 /\ value'[t][s] = cached
      /\ label \in {"done", "release", "lock", "args"}
      /\ \A u \in Task, x \in Slot : u # t \/ x # s => value'[u][x] = value[u][x]
  <2>1. value \in [Task -> [Slot -> Nat]]
    BY DEF TypeInv, TypeOK
  <2> QED BY <1>2, <2>1
<1>4. pc'[t][s] = label /\ \A u \in Task, x \in Slot : u # t \/ x # s => Same(u, x)
  BY <1>1, <1>2, <1>3, GotoType DEF Same, TypeInv
<1>5. got'[t][s] = got[t][s] /\ WireFrame(t, s)
  BY <1>1 DEF WireInv, Move
<1>6. label \in {"done", "release"} => BornIn(born', s, value'[t][s], self'[t][s])
  BY <1>0, <1>1, <1>3 DEF WireInv, WireSlot
<1>7. WireFrame(t, s)'
  BY <1>1, <1>3, <1>4, <1>5, <1>6, WireMove
<1> QED BY <1>1, <1>4, <1>7, WireOne

(* Steps that only go to another label. *)
LEMMA WireGoto ==
    ASSUME TypeInv, WireInv, Grown(born, born', cache, cache'),
           NEW t \in Task, NEW s \in Slot,
           \/ Acquire(t, s) \/ AwaitProvider(t, s) \/ Release(t, s)
           \/ Raise(t, s) \/ CancelWait(t, s)
    PROVE  WireInv'
<1>1. /\ Move(t, s) /\ self' = self /\ value' = value /\ born' = born
      /\ \A x \in Slot : WireSlot(x)'
  BY MoveStep, WireSlotKept DEF Acquire, AwaitProvider, Release, Raise, CancelWait, shared
<1>2. PICK label \in {"relook", "await", "done", "failed", "unwind"} :
        /\ Goto(t, s, label)
        /\ label = "await" => HasAllArgs(t, s)
        /\ label = "done" => pc[t][s] = "release"
  BY DEF Acquire, AwaitProvider, Release, Raise, CancelWait, At, Abort
<1>3. label \in PC
  BY DEF PC
<1>4. pc'[t][s] = label /\ \A u \in Task, x \in Slot : u # t \/ x # s => Same(u, x)
  BY <1>1, <1>2, <1>3, GotoType DEF Same, TypeInv
<1>5. got'[t][s] = got[t][s] /\ WireFrame(t, s)
  BY <1>1 DEF WireInv, Move
<1>6. label = "done" => BornIn(born', s, value'[t][s], self'[t][s])
  BY <1>1, <1>2, <1>5 DEF WireFrame
<1>7. WireFrame(t, s)'
  BY <1>1, <1>2, <1>4, <1>5, <1>6, WireMove
<1> QED BY <1>1, <1>4, <1>7, WireOne

(* A new instance: its provider was given all its arguments. *)
LEMMA WireBuild ==
    ASSUME TypeInv, WireInv, Grown(born, born', cache, cache'),
           NEW t \in Task, NEW s \in Slot, Build(t, s)
    PROVE  WireInv'
<1>0. PICK r \in Scope, g \in Seq(Nat) : r = self[t][s] /\ g = got[t][s]
  BY DEF TypeInv, TypeOK
<1> DEFINE instance == [scope |-> r, args |-> g]
<1>1. /\ Move(t, s) /\ self' = self /\ got' = got /\ cache' = cache /\ rebound' = rebound
      /\ born' = [born EXCEPT ![s] = Append(born[s], instance)]
      /\ value' = [value EXCEPT ![t][s] = Len(born[s]) + 1]
  BY <1>0, MoveStep DEF Build, shared
<1>2. born \in [Slot -> Seq(Instance)] /\ value \in [Task -> [Slot -> Nat]]
  BY DEF TypeInv, TypeOK
<1>3. PICK label \in {"store", "done"} : Goto(t, s, label)
  BY DEF Build
<1>4. Len(g) = Len(Args[s]) /\ WireFrame(t, s)
  BY <1>0 DEF WireInv, WireFrame, Build, ProviderTurn, HasAllArgs, At
<1>5. instance.scope = r /\ instance.args = g
  OBVIOUS
<1> HIDE DEF instance
<1>6. /\ Len(born[s]) + 1 \in DOMAIN born'[s] /\ born'[s][Len(born[s]) + 1] = instance
      /\ \A n \in DOMAIN born'[s] : n = Len(born[s]) + 1 \/ n \in DOMAIN born[s]
      /\ \A x \in Slot : x # s => born'[x] = born[x]
  BY <1>1, <1>2
<1>7. /\ value'[t][s] = Len(born[s]) + 1
      /\ \A u \in Task, x \in Slot : u # t \/ x # s => value'[u][x] = value[u][x]
  <2>1. Len(born[s]) + 1 \in Nat
    BY <1>2
  <2> QED BY <1>1, <1>2, <2>1
<1>8. pc'[t][s] = label /\ \A u \in Task, x \in Slot : u # t \/ x # s => Same(u, x)
  BY <1>1, <1>3, <1>7, GotoType DEF Same, TypeInv, PC
<1>9. WireFrame(t, s)'
  <2>1. BornIn(born', s, value'[t][s], self'[t][s])
    BY <1>0, <1>1, <1>5, <1>6, <1>7 DEF BornIn
  <2> QED BY <1>1, <1>4, <1>8, <2>1, WireMove
<1>10. \A i \in 1..Len(g) : Args[s][i] \in Slot /\ Wired(born, cache, r, Args[s][i], g[i])
  <2>1. \A i \in 1..Len(g) : Wired(born, cache, r, Args[s][i], g[i])
    BY <1>0, <1>4 DEF WireFrame
  <2>2. Args[s] \in Seq(Slot)
    BY SlotsAssumption
  <2> QED BY <1>4, <2>1, <2>2
<1>11. ASSUME NEW x \in Slot PROVE WireSlot(x)'
  <2>1. ASSUME NEW q \in Scope, cache'[q][x] # 0 PROVE BornIn(born', x, cache'[q][x], q)
    BY <1>1, <2>1, BornKept DEF WireInv, WireSlot
  <2>2. rebound'[x] # 0 => BornIn(born', x, rebound'[x], Root)
    BY <1>1, BornKept DEF WireInv, WireSlot
  <2>3. ASSUME NEW n \in DOMAIN born[x]
        PROVE  /\ Len(born'[x][n].args) = Len(Args[x])
               /\ \A i \in DOMAIN Args[x] :
                     Wired(born', cache', born'[x][n].scope, Args[x][i], born'[x][n].args[i])
    <3>1. born'[x][n] = born[x][n]
      BY DEF Grown
    <3>2. \A i \in DOMAIN Args[x] :
            /\ Args[x][i] \in Slot
            /\ Wired(born, cache, born[x][n].scope, Args[x][i], born[x][n].args[i])
      BY ArgOfSlot DEF WireInv, WireSlot
    <3>3. \A i \in DOMAIN Args[x] :
            Wired(born', cache', born[x][n].scope, Args[x][i], born[x][n].args[i])
      BY <1>2, <3>2, WiredKept
    <3> QED BY <3>1, <3>3 DEF WireInv, WireSlot
  <2>4. ASSUME x = s
        PROVE  \A i \in DOMAIN Args[s] : Wired(born', cache', r, Args[s][i], g[i])
    <3>1. DOMAIN Args[s] = 1..Len(g)
      <4>1. Args[s] \in Seq(Slot)
        BY SlotsAssumption
      <4> QED BY <1>4, <4>1
    <3> QED BY <1>2, <1>10, <3>1, WiredKept
  <2>5. \A n \in DOMAIN born'[x] :
          /\ Len(born'[x][n].args) = Len(Args[x])
          /\ \A i \in DOMAIN Args[x] :
                Wired(born', cache', born'[x][n].scope, Args[x][i], born'[x][n].args[i])
    <3>1. CASE x # s
      BY <1>6, <2>3, <3>1
    <3>2. CASE x = s
      BY <1>4, <1>5, <1>6, <2>3, <2>4, <3>2
    <3> QED BY <3>1, <3>2
  <2> QED BY <2>1, <2>2, <2>5 DEF WireSlot
<1> QED BY <1>1, <1>8, <1>9, <1>11, WireOne

(* What a caller publishes was built in the scope it publishes it for. *)
LEMMA WirePublish ==
    ASSUME TypeInv, WireInv, Grown(born, born', cache, cache'),
           NEW t \in Task, NEW s \in Slot, Store(t, s) \/ Rebind(t, s)
    PROVE  WireInv'
<1>0. PICK r \in Scope, v \in Nat : r = self[t][s] /\ v = value[t][s]
  BY DEF TypeInv, TypeOK
<1>1. Move(t, s) /\ self' = self /\ value' = value /\ born' = born /\ WireFrame(t, s)
  BY MoveStep DEF Store, Rebind, WireInv
<1>2. BornIn(born, s, v, r) /\ (pc[t][s] = "rebind" => r = Root)
  BY <1>0, <1>1 DEF Store, Rebind, At, WireFrame
<1>3. PICK label \in {"rebind", "release", "done"} :
        Goto(t, s, label) /\ (label = "rebind" => r = Root)
  BY <1>0 DEF Store, Rebind, Finish
<1>4. pc'[t][s] = label /\ \A u \in Task, x \in Slot : u # t \/ x # s => Same(u, x)
  BY <1>1, <1>3, GotoType DEF Same, TypeInv, PC
<1>5. WireFrame(t, s)'
  BY <1>0, <1>1, <1>2, <1>3, <1>4, WireMove DEF Move
<1>6. \A q \in Scope, x \in Slot :
        cache'[q][x] = cache[q][x] \/ (q = r /\ x = s /\ cache'[q][x] = v)
  <2>1. cache' = cache \/ cache' = [cache EXCEPT ![r][s] = v]
    BY <1>0 DEF Store, Rebind
  <2>2. cache \in [Scope -> [Slot -> Nat]]
    BY DEF TypeInv, TypeOK
  <2> QED BY <2>1, <2>2
<1>7. \A x \in Slot : rebound'[x] = rebound[x] \/ (x = s /\ r = Root /\ rebound'[x] = v)
  BY <1>0, <1>2 DEF Store, Rebind, At, TypeInv, TypeOK
<1>8. ASSUME NEW x \in Slot PROVE WireSlot(x)'
  <2>1. \A q \in Scope : cache'[q][x] # 0 => BornIn(born', x, cache'[q][x], q)
    BY <1>1, <1>2, <1>6 DEF WireInv, WireSlot
  <2>2. rebound'[x] # 0 => BornIn(born', x, rebound'[x], Root)
    BY <1>1, <1>2, <1>7 DEF WireInv, WireSlot
  <2>3. ASSUME NEW n \in DOMAIN born[x]
        PROVE  /\ Len(born[x][n].args) = Len(Args[x])
               /\ \A i \in DOMAIN Args[x] :
                     Wired(born', cache', born[x][n].scope, Args[x][i], born[x][n].args[i])
    <3>1. born \in [Slot -> Seq(Instance)]
      BY DEF TypeInv, TypeOK
    <3>2. \A i \in DOMAIN Args[x] :
            /\ Args[x][i] \in Slot
            /\ Wired(born, cache, born[x][n].scope, Args[x][i], born[x][n].args[i])
      BY ArgOfSlot DEF WireInv, WireSlot
    <3> QED BY <3>1, <3>2, WiredKept DEF WireInv, WireSlot
  <2> QED BY <1>1, <2>1, <2>2, <2>3 DEF WireSlot
<1> QED BY <1>1, <1>4, <1>5, <1>8, WireOne

LEMMA WireCall ==
    ASSUME TypeInv, ChainInv, WireInv, Grown(born, born', cache, cache'),
           NEW t \in Task, NEW r \in Scope, NEW s \in Slot, Call(t, r, s)
    PROVE  WireInv'
<1>1. got' = got /\ value' = value /\ \A x \in Slot : WireSlot(x)'
  BY WireSlotKept DEF Call, shared
<1>2. "enter" \in PC /\ Goto(t, s, "enter") /\ pc[t][s] = "idle"
  BY DEF Call, PC, ChainInv, Active
<1>3. \A u \in Task, x \in Slot : u # t \/ x # s => self'[u][x] = self[u][x]
  BY DEF Call, TypeInv, TypeOK
<1>4. pc'[t][s] = "enter" /\ \A u \in Task, x \in Slot : u # t \/ x # s => Same(u, x)
  BY <1>1, <1>2, <1>3, GotoType DEF Same, TypeInv
<1>5. WireFrame(t, s)'
  <2>1. got[t][s] = <<>> /\ WireFrame(t, s)
    BY <1>2 DEF WireInv, WireFrame
  <2> QED BY <1>1, <1>4, <2>1, WireMove
<1>6. ASSUME NEW u \in Task, NEW x \in Slot, u # t \/ x # s PROVE WireFrame(u, x)'
  BY <1>1, <1>4, <1>6, WireSame DEF WireInv
<1> QED BY <1>1, <1>5, <1>6 DEF WireInv

LEMMA WireCallArg ==
    ASSUME TypeInv, ChainInv, WireInv, Grown(born, born', cache, cache'),
           NEW t \in Task, NEW s \in Slot, CallArg(t, s)
    PROVE  WireInv'
<1>1. PICK d \in Slot : d = NextArg(t, s) /\ d # s /\ Rank[d] < Rank[s]
  BY NextArgType DEF CallArg
<1>2. /\ pc[t][s] = "args" /\ got' = got /\ value' = value
      /\ pc' = [pc EXCEPT ![t][s] = "wait", ![t][d] = "enter"]
      /\ self' = [self EXCEPT ![t][d] = self[t][s]]
      /\ \A x \in Slot : WireSlot(x)'
  BY <1>1, WireSlotKept DEF CallArg, At, shared
<1>3. pc[t][d] = "idle"
  BY <1>1, <1>2, RankType DEF ChainInv, Active, Waits
<1>4. /\ pc'[t][s] = "wait" /\ pc'[t][d] = "enter"
      /\ \A u \in Task, x \in Slot : u # t \/ (x # s /\ x # d) => pc'[u][x] = pc[u][x]
      /\ \A u \in Task, x \in Slot : u # t \/ x # d => self'[u][x] = self[u][x]
  BY <1>1, <1>2 DEF TypeInv, TypeOK
<1>5. WireFrame(t, s)'
  BY <1>1, <1>2, <1>4, WireMove DEF WireInv
<1>6. WireFrame(t, d)'
  <2>1. got[t][d] = <<>> /\ WireFrame(t, d)
    BY <1>3 DEF WireInv, WireFrame
  <2> QED BY <1>2, <1>4, <2>1, WireMove
<1>7. ASSUME NEW u \in Task, NEW x \in Slot, u # t \/ (x # s /\ x # d) PROVE WireFrame(u, x)'
  BY <1>2, <1>4, <1>7, WireSame DEF WireInv, Same
<1> QED BY <1>2, <1>5, <1>6, <1>7 DEF WireInv

(* The value of an argument comes from where the provider's scope has it. *)
LEMMA WireArg ==
    ASSUME TypeInv, OnceInv, NestInv, WireInv,
           NEW t \in Task, NEW s \in Slot, NEW d \in Slot, NEW r \in Scope, NEW v \in Nat,
           Waits(t, s), NextArg(t, s) = d, pc[t][d] = "done", r = self[t][s], v = value[t][d]
    PROVE  Wired(born, cache, r, d, v)
<1>1. self[t][d] = Home(r, d)
  BY DEF NestInv, Nested
<1>2. BornIn(born, d, v, self[t][d])
  BY DEF WireInv, WireFrame
<1>3. d \in Guarded => v = cache[self[t][d]][d]
  BY DEF OnceInv, OnceFrame
<1> QED BY <1>1, <1>2, <1>3 DEF Wired

(* The frame of an argument ends; the frame that waited has a label, and   *)
(* what it has got is wired.                                               *)
LEMMA WirePop ==
    ASSUME TypeInv, WireInv, Grown(born, born', cache, cache'),
           NEW t \in Task, NEW s \in Slot, NEW d \in Slot, d # s,
           pc'[t][s] \in {"args", "unwind", "failed"}, pc'[t][d] = "idle", Pop(t, d),
           got'[t][d] = <<>>,
           \A u \in Task, x \in Slot : u # t \/ (x # s /\ x # d) =>
              pc'[u][x] = pc[u][x] /\ got'[u][x] = got[u][x],
           UNCHANGED <<cache, rebound, born>>,
           \A i \in 1..Len(got'[t][s]) :
              Wired(born', cache', self[t][s], Args[s][i], got'[t][s][i])
    PROVE  WireInv'
<1>2. \A u \in Task, x \in Slot : u # t \/ x # d =>
        self'[u][x] = self[u][x] /\ value'[u][x] = value[u][x]
  BY DEF Pop, TypeInv, TypeOK
<1>3. WireFrame(t, s)'
  <2>1. \A i \in 1..Len(got'[t][s]) :
          Wired(born', cache', self'[t][s], Args[s][i], got'[t][s][i])
    BY <1>2
  <2> QED BY <2>1 DEF WireFrame
<1>4. WireFrame(t, d)'
  BY DEF WireFrame
<1>5. ASSUME NEW u \in Task, NEW x \in Slot, u # t \/ (x # s /\ x # d) PROVE WireFrame(u, x)'
  BY <1>2, <1>5, WireSame DEF WireInv, Same
<1> QED BY <1>3, <1>4, <1>5, WireSlotKept DEF WireInv

LEMMA WireTake ==
    ASSUME TypeInv, OnceInv, NestInv, WireInv, Grown(born, born', cache, cache'),
           NEW t \in Task, NEW s \in Slot, TakeArg(t, s)
    PROVE  WireInv'
<1>1. PICK d \in Slot : d = NextArg(t, s) /\ d # s
  BY NextArgType DEF TakeArg
<1>2. PICK r \in Scope, g \in Seq(Nat), v \in Nat :
        r = self[t][s] /\ g = got[t][s] /\ v = value[t][d]
  BY DEF TypeInv, TypeOK
<1>3. /\ pc[t][s] = "wait" /\ pc[t][d] = "done" /\ UNCHANGED <<cache, rebound, born>>
      /\ pc' = [pc EXCEPT ![t][s] = "args", ![t][d] = "idle"] /\ Pop(t, d)
      /\ got' = [got EXCEPT ![t][s] = Append(g, v), ![t][d] = <<>>]
  BY <1>1, <1>2 DEF TakeArg, At, shared
<1>4. got \in [Task -> [Slot -> Seq(Nat)]]
  BY DEF TypeInv, TypeOK
<1>5. /\ got'[t][s] = Append(g, v) /\ got'[t][d] = <<>>
      /\ \A u \in Task, x \in Slot : u # t \/ (x # s /\ x # d) => got'[u][x] = got[u][x]
  BY <1>1, <1>3, <1>4
<1>6. Wired(born, cache, r, d, v)
  BY <1>1, <1>2, <1>3, WireArg DEF Waits
<1>7. Args[s][Len(g) + 1] = d
  BY <1>1, <1>2 DEF NextArg
<1>8. \A i \in 1..Len(g) : Wired(born, cache, r, Args[s][i], g[i])
  BY <1>2 DEF WireInv, WireFrame
<1>9. \A i \in 1..Len(Append(g, v)) : Wired(born, cache, r, Args[s][i], Append(g, v)[i])
  <2> SUFFICES ASSUME NEW i \in 1..Len(Append(g, v))
               PROVE  Wired(born, cache, r, Args[s][i], Append(g, v)[i])
    OBVIOUS
  <2>1. CASE i = Len(g) + 1
    <3>1. Append(g, v)[i] = v
      BY <2>1
    <3> QED BY <1>6, <1>7, <2>1, <3>1
  <2>2. CASE i \in 1..Len(g)
    <3>1. Append(g, v)[i] = g[i]
      BY <2>2
    <3> QED BY <1>8, <2>2, <3>1
  <2> QED BY <2>1, <2>2
<1>10. \A i \in 1..Len(got'[t][s]) :
         Wired(born', cache', self[t][s], Args[s][i], got'[t][s][i])
  BY <1>2, <1>3, <1>5, <1>9
<1>11. /\ pc'[t][s] = "args" /\ pc'[t][d] = "idle"
       /\ \A u \in Task, x \in Slot : u # t \/ (x # s /\ x # d) => pc'[u][x] = pc[u][x]
  BY <1>1, <1>3 DEF TypeInv, TypeOK
<1>12. Pop(t, d) /\ UNCHANGED <<cache, rebound, born>> /\ got'[t][d] = <<>>
  BY <1>3, <1>5
<1>13. \A u \in Task, x \in Slot : u # t \/ (x # s /\ x # d) =>
         pc'[u][x] = pc[u][x] /\ got'[u][x] = got[u][x]
  BY <1>5, <1>11
<1> QED BY <1>1, <1>10, <1>11, <1>12, <1>13, WirePop

LEMMA WireFailed ==
    ASSUME TypeInv, WireInv, Grown(born, born', cache, cache'),
           NEW t \in Task, NEW s \in Slot, ArgFailed(t, s)
    PROVE  WireInv'
<1>1. PICK d \in Slot : d = NextArg(t, s) /\ d # s
  BY NextArgType DEF ArgFailed
<1>2. PICK label \in {"args", "unwind", "failed"} :
        pc' = [pc EXCEPT ![t][s] = label, ![t][d] = "idle"]
  BY <1>1 DEF ArgFailed, Abort
<1>3. Pop(t, d) /\ got' = [got EXCEPT ![t][d] = <<>>] /\ UNCHANGED <<cache, rebound, born>>
  BY <1>1 DEF ArgFailed, shared
<1>4. got \in [Task -> [Slot -> Seq(Nat)]]
  BY DEF TypeInv, TypeOK
<1>5. /\ got'[t][d] = <<>>
      /\ \A u \in Task, x \in Slot : u # t \/ (x # s /\ x # d) => got'[u][x] = got[u][x]
  BY <1>3, <1>4
<1>6. \A i \in 1..Len(got'[t][s]) :
        Wired(born', cache', self[t][s], Args[s][i], got'[t][s][i])
  <2>1. got'[t][s] = got[t][s]
    BY <1>1, <1>3, <1>4
  <2> QED BY <1>3, <2>1 DEF WireInv, WireFrame
<1>7. /\ pc'[t][s] = label /\ pc'[t][d] = "idle"
      /\ \A u \in Task, x \in Slot : u # t \/ (x # s /\ x # d) => pc'[u][x] = pc[u][x]
  BY <1>1, <1>2 DEF TypeInv, TypeOK
<1> QED BY <1>1, <1>3, <1>5, <1>6, <1>7, WirePop

LEMMA WireReturn ==
    ASSUME TypeInv, WireInv, Grown(born, born', cache, cache'), NEW t \in Task, Return(t)
    PROVE  WireInv'
<1>1. PICK s \in Slot : s = goal[t][2]
  BY DEF Return, TypeInv, TypeOK
<1>2. /\ "idle" \in PC /\ Goto(t, s, "idle") /\ Pop(t, s)
      /\ got' = [got EXCEPT ![t][s] = <<>>] /\ \A x \in Slot : WireSlot(x)'
  BY <1>1, WireSlotKept DEF Return, PC, shared
<1>3. /\ pc'[t][s] = "idle" /\ got'[t][s] = <<>>
      /\ \A u \in Task, x \in Slot : u # t \/ x # s => got'[u][x] = got[u][x]
      /\ \A u \in Task, x \in Slot : u # t \/ x # s => pc'[u][x] = pc[u][x]
  <2>1. got \in [Task -> [Slot -> Seq(Nat)]]
    BY DEF TypeInv, TypeOK
  <2> QED BY <1>2, <2>1, GotoType DEF TypeInv
<1>4. \A u \in Task, x \in Slot : u # t \/ x # s =>
        self'[u][x] = self[u][x] /\ value'[u][x] = value[u][x]
  BY <1>2 DEF Pop, TypeInv, TypeOK
<1>5. WireFrame(t, s)'
  BY <1>3 DEF WireFrame
<1>6. ASSUME NEW u \in Task, NEW x \in Slot, u # t \/ x # s PROVE WireFrame(u, x)'
  BY <1>3, <1>4, <1>6, WireSame DEF WireInv, Same
<1> QED BY <1>2, <1>5, <1>6 DEF WireInv

LEMMA WireStep ==
    TypeInv /\ ChainInv /\ OnceInv /\ NestInv /\ WireInv /\ [Next]_vars => WireInv'
<1> SUFFICES ASSUME TypeInv, ChainInv, OnceInv, NestInv, WireInv, [Next]_vars PROVE WireInv'
  OBVIOUS
<1>0. Grown(born, born', cache, cache')
  BY GrownStep
<1>1. ASSUME UNCHANGED <<frame, shared, born>> PROVE WireInv'
  BY <1>1 DEF frame, shared, WireInv, WireSlot, WireFrame, HasAllArgs
<1>2. ASSUME NEW t \in Task, NEW s \in Slot, AwaitLock(t, s) PROVE WireInv'
  BY <1>1, <1>2 DEF AwaitLock
<1>3. CASE UNCHANGED vars
  BY <1>1, <1>3 DEF vars
<1> QED
  BY <1>0, <1>2, <1>3, WireCall, WireDelegate, WireRebound, WireLook, WireGoto, WireBuild,
     WirePublish, WireCallArg, WireTake, WireFailed, WireReturn
     DEF Next, TaskStep, FrameStep, Fault, Done

-----------------------------------------------------------------------------
IInv ==
    TypeInv /\ ChainInv /\ LockInv /\ AsyncInv /\ LoopInv /\ OnceInv /\ NestInv /\ WireInv

LEMMA Inductive == Spec => []IInv
<1>1. Init => IInv
  BY TypeInit, ChainInit, LockInit, AsyncInit, LoopInit, OnceInit, NestInit, WireInit DEF IInv
<1>2. IInv /\ [Next]_vars => IInv'
  BY TypeStep, ChainStep, LockStep, AsyncStep, LoopStep, OnceStep, NestStep, WireStep DEF IInv
<1> QED BY <1>1, <1>2, PTL DEF Spec

(* All callers that resolve a slot guarded by a lock in one scope get the  *)
(* same instance, whatever they do at the same time: the double-checked    *)
(* lookup, the lock, the cache attribute and the method replaced on the    *)
(* root agree.                                                             *)
THEOREM OneInstance == Spec => []OneInstancePerScope
<1>1. IInv => OneInstancePerScope
  BY DEF IInv, OnceInv, OnceSlot, OneInstancePerScope, SameInstance, Guarded
<1> QED BY <1>1, Inductive, PTL

(* On one event loop the same holds of the synchronous slots that a mixed  *)
(* graph leaves without a lock: a caller that misses one keeps control of  *)
(* the thread until it has stored it.                                      *)
THEOREM OneInstanceOnLoop == Spec => []OneInstanceOnOneLoop
<1>1. IInv => OneInstanceOnOneLoop
  BY DEF IInv, OnceInv, OnceSlot, OneInstanceOnOneLoop, SameInstance, Guarded
<1> QED BY <1>1, Inductive, PTL

(* No component holds a second copy of a shared dependency: what a         *)
(* provider was given for a guarded slot is what the slot's owner caches.  *)
THEOREM WiringShared == Spec => []SharedWiring
<1>1. IInv => SharedWiring
  <2> SUFFICES ASSUME IInv, NEW s \in Slot, NEW n \in DOMAIN born[s],
                      NEW i \in DOMAIN Args[s], Args[s][i] \in Guarded
               PROVE  born[s][n].args[i] =
                        cache[Home(born[s][n].scope, Args[s][i])][Args[s][i]]
    BY DEF SharedWiring
  <2> QED BY DEF IInv, WireInv, WireSlot, Wired
<1> QED BY <1>1, Inductive, PTL

(* Where a slot is found from a resolver encloses the resolver. *)
LEMMA HomeEncloses ==
    ASSUME NEW r \in Scope, NEW s \in Slot, Home(r, s) # NoScope
    PROVE  Home(r, s) \in Enclosing(r)
<1>1. /\ ScopeRef[r] \in [LevelOf[Root]..LevelOf[r] -> Scope \cup {NoScope}]
      /\ ScopeRef[r][LevelOf[r]] = r
      /\ LevelOf[Root] \in Nat /\ LevelOf[r] \in Nat /\ LevelOf[Root] <= LevelOf[r]
  BY ScopesAssumption
<1>2. SlotLevel[s] \in Nat /\ LevelOf[Root] <= SlotLevel[s]
  BY SlotsAssumption
<1>3. CASE Home(r, s) = RefAt(r, SlotLevel[s])
  <2>1. SlotLevel[s] <= LevelOf[r] /\ Home(r, s) = ScopeRef[r][SlotLevel[s]]
    BY <1>1, <1>2, <1>3 DEF RefAt
  <2>2. SlotLevel[s] \in DOMAIN ScopeRef[r]
    BY <1>1, <1>2, <2>1
  <2> QED BY <2>1, <2>2 DEF Enclosing
<1>4. CASE Home(r, s) = r
  <2>1. LevelOf[r] \in DOMAIN ScopeRef[r]
    BY <1>1
  <2> QED BY <1>1, <1>4, <2>1, ScopesAssumption DEF Enclosing
<1> QED BY <1>3, <1>4 DEF Home

(* Whatever callers do at the same time, an instance is wired only with    *)
(* instances of its own scope and of the scopes that enclose it: none of a *)
(* sibling request, none that a deeper scope will close first.             *)
THEOREM ScopesIsolated == Spec => []ScopeIsolation
<1>1. IInv => ScopeIsolation
  <2> SUFFICES ASSUME IInv, NEW s \in Slot, NEW n \in DOMAIN born[s], NEW i \in DOMAIN Args[s]
               PROVE  born[Args[s][i]][born[s][n].args[i]].scope \in Enclosing(born[s][n].scope)
    BY DEF ScopeIsolation
  <2>1. PICK d \in Slot : d = Args[s][i]
    BY ArgOfSlot
  <2>2. born \in [Slot -> Seq(Instance)]
    BY DEF IInv, TypeInv, TypeOK
  <2>3. PICK r \in Scope, v \in Nat : r = born[s][n].scope /\ v = born[s][n].args[i]
    <3>1. born[s][n] \in Instance
      BY <2>2
    <3>2. born[s][n].scope \in Scope /\ born[s][n].args \in Seq(Nat)
      BY <3>1 DEF Instance
    <3>3. Len(born[s][n].args) = Len(Args[s]) /\ Args[s] \in Seq(Slot)
      BY SlotsAssumption DEF IInv, WireInv, WireSlot
    <3>4. i \in DOMAIN born[s][n].args
      BY <3>2, <3>3
    <3>5. born[s][n].args[i] \in Nat
      BY <3>2, <3>4
    <3> QED BY <3>2, <3>5
  <2>4. v \in DOMAIN born[d] /\ born[d][v].scope = Home(r, d)
    BY <2>1, <2>3 DEF IInv, WireInv, WireSlot, Wired, BornIn
  <2>5. Home(r, d) \in Scope
    <3>1. born[d][v] \in Instance
      BY <2>2, <2>4
    <3> QED BY <2>4, <3>1 DEF Instance
  <2>6. Home(r, d) \in Enclosing(r)
    BY <2>5, HomeEncloses, ScopesAssumption
  <2> QED BY <2>1, <2>3, <2>4, <2>6
<1> QED BY <1>1, Inductive, PTL

(* A caller that has returned holds no slot lock, also after a provider    *)
(* raised somewhere down its chain or its task was cancelled.              *)
THEOREM LocksReleased == Spec => []NoLockLeft
<1>1. IInv => NoLockLeft
  <2> SUFFICES ASSUME IInv, NEW t \in Task, goal[t] = Nobody, NEW s \in Slot
               PROVE  slotLock[s] # t
    BY DEF NoLockLeft
  <2>1. pc[t][s] = "idle"
    BY DEF IInv, ChainInv, Active
  <2> QED BY <2>1, CallersAssumption DEF IInv, LockInv, Critical
<1> QED BY <1>1, Inductive, PTL

(* Locks are taken along the order of the graph, each one below all those  *)
(* its caller holds, so callers of any resolvers never deadlock on them.   *)
THEOREM LocksOrdered == Spec => []LockOrder
<1>1. IInv => LockOrder
  <2> SUFFICES ASSUME IInv, NEW t \in Task, NEW s \in Slot, NEW d \in Slot,
                      slotLock[s] = t, pc[t][d] = "lock"
               PROVE  Rank[d] < Rank[s]
    BY DEF LockOrder, At
  <2>1. pc[t][s] \in Critical
    BY CallersAssumption DEF IInv, LockInv
  <2>2. Active(t, s) /\ Active(t, d) /\ ~Waits(t, d) /\ d # s
    BY <2>1 DEF Active, Waits, Critical
  <2> QED BY <2>2 DEF IInv, ChainInv
<1> QED BY <1>1, Inductive, PTL

-----------------------------------------------------------------------------
(* The refinement: a step of the callers publishes a guarded slot's        *)
(* instance in an empty cell, hands out what a cell holds, or is none of   *)
(* the promise's business.                                                 *)
Cell   == [r \in Scope |-> [s \in Guarded |-> cache[r][s]]]
Handed == [r \in Scope |-> [s \in Guarded |-> delivered[r][s]]]

LEMMA PromiseInit == Init => Promise!Init
BY GuardedSlot DEF Init, Promise!Init

\* What a frame that is done delivers.
LEMMA HandStep ==
    ASSUME IInv, NEW t \in Task, NEW s \in Slot, pc[t][s] = "done", Deliver(t, s), cache' = cache
    PROVE  [Promise!Next]_<<Cell, Handed>>
<1>0. PICK r \in Scope : r = self[t][s]
  BY DEF IInv, TypeInv, TypeOK
<1>1. /\ delivered \in [Scope -> [Slot -> SUBSET Nat]]
      /\ delivered' = [delivered EXCEPT ![r][s] = @ \cup {value[t][s]}] /\ Cell' = Cell
  BY <1>0 DEF IInv, TypeInv, TypeOK, Deliver, Cell
<1>2. CASE s \in Guarded
  <2>1. cache[r][s] # 0 /\ value[t][s] = cache[r][s]
    BY <1>0, <1>2 DEF IInv, OnceInv, OnceFrame
  <2>2. Cell[r][s] = cache[r][s]
    BY <1>2 DEF Cell
  <2>3. Handed' = [Handed EXCEPT ![r][s] = @ \cup {Cell[r][s]}]
    BY <1>1, <1>2, <2>1, <2>2, GuardedSlot DEF Handed
  <2>4. Promise!Hand(r, s)
    BY <1>1, <2>1, <2>2, <2>3 DEF Promise!Hand, Cell, Handed
  <2> QED BY <1>2, <2>4 DEF Promise!Next
<1>3. CASE s \notin Guarded
  <2>1. Handed' = Handed
    BY <1>1, <1>3, GuardedSlot DEF Handed
  <2> QED BY <1>1, <2>1
<1> QED BY <1>2, <1>3

LEMMA PromiseStep == IInv /\ [Next]_vars => [Promise!Next]_<<Cell, Handed>>
<1> SUFFICES ASSUME IInv, [Next]_vars  PROVE [Promise!Next]_<<Cell, Handed>>
  OBVIOUS
<1>1. ASSUME UNCHANGED <<cache, delivered>>  PROVE [Promise!Next]_<<Cell, Handed>>
  BY <1>1 DEF Cell, Handed
<1>2. ASSUME NEW t \in Task, NEW s \in Slot, Store(t, s)  PROVE [Promise!Next]_<<Cell, Handed>>
  <2>0. PICK r \in Scope : r = self[t][s]
    BY DEF IInv, TypeInv, TypeOK
  <2>1. /\ cache \in [Scope -> [Slot -> Nat]] /\ value[t][s] \in Nat
        /\ cache' = [cache EXCEPT ![r][s] = value[t][s]] /\ Handed' = Handed /\ pc[t][s] = "store"
    BY <1>2, <2>0 DEF IInv, TypeInv, TypeOK, Store, Handed, At
  <2>2. CASE s \in Guarded
    <3>1. cache[r][s] = 0 /\ value[t][s] # 0
      BY <2>0, <2>1, <2>2 DEF IInv, OnceInv, OnceFrame
    <3>2. Cell[r][s] = 0 /\ Cell'[r][s] = value[t][s] /\ Cell' = [Cell EXCEPT ![r][s] = value[t][s]]
      BY <2>1, <2>2, <3>1, GuardedSlot DEF Cell
    <3>3. Promise!Publish(r, s)
      BY <2>1, <3>1, <3>2 DEF Promise!Publish, Cell, Handed
    <3> QED BY <2>2, <3>3 DEF Promise!Next
  <2>3. CASE s \notin Guarded
    <3>1. Cell' = Cell
      BY <2>1, <2>3, GuardedSlot DEF Cell
    <3> QED BY <2>1, <3>1
  <2> QED BY <2>2, <2>3
<1>3. ASSUME NEW t \in Task, NEW s \in Slot, TakeArg(t, s)
      PROVE  [Promise!Next]_<<Cell, Handed>>
  <2>1. NextArg(t, s) \in Slot
    BY <1>3, NextArgType DEF TakeArg, At, IInv
  <2>2. pc[t][NextArg(t, s)] = "done" /\ Deliver(t, NextArg(t, s)) /\ cache' = cache
    BY <1>3 DEF TakeArg, At, shared
  <2> QED BY <2>1, <2>2, HandStep
<1>4. ASSUME NEW t \in Task, Return(t)  PROVE [Promise!Next]_<<Cell, Handed>>
  <2>1. goal[t][2] \in Slot /\ cache' = cache
    BY <1>4 DEF Return, shared, IInv, TypeInv, TypeOK
  <2>2. CASE pc[t][goal[t][2]] = "done"
    BY <1>4, <2>1, <2>2, HandStep DEF Return, At
  <2>3. CASE pc[t][goal[t][2]] # "done"
    BY <1>1, <1>4, <2>1, <2>3 DEF Return, At
  <2> QED BY <2>2, <2>3
<1>5. ASSUME NEW t \in Task, NEW s \in Slot,
             \/ Delegate(t, s) \/ CallRebound(t, s) \/ Look(t, s) \/ Acquire(t, s)
             \/ AwaitLock(t, s) \/ Relook(t, s) \/ CallArg(t, s) \/ ArgFailed(t, s)
             \/ AwaitProvider(t, s) \/ Build(t, s) \/ Rebind(t, s) \/ Release(t, s)
             \/ Raise(t, s) \/ CancelWait(t, s) \/ \E r \in Scope : Call(t, r, s)
      PROVE  UNCHANGED <<cache, delivered>>
  BY <1>5 DEF Delegate, CallRebound, Look, Acquire, AwaitLock, Relook, CallArg, ArgFailed,
              AwaitProvider, Build, Rebind, Release, Raise, CancelWait, Call, shared
<1>6. CASE UNCHANGED vars
  BY <1>1, <1>6 DEF vars, shared
<1> QED BY <1>1, <1>2, <1>3, <1>4, <1>5, <1>6 DEF Next, TaskStep, FrameStep, Fault, Done

(* The double-checked locking of compiler.py:3029-3053, the publication of *)
(* 3859-3902 and, where the planner leaves a synchronous slot without a    *)
(* lock, the event loop implement what ScopedInstances promises: one cell  *)
(* per scope and guarded slot, written once, and nobody is handed anything *)
(* else.                                                                   *)
THEOREM Implements == Spec => ImplementsPromise
<1>1. Init => Promise!Init
  BY PromiseInit
<1>2. IInv /\ [Next]_vars => [Promise!Next]_<<Cell, Handed>>
  BY PromiseStep
<1> QED
  BY <1>1, <1>2, Inductive, PTL DEF Spec, ImplementsPromise, Promise!Spec, Cell, Handed

(* The promise restricted to the slots that have a lock. *)
KeptCell   == [r \in Scope |-> [s \in LockedSlot |-> cache[r][s]]]
KeptHanded == [r \in Scope |-> [s \in LockedSlot |-> delivered[r][s]]]

LEMMA LockedGuarded == LockedSlot \subseteq Guarded
BY DEF LockedSlot, Guarded

(* One entry of a table of tables changes. *)
LEMMA KeepsEntries ==
    ASSUME NEW Rs, NEW Ss, NEW Ls \in SUBSET Ss, NEW F, F = [q \in Rs |-> [x \in Ss |-> F[q][x]]],
           NEW r \in Rs, NEW s \in Ss, NEW v, NEW G, G = [F EXCEPT ![r][s] = v],
           NEW q \in Rs, NEW x \in Ls
    PROVE  /\ q # r \/ x # s => G[q][x] = F[q][x]
           /\ q = r /\ x = s => G[q][x] = v
<1>1. CASE q = r
  <2>1. G[q] = [F[r] EXCEPT ![s] = v]
    BY <1>1
  <2>2. F[r] = [y \in Ss |-> F[r][y]]
    OBVIOUS
  <2> QED BY <1>1, <2>1, <2>2
<1>2. CASE q # r
  BY <1>2
<1> QED BY <1>1, <1>2

LEMMA EntryExcept ==
    ASSUME NEW Rs, NEW Ls, NEW F, NEW G,
           F = [q \in Rs |-> [x \in Ls |-> F[q][x]]], G = [q \in Rs |-> [x \in Ls |-> G[q][x]]],
           NEW r \in Rs, NEW s \in Ls, NEW v, G[r][s] = v,
           \A q \in Rs, x \in Ls : q # r \/ x # s => G[q][x] = F[q][x]
    PROVE  G = [F EXCEPT ![r][s] = v]
<1> DEFINE H == [F EXCEPT ![r][s] = v]
<1>1. \A q \in Rs, x \in Ls : H[q][x] = G[q][x]
  BY KeepsEntries
<1>2. H = [q \in Rs |-> [x \in Ls |-> H[q][x]]]
  <2>1. \A q \in Rs : H[q] = [x \in Ls |-> H[q][x]]
    <3> SUFFICES ASSUME NEW q \in Rs PROVE H[q] = [x \in Ls |-> H[q][x]]
      OBVIOUS
    <3>0. F[q] = [x \in Ls |-> F[q][x]]
      OBVIOUS
    <3>1. CASE q = r
      <4>1. H[q] = [F[q] EXCEPT ![s] = v]
        BY <3>1
      <4> QED BY <3>0, <4>1
    <3>2. CASE q # r
      <4>1. H[q] = F[q]
        BY <3>2
      <4> QED BY <3>0, <4>1
    <3> QED BY <3>1, <3>2
  <2>2. H = [q \in Rs |-> H[q]]
    OBVIOUS
  <2> HIDE DEF H
  <2>3. [q \in Rs |-> H[q]] = [q \in Rs |-> [x \in Ls |-> H[q][x]]]
    BY <2>1
  <2> QED BY <2>2, <2>3
<1> HIDE DEF H
<1>3. \A q \in Rs : [x \in Ls |-> H[q][x]] = [x \in Ls |-> G[q][x]]
  BY <1>1
<1>4. H = G
  BY <1>2, <1>3
<1> QED BY <1>4 DEF H

LEMMA KeptStep == [Promise!Next]_<<Cell, Handed>> => [Kept!Next]_<<KeptCell, KeptHanded>>
<1> SUFFICES ASSUME [Promise!Next]_<<Cell, Handed>> PROVE [Kept!Next]_<<KeptCell, KeptHanded>>
  OBVIOUS
<1>1. \A r \in Scope, s \in LockedSlot :
        /\ KeptCell[r][s] = Cell[r][s] /\ KeptHanded[r][s] = Handed[r][s]
        /\ KeptCell'[r][s] = Cell'[r][s] /\ KeptHanded'[r][s] = Handed'[r][s]
  BY LockedGuarded DEF KeptCell, KeptHanded, Cell, Handed
<1>2. CASE UNCHANGED <<Cell, Handed>>
  <2>1. KeptCell' = KeptCell /\ KeptHanded' = KeptHanded
    BY <1>1, <1>2 DEF KeptCell, KeptHanded
  <2> QED BY <2>1
<1>3. ASSUME NEW r \in Scope, NEW s \in Guarded, Promise!Publish(r, s)
      PROVE  [Kept!Next]_<<KeptCell, KeptHanded>>
  <2>1. /\ Cell[r][s] = 0 /\ Cell'[r][s] \in Nat \ {0}
        /\ Cell' = [Cell EXCEPT ![r][s] = Cell'[r][s]] /\ Handed' = Handed
    BY <1>3 DEF Promise!Publish, Cell, Handed
  <2>2. KeptHanded' = KeptHanded
    BY <1>1, <2>1 DEF KeptHanded
  <2>3. \A q \in Scope, x \in LockedSlot : q # r \/ x # s => KeptCell'[q][x] = KeptCell[q][x]
    <3>1. PICK v : v = Cell'[r][s] /\ Cell' = [Cell EXCEPT ![r][s] = v]
      BY <2>1
    <3>2. Cell = [q \in Scope |-> [x \in Guarded |-> Cell[q][x]]]
      BY DEF Cell
    <3>3. \A q \in Scope, x \in LockedSlot : q # r \/ x # s => Cell'[q][x] = Cell[q][x]
      BY <3>1, <3>2, LockedGuarded, KeepsEntries
    <3> QED BY <1>1, <3>3
  <2>4. CASE s \in LockedSlot
    <3>1. KeptCell' = [KeptCell EXCEPT ![r][s] = KeptCell'[r][s]]
      <4>1. /\ KeptCell = [q \in Scope |-> [x \in LockedSlot |-> KeptCell[q][x]]]
            /\ KeptCell' = [q \in Scope |-> [x \in LockedSlot |-> KeptCell'[q][x]]]
        BY DEF KeptCell
      <4>2. PICK v : v = KeptCell'[r][s]
        OBVIOUS
      <4>3. KeptCell' = [KeptCell EXCEPT ![r][s] = v]
        BY <2>3, <2>4, <4>1, <4>2, EntryExcept
      <4> QED BY <4>2, <4>3
    <3>2. KeptCell[r][s] = 0 /\ KeptCell'[r][s] \in Nat \ {0}
      BY <1>1, <2>1, <2>4
    <3>3. Kept!Publish(r, s)
      BY <2>2, <3>1, <3>2 DEF Kept!Publish, KeptCell, KeptHanded
    <3> QED BY <2>4, <3>3 DEF Kept!Next
  <2>5. CASE s \notin LockedSlot
    <3>1. KeptCell' = KeptCell
      BY <2>3, <2>5 DEF KeptCell
    <3> QED BY <2>2, <3>1
  <2> QED BY <2>4, <2>5
<1>4. ASSUME NEW r \in Scope, NEW s \in Guarded, Promise!Hand(r, s)
      PROVE  [Kept!Next]_<<KeptCell, KeptHanded>>
  <2>1. /\ Cell[r][s] # 0 /\ Cell' = Cell
        /\ Handed' = [Handed EXCEPT ![r][s] = @ \cup {Cell[r][s]}]
    BY <1>4 DEF Promise!Hand, Cell, Handed
  <2>2. KeptCell' = KeptCell
    BY <1>1, <2>1 DEF KeptCell
  <2>3. \A q \in Scope, x \in LockedSlot :
          /\ q # r \/ x # s => KeptHanded'[q][x] = KeptHanded[q][x]
          /\ q = r /\ x = s => KeptHanded'[q][x] = KeptHanded[q][x] \cup {KeptCell[q][x]}
    <3>1. PICK v : v = Handed[r][s] \cup {Cell[r][s]} /\ Handed' = [Handed EXCEPT ![r][s] = v]
      BY <2>1 DEF Handed
    <3>2. Handed = [q \in Scope |-> [x \in Guarded |-> Handed[q][x]]]
      BY DEF Handed
    <3>3. \A q \in Scope, x \in LockedSlot :
            /\ q # r \/ x # s => Handed'[q][x] = Handed[q][x]
            /\ q = r /\ x = s => Handed'[q][x] = v
      BY <3>1, <3>2, LockedGuarded, KeepsEntries
    <3> QED BY <1>1, <3>1, <3>3
  <2>4. CASE s \in LockedSlot
    <3>1. KeptHanded' = [KeptHanded EXCEPT ![r][s] = @ \cup {KeptCell[r][s]}]
      <4>1. /\ KeptHanded = [q \in Scope |-> [x \in LockedSlot |-> KeptHanded[q][x]]]
            /\ KeptHanded' = [q \in Scope |-> [x \in LockedSlot |-> KeptHanded'[q][x]]]
        BY DEF KeptHanded
      <4>2. PICK v : v = KeptHanded[r][s] \cup {KeptCell[r][s]}
        OBVIOUS
      <4>3. KeptHanded' = [KeptHanded EXCEPT ![r][s] = v]
        BY <2>3, <2>4, <4>1, <4>2, EntryExcept
      <4> QED BY <4>1, <4>2, <4>3
    <3>2. KeptCell[r][s] # 0
      BY <1>1, <2>1, <2>4
    <3>3. Kept!Hand(r, s)
      BY <2>2, <3>1, <3>2 DEF Kept!Hand, KeptCell, KeptHanded
    <3> QED BY <2>4, <3>3 DEF Kept!Next
  <2>5. CASE s \notin LockedSlot
    <3>1. KeptHanded' = KeptHanded
      BY <2>3, <2>5 DEF KeptHanded
    <3> QED BY <2>2, <3>1
  <2> QED BY <2>4, <2>5
<1> QED BY <1>2, <1>3, <1>4 DEF Promise!Next

(* The locks alone keep the promise for the slots that have one, whichever *)
(* threads and event loops the callers run on.                             *)
THEOREM LocksImplement == Spec => LocksKeepPromise
<1>1. Init => Kept!Init
  BY DEF Init, Kept!Init, LockedSlot
<1>2. IInv /\ [Next]_vars => [Kept!Next]_<<KeptCell, KeptHanded>>
  BY PromiseStep, KeptStep
<1> QED
  BY <1>1, <1>2, Inductive, PTL DEF Spec, LocksKeepPromise, Kept!Spec, KeptCell, KeptHanded
=============================================================================
