------------------------ MODULE CleanupStack_proofs ------------------------
(***************************************************************************)
(* Proofs about CleanupStack, for chains of any length, any number of      *)
(* resources and any number of exits: no cleanup runs twice, none is       *)
(* skipped, they run in order, and the first error is what is raised; and  *)
(* what is left of this when an interruption cuts an exit short.           *)
(***************************************************************************)
EXTENDS CleanupStack, TLAPS

-----------------------------------------------------------------------------
(* Sequences.                                                              *)
LEMMA Appended ==
    ASSUME NEW S, NEW s \in Seq(S), NEW e \in S
    PROVE  /\ Append(s, e) \in Seq(S) /\ Len(Append(s, e)) = Len(s) + 1
           /\ DOMAIN Append(s, e) = 1..(Len(s) + 1) /\ Append(s, e)[Len(s) + 1] = e
           /\ \A k \in 1..Len(s) : Append(s, e)[k] = s[k]
           /\ Len(s) \in Nat /\ DOMAIN s = 1..Len(s)
OBVIOUS

LEMMA Popped ==
    ASSUME NEW S, NEW s \in Seq(S), s # <<>>
    PROVE  LET t == SubSeq(s, 1, Len(s) - 1)
           IN  /\ t \in Seq(S) /\ Len(t) = Len(s) - 1 /\ DOMAIN t = 1..(Len(s) - 1)
               /\ \A k \in 1..(Len(s) - 1) : t[k] = s[k]
               /\ Len(s) \in Nat \ {0} /\ DOMAIN s = 1..Len(s) /\ s[Len(s)] \in S
<1>1. Len(s) \in Nat \ {0} /\ DOMAIN s = 1..Len(s)
  OBVIOUS
<1>2. SubSeq(s, 1, Len(s) - 1) = [k \in 1..(Len(s) - 1) |-> s[k]]
  BY <1>1
<1>3. \A k \in 1..Len(s) : s[k] \in S
  BY <1>1
<1>4. /\ [k \in 1..(Len(s) - 1) |-> s[k]] \in Seq(S)
      /\ Len([k \in 1..(Len(s) - 1) |-> s[k]]) = Len(s) - 1
  BY <1>1, <1>3
<1> QED BY <1>1, <1>2, <1>3, <1>4

LEMMA MoreIn ==
    ASSUME NEW S, NEW T, S \subseteq T
    PROVE  Seq(S) \subseteq Seq(T)
OBVIOUS

-----------------------------------------------------------------------------
(* How an exit begins: with the cleanup in the field, with the only one of *)
(* the list, or with the loop over all that is pending.                    *)
Pending(i) == callbacks[i] \o (IF single[i] = 0 THEN <<>> ELSE <<single[i]>>)

LEMMA NoZero == TypeOK => Resource = 1..Len(registered) /\ Len(registered) \in Nat /\ 0 \notin Resource
<1>1. ASSUME TypeOK  PROVE  DOMAIN registered = 1..Len(registered) /\ Len(registered) \in Nat
  BY <1>1 DEF TypeOK
<1> QED BY <1>1 DEF Resource

LEMMA PendingIs ==
    ASSUME TypeOK, NEW i \in Level
    PROVE  /\ Pending(i) \in Seq(Resource) /\ DOMAIN Pending(i) = 1..Len(Pending(i))
           /\ single[i] = 0 => Len(Pending(i)) = Len(callbacks[i])
           /\ single[i] # 0 => Len(Pending(i)) = Len(callbacks[i]) + 1
           /\ \A k \in 1..Len(callbacks[i]) : Pending(i)[k] = callbacks[i][k]
           /\ single[i] # 0 => Pending(i)[Len(callbacks[i]) + 1] = single[i]
           /\ Len(callbacks[i]) \in Nat /\ DOMAIN callbacks[i] = 1..Len(callbacks[i])
<1>1. callbacks[i] \in Seq(Resource) /\ single[i] \in {0} \cup Resource
  BY DEF TypeOK
<1>2. CASE single[i] = 0
  <2>1. Pending(i) = callbacks[i]
    BY <1>1, <1>2 DEF Pending
  <2> QED BY <1>1, <1>2, <2>1
<1>3. CASE single[i] # 0
  <2>1. Pending(i) = callbacks[i] \o <<single[i]>> /\ <<single[i]>> \in Seq(Resource)
    BY <1>1, <1>3 DEF Pending
  <2> QED BY <1>1, <1>3, <2>1
<1> QED BY <1>2, <1>3

BeginsDirect(i) ==
    /\ single[i] # 0 /\ callbacks[i] = <<>>
    /\ stage' = [stage EXCEPT ![i] = "single"]
    /\ single' = single /\ callbacks' = callbacks
    /\ running' = single[i] /\ cleaned' = Append(cleaned, single[i])
BeginsAlone(i) ==
    /\ single[i] = 0 /\ Len(callbacks[i]) = 1
    /\ stage' = [stage EXCEPT ![i] = "callback"]
    /\ single' = [single EXCEPT ![i] = 0] /\ callbacks' = [callbacks EXCEPT ![i] = <<>>]
    /\ running' = callbacks[i][1] /\ cleaned' = Append(cleaned, callbacks[i][1])
BeginsLoop(i) ==
    /\ stage' = [stage EXCEPT ![i] = "loop"]
    /\ single' = [single EXCEPT ![i] = 0] /\ callbacks' = [callbacks EXCEPT ![i] = Pending(i)]
    /\ running' = 0 /\ cleaned' = cleaned

LEMMA Begins ==
    ASSUME TypeOK, NEW i \in Level, NEW error \in BOOLEAN, BeginExit(i, error)
    PROVE  /\ ((BeginsDirect(i) \/ BeginsAlone(i)) /\ ~error /\ ~HasOwned(i)) \/ BeginsLoop(i)
           /\ keeper' = keeper /\ registered' = registered
<1> DEFINE alone == ~error /\ ~HasOwned(i) /\ Len(Pending(i)) = 1 /\ keeper # "wrapper"
           direct == alone /\ single[i] # 0
<1>1. /\ stage' = [stage EXCEPT ![i] = IF direct THEN "single" ELSE IF alone THEN "callback" ELSE "loop"]
      /\ single' = IF direct THEN single ELSE [single EXCEPT ![i] = 0]
      /\ callbacks' = [callbacks EXCEPT ![i] = IF alone THEN <<>> ELSE Pending(i)]
      /\ Execute(IF alone THEN Pending(i)[1] ELSE 0)
      /\ keeper' = keeper /\ registered' = registered
  BY DEF BeginExit, Pending
<1>2. callbacks[i] \in Seq(Resource) /\ single[i] \in {0} \cup Resource
  BY DEF TypeOK
<1> DEFINE n == Len(callbacks[i])
<1>p. /\ single[i] = 0 => Len(Pending(i)) = n
      /\ single[i] # 0 => Len(Pending(i)) = n + 1
      /\ n \in Nat
      /\ \A k \in 1..n : Pending(i)[k] = callbacks[i][k]
      /\ single[i] # 0 => Pending(i)[n + 1] = single[i]
  BY PendingIs
<1>3. CASE direct
  <2>0. Len(Pending(i)) = 1 /\ single[i] # 0
    BY <1>3
  <2> HIDE DEF direct, alone
  <2>1. Len(callbacks[i]) = 0 /\ Pending(i)[1] = single[i]
    <3> HIDE DEF n
    <3>1. n = 0
      BY <1>p, <2>0
    <3> QED BY <1>p, <2>0, <3>1 DEF n
  <2>2. callbacks[i] = <<>>
    BY <1>2, <2>1
  <2>3. [callbacks EXCEPT ![i] = <<>>] = callbacks
    BY <2>2 DEF TypeOK
  <2> QED BY <1>1, <1>3, <2>1, <2>2, <2>3, NoZero DEF BeginsDirect, Execute, direct, alone
<1>4. CASE alone /\ ~direct
  <2>1. Len(callbacks[i]) = 1 /\ Pending(i)[1] = callbacks[i][1] /\ callbacks[i][1] # 0
    <3>0. Len(Pending(i)) = 1 /\ single[i] = 0
      BY <1>4
    <3> HIDE DEF direct, alone
    <3>1. Len(callbacks[i]) = 1 /\ Pending(i)[1] = callbacks[i][1]
      <4> HIDE DEF n
      <4>1. n = 1
        BY <1>p, <3>0
      <4> QED BY <1>p, <4>1 DEF n
    <3>2. callbacks[i][1] \in Resource
      BY <1>2, <3>1
    <3> QED BY <3>1, <3>2, NoZero
  <2> QED BY <1>1, <1>4, <2>1 DEF BeginsAlone, Execute, direct, alone
<1>5. CASE ~alone
  BY <1>1, <1>5 DEF BeginsLoop, Execute
<1> QED BY <1>1, <1>3, <1>4, <1>5
-----------------------------------------------------------------------------
StageName == {"open", "single", "callback", "loop", "owned", "closed", "cut"}

LEMMA BeginTyped ==
    ASSUME TypeOK, NEW i \in Level, NEW error \in BOOLEAN, BeginExit(i, error)
    PROVE  /\ Resource' = Resource /\ keeper' \in Keepers
           /\ single' \in [Level -> {0} \cup Resource] /\ callbacks' \in [Level -> Seq(Resource)]
           /\ stage' \in [Level -> StageName]
           /\ running' \in {0} \cup Resource /\ cleaned' \in Seq(Resource)
           /\ registered' = registered
<1>1. /\ BeginsDirect(i) \/ BeginsAlone(i) \/ BeginsLoop(i)
      /\ keeper' = keeper /\ registered' = registered
  BY Begins
<1>2. Resource' = Resource /\ keeper' \in Keepers
  BY <1>1 DEF Resource, TypeOK
<1>3. /\ single \in [Level -> {0} \cup Resource] /\ callbacks \in [Level -> Seq(Resource)]
      /\ stage \in [Level -> StageName] /\ cleaned \in Seq(Resource)
      /\ Pending(i) \in Seq(Resource)
  BY PendingIs DEF TypeOK, StageName
<1>4. CASE BeginsDirect(i)
  <2>1. single[i] \in Resource
    BY <1>3, <1>4 DEF BeginsDirect
  <2> QED BY <1>1, <1>2, <1>3, <1>4, <2>1, Appended DEF BeginsDirect, StageName
<1>5. CASE BeginsAlone(i)
  <2>1. callbacks[i][1] \in Resource
    <3>1. callbacks[i] \in Seq(Resource) /\ Len(callbacks[i]) = 1
      BY <1>3, <1>5 DEF BeginsAlone
    <3> QED BY <3>1
  <2>2. <<>> \in Seq(Resource)
    OBVIOUS
  <2> QED BY <1>1, <1>2, <1>3, <1>5, <2>1, <2>2, Appended DEF BeginsAlone, StageName
<1>6. CASE BeginsLoop(i)
  BY <1>1, <1>2, <1>3, <1>6 DEF BeginsLoop, StageName
<1> QED BY <1>1, <1>4, <1>5, <1>6

(* The exit of a resolver ends, and the exit that called it goes on, or is *)
(* cut short with it.                                                      *)
GoesOn(i) == Chained(i) /\ keeper = "wrapped" /\ stage[i] # "owned"

Ends(i, e) ==
    /\ stage' = [stage EXCEPT ![i] = IF GoesOn(i) THEN "owned" ELSE "closed"]
    /\ raised' = IF GoesOn(i) THEN raised ELSE [raised EXCEPT ![i] = e]
    /\ cleanupError' = IF i = Depth /\ ~GoesOn(i) THEN cleanupError
                       ELSE [cleanupError EXCEPT ![Depth] = FirstError(Depth, e)]
    /\ UNCHANGED <<left, cut>>

LEMMA EndIs ==
    ASSUME NEW i, NEW e, EndExit(i, e)
    PROVE  \/ Ends(i, e)
           \/ CutShort(i, e, "closed") /\ e \in interrupts' /\ (i = Depth => GoesOn(i))
BY DEF EndExit, GoesOn, Ends

EndTypes ==
    /\ stage' \in [Level -> StageName]
    /\ raised' \in [Level -> {0} \cup Resource]
    /\ cleanupError' \in [Level -> {0} \cup Resource]
    /\ left' \in Seq(1..(Depth - 1)) /\ cut' \in 0..closes

LEMMA CutTyped ==
    ASSUME TypeOK, NEW i \in Level, NEW e \in {0} \cup Resource, NEW end \in StageName,
           CutShort(i, e, end)
    PROVE  EndTypes
<1>1. stage' \in [Level -> StageName] /\ raised' \in [Level -> {0} \cup Resource]
  BY DEF CutShort, TypeOK, StageName
<1>2. cleanupError' \in [Level -> {0} \cup Resource] /\ cut' \in 0..closes
  BY DEF CutShort, TypeOK
<1>3. left' \in Seq(1..(Depth - 1))
  <2>1. [k \in 1..next |-> k] \in Seq(1..(Depth - 1))
    <3>1. next \in Nat /\ \A k \in 1..next : k \in 1..(Depth - 1)
      BY BoundsAssumption DEF TypeOK
    <3> QED BY <3>1
  <2>2. [k \in 1..next |-> k] \o left \in Seq(1..(Depth - 1)) /\ <<>> \in Seq(1..(Depth - 1))
    BY <2>1 DEF TypeOK
  <2> QED BY <2>2 DEF CutShort
<1> QED BY <1>1, <1>2, <1>3 DEF EndTypes

LEMMA EndTyped ==
    ASSUME TypeOK, NEW i \in Level, NEW e \in {0} \cup Resource, EndExit(i, e)
    PROVE  EndTypes
<1>1. FirstError(Depth, e) \in {0} \cup Resource
  BY BoundsAssumption DEF FirstError, TypeOK, Level
<1>2. CASE Ends(i, e)
  <2>1. stage' \in [Level -> StageName]
    BY <1>2 DEF Ends, TypeOK, StageName
  <2>2. raised' \in [Level -> {0} \cup Resource]
    BY <1>2 DEF Ends, TypeOK
  <2>3. cleanupError' \in [Level -> {0} \cup Resource]
    BY <1>1, <1>2 DEF Ends, TypeOK
  <2>4. left' \in Seq(1..(Depth - 1)) /\ cut' \in 0..closes
    BY <1>2 DEF Ends, TypeOK
  <2> QED BY <2>1, <2>2, <2>3, <2>4 DEF EndTypes
<1>3. CASE CutShort(i, e, "closed")
  BY <1>3, CutTyped DEF StageName
<1> QED BY <1>2, <1>3, EndIs

(* A registration: the new resource is the last one.                       *)
Registered(i, p) ==
    [level |-> i, path |-> p, exits |-> closes,
     inField |-> p = "field" /\ single[i] = 0 /\ callbacks[i] = <<>>]

LEMMA KeepIs ==
    ASSUME TypeOK, NEW i \in Level, NEW p \in Paths, Keep(i, p)
    PROVE  LET n == Len(registered) + 1
           IN  /\ registered' = Append(registered, Registered(i, p))
               /\ \/ /\ single[i] = 0 /\ callbacks[i] = <<>>
                     /\ single' = [single EXCEPT ![i] = n] /\ callbacks' = callbacks
                  \/ /\ callbacks' = [callbacks EXCEPT ![i] = Append(@, n)] /\ single' = single
               /\ UNCHANGED <<keeper, exit, cleaned, failures, cut>>
               /\ n \in Nat \ {0} /\ n \notin Resource /\ Resource' = Resource \cup {n}
               /\ \A m \in Resource : registered'[m] = registered[m]
               /\ registered'[n] = Registered(i, p)
               /\ registered' \in Seq([level : Level, path : Path, exits : Nat, inField : BOOLEAN])
<1> DEFINE n == Len(registered) + 1
           S == [level : Level, path : Path, exits : Nat, inField : BOOLEAN]
<1>1. registered' = Append(registered, Registered(i, p))
  BY DEF Keep, Registered
<1>2. Registered(i, p) \in S /\ registered \in Seq(S)
  <2>1. p \in Path /\ closes \in Nat
    BY BoundsAssumption DEF TypeOK
  <2> QED BY <2>1 DEF Registered, TypeOK
<1>3. /\ n \in Nat \ {0} /\ n \notin Resource /\ Resource' = Resource \cup {n}
      /\ \A m \in Resource : registered'[m] = registered[m]
      /\ registered'[n] = Registered(i, p) /\ registered' \in Seq(S)
  <2> HIDE DEF S
  <2>1. /\ Len(registered) \in Nat /\ DOMAIN registered = 1..Len(registered)
        /\ DOMAIN registered' = 1..n /\ registered'[n] = Registered(i, p) /\ registered' \in Seq(S)
        /\ \A m \in 1..Len(registered) : registered'[m] = registered[m]
    BY <1>1, <1>2, Appended
  <2> QED BY <2>1 DEF Resource
<1>4. \/ /\ single[i] = 0 /\ callbacks[i] = <<>>
         /\ single' = [single EXCEPT ![i] = n] /\ callbacks' = callbacks
      \/ /\ callbacks' = [callbacks EXCEPT ![i] = Append(@, n)] /\ single' = single
  BY DEF Keep
<1>5. UNCHANGED <<keeper, exit, cleaned, failures, cut>>
  BY DEF Keep
<1> HIDE DEF n, S
<1> QED BY <1>1, <1>3, <1>4, <1>5 DEF n, S

LEMMA KeepTyped ==
    ASSUME TypeOK, NEW i \in Level, NEW p \in Paths, Keep(i, p)
    PROVE  TypeOK'
<1> DEFINE n == Len(registered) + 1
<1>1. /\ \/ /\ single' = [single EXCEPT ![i] = n] /\ callbacks' = callbacks
         \/ /\ callbacks' = [callbacks EXCEPT ![i] = Append(@, n)] /\ single' = single
      /\ UNCHANGED <<keeper, exit, cleaned, failures, cut>>
      /\ n # 0 /\ Resource' = Resource \cup {n}
      /\ registered' \in Seq([level : Level, path : Path, exits : Nat, inField : BOOLEAN])
  BY KeepIs
<1> HIDE DEF n
<1>2. Resource \subseteq Resource' /\ Seq(Resource) \subseteq Seq(Resource') /\ n \in Resource'
  BY <1>1, MoreIn
<1>3. single' \in [Level -> {0} \cup Resource'] /\ callbacks' \in [Level -> Seq(Resource')]
  <2>1. single \in [Level -> {0} \cup Resource'] /\ callbacks \in [Level -> Seq(Resource')]
    BY <1>2 DEF TypeOK
  <2>2. Append(callbacks[i], n) \in Seq(Resource')
    BY <1>2, <2>1, Appended
  <2> QED BY <1>1, <1>2, <2>1, <2>2
<1>4. /\ cleanupError \in [Level -> {0} \cup Resource'] /\ raised \in [Level -> {0} \cup Resource']
      /\ running \in {0} \cup Resource' /\ cleaned \in Seq(Resource') /\ failures \in Seq(Resource')
  BY <1>2 DEF TypeOK
<1>5. UNCHANGED <<keeper, stage, running, next, left, isAsync, hasError, cleanupError, raised, closes,
                  interrupts, cleaned, failures, cut>>
  BY <1>1 DEF exit
<1>6. /\ stage \in [Level -> StageName] /\ next \in 0..(Depth - 1) /\ left \in Seq(1..(Depth - 1))
      /\ interrupts \subseteq Resource' /\ cut \in 0..closes
  BY <1>2 DEF TypeOK, StageName
<1> QED BY <1>1, <1>3, <1>4, <1>5, <1>6 DEF TypeOK, StageName

(* A cleanup ends: in a loop that goes on, or that is cut short, or with   *)
(* the exit that executed it directly.                                     *)
Caught(i, e) ==
    /\ stage[i] = "loop" /\ cleanupError' = [cleanupError EXCEPT ![i] = FirstError(i, e)]
    /\ UNCHANGED <<stage, raised, left, cut>>
CleanupIs(i, outcome, e) ==
    /\ running # 0
    /\ failures' = IF e = 0 THEN failures ELSE Append(failures, e)
    /\ interrupts' = IF outcome = "interrupted" THEN interrupts \cup {e} ELSE interrupts
    /\ \/ Caught(i, e)
       \/ stage[i] = "loop" /\ outcome = "interrupted" /\ keeper = "wrapper" /\ CutShort(i, e, "cut")
       \/ stage[i] \in {"single", "callback"} /\ EndExit(i, e)
    /\ single' = IF stage[i] = "single" THEN [single EXCEPT ![i] = 0] ELSE single
    /\ running' = 0
    /\ UNCHANGED <<keeper, callbacks, next, isAsync, hasError, closes, registered, cleaned>>

LEMMA CleanupThen ==
    ASSUME TypeOK, NEW i \in Level, NEW outcome \in Outcome, CleanupEnds(i, outcome),
           NEW e, e = IF outcome = "returns" THEN 0 ELSE running
    PROVE  /\ CleanupIs(i, outcome, e)
           /\ e \in {0} \cup Resource /\ (outcome = "interrupted" => e # 0)
<1>1. e \in {0} \cup Resource /\ (outcome = "interrupted" => e # 0)
  BY DEF TypeOK, CleanupEnds
<1>2. CleanupIs(i, outcome, e)
  <2>1. /\ running # 0
        /\ failures' = IF e = 0 THEN failures ELSE Append(failures, e)
        /\ interrupts' = IF outcome = "interrupted" THEN interrupts \cup {e} ELSE interrupts
        /\ single' = IF stage[i] = "single" THEN [single EXCEPT ![i] = 0] ELSE single
        /\ running' = 0
        /\ UNCHANGED <<keeper, callbacks, next, isAsync, hasError, closes, registered, cleaned>>
    BY DEF CleanupEnds
  <2>2. \/ Caught(i, e)
        \/ stage[i] = "loop" /\ outcome = "interrupted" /\ keeper = "wrapper" /\ CutShort(i, e, "cut")
        \/ stage[i] \in {"single", "callback"} /\ EndExit(i, e)
    BY DEF CleanupEnds, Caught
  <2> QED BY <2>1, <2>2 DEF CleanupIs
<1> QED BY <1>1, <1>2

(* The owner closes the resolver i that is next, or that was left.         *)
ClosesAt(i) ==
    /\ OwnedTurn /\ i \in 1..(Depth - 1) /\ BeginExit(i, hasError)
    /\ cleanupError' = [cleanupError EXCEPT ![i] = 0]
    /\ UNCHANGED <<isAsync, hasError, raised, closes, interrupts, failures, cut>>
    /\ next' \in 0..(Depth - 1) /\ left' \in Seq(1..(Depth - 1))
    /\ \/ i = next /\ next' = next - 1 /\ left = <<>> /\ left' = <<>>
       \/ left # <<>> /\ next' = next

LEMMA ClosesIs ==
    ASSUME TypeOK, CloseOwned \/ CloseLeft
    PROVE  \E i \in Level : ClosesAt(i)
<1> USE BoundsAssumption
<1>0. next \in 0..(Depth - 1) /\ left \in Seq(1..(Depth - 1))
  BY DEF TypeOK
<1>1. CASE CloseOwned
  <2>1. OwnedTurn /\ left = <<>> /\ next # 0 /\ next' = next - 1 /\ CloseResolver(next) /\ left' = left
    BY <1>1 DEF CloseOwned
  <2>2. next \in 1..(Depth - 1) /\ next \in Level /\ next' \in 0..(Depth - 1)
    BY <1>0, <2>1 DEF Level
  <2> QED BY <1>0, <2>1, <2>2 DEF CloseResolver, ClosesAt
<1>2. CASE CloseLeft
  <2>1. PICK i : i = left[Len(left)]
    OBVIOUS
  <2>2. OwnedTurn /\ left # <<>> /\ next' = next /\ CloseResolver(i)
        /\ left' = SubSeq(left, 1, Len(left) - 1)
    BY <1>2, <2>1 DEF CloseLeft
  <2>3. i \in 1..(Depth - 1) /\ left' \in Seq(1..(Depth - 1))
    BY <1>0, <2>1, <2>2, Popped
  <2>4. i \in Level
    BY <2>3 DEF Level
  <2> QED BY <1>0, <2>2, <2>3, <2>4 DEF CloseResolver, ClosesAt
<1> QED BY <1>1, <1>2

LEMMA TypeInitial == Init => TypeOK
<1> SUFFICES ASSUME Init  PROVE TypeOK
  OBVIOUS
<1>1. None \in [Level -> {0} \cup Resource] /\ <<>> \in Seq(Resource)
  BY DEF None
<1>2. callbacks \in [Level -> Seq(Resource)] /\ cleaned \in Seq(Resource) /\ failures \in Seq(Resource)
  BY <1>1 DEF Init
<1>3. stage \in [Level -> {"open", "single", "callback", "loop", "owned", "closed", "cut"}]
  BY DEF Init
<1>4. 0 \in 0..(Depth - 1) /\ left \in Seq(1..(Depth - 1)) /\ cut \in 0..closes
  BY BoundsAssumption DEF Init
<1>5. registered \in Seq([level : Level, path : Path, exits : Nat, inField : BOOLEAN])
  BY DEF Init
<1> QED BY <1>1, <1>2, <1>3, <1>4, <1>5 DEF Init, TypeOK

LEMMA TypeStep ==
    ASSUME TypeOK, [Next]_vars
    PROVE  TypeOK'
<1> USE BoundsAssumption
<1>0. /\ single \in [Level -> {0} \cup Resource] /\ callbacks \in [Level -> Seq(Resource)]
      /\ stage \in [Level -> StageName] /\ running \in {0} \cup Resource /\ next \in 0..(Depth - 1)
      /\ cleanupError \in [Level -> {0} \cup Resource] /\ raised \in [Level -> {0} \cup Resource]
      /\ cleaned \in Seq(Resource) /\ failures \in Seq(Resource) /\ closes \in Nat
      /\ left \in Seq(1..(Depth - 1)) /\ interrupts \subseteq Resource /\ cut \in 0..closes
  BY DEF TypeOK, StageName
<1>1. ASSUME NEW i \in Level, NEW p \in Paths, Register(i, p) \/ RegisterLate(i, p)
      PROVE  TypeOK'
  BY <1>1, KeepTyped DEF Register, RegisterLate
<1>2. ASSUME NEW async \in BOOLEAN, NEW error \in BOOLEAN, Exit(async, error)
      PROVE  TypeOK'
  <2>1. Depth \in Level /\ Depth - 1 \in 0..(Depth - 1)
    BY DEF Level
  <2>2. BeginExit(Depth, error)
    BY <1>2 DEF Exit
  <2>3. /\ closes' \in Nat /\ isAsync' = async /\ hasError' = error /\ next' = Depth - 1
        /\ cleanupError' = None /\ raised' = None /\ failures' = <<>> /\ interrupts' = {}
        /\ left' = left /\ cut' \in 0..closes'
    BY <1>0, <1>2 DEF Exit
  <2>4. None \in [Level -> {0} \cup Resource] /\ <<>> \in Seq(Resource)
    BY DEF None
  <2> QED BY <1>0, <2>1, <2>2, <2>3, <2>4, BeginTyped DEF TypeOK, StageName
<1>3. ASSUME NEW i \in Level, PopCallback(i)
      PROVE  TypeOK'
  <2>1. callbacks[i] \in Seq(Resource) /\ callbacks[i] # <<>>
    BY <1>0, <1>3 DEF PopCallback
  <2> DEFINE m == callbacks[i][Len(callbacks[i])]
             rest == SubSeq(callbacks[i], 1, Len(callbacks[i]) - 1)
  <2>2. m \in Resource /\ rest \in Seq(Resource)
    BY <2>1, Popped
  <2>3. /\ callbacks' = [callbacks EXCEPT ![i] = rest]
        /\ Execute(m)
        /\ UNCHANGED <<keeper, single, stage, next, left, isAsync, hasError, cleanupError, raised,
                       closes, interrupts, registered, failures, cut>>
    BY <1>3 DEF PopCallback
  <2> HIDE DEF m, rest
  <2>4. running' \in Resource /\ cleaned' \in Seq(Resource)
    BY <1>0, <2>2, <2>3, Appended DEF Execute
  <2> QED BY <1>0, <2>2, <2>3, <2>4 DEF TypeOK, Resource
<1>4. ASSUME NEW i \in Level, LoopEnds(i)
      PROVE  TypeOK'
  <2>1. UNCHANGED <<keeper, fields, running, next, isAsync, hasError, closes, interrupts,
                    registered, cleaned, failures>>
    BY <1>4 DEF LoopEnds
  <2>2. EndTypes
    <3>1. CASE HasOwned(i)
      BY <1>0, <1>4, <3>1 DEF LoopEnds, StageName, EndTypes
    <3>2. CASE ~HasOwned(i)
      BY <1>0, <1>4, <3>2, EndTyped DEF LoopEnds
    <3> QED BY <3>1, <3>2
  <2> QED BY <2>1, <2>2 DEF TypeOK, Resource, fields, StageName, EndTypes
<1>5. ASSUME NEW i \in Level, NEW outcome \in Outcome, CleanupEnds(i, outcome)
      PROVE  TypeOK'
  <2>1. PICK e : e = IF outcome = "returns" THEN 0 ELSE running
    OBVIOUS
  <2>2. CleanupIs(i, outcome, e) /\ e \in {0} \cup Resource
    BY <1>5, <2>1, CleanupThen
  <2>3. failures' \in Seq(Resource) /\ interrupts' \subseteq Resource
    <3>1. outcome = "interrupted" => e \in Resource
      BY <1>0, <2>1, <2>2 DEF CleanupIs
    <3> QED BY <1>0, <2>2, <3>1, Appended DEF CleanupIs
  <2>4. EndTypes
    <3>1. CASE Caught(i, e)
      BY <1>0, <2>2, <3>1 DEF Caught, FirstError, EndTypes
    <3>2. CASE CutShort(i, e, "cut")
      BY <2>2, <3>2, CutTyped DEF StageName
    <3>3. CASE EndExit(i, e)
      BY <2>2, <3>3, EndTyped
    <3> QED BY <2>2, <3>1, <3>2, <3>3 DEF CleanupIs
  <2>5. single' \in [Level -> {0} \cup Resource]
    BY <1>0, <2>2 DEF CleanupIs
  <2>6. UNCHANGED <<keeper, callbacks, next, isAsync, hasError, closes, registered, cleaned>> /\ running' = 0
    BY <2>2 DEF CleanupIs
  <2> QED BY <2>3, <2>4, <2>5, <2>6 DEF TypeOK, Resource, StageName, EndTypes
<1>6. CASE CloseOwned \/ CloseLeft
  <2>1. PICK i \in Level : ClosesAt(i)
    BY <1>6, ClosesIs
  <2>2. BeginExit(i, hasError) /\ hasError \in BOOLEAN
    BY <2>1 DEF ClosesAt, TypeOK
  <2>3. /\ cleanupError' \in [Level -> {0} \cup Resource]
        /\ next' \in 0..(Depth - 1) /\ left' \in Seq(1..(Depth - 1))
    BY <1>0, <2>1 DEF ClosesAt
  <2>4. UNCHANGED <<isAsync, hasError, raised, closes, interrupts, failures, cut>>
    BY <2>1 DEF ClosesAt
  <2> QED BY <1>0, <2>1, <2>2, <2>3, <2>4, BeginTyped DEF TypeOK, StageName
<1>7. CASE LoopGoesOn
  BY <1>7 DEF LoopGoesOn, TypeOK, Resource, fields, history
<1>8. CASE OwnedEnd
  <2>1. UNCHANGED <<keeper, fields, running, next, isAsync, hasError, closes, interrupts,
                    registered, cleaned, failures>>
    BY <1>8 DEF OwnedEnd
  <2>2. Depth \in Level /\ cleanupError[Depth] \in {0} \cup Resource /\ EndExit(Depth, cleanupError[Depth])
    BY <1>0, <1>8 DEF OwnedEnd, Level
  <2>3. EndTypes
    BY <2>2, EndTyped
  <2> QED BY <2>1, <2>3 DEF TypeOK, Resource, fields, StageName, EndTypes
<1>9. CASE UNCHANGED vars
  BY <1>9 DEF vars, fields, exit, history, TypeOK, Resource
<1> QED BY <1>1, <1>2, <1>3, <1>4, <1>5, <1>6, <1>7, <1>8, <1>9 DEF Next, Done

(* The fields a scope resolver keeps cleanups in, and the locals of its    *)
(* exit (compiler.py, open_generics.py), always have the types they are    *)
(* used with.                                                              *)
THEOREM TypeCorrect == Spec => []TypeOK
BY TypeInitial, TypeStep, PTL DEF Spec
-----------------------------------------------------------------------------
(* Where a resource is: in the list of its resolver, in its field, or      *)
(* taken up.  In the stage "single" the field still holds the cleanup that *)
(* is being executed.                                                      *)
InList(i, n) == \E k \in DOMAIN callbacks[i] : callbacks[i][k] = n
InField(i, n) == single[i] = n /\ stage[i] # "single"

HomeInv ==
    \A i \in Level, n \in Resource : InList(i, n) \/ single[i] = n => registered[n].level = i
PlacedAt(i, n) ==
    /\ TakenUp(n) \/ InList(i, n) \/ InField(i, n)
    /\ ~(TakenUp(n) /\ InList(i, n)) /\ ~(TakenUp(n) /\ InField(i, n))
    /\ ~(InList(i, n) /\ InField(i, n))
PlaceInv == \A n \in Resource : PlacedAt(registered[n].level, n)
ListsInv ==
    \A i \in Level : \A j, k \in DOMAIN callbacks[i] : callbacks[i][j] = callbacks[i][k] => j = k
SingleInv == \A i \in Level : stage[i] = "single" => single[i] # 0
Placed == HomeInv /\ PlaceInv /\ ListsInv /\ CleanedOnce /\ SingleInv

(* Once the exit of a resolver has emptied its list, only what is provided *)
(* late comes into it; and at the end all resolvers of the chain have      *)
(* closed.                                                                 *)
Emptied == {"single", "callback", "owned", "closed"}
LateInv ==
    \A i \in Level, n \in Resource :
        /\ stage[i] \in Emptied /\ InList(i, n) => Late(n)
        /\ stage[i] \in Emptied \cup {"loop"} /\ InField(i, n) => Late(n)
Busy == {"single", "callback", "loop"}
Idle == {"open", "closed", "cut"}
Above == 1..(Depth - 1)
ChainInv ==
    /\ closes = 0 => running = 0 /\ \A i \in Level : stage[i] = "open"
    /\ closes # 0 => stage[Depth] # "open"
    /\ stage[Depth] \in {"single", "callback"} => Depth = 1 \/ keeper = "wrapped"
    /\ stage[Depth] # "owned" => \A i \in Above : stage[i] \in Idle
    /\ \A i \in Above : stage[i] \notin Idle => stage[i] \in Busy
    /\ \A i, j \in Above : stage[i] \notin Idle /\ stage[j] \notin Idle => i = j
    /\ stage[Depth] \in Busy \cup {"owned"} =>
           \A i \in Above : next < i => stage[i] \in Busy \cup {"closed"}
    /\ Closed /\ ~WasCut => \A i \in Level : stage[i] = "closed"
    /\ WasCut => Closed

(* While no exit has been cut short, the owned resolvers close in order.   *)
UncutInv ==
    cut = 0 =>
        /\ left = <<>> /\ \A i \in Level : stage[i] # "cut"
        /\ \A i \in Above : stage[i] \notin Idle => i = next + 1

(* The error that the exit has to raise, and where it is.                  *)
FirstFailure == IF hasError \/ failures = <<>> THEN 0 ELSE failures[1]
ErrorInv ==
    /\ \A i \in Level : stage[i] \in {"single", "callback"} => ~hasError
    /\ stage[Depth] = "loop" => cleanupError[Depth] = FirstFailure
    /\ stage[Depth] \in {"single", "callback"} => failures = <<>> /\ cleanupError[Depth] = 0
    /\ stage[Depth] = "owned" =>
           /\ (\A i \in Above : stage[i] # "loop") => cleanupError[Depth] = FirstFailure
           /\ \A i \in Above : stage[i] = "loop" =>
                  FirstFailure = IF cleanupError[Depth] = 0 THEN cleanupError[i] ELSE cleanupError[Depth]
    /\ Closed => IF WasCut THEN raised[Depth] \in interrupts ELSE raised[Depth] = FirstFailure

-----------------------------------------------------------------------------
(* The chain.                                                              *)
LEMMA ChainInitial == Init => ChainInv /\ UncutInv
BY BoundsAssumption DEF Init, ChainInv, UncutInv, Level, Above, Idle, Busy, Closed, WasCut

LEMMA ChainEnd ==
    ASSUME TypeOK, ChainInv, NEW i \in Level, NEW e, Ends(i, e),
           stage[i] \in {"single", "callback"} \/ (stage[i] = "loop" /\ ~HasOwned(i)),
           UNCHANGED <<keeper, next, closes>>, running' = 0 \/ running' = running
    PROVE  ChainInv'
<1> USE BoundsAssumption DEF Level, Above
<1>1. closes # 0 /\ stage[Depth] # "open" /\ Depth \in Level
  BY DEF ChainInv
<1>2. stage' = [stage EXCEPT ![i] = IF GoesOn(i) THEN "owned" ELSE "closed"] /\ stage \in [Level -> StageName]
  BY DEF TypeOK, StageName, Ends
<1>c. cut' = cut /\ closes' = closes
  BY DEF Ends
<1>3. CASE i = Depth
  <2>1. GoesOn(i) <=> Depth > 1
    BY <1>3 DEF GoesOn, Chained, ChainInv, HasOwned
  <2>2. \A j \in Above : stage'[j] = stage[j]
    BY <1>2, <1>3
  <2>3. stage'[Depth] = IF Depth > 1 THEN "owned" ELSE "closed"
    BY <1>1, <1>2, <1>3, <2>1
  <2>4. \A j \in Above : next < j => stage[j] \in Busy \cup {"closed"}
    BY <1>3 DEF ChainInv, Busy
  <2>5. Depth = 1 => Level = {Depth}
    OBVIOUS
  <2>6. CASE Depth > 1
    BY <1>1, <1>c, <2>2, <2>3, <2>4, <2>6, <1>3 DEF ChainInv, Busy, Closed, WasCut
  <2>7. CASE ~(Depth > 1)
    BY <1>1, <2>2, <2>3, <2>5, <2>7 DEF ChainInv, Busy, Closed
  <2> QED BY <2>6, <2>7
<1>4. CASE i # Depth
  <2>1. ~GoesOn(i) /\ i \in Above
    BY <1>4 DEF GoesOn, Chained
  <2>2. stage[Depth] = "owned" /\ stage'[Depth] = "owned" /\ stage'[i] = "closed"
    BY <1>1, <1>2, <1>4, <2>1 DEF ChainInv, Idle
  <2>3. \A j \in Above : j # i => stage'[j] = stage[j]
    BY <1>2
  <2> QED BY <1>1, <1>c, <2>1, <2>2, <2>3 DEF ChainInv, Busy, Idle, Closed, WasCut
<1> QED BY <1>3, <1>4

(* When an exit is cut short, no resolver is busy any more.                *)
LEMMA ChainCut ==
    ASSUME TypeOK, ChainInv, NEW i \in Level, NEW e, NEW end \in {"closed", "cut"},
           CutShort(i, e, end), stage[i] \in Busy, UNCHANGED <<keeper, next, closes>>
    PROVE  /\ ChainInv' /\ UncutInv' /\ cut' # 0
           /\ stage'[Depth] \in {"closed", "cut"} /\ WasCut' /\ raised'[Depth] = e
           /\ i # Depth => stage[Depth] = "owned"
<1> USE BoundsAssumption DEF Level, Above
<1>1. closes # 0 /\ stage[Depth] # "open" /\ Depth \in Level
  BY DEF ChainInv, Busy
<1>2. /\ stage' = [stage EXCEPT ![Depth] = "closed", ![i] = end] /\ stage \in [Level -> StageName]
      /\ cut' = closes /\ raised' = [raised EXCEPT ![Depth] = e, ![i] = e]
      /\ raised \in [Level -> {0} \cup Resource]
  BY DEF CutShort, TypeOK, StageName
<1>3. /\ stage'[Depth] \in {"closed", "cut"} /\ stage'[i] = end /\ raised'[Depth] = e
      /\ \A j \in Above : j # i => stage'[j] = stage[j]
  BY <1>1, <1>2
<1>4. \A j \in Above : j # i => stage[j] \in Idle
  BY DEF ChainInv, Busy, Idle
<1>5. i # Depth => stage[Depth] = "owned"
  <2>1. i # Depth => i \in Above /\ stage[i] \notin Idle
    BY DEF Busy, Idle
  <2> QED BY <2>1 DEF ChainInv
<1>6. \A j \in Above : stage'[j] \in Idle
  BY <1>3, <1>4 DEF Idle
<1>7. WasCut' /\ closes' # 0 /\ cut' # 0
  BY <1>1, <1>2 DEF WasCut
<1> QED BY <1>1, <1>3, <1>5, <1>6, <1>7 DEF ChainInv, UncutInv, Busy, Closed

LEMMA ChainStep ==
    ASSUME TypeOK, ChainInv, [Next]_vars
    PROVE  ChainInv'
<1> USE BoundsAssumption DEF Level, Above
<1>0. Depth \in Level /\ stage \in [Level -> StageName] /\ next \in 0..(Depth - 1) /\ closes \in Nat
      /\ cut \in 0..closes
  BY DEF TypeOK, StageName
<1>1. ASSUME NEW i \in Level, NEW p \in Paths, Register(i, p) \/ RegisterLate(i, p)
      PROVE  ChainInv'
  BY <1>1 DEF Register, RegisterLate, Keep, exit, ChainInv, Closed, WasCut
<1>2. ASSUME NEW async \in BOOLEAN, NEW error \in BOOLEAN, Exit(async, error)
      PROVE  ChainInv'
  <2>1. /\ stage[Depth] \in {"open", "closed", "cut"} /\ closes' = closes + 1 /\ next' = Depth - 1
        /\ BeginExit(Depth, error)
    BY <1>2 DEF Exit
  <2>2. /\ ((BeginsDirect(Depth) \/ BeginsAlone(Depth)) /\ ~HasOwned(Depth)) \/ BeginsLoop(Depth)
        /\ keeper' = keeper
    BY <1>0, <2>1, Begins
  <2>3. /\ \A i \in Above : stage'[i] = stage[i]
        /\ stage'[Depth] \in Busy
        /\ stage'[Depth] \in {"single", "callback"} => ~HasOwned(Depth)
    BY <1>0, <2>2 DEF BeginsDirect, BeginsAlone, BeginsLoop, Busy
  <2>4. ~HasOwned(Depth) => Depth = 1 \/ keeper = "wrapped"
    BY DEF HasOwned, Chained
  <2>5. \A i \in Above : stage[i] \in Idle /\ ~(next' < i)
    BY <2>1 DEF ChainInv
  <2>6. ~WasCut'
    BY <1>0, <1>2 DEF Exit, WasCut
  <2> QED BY <1>0, <2>1, <2>2, <2>3, <2>4, <2>5, <2>6 DEF ChainInv, Busy, Idle, Closed
<1>3. ASSUME NEW i \in Level, PopCallback(i)
      PROVE  ChainInv'
  <2>1. closes # 0
    BY <1>3 DEF PopCallback, ChainInv
  <2> QED BY <1>3, <2>1 DEF PopCallback, ChainInv, Closed, WasCut
<1>4. ASSUME NEW i \in Level, LoopEnds(i)
      PROVE  ChainInv'
  <2>1. stage[i] = "loop" /\ UNCHANGED <<keeper, running, next, closes>>
    BY <1>4 DEF LoopEnds
  <2>2. CASE HasOwned(i)
    <3>1. i = Depth /\ stage' = [stage EXCEPT ![i] = "owned"] /\ cut' = cut
      BY <1>4, <2>2 DEF LoopEnds, HasOwned, Chained
    <3>2. stage'[Depth] = "owned" /\ \A j \in Above : stage'[j] = stage[j]
      BY <1>0, <3>1
    <3>3. closes # 0
      BY <2>1 DEF ChainInv
    <3> QED BY <2>1, <3>1, <3>2, <3>3 DEF ChainInv, Busy, Closed, WasCut
  <2>3. CASE ~HasOwned(i)
    <3>0. PICK e : e = cleanupError[i]
      OBVIOUS
    <3>1. EndExit(i, e)
      BY <1>4, <2>3, <3>0 DEF LoopEnds
    <3>2. CASE Ends(i, e)
      BY <2>1, <2>3, <3>2, ChainEnd
    <3>3. CASE CutShort(i, e, "closed")
      BY <2>1, <3>3, ChainCut DEF Busy
    <3> QED BY <3>1, <3>2, <3>3, EndIs
  <2> QED BY <2>2, <2>3
<1>5. ASSUME NEW i \in Level, NEW outcome \in Outcome, CleanupEnds(i, outcome)
      PROVE  ChainInv'
  <2>0. PICK e : e = IF outcome = "returns" THEN 0 ELSE running
    OBVIOUS
  <2>1. CleanupIs(i, outcome, e)
    BY <1>5, <2>0, CleanupThen
  <2>2. running' = 0 /\ UNCHANGED <<keeper, next, closes>>
    BY <2>1 DEF CleanupIs
  <2>3. CASE Caught(i, e)
    BY <2>2, <2>3 DEF Caught, ChainInv, Closed, WasCut
  <2>4. CASE stage[i] = "loop" /\ CutShort(i, e, "cut")
    BY <2>2, <2>4, ChainCut DEF Busy
  <2>5. CASE stage[i] \in {"single", "callback"} /\ EndExit(i, e)
    <3>1. CASE Ends(i, e)
      BY <2>2, <2>5, <3>1, ChainEnd
    <3>2. CASE CutShort(i, e, "closed")
      BY <2>2, <2>5, <3>2, ChainCut DEF Busy
    <3> QED BY <2>5, <3>1, <3>2, EndIs
  <2> QED BY <2>1, <2>3, <2>4, <2>5 DEF CleanupIs
<1>6. CASE CloseOwned \/ CloseLeft
  <2>1. PICK n \in Level : ClosesAt(n)
    BY <1>6, ClosesIs
  <2>2. /\ OwnedTurn /\ n \in Above /\ BeginExit(n, hasError) /\ UNCHANGED <<closes, cut>>
        /\ hasError \in BOOLEAN
        /\ (n = next /\ next' = next - 1) \/ next' = next
    BY <2>1 DEF ClosesAt, TypeOK
  <2>3. (BeginsDirect(n) \/ BeginsAlone(n) \/ BeginsLoop(n)) /\ keeper' = keeper
    BY <2>2, Begins
  <2>4. /\ \A i \in Level : i # n => stage'[i] = stage[i]
        /\ stage'[n] \in Busy
    BY <1>0, <2>3 DEF BeginsDirect, BeginsAlone, BeginsLoop, Busy
  <2>5. stage[Depth] = "owned" /\ stage'[Depth] = "owned" /\ closes # 0
    BY <1>0, <2>2, <2>4 DEF OwnedTurn, ChainInv
  <2>6. \A i \in Above : i # n => stage'[i] = stage[i] /\ stage[i] \in Idle
    BY <2>2, <2>4 DEF OwnedTurn, Idle
  <2>7. \A i \in Above : next' < i => i = n \/ next < i
    BY <1>0, <2>2
  <2>8. \A i \in Above : next' < i => stage'[i] \in Busy \cup {"closed"}
    BY <2>4, <2>5, <2>6, <2>7 DEF ChainInv
  <2>9. \A i \in Above : stage'[i] \notin Idle => i = n
    BY <2>6
  <2> QED BY <2>2, <2>3, <2>4, <2>5, <2>8, <2>9 DEF ChainInv, Closed, WasCut
<1>7. CASE LoopGoesOn
  <2>1. /\ OwnedTurn /\ keeper = "wrapper" /\ stage' = [stage EXCEPT ![Depth] = "loop"]
        /\ UNCHANGED <<keeper, running, next, closes, cut>>
    BY <1>7 DEF LoopGoesOn, MoreToClean, history
  <2>2. stage'[Depth] = "loop" /\ \A i \in Above : stage'[i] = stage[i] /\ stage[i] \in Idle
    BY <1>0, <2>1 DEF OwnedTurn, Idle
  <2>3. stage[Depth] = "owned" /\ closes # 0
    BY <1>0, <2>1 DEF OwnedTurn, ChainInv
  <2> QED BY <1>0, <2>1, <2>2, <2>3 DEF ChainInv, Closed, WasCut
<1>8. CASE OwnedEnd
  <2>1. /\ OwnedTurn /\ next = 0 /\ EndExit(Depth, cleanupError[Depth])
        /\ UNCHANGED <<keeper, running, next, closes>>
    BY <1>8 DEF OwnedEnd
  <2>2. stage' = [stage EXCEPT ![Depth] = "closed"] /\ cut' = cut
    BY <2>1, EndIs DEF GoesOn, OwnedTurn, Ends
  <2>3. stage'[Depth] = "closed" /\ \A i \in Above : stage'[i] = stage[i]
    BY <1>0, <2>2
  <2>4. \A i \in Above : stage[i] = "closed"
    <3>1. \A i \in Above : next < i /\ stage[i] \notin Busy
      BY <2>1 DEF OwnedTurn, Busy
    <3> QED BY <2>1, <3>1 DEF OwnedTurn, ChainInv
  <2>5. \A i \in Level : stage'[i] = "closed"
    BY <2>3, <2>4
  <2> QED BY <1>0, <2>1, <2>3, <2>4, <2>5 DEF ChainInv, OwnedTurn, Idle, Busy, Closed
<1>9. CASE UNCHANGED vars
  BY <1>9 DEF vars, fields, exit, history, ChainInv, Closed, WasCut
<1> QED BY <1>1, <1>2, <1>3, <1>4, <1>5, <1>6, <1>7, <1>8, <1>9 DEF Next, Done

LEMMA UncutStep ==
    ASSUME TypeOK, ChainInv, UncutInv, [Next]_vars
    PROVE  UncutInv' /\ (cut' = 0 => cut = 0)
<1> USE BoundsAssumption DEF Level, Above
<1>0. Depth \in Level /\ stage \in [Level -> StageName] /\ next \in 0..(Depth - 1) /\ closes \in Nat
  BY DEF TypeOK, StageName
<1>1. ASSUME UNCHANGED <<stage, next, left, cut>>  PROVE UncutInv' /\ (cut' = 0 => cut = 0)
  BY <1>1 DEF UncutInv
<1>2. ASSUME NEW i \in Level, NEW e, NEW end \in {"closed", "cut"}, CutShort(i, e, end),
             stage[i] \in Busy, UNCHANGED <<keeper, next, closes>>
      PROVE  UncutInv' /\ (cut' = 0 => cut = 0)
  BY <1>2, ChainCut
<1>3. ASSUME NEW i \in Level, NEW end \in {"owned", "closed", "loop"}, stage' = [stage EXCEPT ![i] = end],
             i # Depth => end = "closed", UNCHANGED <<next, left, cut>>
      PROVE  UncutInv' /\ (cut' = 0 => cut = 0)
  <2>1. \A j \in Above : stage'[j] = stage[j] \/ stage'[j] = "closed"
    BY <1>0, <1>3
  <2>2. \A j \in Level : stage'[j] = "cut" => stage[j] = "cut"
    BY <1>0, <1>3
  <2> QED BY <1>3, <2>1, <2>2 DEF UncutInv, Idle
<1>4. ASSUME NEW i \in Level, NEW e, Ends(i, e), UNCHANGED <<keeper, next, closes>>
      PROVE  UncutInv' /\ (cut' = 0 => cut = 0)
  <2>1. PICK end : end = IF GoesOn(i) THEN "owned" ELSE "closed"
    OBVIOUS
  <2>2. /\ stage' = [stage EXCEPT ![i] = end] /\ UNCHANGED <<left, cut>>
        /\ end \in {"owned", "closed"} /\ (i # Depth => end = "closed")
    BY <1>4, <2>1 DEF Ends, GoesOn, Chained
  <2> QED BY <1>3, <1>4, <2>2
<1>5. ASSUME NEW i \in Level, NEW error \in BOOLEAN, BeginExit(i, error), cut' = cut,
             \A j \in Above : stage[j] \in Idle, cut = 0 => left' = left /\ (i = Depth \/ i = next' + 1)
      PROVE  UncutInv' /\ (cut' = 0 => cut = 0)
  <2>1. BeginsDirect(i) \/ BeginsAlone(i) \/ BeginsLoop(i)
    BY <1>5, Begins
  <2>2. (\A j \in Level : j # i => stage'[j] = stage[j]) /\ stage'[i] \in Busy
    BY <1>0, <2>1 DEF BeginsDirect, BeginsAlone, BeginsLoop, Busy
  <2>3. \A j \in Above : stage'[j] \notin Idle => j = i
    BY <1>5, <2>2
  <2> QED BY <1>5, <2>2, <2>3 DEF UncutInv, Busy
<1>6. ASSUME NEW i \in Level, NEW p \in Paths, Register(i, p) \/ RegisterLate(i, p)
      PROVE  UncutInv' /\ (cut' = 0 => cut = 0)
  BY <1>1, <1>6 DEF Register, RegisterLate, Keep, exit
<1>7. ASSUME NEW async \in BOOLEAN, NEW error \in BOOLEAN, Exit(async, error)
      PROVE  UncutInv' /\ (cut' = 0 => cut = 0)
  <2>1. BeginExit(Depth, error) /\ UNCHANGED <<left, cut>> /\ stage[Depth] # "owned"
    BY <1>7 DEF Exit
  <2>2. \A j \in Above : stage[j] \in Idle
    BY <2>1 DEF ChainInv
  <2> QED BY <1>0, <1>5, <2>1, <2>2
<1>8. ASSUME NEW i \in Level, PopCallback(i)
      PROVE  UncutInv' /\ (cut' = 0 => cut = 0)
  BY <1>1, <1>8 DEF PopCallback
<1>9. ASSUME NEW i \in Level, LoopEnds(i)
      PROVE  UncutInv' /\ (cut' = 0 => cut = 0)
  <2>1. stage[i] = "loop" /\ UNCHANGED <<keeper, next, closes>>
    BY <1>9 DEF LoopEnds
  <2>2. CASE HasOwned(i)
    <3>1. i = Depth /\ stage' = [stage EXCEPT ![i] = "owned"] /\ UNCHANGED <<left, cut>>
      BY <1>9, <2>2 DEF LoopEnds, HasOwned, Chained
    <3> QED BY <1>3, <2>1, <3>1
  <2>3. CASE ~HasOwned(i)
    <3>0. PICK e : e = cleanupError[i]
      OBVIOUS
    <3>1. EndExit(i, e)
      BY <1>9, <2>3, <3>0 DEF LoopEnds
    <3>2. Ends(i, e) \/ CutShort(i, e, "closed")
      BY <3>1, EndIs
    <3> QED BY <1>2, <1>4, <2>1, <3>2 DEF Busy
  <2> QED BY <2>2, <2>3
<1>10. ASSUME NEW i \in Level, NEW outcome \in Outcome, CleanupEnds(i, outcome)
      PROVE  UncutInv' /\ (cut' = 0 => cut = 0)
  <2>0. PICK e : e = IF outcome = "returns" THEN 0 ELSE running
    OBVIOUS
  <2>1. CleanupIs(i, outcome, e)
    BY <1>10, <2>0, CleanupThen
  <2>2. UNCHANGED <<keeper, next, closes>>
    BY <2>1 DEF CleanupIs
  <2>3. CASE Caught(i, e)
    BY <1>1, <2>2, <2>3 DEF Caught
  <2>4. CASE stage[i] = "loop" /\ CutShort(i, e, "cut")
    BY <1>2, <2>2, <2>4 DEF Busy
  <2>5. CASE stage[i] \in {"single", "callback"} /\ EndExit(i, e)
    <3>1. Ends(i, e) \/ CutShort(i, e, "closed")
      BY <2>5, EndIs
    <3> QED BY <1>2, <1>4, <2>2, <2>5, <3>1 DEF Busy
  <2> QED BY <2>1, <2>3, <2>4, <2>5 DEF CleanupIs
<1>11. CASE CloseOwned \/ CloseLeft
  <2>1. PICK n \in Level : ClosesAt(n)
    BY <1>11, ClosesIs
  <2>2. /\ OwnedTurn /\ BeginExit(n, hasError) /\ cut' = cut /\ hasError \in BOOLEAN
        /\ (n = next /\ next' = next - 1 /\ left' = left) \/ left # <<>>
    BY <2>1 DEF ClosesAt, TypeOK
  <2>3. cut = 0 => left' = left /\ n = next' + 1
    BY <1>0, <2>2 DEF UncutInv
  <2>4. \A j \in Above : stage[j] \in Idle
    BY <2>2 DEF OwnedTurn, Idle
  <2> QED BY <1>5, <2>2, <2>3, <2>4
<1>12. CASE LoopGoesOn
  BY <1>0, <1>3, <1>12 DEF LoopGoesOn, history
<1>13. CASE OwnedEnd
  <2>0. PICK e : e = cleanupError[Depth]
    OBVIOUS
  <2>1. EndExit(Depth, e) /\ UNCHANGED <<keeper, next, closes>> /\ ~GoesOn(Depth)
    BY <1>13, <2>0 DEF OwnedEnd, GoesOn, OwnedTurn
  <2> QED BY <1>0, <1>4, <2>1, EndIs
<1>14. CASE UNCHANGED vars
  BY <1>1, <1>14 DEF vars, exit, history
<1> QED BY <1>6, <1>7, <1>8, <1>9, <1>10, <1>11, <1>12, <1>13, <1>14 DEF Next, Done

-----------------------------------------------------------------------------
LEMMA LevelTyped ==
    ASSUME TypeOK, NEW m \in Resource
    PROVE  registered[m].level \in Level /\ m # 0
<1> DEFINE S == [level : Level, path : Path, exits : Nat, inField : BOOLEAN]
<1>1. registered \in Seq(S)
  BY DEF TypeOK
<1> HIDE DEF S
<1>2. registered[m] \in S
  BY <1>1 DEF Resource
<1> QED BY <1>2, NoZero DEF S

(* It is enough to look at a resource where it belongs.                    *)
LEMMA PlacedIfAt ==
    ASSUME \A m \in Resource' : \A i : i = registered'[m].level => PlacedAt(i, m)'
    PROVE  PlaceInv'
BY DEF PlaceInv, PlacedAt, TakenUp, InList, InField

(* Cleanups move from the field to the list, or stay where they are ...    *)
LEMMA Moved ==
    ASSUME TypeOK, Placed, registered' = registered, cleaned' = cleaned,
           \A j \in Level, m \in Resource :
               /\ InList(j, m)' \/ InField(j, m)' <=> InList(j, m) \/ InField(j, m)
               /\ ~(InList(j, m)' /\ InField(j, m)'),
           \A j \in Level : single'[j] \in {0, single[j]},
           ListsInv', SingleInv'
    PROVE  Placed'
<1>1. Resource' = Resource /\ \A m \in Resource : TakenUp(m)' <=> TakenUp(m)
  BY DEF Resource, TakenUp
<1>2. \A m \in Resource : m # 0 /\ registered'[m] = registered[m] /\ registered[m].level \in Level
  BY LevelTyped
<1>3. HomeInv'
  <2> SUFFICES ASSUME NEW i \in Level, NEW n \in Resource, InList(i, n)' \/ single'[i] = n
               PROVE  registered[n].level = i
    BY <1>1, <1>2 DEF HomeInv
  <2>1. InList(i, n) \/ single[i] = n
    BY <1>2 DEF InField
  <2> QED BY <2>1 DEF Placed, HomeInv
<1>4. PlaceInv'
  <2> SUFFICES ASSUME NEW n \in Resource, NEW i, i = registered[n].level
               PROVE  PlacedAt(i, n)'
    BY <1>1, <1>2, PlacedIfAt
  <2>1. /\ TakenUp(n) \/ InList(i, n) \/ InField(i, n)
        /\ ~(TakenUp(n) /\ InList(i, n)) /\ ~(TakenUp(n) /\ InField(i, n))
    BY DEF Placed, PlaceInv, PlacedAt
  <2>2. /\ InList(i, n)' \/ InField(i, n)' <=> InList(i, n) \/ InField(i, n)
        /\ ~(InList(i, n)' /\ InField(i, n)')
        /\ TakenUp(n)' <=> TakenUp(n)
    BY <1>1, <1>2
  <2> QED BY <2>1, <2>2 DEF PlacedAt
<1>5. CleanedOnce'
  BY DEF Placed, CleanedOnce
<1> QED BY <1>3, <1>4, <1>5 DEF Placed

(* ... or one of them, which nobody has taken up, is executed.             *)
LEMMA Took ==
    ASSUME TypeOK, Placed, NEW n \in Resource, ~TakenUp(n), registered' = registered,
           cleaned' = Append(cleaned, n),
           \A j \in Level, m \in Resource :
               /\ InList(j, m)' <=> InList(j, m) /\ m # n
               /\ InField(j, m)' <=> InField(j, m) /\ m # n,
           \A j \in Level : single'[j] \in {0, single[j]},
           ListsInv', SingleInv'
    PROVE  Placed'
<1>0. /\ cleaned \in Seq(Resource) /\ DOMAIN cleaned' = 1..(Len(cleaned) + 1) /\ Len(cleaned) \in Nat
      /\ DOMAIN cleaned = 1..Len(cleaned) /\ cleaned'[Len(cleaned) + 1] = n
      /\ \A k \in 1..Len(cleaned) : cleaned'[k] = cleaned[k]
  BY Appended DEF TypeOK
<1>1. Resource' = Resource /\ \A m \in Resource : TakenUp(m)' <=> TakenUp(m) \/ m = n
  <2>1. Resource' = Resource
    BY DEF Resource
  <2>2. ASSUME NEW m \in Resource  PROVE TakenUp(m)' <=> TakenUp(m) \/ m = n
    BY <1>0 DEF TakenUp
  <2> QED BY <2>1, <2>2
<1>2. \A m \in Resource : m # 0 /\ registered'[m] = registered[m] /\ registered[m].level \in Level
  BY LevelTyped
<1>3. HomeInv'
  <2> SUFFICES ASSUME NEW i \in Level, NEW m \in Resource, InList(i, m)' \/ single'[i] = m
               PROVE  registered[m].level = i
    BY <1>1, <1>2 DEF HomeInv
  <2>1. InList(i, m) \/ single[i] = m
    BY <1>2
  <2> QED BY <2>1 DEF Placed, HomeInv
<1>4. PlaceInv'
  <2> SUFFICES ASSUME NEW m \in Resource, NEW i, i = registered[m].level
               PROVE  PlacedAt(i, m)'
    BY <1>1, <1>2, PlacedIfAt
  <2>1. /\ TakenUp(m) \/ InList(i, m) \/ InField(i, m)
        /\ ~(TakenUp(m) /\ InList(i, m)) /\ ~(TakenUp(m) /\ InField(i, m))
        /\ ~(InList(i, m) /\ InField(i, m))
    BY DEF Placed, PlaceInv, PlacedAt
  <2>2. /\ InList(i, m)' <=> InList(i, m) /\ m # n
        /\ InField(i, m)' <=> InField(i, m) /\ m # n
        /\ TakenUp(m)' <=> TakenUp(m) \/ m = n
    BY <1>1, <1>2
  <2> QED BY <2>1, <2>2 DEF PlacedAt
<1>5. CleanedOnce'
  <2> SUFFICES ASSUME NEW j \in DOMAIN cleaned', NEW k \in DOMAIN cleaned', cleaned'[j] = cleaned'[k]
               PROVE  j = k
    BY DEF CleanedOnce
  <2>1. \A l \in 1..Len(cleaned) : cleaned[l] # n
    BY <1>0 DEF TakenUp
  <2> QED BY <1>0, <2>1 DEF Placed, CleanedOnce
<1> QED BY <1>3, <1>4, <1>5 DEF Placed

(* A new resource comes into the field or the list of its resolver.        *)
LEMMA Kept ==
    ASSUME TypeOK, Placed, NEW i \in Level, NEW p \in Paths, Keep(i, p)
    PROVE  Placed' /\ \A j \in Level, m \in Resource : /\ InList(j, m)' <=> InList(j, m)
                                                       /\ InField(j, m)' <=> InField(j, m)
<1>0. PICK n : n = Len(registered) + 1
  OBVIOUS
<1>1. /\ \/ /\ single[i] = 0 /\ callbacks[i] = <<>>
            /\ single' = [single EXCEPT ![i] = n] /\ callbacks' = callbacks
         \/ /\ callbacks' = [callbacks EXCEPT ![i] = Append(@, n)] /\ single' = single
      /\ UNCHANGED <<keeper, exit, cleaned, failures, cut>>
      /\ n \in Nat \ {0} /\ n \notin Resource /\ Resource' = Resource \cup {n}
      /\ \A m \in Resource : registered'[m] = registered[m]
      /\ registered'[n] = Registered(i, p)
  BY <1>0, KeepIs
<1>2. stage' = stage /\ cleaned' = cleaned
  BY <1>1 DEF exit
<1>3. /\ single \in [Level -> {0} \cup Resource] /\ callbacks \in [Level -> Seq(Resource)]
      /\ cleaned \in Seq(Resource) /\ registered'[n].level = i
  BY <1>1 DEF TypeOK, Registered
<1>4. \A j \in Level : /\ DOMAIN callbacks[j] = 1..Len(callbacks[j]) /\ Len(callbacks[j]) \in Nat
                       /\ \A k \in DOMAIN callbacks[j] : callbacks[j][k] \in Resource
  BY <1>3
<1>5. ~TakenUp(n) /\ \A j \in Level : ~InList(j, n) /\ single[j] # n
  <2>1. ~TakenUp(n)
    BY <1>1, <1>3 DEF TakenUp
  <2>2. \A j \in Level : ~InList(j, n) /\ single[j] # n
    BY <1>1, <1>3, <1>4 DEF InList
  <2> QED BY <2>1, <2>2
<1>6. CASE /\ single[i] = 0 /\ callbacks[i] = <<>>
           /\ single' = [single EXCEPT ![i] = n] /\ callbacks' = callbacks
  <2>1. stage[i] # "single"
    BY <1>6 DEF Placed, SingleInv
  <2>2. \A j \in Level : single'[j] = IF j = i THEN n ELSE single[j]
    BY <1>3, <1>6
  <2>3. \A m : \A j \in Level : InList(j, m)' <=> InList(j, m)
    BY <1>6 DEF InList
  <2>4. \A j \in Level, m \in Resource : InField(j, m)' <=> InField(j, m)
    <3> SUFFICES ASSUME NEW j \in Level, NEW m \in Resource  PROVE InField(j, m)' <=> InField(j, m)
      OBVIOUS
    <3>1. m # 0 /\ m # n
      BY <1>1, NoZero
    <3> QED BY <1>2, <1>6, <2>2, <3>1 DEF InField
  <2>5. InField(i, n)' /\ ~InList(i, n)' /\ ~TakenUp(n)'
    BY <1>2, <1>5, <2>1, <2>2, <2>3 DEF InField, TakenUp
  <2>6. HomeInv'
    <3> SUFFICES ASSUME NEW j \in Level, NEW m \in Resource', InList(j, m)' \/ single'[j] = m
                 PROVE  registered'[m].level = j
      BY DEF HomeInv
    <3>1. CASE m = n
      BY <1>3, <1>5, <2>2, <2>3, <3>1
    <3>2. CASE m \in Resource
      <4>1. InList(j, m) \/ single[j] = m
        BY <1>1, <2>2, <2>3, <3>2
      <4> QED BY <1>1, <3>2, <4>1 DEF Placed, HomeInv
    <3> QED BY <1>1, <3>1, <3>2
  <2>7. PlaceInv'
    <3> SUFFICES ASSUME NEW m \in Resource', NEW l, l = registered'[m].level
                 PROVE  PlacedAt(l, m)'
      BY PlacedIfAt
    <3>1. CASE m = n
      BY <1>3, <2>5, <3>1 DEF PlacedAt
    <3>2. CASE m \in Resource
      <4>1. l = registered[m].level /\ l \in Level /\ (TakenUp(m)' <=> TakenUp(m))
        BY <1>1, <1>2, <3>2, LevelTyped DEF TakenUp
      <4>2. PlacedAt(l, m)
        BY <3>2, <4>1 DEF Placed, PlaceInv
      <4> QED BY <2>3, <2>4, <3>2, <4>1, <4>2 DEF PlacedAt
    <3> QED BY <1>1, <3>1, <3>2
  <2>8. ListsInv' /\ CleanedOnce' /\ SingleInv'
    BY <1>1, <1>2, <1>6, <2>2 DEF Placed, ListsInv, CleanedOnce, SingleInv
  <2> QED BY <2>3, <2>4, <2>6, <2>7, <2>8 DEF Placed
<1>7. CASE callbacks' = [callbacks EXCEPT ![i] = Append(@, n)] /\ single' = single
  <2> DEFINE s == callbacks[i]
  <2>1. /\ callbacks'[i] = Append(s, n) /\ \A j \in Level : j # i => callbacks'[j] = callbacks[j]
        /\ Len(s) \in Nat /\ DOMAIN s = 1..Len(s) /\ DOMAIN callbacks'[i] = 1..(Len(s) + 1)
        /\ callbacks'[i][Len(s) + 1] = n /\ \A k \in 1..Len(s) : callbacks'[i][k] = s[k]
    <3>1. callbacks'[i] = Append(s, n) /\ \A j \in Level : j # i => callbacks'[j] = callbacks[j]
      BY <1>3, <1>7
    <3>2. s \in Seq(Resource') /\ n \in Resource'
      <4>1. Resource \subseteq Resource' /\ n \in Resource'
        BY <1>1
      <4> QED BY <1>3, <4>1, MoreIn
    <3> HIDE DEF s
    <3> QED BY <3>1, <3>2, Appended
  <2>2. ASSUME NEW j \in Level, NEW m
        PROVE  InList(j, m)' <=> InList(j, m) \/ (j = i /\ m = n)
    <3>1. CASE j = i
      BY <2>1, <3>1 DEF InList
    <3>2. CASE j # i
      BY <2>1, <3>2 DEF InList
    <3> QED BY <3>1, <3>2
  <2> HIDE DEF s
  <2>3. \A j \in Level, m \in Resource : InList(j, m)' <=> InList(j, m)
    BY <1>1, <2>2
  <2>4. \A m : \A j \in Level : InField(j, m)' <=> InField(j, m)
    BY <1>2, <1>7 DEF InField
  <2>5. InList(i, n)' /\ ~InField(i, n)' /\ ~TakenUp(n)'
    BY <1>2, <1>5, <2>2, <2>4 DEF InField, TakenUp
  <2>6. HomeInv'
    <3> SUFFICES ASSUME NEW j \in Level, NEW m \in Resource', InList(j, m)' \/ single'[j] = m
                 PROVE  registered'[m].level = j
      BY DEF HomeInv
    <3>1. CASE m = n
      BY <1>3, <1>5, <1>7, <2>2, <3>1
    <3>2. CASE m \in Resource
      BY <1>1, <1>7, <2>3, <3>2 DEF Placed, HomeInv
    <3> QED BY <1>1, <3>1, <3>2
  <2>7. PlaceInv'
    <3> SUFFICES ASSUME NEW m \in Resource', NEW l, l = registered'[m].level
                 PROVE  PlacedAt(l, m)'
      BY PlacedIfAt
    <3>1. CASE m = n
      BY <1>3, <2>5, <3>1 DEF PlacedAt
    <3>2. CASE m \in Resource
      <4>1. l = registered[m].level /\ l \in Level /\ (TakenUp(m)' <=> TakenUp(m))
        BY <1>1, <1>2, <3>2, LevelTyped DEF TakenUp
      <4>2. PlacedAt(l, m)
        BY <3>2, <4>1 DEF Placed, PlaceInv
      <4> QED BY <2>3, <2>4, <3>2, <4>1, <4>2 DEF PlacedAt
    <3> QED BY <1>1, <3>1, <3>2
  <2>8. ListsInv'
    <3> SUFFICES ASSUME NEW j \in Level, NEW k \in DOMAIN callbacks'[j], NEW l \in DOMAIN callbacks'[j],
                        callbacks'[j][k] = callbacks'[j][l]
                 PROVE  k = l
      BY DEF ListsInv
    <3>1. CASE j # i
      BY <2>1, <3>1 DEF Placed, ListsInv
    <3>2. CASE j = i
      <4>1. \A q \in 1..Len(s) : s[q] # n
        BY <1>1, <1>4 DEF s
      <4>2. \A q, r \in 1..Len(s) : s[q] = s[r] => q = r
        BY <2>1 DEF Placed, ListsInv, s
      <4> QED BY <2>1, <3>2, <4>1, <4>2
    <3> QED BY <3>1, <3>2
  <2>9. CleanedOnce' /\ SingleInv'
    BY <1>2, <1>7 DEF Placed, CleanedOnce, SingleInv
  <2> QED BY <2>3, <2>4, <2>6, <2>7, <2>8, <2>9 DEF Placed
<1> QED BY <1>1, <1>6, <1>7

-----------------------------------------------------------------------------
(* An exit begins at a resolver that is open or closed.                    *)
LEMMA BeginPlaced ==
    ASSUME TypeOK, Placed, NEW i \in Level, NEW error \in BOOLEAN, BeginExit(i, error),
           stage[i] \in Idle
    PROVE  /\ Placed'
           /\ \A j \in Level : j # i =>
                 stage'[j] = stage[j] /\ callbacks'[j] = callbacks[j] /\ single'[j] = single[j]
           /\ \A m \in Resource : ~InField(i, m)' /\ (stage'[i] # "loop" => ~InList(i, m)')
<1>0. /\ BeginsDirect(i) \/ BeginsAlone(i) \/ BeginsLoop(i)
      /\ registered' = registered
  BY Begins
<1>1. /\ single \in [Level -> {0} \cup Resource] /\ callbacks \in [Level -> Seq(Resource)]
      /\ stage \in [Level -> StageName] /\ \A m \in Resource : m # 0
  BY NoZero DEF TypeOK, StageName
<1>2. \A m \in Resource : InField(i, m) <=> single[i] = m
  BY DEF InField, Idle
<1>3. CASE BeginsDirect(i)
  <2>0. PICK n : n = single[i]
    OBVIOUS
  <2>1. /\ n \in Resource /\ stage' = [stage EXCEPT ![i] = "single"] /\ single' = single
        /\ callbacks' = callbacks /\ callbacks[i] = <<>> /\ cleaned' = Append(cleaned, n)
    BY <1>1, <1>3, <2>0 DEF BeginsDirect
  <2>2. registered[n].level = i /\ ~TakenUp(n)
    BY <1>2, <2>0, <2>1 DEF Placed, HomeInv, PlaceInv, PlacedAt
  <2>3. ASSUME NEW j \in Level, NEW m \in Resource
        PROVE  /\ InList(j, m)' <=> InList(j, m) /\ m # n
               /\ InField(j, m)' <=> InField(j, m) /\ m # n
    <3>1. InList(j, m)' <=> InList(j, m)
      BY <2>1 DEF InList
    <3>2. CASE j = i
      <4>1. ~InList(i, m) /\ ~InField(i, m)'
        BY <1>1, <2>1 DEF InList, InField
      <4> QED BY <1>2, <2>0, <3>1, <3>2, <4>1
    <3>3. CASE j # i
      <4>1. InField(j, m)' <=> InField(j, m)
        BY <1>1, <2>1, <3>3 DEF InField
      <4>2. m = n => ~InField(j, m) /\ ~InList(j, m)
        BY <2>2, <3>3 DEF Placed, HomeInv, InField
      <4> QED BY <3>1, <4>1, <4>2
    <3> QED BY <3>2, <3>3
  <2>4. ListsInv' /\ SingleInv'
    BY <1>1, <1>3, <2>1 DEF Placed, ListsInv, SingleInv, BeginsDirect
  <2>5. Placed'
    BY <1>0, <2>1, <2>2, <2>3, <2>4, Took
  <2>6. \A m \in Resource : ~InField(i, m)' /\ ~InList(i, m)'
    BY <1>1, <2>1 DEF InField, InList
  <2> QED BY <1>1, <2>1, <2>5, <2>6
<1>4. CASE BeginsAlone(i)
  <2>0. PICK n : n = callbacks[i][1]
    OBVIOUS
  <2>1. /\ stage' = [stage EXCEPT ![i] = "callback"] /\ single[i] = 0
        /\ single' = [single EXCEPT ![i] = 0] /\ callbacks' = [callbacks EXCEPT ![i] = <<>>]
        /\ Len(callbacks[i]) = 1 /\ cleaned' = Append(cleaned, n)
    BY <1>4, <2>0 DEF BeginsAlone
  <2>2. n \in Resource /\ \A m \in Resource : InList(i, m) <=> m = n
    <3>1. callbacks[i] \in Seq(Resource) /\ DOMAIN callbacks[i] = {1}
      BY <1>1, <2>1
    <3> QED BY <2>0, <3>1 DEF InList
  <2>3. registered[n].level = i /\ ~TakenUp(n)
    BY <2>2 DEF Placed, HomeInv, PlaceInv, PlacedAt
  <2>4. single' = single /\ \A m : ~InList(i, m)'
    BY <1>1, <2>1 DEF InList
  <2>5. ASSUME NEW j \in Level, NEW m \in Resource
        PROVE  /\ InList(j, m)' <=> InList(j, m) /\ m # n
               /\ InField(j, m)' <=> InField(j, m) /\ m # n
    <3>1. CASE j = i
      <4>1. ~InField(i, m)' /\ ~InField(i, m)
        BY <1>1, <2>1, <2>4 DEF InField
      <4> QED BY <2>2, <2>4, <3>1, <4>1
    <3>2. CASE j # i
      <4>1. (InField(j, m)' <=> InField(j, m)) /\ (InList(j, m)' <=> InList(j, m))
        BY <1>1, <2>1, <2>4, <3>2 DEF InField, InList
      <4>2. m = n => ~InField(j, m) /\ ~InList(j, m)
        BY <2>3, <3>2 DEF Placed, HomeInv, InField
      <4> QED BY <4>1, <4>2
    <3> QED BY <3>1, <3>2
  <2>6. ListsInv' /\ SingleInv'
    BY <1>1, <2>1, <2>4 DEF Placed, ListsInv, SingleInv
  <2>7. Placed'
    BY <1>0, <2>1, <2>2, <2>3, <2>4, <2>5, <2>6, Took
  <2>8. \A m \in Resource : ~InField(i, m)'
    BY <1>1, <2>1, <2>4 DEF InField
  <2> QED BY <1>1, <2>1, <2>4, <2>7, <2>8
<1>5. CASE BeginsLoop(i)
  <2> DEFINE s == callbacks[i]
  <2>1. /\ stage' = [stage EXCEPT ![i] = "loop"] /\ single' = [single EXCEPT ![i] = 0]
        /\ callbacks' = [callbacks EXCEPT ![i] = Pending(i)] /\ cleaned' = cleaned
    BY <1>5 DEF BeginsLoop
  <2>2. /\ callbacks'[i] = Pending(i) /\ DOMAIN callbacks'[i] = 1..Len(Pending(i))
        /\ single[i] = 0 => Len(Pending(i)) = Len(s)
        /\ single[i] # 0 => Len(Pending(i)) = Len(s) + 1 /\ Pending(i)[Len(s) + 1] = single[i]
        /\ \A k \in 1..Len(s) : Pending(i)[k] = s[k]
        /\ Len(s) \in Nat /\ DOMAIN s = 1..Len(s)
    BY <1>1, <2>1, PendingIs
  <2>3. \A m \in Resource : InList(i, m)' <=> InList(i, m) \/ InField(i, m)
    <3> SUFFICES ASSUME NEW m \in Resource  PROVE InList(i, m)' <=> InList(i, m) \/ single[i] = m
      BY <1>2
    <3>1. CASE single[i] = 0
      BY <1>1, <2>2, <3>1 DEF InList
    <3>2. CASE single[i] # 0
      <4>1. PICK n \in Nat : n = Len(s)
        BY <2>2
      <4>2. /\ DOMAIN callbacks'[i] = 1..(n + 1) /\ callbacks'[i][n + 1] = single[i]
            /\ \A k \in 1..n : callbacks'[i][k] = callbacks[i][k]
            /\ DOMAIN callbacks[i] = 1..n
        BY <2>2, <3>2, <4>1
      <4>3. 1..(n + 1) = 1..n \cup {n + 1}
        BY <4>1
      <4> HIDE DEF s
      <4> QED BY <4>2, <4>3 DEF InList
    <3> QED BY <3>1, <3>2
  <2>4. \A m \in Resource : ~InField(i, m)'
    BY <1>1, <2>1 DEF InField
  <2>5. ASSUME NEW j \in Level, NEW m \in Resource, j # i
        PROVE  (InList(j, m)' <=> InList(j, m)) /\ (InField(j, m)' <=> InField(j, m))
    BY <1>1, <2>1, <2>5 DEF InList, InField
  <2>6. ASSUME NEW j \in Level, NEW m \in Resource
        PROVE  ~(InList(j, m) /\ InField(j, m))
    <3>1. InField(j, m) => registered[m].level = j
      BY DEF Placed, HomeInv, InField
    <3> QED BY <3>1 DEF Placed, PlaceInv, PlacedAt
  <2>7. ListsInv'
    <3> SUFFICES ASSUME NEW j \in Level, NEW k \in DOMAIN callbacks'[j], NEW l \in DOMAIN callbacks'[j],
                        callbacks'[j][k] = callbacks'[j][l]
                 PROVE  k = l
      BY DEF ListsInv
    <3>1. CASE j # i
      <4>1. callbacks'[j] = callbacks[j]
        BY <1>1, <2>1, <3>1
      <4> QED BY <4>1 DEF Placed, ListsInv
    <3>2. CASE j = i
      <4>1. \A q, r \in 1..Len(s) : s[q] = s[r] => q = r
        BY <2>2 DEF Placed, ListsInv
      <4>2. single[i] # 0 => \A q \in 1..Len(s) : s[q] # single[i]
        <5> SUFFICES ASSUME single[i] # 0  PROVE ~InList(i, single[i])
          BY <2>2 DEF InList
        <5>1. single[i] \in Resource /\ stage[i] # "single"
          BY <1>1 DEF Idle
        <5> QED BY <2>6, <5>1 DEF InField
      <4>3. CASE single[i] = 0
        BY <2>2, <3>2, <4>1, <4>3
      <4>4. CASE single[i] # 0
        <5>1. PICK n \in Nat : n = Len(s)
          BY <2>2
        <5>2. /\ DOMAIN callbacks'[i] = 1..(n + 1) /\ callbacks'[i][n + 1] = single[i]
              /\ \A q \in 1..n : callbacks'[i][q] = s[q]
          BY <2>2, <4>4, <5>1
        <5>3. 1..(n + 1) = 1..n \cup {n + 1}
          BY <5>1
        <5> HIDE DEF s
        <5> QED BY <3>2, <4>1, <4>2, <4>4, <5>1, <5>2, <5>3
      <4> QED BY <4>3, <4>4
    <3> QED BY <3>1, <3>2
  <2> HIDE DEF s
  <2>8. SingleInv' /\ \A j \in Level : single'[j] \in {0, single[j]}
    BY <1>1, <2>1 DEF Placed, SingleInv
  <2>9. \A j \in Level, m \in Resource :
           /\ InList(j, m)' \/ InField(j, m)' <=> InList(j, m) \/ InField(j, m)
           /\ ~(InList(j, m)' /\ InField(j, m)')
    BY <2>3, <2>4, <2>5, <2>6
  <2>10. Placed'
    BY <1>0, <2>1, <2>7, <2>8, <2>9, Moved
  <2> QED BY <1>1, <2>1, <2>4, <2>10
<1> QED BY <1>0, <1>3, <1>4, <1>5

-----------------------------------------------------------------------------
(* A step that changes only stages, none from or to "single".              *)
LEMMA StagesMove ==
    ASSUME TypeOK, Placed, registered' = registered, cleaned' = cleaned, callbacks' = callbacks,
           single' = single, \A j \in Level : stage'[j] = "single" <=> stage[j] = "single"
    PROVE  /\ Placed'
           /\ \A j \in Level, m \in Resource : /\ InList(j, m)' <=> InList(j, m)
                                               /\ InField(j, m)' <=> InField(j, m)
<1>1. \A j \in Level, m \in Resource : /\ InList(j, m)' <=> InList(j, m)
                                       /\ InField(j, m)' <=> InField(j, m)
  BY DEF InList, InField
<1>2. \A j \in Level, m \in Resource : ~(InList(j, m) /\ InField(j, m))
  <2> SUFFICES ASSUME NEW j \in Level, NEW m \in Resource, InField(j, m)  PROVE ~InList(j, m)
    OBVIOUS
  <2>1. registered[m].level = j
    BY DEF Placed, HomeInv, InField
  <2> QED BY <2>1 DEF Placed, PlaceInv, PlacedAt
<1>3. ListsInv' /\ SingleInv'
  BY DEF Placed, ListsInv, SingleInv
<1>4. \A j \in Level : single'[j] \in {0, single[j]}
  OBVIOUS
<1>5. \A j \in Level, m \in Resource :
         /\ InList(j, m)' \/ InField(j, m)' <=> InList(j, m) \/ InField(j, m)
         /\ ~(InList(j, m)' /\ InField(j, m)')
  BY <1>1, <1>2
<1>6. Placed'
  BY <1>3, <1>4, <1>5, Moved
<1> QED BY <1>1, <1>6

(* What is late stays so, and a list that is empty counts as one.          *)
LEMMA LateKept ==
    ASSUME LateInv, registered' = registered,
           \A j \in Level, m \in Resource :
               /\ stage'[j] \in Emptied /\ InList(j, m)' => stage[j] \in Emptied /\ InList(j, m)
               /\ stage'[j] \in Emptied \cup {"loop"} /\ InField(j, m)' =>
                      stage[j] \in Emptied \cup {"loop"} /\ InField(j, m)
    PROVE  LateInv'
<1>1. Resource' = Resource /\ \A m : Late(m)' <=> Late(m)
  BY DEF Resource, Late
<1> SUFFICES ASSUME NEW j \in Level, NEW m \in Resource
             PROVE  /\ stage'[j] \in Emptied /\ InList(j, m)' => Late(m)'
                    /\ stage'[j] \in Emptied \cup {"loop"} /\ InField(j, m)' => Late(m)'
  BY <1>1 DEF LateInv
<1>2. /\ stage[j] \in Emptied /\ InList(j, m) => Late(m)
      /\ stage[j] \in Emptied \cup {"loop"} /\ InField(j, m) => Late(m)
  BY DEF LateInv
<1> QED BY <1>1, <1>2

LEMMA BeginLate ==
    ASSUME TypeOK, Placed, LateInv, NEW i \in Level, NEW error \in BOOLEAN, BeginExit(i, error),
           stage[i] \in Idle
    PROVE  Placed' /\ LateInv'
<1>1. /\ Placed'
      /\ \A j \in Level : j # i =>
            stage'[j] = stage[j] /\ callbacks'[j] = callbacks[j] /\ single'[j] = single[j]
      /\ \A m \in Resource : ~InField(i, m)' /\ (stage'[i] # "loop" => ~InList(i, m)')
  BY BeginPlaced
<1>2. registered' = registered
  BY Begins
<1>3. ASSUME NEW j \in Level, NEW m \in Resource
      PROVE  /\ stage'[j] \in Emptied /\ InList(j, m)' => stage[j] \in Emptied /\ InList(j, m)
             /\ stage'[j] \in Emptied \cup {"loop"} /\ InField(j, m)' =>
                    stage[j] \in Emptied \cup {"loop"} /\ InField(j, m)
  <2>1. CASE j = i
    BY <1>1, <2>1 DEF Emptied
  <2>2. CASE j # i
    BY <1>1, <2>2 DEF InList, InField
  <2> QED BY <2>1, <2>2
<1>4. LateInv'
  BY <1>2, <1>3, LateKept
<1> QED BY <1>1, <1>4

(* The exit of a resolver ends or goes on to what it owns; those that      *)
(* called it may end with it.                                              *)
LEMMA StagesEnd ==
    ASSUME TypeOK, Placed, LateInv, NEW i \in Level,
           UNCHANGED <<registered, cleaned, callbacks>>,
           single' = IF stage[i] = "single" THEN [single EXCEPT ![i] = 0] ELSE single,
           \A j \in Level : j # i => stage'[j] = stage[j] \/ (stage[j] = "owned" /\ stage'[j] = "closed"),
           stage'[i] \in {"owned", "closed", "cut", "loop"},
           stage'[i] \in {"owned", "closed"} => stage[i] \in Emptied \/ callbacks[i] = <<>>,
           stage'[i] # "cut" => stage[i] \in Emptied \cup {"loop"}
    PROVE  Placed' /\ LateInv'
<1>0. single \in [Level -> {0} \cup Resource]
  BY DEF TypeOK
<1>1. callbacks[i] = <<>> => \A m : ~InList(i, m)
  BY DEF InList
<1>2. \A j \in Level : j # i => (stage'[j] = "single" <=> stage[j] = "single") /\ single'[j] = single[j]
  BY <1>0
<1>3. stage'[i] # "single" /\ single'[i] = IF stage[i] = "single" THEN 0 ELSE single[i]
  BY <1>0
<1>4. \A j \in Level, m \in Resource : /\ InList(j, m)' <=> InList(j, m)
                                       /\ InField(j, m)' <=> InField(j, m)
  <2> SUFFICES ASSUME NEW j \in Level, NEW m \in Resource
               PROVE  /\ InList(j, m)' <=> InList(j, m)
                      /\ InField(j, m)' <=> InField(j, m)
    OBVIOUS
  <2>1. m # 0
    BY NoZero
  <2>2. InList(j, m)' <=> InList(j, m)
    BY DEF InList
  <2>3. InField(j, m)' <=> InField(j, m)
    BY <1>2, <1>3, <2>1 DEF InField
  <2> QED BY <2>2, <2>3
<1>5. \A j \in Level, m \in Resource : ~(InList(j, m) /\ InField(j, m))
  <2> SUFFICES ASSUME NEW j \in Level, NEW m \in Resource, InField(j, m)  PROVE ~InList(j, m)
    OBVIOUS
  <2>1. registered[m].level = j
    BY DEF Placed, HomeInv, InField
  <2> QED BY <2>1 DEF Placed, PlaceInv, PlacedAt
<1>6. ListsInv' /\ SingleInv' /\ \A j \in Level : single'[j] \in {0, single[j]}
  BY <1>2, <1>3 DEF Placed, ListsInv, SingleInv
<1>7. \A j \in Level, m \in Resource :
         /\ InList(j, m)' \/ InField(j, m)' <=> InList(j, m) \/ InField(j, m)
         /\ ~(InList(j, m)' /\ InField(j, m)')
  BY <1>4, <1>5
<1>8. Placed'
  BY <1>6, <1>7, Moved
<1>9. ASSUME NEW j \in Level, NEW m \in Resource
      PROVE  /\ stage'[j] \in Emptied /\ InList(j, m)' => stage[j] \in Emptied /\ InList(j, m)
             /\ stage'[j] \in Emptied \cup {"loop"} /\ InField(j, m)' =>
                    stage[j] \in Emptied \cup {"loop"} /\ InField(j, m)
  <2>1. CASE j = i
    BY <1>1, <1>4, <2>1 DEF Emptied
  <2>2. CASE j # i
    BY <1>4, <2>2 DEF Emptied
  <2> QED BY <2>1, <2>2
<1>10. LateInv'
  BY <1>9, LateKept
<1> QED BY <1>8, <1>10

EndsOrCut(i, e) == Ends(i, e) \/ CutShort(i, e, "closed") \/ CutShort(i, e, "cut")

LEMMA EndStages ==
    ASSUME TypeOK, ChainInv, NEW i \in Level, NEW e, EndsOrCut(i, e), stage[i] \in Busy \/ i = Depth
    PROVE  /\ \A j \in Level : j # i => stage'[j] = stage[j] \/ (stage[j] = "owned" /\ stage'[j] = "closed")
           /\ stage'[i] \in {"owned", "closed", "cut"}
           /\ stage'[i] = "cut" => CutShort(i, e, "cut")
<1> USE BoundsAssumption DEF Level
<1>1. stage \in [Level -> StageName]
  BY DEF TypeOK, StageName
<1>2. CASE Ends(i, e)
  BY <1>1, <1>2 DEF Ends
<1>3. ASSUME NEW end \in {"closed", "cut"}, CutShort(i, e, end)
      PROVE  /\ \A j \in Level : j # i => stage'[j] = stage[j] \/ (stage[j] = "owned" /\ stage'[j] = "closed")
             /\ stage'[i] = end
  <2>1. stage' = [stage EXCEPT ![Depth] = "closed", ![i] = end]
    BY <1>3 DEF CutShort
  <2>2. i # Depth => i \in Above /\ stage[Depth] = "owned"
    <3>1. i # Depth => i \in Above
      BY DEF Above
    <3> QED BY <3>1 DEF ChainInv, Busy, Idle
  <2> QED BY <1>1, <2>1, <2>2
<1> QED BY <1>2, <1>3 DEF EndsOrCut

LEMMA CleanInitial == Init => Placed /\ LateInv
<1> SUFFICES ASSUME Init  PROVE Placed /\ LateInv
  OBVIOUS
<1>1. Resource = {} /\ cleaned = <<>> /\ \A i \in Level : callbacks[i] = <<>> /\ stage[i] = "open"
  BY DEF Init, Resource
<1> QED BY <1>1 DEF Placed, HomeInv, PlaceInv, ListsInv, CleanedOnce, SingleInv, LateInv

LEMMA CleanStep ==
    ASSUME TypeOK, ChainInv, Placed, LateInv, [Next]_vars
    PROVE  Placed' /\ LateInv'
<1> USE BoundsAssumption
<1>0. /\ single \in [Level -> {0} \cup Resource] /\ callbacks \in [Level -> Seq(Resource)]
      /\ stage \in [Level -> StageName] /\ Depth \in Level /\ closes \in Nat
  BY DEF TypeOK, StageName, Level
<1>1. ASSUME NEW i \in Level, NEW p \in Paths, Register(i, p) \/ RegisterLate(i, p)
      PROVE  Placed' /\ LateInv'
  <2>1. Keep(i, p)
    BY <1>1 DEF Register, RegisterLate
  <2>2. Placed' /\ \A j \in Level, m \in Resource : /\ InList(j, m)' <=> InList(j, m)
                                                    /\ InField(j, m)' <=> InField(j, m)
    BY <2>1, Kept
  <2>3. PICK n : n = Len(registered) + 1
    OBVIOUS
  <2>4. /\ Resource' = Resource \cup {n} /\ UNCHANGED exit /\ registered'[n] = Registered(i, p)
        /\ \A m \in Resource : registered'[m] = registered[m]
    BY <2>1, <2>3, KeepIs
  <2>5. (\A j \in Level : stage[j] = "open") \/ Late(n)'
    BY <1>0, <1>1, <2>4 DEF Register, RegisterLate, ChainInv, Late, Registered
  <2>6. stage' = stage /\ \A m \in Resource : Late(m)' <=> Late(m)
    BY <2>4 DEF exit, Late
  <2>7. LateInv'
    <3> SUFFICES ASSUME NEW j \in Level, NEW m \in Resource'
                 PROVE  /\ stage'[j] \in Emptied /\ InList(j, m)' => Late(m)'
                        /\ stage'[j] \in Emptied \cup {"loop"} /\ InField(j, m)' => Late(m)'
      BY DEF LateInv
    <3>1. CASE m = n
      BY <2>5, <2>6, <3>1 DEF Emptied
    <3>2. CASE m \in Resource
      <4>1. (InList(j, m)' <=> InList(j, m)) /\ (InField(j, m)' <=> InField(j, m))
        BY <2>2, <3>2
      <4>2. (Late(m)' <=> Late(m)) /\ stage'[j] = stage[j]
        BY <2>6, <3>2
      <4>3. /\ stage[j] \in Emptied /\ InList(j, m) => Late(m)
            /\ stage[j] \in Emptied \cup {"loop"} /\ InField(j, m) => Late(m)
        BY <3>2 DEF LateInv
      <4> QED BY <4>1, <4>2, <4>3
    <3> QED BY <2>4, <3>1, <3>2
  <2> QED BY <2>2, <2>7
<1>2. ASSUME NEW async \in BOOLEAN, NEW error \in BOOLEAN, Exit(async, error)
      PROVE  Placed' /\ LateInv'
  BY <1>0, <1>2, BeginLate DEF Exit, Idle
<1>3. ASSUME NEW i \in Level, PopCallback(i)
      PROVE  Placed' /\ LateInv'
  <2> DEFINE s == callbacks[i]
             rest == SubSeq(s, 1, Len(s) - 1)
  <2>1. PICK n : n = s[Len(s)]
    OBVIOUS
  <2>2. /\ stage[i] = "loop" /\ s # <<>> /\ Execute(n) /\ callbacks' = [callbacks EXCEPT ![i] = rest]
        /\ stage' = stage /\ single' = single /\ registered' = registered
    BY <1>3, <2>1 DEF PopCallback
  <2>3. /\ DOMAIN rest = 1..(Len(s) - 1) /\ \A k \in 1..(Len(s) - 1) : rest[k] = s[k]
        /\ Len(s) \in Nat \ {0} /\ DOMAIN s = 1..Len(s) /\ n \in Resource
    <3>1. s \in Seq(Resource)
      BY <1>0
    <3> HIDE DEF s
    <3> QED BY <2>1, <2>2, <3>1, Popped
  <2>4. callbacks'[i] = rest /\ \A j \in Level : j # i => callbacks'[j] = callbacks[j]
    BY <1>0, <2>2
  <2>5. \A k, l \in 1..Len(s) : s[k] = s[l] => k = l
    BY <2>3 DEF Placed, ListsInv
  <2>6. cleaned' = Append(cleaned, n)
    BY <2>2, <2>3, NoZero DEF Execute
  <2>7. InList(i, n) /\ registered[n].level = i /\ ~TakenUp(n)
    <3>1. InList(i, n)
      BY <2>1, <2>3 DEF InList
    <3> QED BY <2>3, <3>1 DEF Placed, HomeInv, PlaceInv, PlacedAt
  <2>8. \A m \in Resource : InList(i, m)' <=> InList(i, m) /\ m # n
    <3>1. PICK q \in Nat \ {0} : q = Len(s)
      BY <2>3
    <3>2. /\ DOMAIN callbacks'[i] = 1..(q - 1) /\ DOMAIN callbacks[i] = 1..q /\ callbacks[i][q] = n
          /\ \A k \in 1..(q - 1) : callbacks'[i][k] = callbacks[i][k]
          /\ \A k, l \in 1..q : callbacks[i][k] = callbacks[i][l] => k = l
      BY <2>1, <2>3, <2>4, <2>5, <3>1
    <3>3. \A k \in 1..q : k = q \/ k \in 1..(q - 1)
      OBVIOUS
    <3>4. \A k \in 1..(q - 1) : k # q /\ k \in 1..q
      OBVIOUS
    <3>5. q \in 1..q
      OBVIOUS
    <3> HIDE DEF s, rest
    <3> QED BY <3>2, <3>3, <3>4, <3>5 DEF InList
  <2>9. ASSUME NEW j \in Level, NEW m \in Resource
        PROVE  /\ InList(j, m)' <=> InList(j, m) /\ m # n
               /\ InField(j, m)' <=> InField(j, m) /\ m # n
    <3>1. InField(j, m)' <=> InField(j, m)
      BY <2>2 DEF InField
    <3>2. ~InField(j, n)
      <4> SUFFICES ASSUME InField(j, n)  PROVE FALSE
        OBVIOUS
      <4>1. j = i
        BY <2>3, <2>7 DEF Placed, HomeInv, InField
      <4> QED BY <2>3, <2>7, <4>1 DEF Placed, PlaceInv, PlacedAt
    <3>3. CASE j = i
      BY <2>8, <3>1, <3>2, <3>3
    <3>4. CASE j # i
      <4>1. InList(j, m)' <=> InList(j, m)
        BY <2>4, <3>4 DEF InList
      <4>2. ~InList(j, n)
        BY <2>3, <2>7, <3>4 DEF Placed, HomeInv
      <4> QED BY <3>1, <3>2, <4>1, <4>2
    <3> QED BY <3>3, <3>4
  <2>10. ListsInv'
    <3> SUFFICES ASSUME NEW j \in Level, NEW k \in DOMAIN callbacks'[j], NEW l \in DOMAIN callbacks'[j],
                        callbacks'[j][k] = callbacks'[j][l]
                 PROVE  k = l
      BY DEF ListsInv
    <3>1. CASE j = i
      <4>1. k \in 1..(Len(s) - 1) /\ l \in 1..(Len(s) - 1) /\ s[k] = s[l]
        BY <2>3, <2>4, <3>1
      <4>2. k \in 1..Len(s) /\ l \in 1..Len(s)
        BY <2>3, <4>1
      <4> QED BY <2>5, <4>1, <4>2
    <3>2. CASE j # i
      BY <2>4, <3>2 DEF Placed, ListsInv
    <3> QED BY <3>1, <3>2
  <2>11. SingleInv' /\ \A j \in Level : single'[j] \in {0, single[j]}
    BY <2>2 DEF Placed, SingleInv
  <2> HIDE DEF s, rest
  <2>12. Placed'
    BY <2>2, <2>3, <2>6, <2>7, <2>9, <2>10, <2>11, Took
  <2>13. ASSUME NEW j \in Level, NEW m \in Resource
        PROVE  /\ stage'[j] \in Emptied /\ InList(j, m)' => stage[j] \in Emptied /\ InList(j, m)
               /\ stage'[j] \in Emptied \cup {"loop"} /\ InField(j, m)' =>
                      stage[j] \in Emptied \cup {"loop"} /\ InField(j, m)
    BY <2>2, <2>9
  <2>14. LateInv'
    BY <2>2, <2>13, LateKept
  <2> QED BY <2>12, <2>14
<1>4. ASSUME NEW i \in Level, LoopEnds(i)
      PROVE  Placed' /\ LateInv'
  <2>1. /\ stage[i] = "loop" /\ callbacks[i] = <<>>
        /\ UNCHANGED <<registered, cleaned, callbacks, single>>
    BY <1>4 DEF LoopEnds, fields
  <2>2. /\ \A j \in Level : j # i => stage'[j] = stage[j] \/ (stage[j] = "owned" /\ stage'[j] = "closed")
        /\ stage'[i] \in {"owned", "closed", "cut"}
    <3>1. CASE HasOwned(i)
      BY <1>0, <1>4, <3>1 DEF LoopEnds
    <3>2. CASE ~HasOwned(i)
      <4>1. PICK e : e = cleanupError[i]
        OBVIOUS
      <4>2. EndExit(i, e)
        BY <1>4, <3>2, <4>1 DEF LoopEnds
      <4>3. EndsOrCut(i, e)
        BY <4>2, EndIs DEF EndsOrCut
      <4> QED BY <2>1, <4>3, EndStages DEF Busy
    <3> QED BY <3>1, <3>2
  <2> QED BY <2>1, <2>2, StagesEnd
<1>5. ASSUME NEW i \in Level, NEW outcome \in Outcome, CleanupEnds(i, outcome)
      PROVE  Placed' /\ LateInv'
  <2>0. PICK e : e = IF outcome = "returns" THEN 0 ELSE running
    OBVIOUS
  <2>1. CleanupIs(i, outcome, e)
    BY <1>5, <2>0, CleanupThen
  <2>2. /\ UNCHANGED <<registered, cleaned, callbacks>>
        /\ single' = IF stage[i] = "single" THEN [single EXCEPT ![i] = 0] ELSE single
    BY <2>1 DEF CleanupIs
  <2>3. CASE Caught(i, e)
    BY <2>2, <2>3, StagesEnd DEF Caught
  <2>4. CASE stage[i] = "loop" /\ CutShort(i, e, "cut")
    <3>1. stage'[i] = "cut"
      BY <1>0, <2>4 DEF CutShort
    <3>2. \A j \in Level : j # i => stage'[j] = stage[j] \/ (stage[j] = "owned" /\ stage'[j] = "closed")
      BY <2>4, EndStages DEF Busy, EndsOrCut
    <3> QED BY <2>2, <3>1, <3>2, StagesEnd
  <2>5. CASE stage[i] \in {"single", "callback"} /\ EndExit(i, e)
    <3>1. EndsOrCut(i, e)
      BY <2>5, EndIs DEF EndsOrCut
    <3>2. /\ \A j \in Level : j # i => stage'[j] = stage[j] \/ (stage[j] = "owned" /\ stage'[j] = "closed")
          /\ stage'[i] \in {"owned", "closed", "cut"}
      BY <2>5, <3>1, EndStages DEF Busy
    <3> QED BY <2>2, <2>5, <3>2, StagesEnd DEF Emptied
  <2> QED BY <2>1, <2>3, <2>4, <2>5 DEF CleanupIs
<1>6. CASE CloseOwned \/ CloseLeft
  <2>1. PICK i \in Level : ClosesAt(i)
    BY <1>6, ClosesIs
  <2>2. BeginExit(i, hasError) /\ hasError \in BOOLEAN /\ stage[i] \in Idle
    BY <2>1 DEF ClosesAt, OwnedTurn, Idle, TypeOK
  <2> QED BY <2>2, BeginLate
<1>7. CASE LoopGoesOn \/ OwnedEnd
  <2>1. stage[Depth] = "owned" /\ UNCHANGED <<registered, cleaned, callbacks, single>>
    BY <1>7 DEF LoopGoesOn, OwnedEnd, OwnedTurn, fields, history
  <2>2. /\ \A j \in Level : j # Depth => stage'[j] = stage[j] \/ (stage[j] = "owned" /\ stage'[j] = "closed")
        /\ stage'[Depth] \in {"loop", "owned", "closed", "cut"}
    <3>1. CASE LoopGoesOn
      BY <1>0, <3>1 DEF LoopGoesOn
    <3>2. CASE OwnedEnd
      <4>1. PICK e : e = cleanupError[Depth]
        OBVIOUS
      <4>2. EndExit(Depth, e)
        BY <3>2, <4>1 DEF OwnedEnd
      <4>3. EndsOrCut(Depth, e)
        BY <4>2, EndIs DEF EndsOrCut
      <4> QED BY <1>0, <4>3, EndStages
    <3> QED BY <1>7, <3>1, <3>2
  <2> QED BY <1>0, <2>1, <2>2, StagesEnd DEF Emptied
<1>8. CASE UNCHANGED vars
  <2>1. UNCHANGED <<registered, cleaned, callbacks, single, stage>>
    BY <1>8 DEF vars, fields, exit, history
  <2>2. /\ Placed'
        /\ \A j \in Level, m \in Resource : /\ InList(j, m)' <=> InList(j, m)
                                            /\ InField(j, m)' <=> InField(j, m)
    BY <2>1, StagesMove
  <2>3. ASSUME NEW j \in Level, NEW m \in Resource
        PROVE  /\ stage'[j] \in Emptied /\ InList(j, m)' => stage[j] \in Emptied /\ InList(j, m)
               /\ stage'[j] \in Emptied \cup {"loop"} /\ InField(j, m)' =>
                      stage[j] \in Emptied \cup {"loop"} /\ InField(j, m)
    BY <2>1, <2>2
  <2>4. LateInv'
    BY <2>1, <2>3, LateKept
  <2> QED BY <2>2, <2>4
<1> QED BY <1>1, <1>2, <1>3, <1>4, <1>5, <1>6, <1>7, <1>8 DEF Next, Done

(* compiler.py:2746-2880: no cleanup is executed a second time, however    *)
(* often the handle is closed, and whatever cleanups resolve meanwhile.    *)
THEOREM Once == Spec => []CleanedOnce
<1>1. Init => ChainInv /\ Placed /\ LateInv
  BY ChainInitial, CleanInitial
<1>2. TypeOK /\ ChainInv /\ Placed /\ LateInv /\ [Next]_vars => ChainInv' /\ Placed' /\ LateInv'
  BY ChainStep, CleanStep
<1>3. Placed => CleanedOnce
  BY DEF Placed
<1> QED BY <1>1, <1>2, <1>3, TypeCorrect, PTL DEF Spec

(* ... and none is skipped: when the exit has returned or raised, every    *)
(* cleanup of the chain had its turn, also after others failed, unless an  *)
(* interruption cut that exit short in the loop of a wrapper               *)
(* (open_generics.py:2246, 2268).                                          *)
THEOREM Taken == Spec => []EveryCleanupTaken
<1>1. Init => ChainInv /\ Placed /\ LateInv
  BY ChainInitial, CleanInitial
<1>2. TypeOK /\ ChainInv /\ Placed /\ LateInv /\ [Next]_vars => ChainInv' /\ Placed' /\ LateInv'
  BY ChainStep, CleanStep
<1>3. TypeOK /\ ChainInv /\ Placed /\ LateInv => EveryCleanupTaken
  <2> SUFFICES ASSUME TypeOK, ChainInv, Placed, LateInv, Closed, ~WasCut, NEW n \in Resource
               PROVE  Late(n) \/ TakenUp(n)
    BY DEF EveryCleanupTaken
  <2> DEFINE i == registered[n].level
  <2>1. i \in Level
    BY LevelTyped
  <2>2. TakenUp(n) \/ InList(i, n) \/ InField(i, n)
    BY DEF Placed, PlaceInv, PlacedAt
  <2>3. stage[i] = "closed"
    BY <2>1 DEF ChainInv
  <2> QED BY <2>1, <2>2, <2>3 DEF LateInv, Emptied
<1> QED BY <1>1, <1>2, <1>3, TypeCorrect, PTL DEF Spec
-----------------------------------------------------------------------------
(* The first failure of an exit stays the first.                           *)
LEMMA Fails ==
    ASSUME TypeOK, NEW r \in Resource, failures' = Append(failures, r), hasError' = hasError
    PROVE  FirstFailure' = IF hasError THEN 0 ELSE IF FirstFailure = 0 THEN r ELSE FirstFailure
<1>1. failures \in Seq(Resource) /\ 0 \notin Resource
  BY NoZero DEF TypeOK
<1>2. CASE failures = <<>>
  <2>1. failures' # <<>> /\ failures'[1] = r
    BY <1>2
  <2> QED BY <1>2, <2>1 DEF FirstFailure
<1>3. CASE failures # <<>>
  <2>1. failures' # <<>> /\ failures'[1] = failures[1] /\ failures[1] \in Resource
    BY <1>1, <1>3
  <2> QED BY <1>1, <1>3, <2>1 DEF FirstFailure
<1> QED BY <1>2, <1>3

LEMMA FailsIf ==
    ASSUME TypeOK, NEW e \in {0} \cup Resource, hasError' = hasError,
           failures' = IF e = 0 THEN failures ELSE Append(failures, e)
    PROVE  FirstFailure' = IF hasError THEN 0 ELSE IF FirstFailure = 0 THEN e ELSE FirstFailure
<1>1. CASE e = 0
  BY <1>1 DEF FirstFailure
<1>2. CASE e # 0
  BY <1>2, Fails
<1> QED BY <1>1, <1>2

LEMMA ErrorInitial == Init => ErrorInv
BY BoundsAssumption DEF Init, ErrorInv, Level, Closed

(* The exit of a resolver ends with the error e: an owned one hands it to  *)
(* its owner, the deepest one raises it or goes on to what it owns.        *)
LEMMA ErrorEnd ==
    ASSUME TypeOK, ChainInv, ErrorInv, NEW i \in Level, NEW e \in {0} \cup Resource,
           Ends(i, e), stage[i] \in Busy, UNCHANGED <<keeper, next, hasError, closes>>,
           i = Depth => e = FirstFailure', FirstError(Depth, e) = FirstFailure'
    PROVE  ErrorInv'
<1> USE BoundsAssumption DEF Level, Above
<1>1. /\ stage' = [stage EXCEPT ![i] = IF GoesOn(i) THEN "owned" ELSE "closed"]
      /\ raised' = IF GoesOn(i) THEN raised ELSE [raised EXCEPT ![i] = e]
      /\ cleanupError' = IF i = Depth /\ ~GoesOn(i) THEN cleanupError
                         ELSE [cleanupError EXCEPT ![Depth] = FirstError(Depth, e)]
      /\ cut' = cut
  BY DEF Ends
<1>2. /\ stage \in [Level -> StageName] /\ raised \in [Level -> {0} \cup Resource]
      /\ cleanupError \in [Level -> {0} \cup Resource] /\ Depth \in Level
  BY DEF TypeOK, StageName
<1>3. \A j \in Above : j # i => stage'[j] = stage[j] /\ stage[j] # "loop"
  <2> SUFFICES ASSUME NEW j \in Above, j # i
               PROVE  stage'[j] = stage[j] /\ stage[j] # "loop"
    OBVIOUS
  <2>1. CASE i = Depth
    BY <1>1, <1>2, <2>1 DEF ChainInv, Busy, Idle
  <2>2. CASE i # Depth
    <3>1. i \in Above
      BY <2>2
    <3> QED BY <1>1, <1>2, <3>1 DEF ChainInv, Busy, Idle
  <2> QED BY <2>1, <2>2
<1>4. \A j \in Above : stage'[j] # "loop"
  BY <1>1, <1>2, <1>3
<1>5. \A j \in Level : stage'[j] \in {"single", "callback"} => ~hasError'
  BY <1>1, <1>2 DEF ErrorInv
<1>w. ~WasCut'
  <2>1. ~Closed
    <3>1. i # Depth => i \in Above
      OBVIOUS
    <3> QED BY <3>1 DEF ChainInv, Busy, Idle, Closed
  <2> QED BY <1>1, <2>1 DEF ChainInv, WasCut
<1>6. CASE i = Depth
  <2>1. CASE GoesOn(i)
    <3>1. stage'[Depth] = "owned" /\ cleanupError'[Depth] = FirstError(Depth, e)
      BY <1>1, <1>2, <1>6, <2>1
    <3> QED BY <1>4, <1>5, <3>1 DEF ErrorInv, Closed
  <2>2. CASE ~GoesOn(i)
    <3>1. stage'[Depth] = "closed" /\ raised'[Depth] = e
      BY <1>1, <1>2, <1>6, <2>2
    <3> QED BY <1>5, <1>6, <1>w, <3>1 DEF ErrorInv
  <2> QED BY <2>1, <2>2
<1>7. CASE i # Depth
  <2>1. stage'[Depth] = stage[Depth] /\ stage[Depth] = "owned"
    <3>1. i \in Above
      BY <1>7
    <3> QED BY <1>1, <1>2, <1>7, <3>1 DEF ChainInv, Busy, Idle
  <2>2. cleanupError'[Depth] = FirstFailure'
    BY <1>1, <1>2, <1>7
  <2> QED BY <1>4, <1>5, <2>1, <2>2 DEF ErrorInv, Closed
<1> QED BY <1>6, <1>7

(* ... or an interruption cuts it short, and is what the handle raises.    *)
LEMMA ErrorCut ==
    ASSUME TypeOK, ChainInv, ErrorInv, NEW i \in Level, NEW e, NEW end \in {"closed", "cut"},
           CutShort(i, e, end), stage[i] \in Busy, e \in interrupts',
           UNCHANGED <<keeper, next, hasError, closes>>
    PROVE  ErrorInv'
<1>1. stage'[Depth] \in {"closed", "cut"} /\ WasCut' /\ raised'[Depth] = e
  BY ChainCut
<1>2. \A j \in Level : stage'[j] \in {"single", "callback"} => ~hasError'
  <2>1. stage' = [stage EXCEPT ![Depth] = "closed", ![i] = end] /\ stage \in [Level -> StageName]
    BY DEF CutShort, TypeOK, StageName
  <2>2. \A j \in Level : stage'[j] \in {"closed", "cut"} \/ stage'[j] = stage[j]
    BY <2>1
  <2> QED BY <2>2 DEF ErrorInv
<1> QED BY <1>1, <1>2 DEF ErrorInv

LEMMA ErrorStep ==
    ASSUME TypeOK, ChainInv, ErrorInv, [Next]_vars
    PROVE  ErrorInv'
<1> USE BoundsAssumption DEF Level, Above
<1>0. /\ stage \in [Level -> StageName] /\ Depth \in Level /\ next \in 0..(Depth - 1)
      /\ cleanupError \in [Level -> {0} \cup Resource] /\ running \in {0} \cup Resource
      /\ hasError \in BOOLEAN /\ interrupts \subseteq Resource /\ 0 \notin Resource
  BY NoZero DEF TypeOK, StageName
<1>1. ASSUME UNCHANGED <<stage, hasError, cleanupError, raised, failures, interrupts, closes, cut>>
      PROVE  ErrorInv'
  BY <1>1 DEF ErrorInv, FirstFailure, Closed, WasCut
<1>2. ASSUME NEW i \in Level, NEW p \in Paths, Register(i, p) \/ RegisterLate(i, p)
      PROVE  ErrorInv'
  BY <1>1, <1>2 DEF Register, RegisterLate, Keep, exit
<1>3. ASSUME NEW async \in BOOLEAN, NEW error \in BOOLEAN, Exit(async, error)
      PROVE  ErrorInv'
  <2>1. /\ stage[Depth] \in {"open", "closed", "cut"} /\ hasError' = error /\ failures' = <<>>
        /\ cleanupError' = None /\ BeginExit(Depth, error)
    BY <1>3 DEF Exit
  <2>2. ((BeginsDirect(Depth) \/ BeginsAlone(Depth)) /\ ~error) \/ BeginsLoop(Depth)
    BY <1>0, <2>1, Begins
  <2>3. /\ \A i \in Above : stage'[i] = stage[i] /\ stage[i] \in Idle
        /\ stage'[Depth] \in Busy /\ (stage'[Depth] \in {"single", "callback"} => ~error)
    BY <1>0, <2>1, <2>2 DEF BeginsDirect, BeginsAlone, BeginsLoop, Busy, ChainInv
  <2>4. cleanupError'[Depth] = 0 /\ FirstFailure' = 0
    BY <1>0, <2>1 DEF FirstFailure, None
  <2> QED BY <2>1, <2>3, <2>4 DEF ErrorInv, Busy, Idle, Closed
<1>4. ASSUME NEW i \in Level, PopCallback(i)
      PROVE  ErrorInv'
  BY <1>1, <1>4 DEF PopCallback
<1>5. ASSUME NEW i \in Level, LoopEnds(i)
      PROVE  ErrorInv'
  <2>1. stage[i] = "loop" /\ UNCHANGED <<keeper, next, hasError, closes, interrupts, failures>>
    BY <1>5 DEF LoopEnds
  <2>2. FirstFailure' = FirstFailure
    BY <2>1 DEF FirstFailure
  <2>3. i = Depth => cleanupError[Depth] = FirstFailure
    BY <2>1 DEF ErrorInv
  <2>4. CASE HasOwned(i)
    <3>1. i = Depth /\ stage' = [stage EXCEPT ![i] = "owned"] /\ UNCHANGED <<raised, cleanupError>>
      BY <1>5, <2>4 DEF LoopEnds, HasOwned, Chained
    <3>2. stage'[Depth] = "owned" /\ \A j \in Above : stage'[j] = stage[j] /\ stage[j] # "loop"
      BY <1>0, <2>1, <3>1 DEF ChainInv, Idle
    <3>3. \A j \in Level : stage'[j] \in {"single", "callback"} => ~hasError'
      BY <1>0, <2>1, <3>1 DEF ErrorInv
    <3> QED BY <2>2, <2>3, <3>1, <3>2, <3>3 DEF ErrorInv, Closed
  <2>5. CASE ~HasOwned(i)
    <3>0. PICK e \in {0} \cup Resource : e = cleanupError[i]
      BY <1>0
    <3>1. EndExit(i, e)
      BY <1>5, <2>5, <3>0 DEF LoopEnds
    <3>2. FirstError(Depth, e) = FirstFailure'
      <4>1. CASE i = Depth
        BY <2>2, <2>3, <3>0, <4>1 DEF FirstError
      <4>2. CASE i # Depth
        <5>1. i \in Above /\ stage[Depth] = "owned"
          BY <2>1, <4>2 DEF ChainInv, Idle
        <5>2. FirstFailure = IF cleanupError[Depth] = 0 THEN e ELSE cleanupError[Depth]
          BY <2>1, <3>0, <5>1 DEF ErrorInv
        <5> QED BY <2>2, <5>2 DEF FirstError, FirstFailure
      <4> QED BY <4>1, <4>2
    <3>3. CASE Ends(i, e)
      BY <2>1, <2>2, <2>3, <3>0, <3>2, <3>3, ErrorEnd DEF Busy
    <3>4. CASE CutShort(i, e, "closed") /\ e \in interrupts'
      BY <2>1, <3>4, ErrorCut DEF Busy
    <3> QED BY <3>1, <3>3, <3>4, EndIs
  <2> QED BY <2>4, <2>5
<1>6. ASSUME NEW i \in Level, NEW outcome \in Outcome, CleanupEnds(i, outcome)
      PROVE  ErrorInv'
  <2>0. PICK e : e = IF outcome = "returns" THEN 0 ELSE running
    OBVIOUS
  <2>i. CleanupIs(i, outcome, e) /\ e \in {0} \cup Resource
    BY <1>6, <2>0, CleanupThen
  <2>1. /\ failures' = IF e = 0 THEN failures ELSE Append(failures, e)
        /\ UNCHANGED <<keeper, next, hasError, closes>> /\ stage[i] \in Busy
    BY <2>i DEF CleanupIs, Busy, Caught
  <2>2. FirstFailure' = IF hasError THEN 0 ELSE IF FirstFailure = 0 THEN e ELSE FirstFailure
    BY <2>1, <2>i, FailsIf
  <2>3. hasError => FirstFailure = 0
    BY DEF FirstFailure
  <2>4. i # Depth => i \in Above /\ stage[Depth] = "owned"
    BY <2>1 DEF ChainInv, Busy, Idle
  <2>5. CASE Caught(i, e)
    <3>1. /\ cleanupError' = [cleanupError EXCEPT ![i] = FirstError(i, e)] /\ stage' = stage
          /\ stage[i] = "loop"
      BY <2>5 DEF Caught
    <3>2. \A j \in Level : stage'[j] \in {"single", "callback"} => ~hasError'
      BY <2>1, <3>1 DEF ErrorInv
    <3>3. CASE i = Depth
      <4>1. cleanupError[Depth] = FirstFailure /\ cleanupError'[Depth] = FirstError(Depth, e)
        BY <1>0, <3>1, <3>3 DEF ErrorInv
      <4>2. cleanupError'[Depth] = FirstFailure'
        BY <2>2, <2>3, <4>1 DEF FirstError
      <4> QED BY <3>1, <3>2, <3>3, <4>2 DEF ErrorInv, Closed
    <3>4. CASE i # Depth
      <4>1. /\ cleanupError'[Depth] = cleanupError[Depth] /\ cleanupError'[i] = FirstError(i, e)
            /\ stage'[Depth] = "owned"
        BY <1>0, <2>4, <3>1, <3>4
      <4>2. FirstFailure = IF cleanupError[Depth] = 0 THEN cleanupError[i] ELSE cleanupError[Depth]
        BY <2>4, <3>1, <3>4 DEF ErrorInv
      <4>3. FirstFailure' = IF cleanupError'[Depth] = 0 THEN cleanupError'[i] ELSE cleanupError'[Depth]
        BY <2>2, <2>3, <4>1, <4>2 DEF FirstError
      <4>4. \A j \in Above : stage'[j] = "loop" => j = i
        BY <2>4, <3>1, <3>4 DEF ChainInv, Idle
      <4>5. ~\A j \in Above : stage'[j] # "loop"
        BY <2>4, <3>1, <3>4
      <4> QED BY <3>2, <4>1, <4>3, <4>4, <4>5 DEF ErrorInv, Closed
    <3> QED BY <3>3, <3>4
  <2>6. CASE stage[i] = "loop" /\ outcome = "interrupted" /\ CutShort(i, e, "cut")
    <3>1. e \in interrupts'
      BY <2>6, <2>i DEF CleanupIs
    <3> QED BY <2>1, <2>6, <3>1, ErrorCut
  <2>7. CASE stage[i] \in {"single", "callback"} /\ EndExit(i, e)
    <3>1. ~hasError
      BY <2>7 DEF ErrorInv
    <3>2. FirstFailure = cleanupError[Depth]
      <4>1. CASE i = Depth
        BY <2>7, <4>1 DEF ErrorInv, FirstFailure
      <4>2. CASE i # Depth
        <5>1. \A j \in Above : stage[j] # "loop"
          BY <2>4, <2>7, <4>2 DEF ChainInv, Idle
        <5> QED BY <2>4, <4>2, <5>1 DEF ErrorInv
      <4> QED BY <4>1, <4>2
    <3>3. (i = Depth => e = FirstFailure') /\ FirstError(Depth, e) = FirstFailure'
      <4>1. i = Depth => cleanupError[Depth] = 0
        BY <2>7 DEF ErrorInv
      <4> QED BY <2>2, <3>1, <3>2, <4>1 DEF FirstError
    <3>4. CASE Ends(i, e)
      BY <2>1, <2>i, <3>3, <3>4, ErrorEnd
    <3>5. CASE CutShort(i, e, "closed") /\ e \in interrupts'
      BY <2>1, <3>5, ErrorCut
    <3> QED BY <2>7, <3>4, <3>5, EndIs
  <2> QED BY <2>i, <2>5, <2>6, <2>7 DEF CleanupIs
<1>7. CASE CloseOwned \/ CloseLeft
  <2>1. PICK n \in Level : ClosesAt(n)
    BY <1>7, ClosesIs
  <2>2. /\ OwnedTurn /\ n \in Above /\ BeginExit(n, hasError)
        /\ cleanupError' = [cleanupError EXCEPT ![n] = 0]
        /\ UNCHANGED <<hasError, raised, failures>>
    BY <2>1 DEF ClosesAt
  <2>3. ((BeginsDirect(n) \/ BeginsAlone(n)) /\ ~hasError) \/ BeginsLoop(n)
    BY <1>0, <2>2, Begins
  <2>4. /\ \A j \in Level : j # n => stage'[j] = stage[j]
        /\ stage'[n] \in Busy /\ (stage'[n] \in {"single", "callback"} => ~hasError)
    BY <1>0, <2>2, <2>3 DEF BeginsDirect, BeginsAlone, BeginsLoop, Busy
  <2>5. stage[Depth] = "owned" /\ \A j \in Above : stage[j] # "loop"
    BY <2>2 DEF OwnedTurn
  <2>6. cleanupError[Depth] = FirstFailure
    BY <2>5 DEF ErrorInv
  <2>7. /\ stage'[Depth] = "owned" /\ cleanupError'[Depth] = cleanupError[Depth]
        /\ cleanupError'[n] = 0
    BY <1>0, <2>2, <2>4, <2>5
  <2>8. \A j \in Above : stage'[j] = "loop" => j = n
    BY <2>4, <2>5
  <2>9. FirstFailure' = FirstFailure
    BY <2>2 DEF FirstFailure
  <2>10. \A j \in Level : stage'[j] \in {"single", "callback"} => ~hasError'
    BY <2>2, <2>4 DEF ErrorInv
  <2> QED BY <2>6, <2>7, <2>8, <2>9, <2>10 DEF ErrorInv, Closed
<1>8. CASE LoopGoesOn \/ OwnedEnd
  <2>1. OwnedTurn /\ UNCHANGED <<keeper, next, hasError, closes, failures, interrupts>>
    BY <1>8 DEF LoopGoesOn, OwnedEnd, history
  <2>2. FirstFailure' = FirstFailure
    BY <2>1 DEF FirstFailure
  <2>3. cleanupError[Depth] = FirstFailure
    BY <2>1 DEF ErrorInv, OwnedTurn
  <2>4. CASE LoopGoesOn
    <3>1. stage' = [stage EXCEPT ![Depth] = "loop"] /\ cleanupError' = cleanupError
      BY <2>4 DEF LoopGoesOn
    <3>2. stage'[Depth] = "loop" /\ \A j \in Level : stage'[j] \in {"single", "callback"} => ~hasError'
      BY <1>0, <2>1, <3>1 DEF ErrorInv
    <3> QED BY <2>2, <2>3, <3>1, <3>2 DEF ErrorInv, Closed
  <2>5. CASE OwnedEnd
    <3>0. PICK e : e = cleanupError[Depth]
      OBVIOUS
    <3>1. EndExit(Depth, e) /\ ~GoesOn(Depth)
      BY <2>1, <2>5, <3>0 DEF OwnedEnd, GoesOn, OwnedTurn
    <3>2. /\ stage' = [stage EXCEPT ![Depth] = "closed"]
          /\ raised' = [raised EXCEPT ![Depth] = e] /\ cut' = cut
      BY <3>1, EndIs DEF Ends
    <3>3. /\ stage'[Depth] = "closed" /\ raised'[Depth] = e
          /\ \A j \in Level : stage'[j] \in {"single", "callback"} => ~hasError'
      BY <1>0, <2>1, <3>2 DEF ErrorInv, TypeOK
    <3>4. ~WasCut'
      BY <2>1, <3>2 DEF ChainInv, OwnedTurn, Closed, WasCut
    <3> QED BY <2>2, <2>3, <3>0, <3>3, <3>4 DEF ErrorInv
  <2> QED BY <1>8, <2>4, <2>5
<1>9. CASE UNCHANGED vars
  BY <1>1, <1>9 DEF vars, exit, history
<1> QED BY <1>2, <1>3, <1>4, <1>5, <1>6, <1>7, <1>8, <1>9 DEF Next, Done

(* ... and what the exit raises is the first error of the chain, unless    *)
(* the body's own error goes on, or the interruption that cut it short.    *)
THEOREM FirstRaised == Spec => []FirstErrorRaised
<1>1. Init => TypeOK /\ ChainInv /\ ErrorInv
  BY TypeInitial, ChainInitial, ErrorInitial
<1>2. TypeOK /\ ChainInv /\ ErrorInv /\ [Next]_vars => TypeOK' /\ ChainInv' /\ ErrorInv'
  BY TypeStep, ChainStep, ErrorStep
<1>3. ErrorInv => FirstErrorRaised
  BY DEF ErrorInv, FirstErrorRaised, FirstFailure
<1> QED BY <1>1, <1>2, <1>3, PTL DEF Spec
-----------------------------------------------------------------------------
(* The order.  In the regular part of a list a later resource comes after  *)
(* an earlier one, and one that was kept in the field after all of them.   *)
SortedInv ==
    \A i \in Level : \A j, k \in DOMAIN callbacks[i] :
        LET m == callbacks[i][j]
            n == callbacks[i][k]
        IN  j < k /\ ~Late(m) /\ ~Late(n) => ~registered[m].inField /\ (registered[n].inField \/ m < n)
FieldInv ==
    /\ \A i \in Level : single[i] # 0 => registered[single[i]].inField
    /\ \A i \in Level, n \in Resource :
           InList(i, n) /\ stage[i] = "open" => Late(n) \/ ~registered[n].inField
    /\ closes = 0 => cleaned = <<>>
    /\ (\E i \in Level : stage[i] = "cut") => keeper = "wrapper"
    /\ keeper = "wrapper" => \A i \in Level : single[i] = 0
Sorted == SortedInv /\ FieldInv

\* n has to be cleaned up before m.
First(n, m) ==
    /\ ~Late(m) /\ ~Late(n)
    /\ \/ SameResolver(m, n) /\ m < n /\ ~registered[m].inField
       \/ registered[m].level < registered[n].level /\ cut = 0
OrderInv == \A m, n \in Resource : First(n, m) => After(m, n)

(* What is taken up next leaves nothing behind that has to be first.       *)
LEMMA NothingBehind ==
    ASSUME TypeOK, Placed, LateInv, Sorted, NEW i \in Level, NEW m \in Resource,
           NEW n \in Resource, First(n, m), registered[m].level = i,
           cut = 0 => \A j \in Level : i < j => stage[j] \in Emptied,
           \/ stage[i] = "loop" /\ callbacks[i] # <<>> /\ m = callbacks[i][Len(callbacks[i])]
           \/ m = single[i]
           \/ single[i] = 0 /\ Len(callbacks[i]) = 1 /\ m = callbacks[i][1]
    PROVE  TakenUp(n)
<1> SUFFICES ASSUME ~TakenUp(n)  PROVE FALSE
  OBVIOUS
<1>1. PICK j \in Level : j = registered[n].level
  BY LevelTyped
<1>2. InList(j, n) \/ InField(j, n)
  BY <1>1 DEF Placed, PlaceInv, PlacedAt
<1>3. ~Late(m) /\ ~Late(n) /\ m # 0 /\ n # 0 /\ m \in Nat /\ n \in Nat
  BY NoZero DEF First
<1>4. CASE i < j
  <2>1. cut = 0
    <3>1. registered[m].level # registered[n].level
      BY <1>1, <1>4, BoundsAssumption DEF Level
    <3> QED BY <3>1 DEF First, SameResolver
  <2> QED BY <1>1, <1>2, <1>3, <1>4, <2>1 DEF LateInv
<1>5. CASE ~(i < j)
  <2>1. j = i /\ m < n /\ ~registered[m].inField
    BY <1>1, <1>5 DEF First, SameResolver
  <2>2. callbacks[i] \in Seq(Resource)
    BY DEF TypeOK
  <2>3. CASE m = single[i]
    BY <1>3, <2>1, <2>3 DEF Sorted, FieldInv
  <2>4. CASE single[i] = 0 /\ Len(callbacks[i]) = 1 /\ m = callbacks[i][1]
    <3>1. ~InField(i, n)
      BY <1>3, <2>4 DEF InField
    <3>2. InList(i, n) => n = m
      BY <2>2, <2>4 DEF InList
    <3> QED BY <1>2, <1>3, <2>1, <3>1, <3>2
  <2>5. CASE stage[i] = "loop" /\ callbacks[i] # <<>> /\ m = callbacks[i][Len(callbacks[i])]
    <3>1. ~InField(i, n)
      BY <1>3, <2>5 DEF LateInv
    <3>2. PICK k \in DOMAIN callbacks[i] : callbacks[i][k] = n
      BY <1>2, <2>1, <3>1 DEF InList
    <3>3. PICK l : l = Len(callbacks[i])
      OBVIOUS
    <3>4. l \in Nat \ {0} /\ DOMAIN callbacks[i] = 1..l /\ callbacks[i][l] = m
      BY <2>2, <2>5, <3>3
    <3>5. k # l
      BY <1>3, <2>1, <3>2, <3>4
    <3>6. k < l /\ l \in DOMAIN callbacks[i]
      BY <3>4, <3>5
    <3>7. registered[m].inField \/ n < m
      BY <1>3, <3>2, <3>4, <3>6 DEF Sorted, SortedInv
    <3> QED BY <1>3, <2>1, <3>7
  <2> QED BY <2>3, <2>4, <2>5
<1> QED BY <1>4, <1>5

LEMMA OrderKept ==
    ASSUME TypeOK, OrderInv, registered' = registered, NEW m \in Resource,
           cleaned' = Append(cleaned, m), cut' = 0 => cut = 0,
           \A n \in Resource : First(n, m) => TakenUp(n)
    PROVE  OrderInv'
<1>1. /\ cleaned \in Seq(Resource) /\ DOMAIN cleaned' = 1..(Len(cleaned) + 1) /\ Len(cleaned) \in Nat
      /\ DOMAIN cleaned = 1..Len(cleaned) /\ cleaned'[Len(cleaned) + 1] = m
      /\ \A k \in 1..Len(cleaned) : cleaned'[k] = cleaned[k]
  BY Appended DEF TypeOK
<1>2. Resource' = Resource /\ \A a, n : First(n, a)' => First(n, a)
  BY DEF Resource, First, Late, SameResolver
<1> SUFFICES ASSUME NEW a \in Resource, NEW n \in Resource, First(n, a),
                    NEW k \in 1..(Len(cleaned) + 1), cleaned'[k] = a
             PROVE  \E j \in 1..(k - 1) : cleaned'[j] = n
  BY <1>1, <1>2 DEF OrderInv, After
<1>3. CASE k \in 1..Len(cleaned)
  <2>1. PICK j \in 1..(k - 1) : cleaned[j] = n
    BY <1>1, <1>3 DEF OrderInv, After
  <2> QED BY <1>1, <1>3, <2>1
<1>4. CASE k = Len(cleaned) + 1
  <2>1. PICK j \in 1..Len(cleaned) : cleaned[j] = n
    BY <1>1, <1>4 DEF TakenUp
  <2> QED BY <1>1, <1>4, <2>1
<1> QED BY <1>1, <1>3, <1>4

LEMMA OrderSame ==
    ASSUME OrderInv, registered' = registered, cleaned' = cleaned, cut' = 0 => cut = 0
    PROVE  OrderInv'
BY DEF OrderInv, Resource, First, Late, SameResolver, After

(* A list that only loses its end, or all it has, stays sorted.            *)
LEMMA SortedKept ==
    ASSUME Sorted, registered' = registered,
           \A i \in Level : \A k \in DOMAIN callbacks'[i] :
               k \in DOMAIN callbacks[i] /\ callbacks'[i][k] = callbacks[i][k],
           \A i \in Level : single'[i] \in {0, single[i]},
           \A i \in Level : stage'[i] = "open" => stage[i] = "open",
           keeper' = keeper, \A i \in Level : stage'[i] = "cut" => stage[i] = "cut" \/ keeper = "wrapper",
           closes' = 0 => closes = 0 /\ cleaned' = cleaned
    PROVE  Sorted'
<1>1. Resource' = Resource /\ \A m : Late(m)' <=> Late(m)
  BY DEF Resource, Late
<1>2. SortedInv'
  BY <1>1 DEF Sorted, SortedInv
<1>3. FieldInv'
  <2>1. \A i \in Level, m \in Resource : InList(i, m)' => InList(i, m)
    BY DEF InList
  <2>2. ASSUME NEW i \in Level, NEW n \in Resource', InList(i, n)', stage'[i] = "open"
        PROVE  Late(n)' \/ ~registered'[n].inField
    BY <1>1, <2>1, <2>2 DEF Sorted, FieldInv
  <2>3. \A i \in Level : single'[i] # 0 => registered'[single'[i]].inField
    BY DEF Sorted, FieldInv
  <2>4. closes' = 0 => cleaned' = <<>>
    BY DEF Sorted, FieldInv
  <2>5. (\E i \in Level : stage'[i] = "cut") => keeper' = "wrapper"
    BY DEF Sorted, FieldInv
  <2>6. keeper' = "wrapper" => \A i \in Level : single'[i] = 0
    BY DEF Sorted, FieldInv
  <2> QED BY <2>2, <2>3, <2>4, <2>5, <2>6 DEF FieldInv
<1> QED BY <1>2, <1>3 DEF Sorted

LEMMA KeepSorted ==
    ASSUME TypeOK, ChainInv, Sorted, OrderInv, NEW i \in Level, NEW p \in Paths, Keep(i, p)
    PROVE  Sorted' /\ OrderInv'
<1>0. PICK n : n = Len(registered) + 1
  OBVIOUS
<1>1. /\ \/ /\ single[i] = 0 /\ callbacks[i] = <<>>
            /\ single' = [single EXCEPT ![i] = n] /\ callbacks' = callbacks
         \/ /\ callbacks' = [callbacks EXCEPT ![i] = Append(@, n)] /\ single' = single
      /\ UNCHANGED <<keeper, exit, cleaned, failures, cut>>
      /\ n \in Nat \ {0} /\ n \notin Resource /\ Resource' = Resource \cup {n}
      /\ \A m \in Resource : registered'[m] = registered[m]
      /\ registered'[n] = Registered(i, p)
  BY <1>0, KeepIs
<1>2. stage' = stage /\ closes' = closes /\ cleaned' = cleaned /\ cut' = cut /\ keeper' = keeper
  BY <1>1 DEF exit
<1>3. /\ single \in [Level -> {0} \cup Resource] /\ callbacks \in [Level -> Seq(Resource)]
      /\ cleaned \in Seq(Resource) /\ closes \in Nat
      /\ \A m \in Resource : m \in Nat /\ m < n
  <2>1. \A m \in Resource : m \in Nat /\ m < n
    BY <1>0, NoZero
  <2> QED BY <2>1 DEF TypeOK
<1>4. /\ \A m \in Resource : Late(m)' <=> Late(m)
      /\ Late(n)' <=> closes # 0
  BY <1>1, <1>3 DEF Late, Registered
<1>5. registered'[n].inField <=> p = "field" /\ single[i] = 0 /\ callbacks[i] = <<>>
  <2>1. Registered(i, p).inField = (p = "field" /\ single[i] = 0 /\ callbacks[i] = <<>>)
    BY DEF Registered
  <2> QED BY <1>1, <2>1
<1>6. OrderInv'
  <2> SUFFICES ASSUME NEW a \in Resource', NEW b \in Resource', First(b, a)'
               PROVE  After(a, b)'
    BY DEF OrderInv
  <2>1. CASE a = n \/ b = n
    <3>1. closes = 0
      BY <1>4, <2>1 DEF First
    <3>2. cleaned' = <<>>
      BY <1>2, <3>1 DEF Sorted, FieldInv
    <3> QED BY <3>2 DEF After
  <2>2. CASE a # n /\ b # n
    <3>1. a \in Resource /\ b \in Resource
      BY <1>1, <2>2
    <3>2. First(b, a)
      BY <1>1, <1>4, <3>1 DEF First, SameResolver
    <3> QED BY <1>2, <3>1, <3>2 DEF OrderInv, After
  <2> QED BY <2>1, <2>2
<1>7. CASE /\ single[i] = 0 /\ callbacks[i] = <<>> /\ p = "field"
           /\ single' = [single EXCEPT ![i] = n] /\ callbacks' = callbacks
  <2>1. \A j \in Level : \A k \in DOMAIN callbacks[j] : callbacks[j][k] \in Resource
    BY <1>3
  <2>2. SortedInv'
    BY <1>1, <1>4, <1>7, <2>1 DEF Sorted, SortedInv
  <2>3. FieldInv'
    <3>1. \A j \in Level : single'[j] # 0 => registered'[single'[j]].inField
      BY <1>1, <1>3, <1>5, <1>7 DEF Sorted, FieldInv
    <3>2. ASSUME NEW j \in Level, NEW m \in Resource', InList(j, m)', stage'[j] = "open"
          PROVE  Late(m)' \/ ~registered'[m].inField
      <4>1. InList(j, m) /\ m \in Resource
        BY <1>7, <2>1, <3>2 DEF InList
      <4> QED BY <1>1, <1>2, <1>4, <3>2, <4>1 DEF Sorted, FieldInv
    <3>3. keeper # "wrapper"
      BY <1>7 DEF Keep
    <3> QED BY <1>2, <3>1, <3>2, <3>3 DEF Sorted, FieldInv
  <2> QED BY <1>6, <2>2, <2>3 DEF Sorted
<1>8. CASE /\ callbacks' = [callbacks EXCEPT ![i] = Append(@, n)] /\ single' = single
           /\ ~(p = "field" /\ single[i] = 0 /\ callbacks[i] = <<>>)
  <2>0. PICK l : l = Len(callbacks[i])
    OBVIOUS
  <2>1. /\ \A j \in Level : j # i => callbacks'[j] = callbacks[j]
        /\ l \in Nat /\ DOMAIN callbacks[i] = 1..l /\ DOMAIN callbacks'[i] = 1..(l + 1)
        /\ callbacks'[i][l + 1] = n /\ \A k \in 1..l : callbacks'[i][k] = callbacks[i][k]
    <3>1. callbacks'[i] = Append(callbacks[i], n) /\ \A j \in Level : j # i => callbacks'[j] = callbacks[j]
      BY <1>3, <1>8
    <3>2. callbacks[i] \in Seq(Resource') /\ n \in Resource'
      <4>1. Resource \subseteq Resource' /\ n \in Resource'
        BY <1>1
      <4> QED BY <1>3, <4>1, MoreIn
    <3> QED BY <2>0, <3>1, <3>2, Appended
  <2>2. \A j \in Level : \A k \in DOMAIN callbacks[j] : callbacks[j][k] \in Resource
    BY <1>3
  <2>3. closes = 0 => stage[i] = "open"
    BY DEF ChainInv
  <2>4. SortedInv'
    <3> SUFFICES ASSUME NEW q \in Level, NEW j \in DOMAIN callbacks'[q], NEW k \in DOMAIN callbacks'[q],
                        NEW a, NEW b, a = callbacks'[q][j], b = callbacks'[q][k],
                        j < k, ~Late(a)', ~Late(b)'
                 PROVE  ~registered'[a].inField /\ (registered'[b].inField \/ a < b)
      BY DEF SortedInv
    <3>1. CASE q # i \/ k # l + 1
      <4>1. j \in DOMAIN callbacks[q] /\ k \in DOMAIN callbacks[q] /\ a = callbacks[q][j] /\ b = callbacks[q][k]
        <5>1. CASE q # i
          <6>1. callbacks'[q] = callbacks[q]
            BY <2>1, <5>1
          <6> QED BY <6>1
        <5>2. CASE q = i
          <6>1. k \in 1..l /\ j \in 1..l
            BY <2>1, <3>1, <5>2
          <6> QED BY <2>1, <5>2, <6>1
        <5> QED BY <5>1, <5>2
      <4>2. a \in Resource /\ b \in Resource
        BY <2>2, <4>1
      <4> QED BY <1>1, <1>4, <4>1, <4>2 DEF Sorted, SortedInv
    <3>2. CASE q = i /\ k = l + 1
      <4>1. j \in DOMAIN callbacks[i] /\ a = callbacks[i][j] /\ b = n
        BY <2>1, <3>2
      <4>2. a \in Resource /\ InList(i, a) /\ stage[i] = "open"
        BY <1>4, <2>2, <2>3, <4>1 DEF InList
      <4>3. ~Late(a) /\ ~registered[a].inField
        BY <1>4, <4>2 DEF Sorted, FieldInv
      <4> QED BY <1>1, <1>3, <4>1, <4>2, <4>3
    <3> QED BY <3>1, <3>2
  <2>5. FieldInv'
    <3>1. \A j \in Level : single'[j] # 0 => registered'[single'[j]].inField
      BY <1>1, <1>3, <1>8 DEF Sorted, FieldInv
    <3>2. ASSUME NEW j \in Level, NEW m \in Resource', InList(j, m)', stage'[j] = "open"
          PROVE  Late(m)' \/ ~registered'[m].inField
      <4>1. CASE m = n
        BY <1>5, <1>8, <4>1
      <4>2. CASE m # n
        <5>1. InList(j, m) /\ m \in Resource
          BY <1>1, <2>1, <3>2, <4>2 DEF InList
        <5> QED BY <1>1, <1>2, <1>4, <3>2, <5>1 DEF Sorted, FieldInv
      <4> QED BY <4>1, <4>2
    <3>3. \A j \in Level : stage'[j] = stage[j] /\ single'[j] = single[j]
      BY <1>2, <1>8
    <3> QED BY <1>2, <3>1, <3>2, <3>3 DEF Sorted, FieldInv
  <2> QED BY <1>6, <2>4, <2>5 DEF Sorted
<1>9. \/ /\ single[i] = 0 /\ callbacks[i] = <<>> /\ p = "field"
         /\ single' = [single EXCEPT ![i] = n] /\ callbacks' = callbacks
      \/ /\ callbacks' = [callbacks EXCEPT ![i] = Append(@, n)] /\ single' = single
         /\ ~(p = "field" /\ single[i] = 0 /\ callbacks[i] = <<>>)
  BY <1>0 DEF Keep
<1> QED BY <1>7, <1>8, <1>9

(* An exit begins, and all deeper ones have emptied their lists.           *)
LEMMA BeginSorted ==
    ASSUME TypeOK, Placed, LateInv, Sorted, OrderInv, NEW i \in Level, NEW error \in BOOLEAN,
           BeginExit(i, error), stage[i] \in Idle, closes' # 0, cut' = cut,
           cut = 0 => \A j \in Level : i < j => stage[j] \in Emptied
    PROVE  Sorted' /\ OrderInv'
<1>0. BeginsDirect(i) \/ BeginsAlone(i) \/ BeginsLoop(i)
  BY Begins
<1>1. /\ single \in [Level -> {0} \cup Resource] /\ callbacks \in [Level -> Seq(Resource)]
      /\ stage \in [Level -> StageName] /\ registered' = registered /\ keeper' = keeper
  BY Begins DEF TypeOK, StageName
<1>2. CASE BeginsDirect(i)
  <2>0. PICK n : n = single[i]
    OBVIOUS
  <2>1. /\ n \in Resource /\ stage' = [stage EXCEPT ![i] = "single"] /\ single' = single
        /\ callbacks' = callbacks /\ cleaned' = Append(cleaned, n)
    BY <1>1, <1>2, <2>0 DEF BeginsDirect
  <2>2. registered[n].level = i
    BY <2>0, <2>1 DEF Placed, HomeInv
  <2>3. Sorted'
    BY <1>1, <2>1, SortedKept
  <2>4. \A m \in Resource : First(m, n) => TakenUp(m)
    BY <2>0, <2>1, <2>2, NothingBehind
  <2> QED BY <1>1, <2>1, <2>3, <2>4, OrderKept
<1>3. CASE BeginsAlone(i)
  <2>0. PICK n : n = callbacks[i][1]
    OBVIOUS
  <2>1. /\ stage' = [stage EXCEPT ![i] = "callback"] /\ single[i] = 0 /\ Len(callbacks[i]) = 1
        /\ single' = [single EXCEPT ![i] = 0] /\ callbacks' = [callbacks EXCEPT ![i] = <<>>]
        /\ cleaned' = Append(cleaned, n)
    BY <1>3, <2>0 DEF BeginsAlone
  <2>2. n \in Resource /\ InList(i, n)
    <3>1. callbacks[i] \in Seq(Resource) /\ DOMAIN callbacks[i] = {1}
      BY <1>1, <2>1
    <3> QED BY <2>0, <3>1 DEF InList
  <2>3. registered[n].level = i
    BY <2>2 DEF Placed, HomeInv
  <2>4. \A j \in Level : \A k \in DOMAIN callbacks'[j] :
           k \in DOMAIN callbacks[j] /\ callbacks'[j][k] = callbacks[j][k]
    BY <1>1, <2>1
  <2>5. Sorted'
    BY <1>1, <2>1, <2>4, SortedKept
  <2>6. \A m \in Resource : First(m, n) => TakenUp(m)
    BY <2>0, <2>1, <2>2, <2>3, NothingBehind
  <2> QED BY <1>1, <2>1, <2>2, <2>5, <2>6, OrderKept
<1>4. CASE BeginsLoop(i)
  <2>1. /\ stage' = [stage EXCEPT ![i] = "loop"] /\ single' = [single EXCEPT ![i] = 0]
        /\ callbacks' = [callbacks EXCEPT ![i] = Pending(i)] /\ cleaned' = cleaned
    BY <1>4 DEF BeginsLoop
  <2>2. PICK l : l = Len(callbacks[i])
    OBVIOUS
  <2>3. /\ callbacks'[i] = Pending(i) /\ l \in Nat /\ DOMAIN callbacks[i] = 1..l
        /\ \/ single[i] = 0 /\ DOMAIN callbacks'[i] = 1..l
           \/ single[i] # 0 /\ DOMAIN callbacks'[i] = 1..(l + 1) /\ callbacks'[i][l + 1] = single[i]
        /\ \A k \in 1..l : callbacks'[i][k] = callbacks[i][k]
        /\ \A j \in Level : j # i => callbacks'[j] = callbacks[j]
    <3>1. /\ DOMAIN Pending(i) = 1..Len(Pending(i))
          /\ single[i] = 0 => Len(Pending(i)) = l
          /\ single[i] # 0 => Len(Pending(i)) = l + 1
          /\ \A k \in 1..l : Pending(i)[k] = callbacks[i][k]
          /\ single[i] # 0 => Pending(i)[l + 1] = single[i]
          /\ l \in Nat /\ DOMAIN callbacks[i] = 1..l
      BY <2>2, PendingIs
    <3>2. callbacks'[i] = Pending(i) /\ \A j \in Level : j # i => callbacks'[j] = callbacks[j]
      BY <1>1, <2>1
    <3> QED BY <3>1, <3>2
  <2>4. \A m : Late(m)' <=> Late(m)
    BY <1>1 DEF Late
  <2>5. SortedInv'
    <3> SUFFICES ASSUME NEW q \in Level, NEW j \in DOMAIN callbacks'[q], NEW k \in DOMAIN callbacks'[q],
                        NEW a, NEW b, a = callbacks'[q][j], b = callbacks'[q][k],
                        j < k, ~Late(a), ~Late(b)
                 PROVE  ~registered[a].inField /\ (registered[b].inField \/ a < b)
      BY <1>1, <2>4 DEF SortedInv
    <3>1. CASE q # i \/ k \in 1..l
      <4>1. j \in DOMAIN callbacks[q] /\ k \in DOMAIN callbacks[q] /\ a = callbacks[q][j] /\ b = callbacks[q][k]
        <5>1. CASE q # i
          <6>1. callbacks'[q] = callbacks[q]
            BY <2>3, <5>1
          <6> QED BY <6>1
        <5>2. CASE q = i
          <6>1. k \in 1..l /\ j \in 1..l
            BY <2>3, <3>1, <5>2
          <6> QED BY <2>3, <5>2, <6>1
        <5> QED BY <5>1, <5>2
      <4> QED BY <4>1 DEF Sorted, SortedInv
    <3>2. CASE q = i /\ k \notin 1..l
      <4>1. k = l + 1 /\ single[i] # 0 /\ b = single[i]
        BY <2>3, <3>2
      <4>2. j \in DOMAIN callbacks[i] /\ a = callbacks[i][j]
        BY <2>3, <3>2, <4>1
      <4>3. a \in Resource /\ InList(i, a)
        BY <1>1, <4>2 DEF InList
      <4>4. stage[i] = "open"
        BY <4>1, <4>3 DEF LateInv, Emptied, Idle, Sorted, FieldInv
      <4> QED BY <4>1, <4>3, <4>4 DEF Sorted, FieldInv
    <3> QED BY <3>1, <3>2
  <2>6. FieldInv'
    <3>1. \A j \in Level : single'[j] # 0 => registered'[single'[j]].inField
      BY <1>1, <2>1 DEF Sorted, FieldInv
    <3>2. ASSUME NEW j \in Level, NEW m \in Resource', InList(j, m)', stage'[j] = "open"
          PROVE  Late(m)' \/ ~registered'[m].inField
      <4>1. j # i
        BY <1>1, <2>1, <3>2
      <4>2. stage[j] = "open" /\ InList(j, m) /\ m \in Resource
        BY <1>1, <2>1, <2>3, <3>2, <4>1 DEF InList, Resource
      <4> QED BY <1>1, <2>4, <4>2 DEF Sorted, FieldInv
    <3>3. (\E j \in Level : stage'[j] = "cut") => keeper' = "wrapper"
      BY <1>1, <2>1 DEF Sorted, FieldInv
    <3>4. keeper' = "wrapper" => \A j \in Level : single'[j] = 0
      BY <1>1, <2>1 DEF Sorted, FieldInv
    <3> QED BY <3>1, <3>2, <3>3, <3>4 DEF FieldInv
  <2> QED BY <1>1, <2>1, <2>5, <2>6, OrderSame DEF Sorted
<1> QED BY <1>0, <1>2, <1>3, <1>4

LEMMA OrderInitial == Init => Sorted /\ OrderInv
<1> SUFFICES ASSUME Init  PROVE Sorted /\ OrderInv
  OBVIOUS
<1>1. Resource = {} /\ \A i \in Level : callbacks[i] = <<>> /\ single[i] = 0
  BY DEF Init, Resource, None
<1> QED BY <1>1 DEF Sorted, SortedInv, FieldInv, OrderInv, Init, None

LEMMA OrderStep ==
    ASSUME TypeOK, ChainInv, UncutInv, Placed, LateInv, Sorted, OrderInv, [Next]_vars
    PROVE  Sorted' /\ OrderInv'
<1> USE BoundsAssumption DEF Level, Above
<1>c. cut' = 0 => cut = 0
  BY UncutStep
<1>0. /\ single \in [Level -> {0} \cup Resource] /\ callbacks \in [Level -> Seq(Resource)]
      /\ stage \in [Level -> StageName] /\ Depth \in Level /\ closes \in Nat /\ next \in 0..(Depth - 1)
  BY DEF TypeOK, StageName
<1>1. ASSUME NEW i \in Level, NEW p \in Paths, Register(i, p) \/ RegisterLate(i, p)
      PROVE  Sorted' /\ OrderInv'
  <2>1. Keep(i, p)
    BY <1>1 DEF Register, RegisterLate
  <2> QED BY <2>1, KeepSorted
<1>2. ASSUME NEW async \in BOOLEAN, NEW error \in BOOLEAN, Exit(async, error)
      PROVE  Sorted' /\ OrderInv'
  <2>1. closes' # 0 /\ BeginExit(Depth, error) /\ stage[Depth] \in Idle /\ cut' = cut
    BY <1>0, <1>2 DEF Exit, Idle
  <2>2. \A j \in Level : Depth < j => stage[j] \in Emptied
    OBVIOUS
  <2> HIDE DEF Level
  <2> QED BY <1>0, <2>1, <2>2, BeginSorted
<1>3. ASSUME NEW i \in Level, PopCallback(i)
      PROVE  Sorted' /\ OrderInv'
  <2>0. PICK l, n : l = Len(callbacks[i]) /\ n = callbacks[i][l]
    OBVIOUS
  <2>1. /\ stage[i] = "loop" /\ callbacks[i] # <<>> /\ Execute(n)
        /\ callbacks' = [callbacks EXCEPT ![i] = SubSeq(@, 1, Len(@) - 1)]
        /\ UNCHANGED <<keeper, single, stage, registered, closes, cut>>
    BY <1>3, <2>0 DEF PopCallback
  <2>2. /\ callbacks'[i] = SubSeq(callbacks[i], 1, l - 1)
        /\ \A j \in Level : j # i => callbacks'[j] = callbacks[j]
    BY <1>0, <2>0, <2>1
  <2>3. /\ DOMAIN callbacks'[i] = 1..(l - 1) /\ \A k \in 1..(l - 1) : callbacks'[i][k] = callbacks[i][k]
        /\ l \in Nat \ {0} /\ DOMAIN callbacks[i] = 1..l /\ n \in Resource
    <3>1. callbacks[i] \in Seq(Resource)
      BY <1>0
    <3> QED BY <2>0, <2>1, <2>2, <3>1, Popped
  <2>4. InList(i, n)
    BY <2>0, <2>3 DEF InList
  <2>5. registered[n].level = i
    BY <2>3, <2>4 DEF Placed, HomeInv
  <2>6. closes # 0
    BY <2>1 DEF ChainInv
  <2>7. \A j \in Level : \A k \in DOMAIN callbacks'[j] :
           k \in DOMAIN callbacks[j] /\ callbacks'[j][k] = callbacks[j][k]
    <3> SUFFICES ASSUME NEW j \in Level, NEW k \in DOMAIN callbacks'[j]
                 PROVE  k \in DOMAIN callbacks[j] /\ callbacks'[j][k] = callbacks[j][k]
      OBVIOUS
    <3>1. CASE j = i
      BY <2>3, <3>1
    <3>2. CASE j # i
      BY <2>2, <3>2
    <3> QED BY <3>1, <3>2
  <2>8. ASSUME cut = 0, NEW j \in Level, i < j  PROVE stage[j] \in Emptied
    <3>1. i \in Above /\ i = next + 1 /\ stage[Depth] = "owned"
      BY <2>1, <2>8 DEF ChainInv, UncutInv, Idle
    <3>2. CASE j = Depth
      BY <3>1, <3>2 DEF Emptied
    <3>3. CASE j # Depth
      <4>1. j \in Above /\ j # next + 1 /\ next < j
        BY <1>0, <2>8, <3>1, <3>3
      <4>2. stage[j] = "closed"
        BY <2>8, <3>1, <4>1 DEF ChainInv, UncutInv, Idle, Busy
      <4> QED BY <4>2 DEF Emptied
    <3> QED BY <3>2, <3>3
  <2> HIDE DEF Level
  <2>9. Sorted'
    BY <2>1, <2>6, <2>7, SortedKept
  <2>10. cleaned' = Append(cleaned, n)
    BY <2>1, <2>3, NoZero DEF Execute
  <2>11. \A m \in Resource : First(m, n) => TakenUp(m)
    BY <2>0, <2>1, <2>3, <2>5, <2>8, NothingBehind
  <2> QED BY <2>1, <2>3, <2>9, <2>10, <2>11, OrderKept
<1>4. ASSUME NEW i \in Level, UNCHANGED <<keeper, registered, cleaned, callbacks, closes>>,
             single' = single \/ single' = [single EXCEPT ![i] = 0],
             \A j \in Level : j # i => stage'[j] = stage[j] \/ stage'[j] = "closed",
             stage'[i] = "open" => stage[i] = "open",
             stage'[i] = "cut" => stage[i] = "cut" \/ keeper = "wrapper"
      PROVE  Sorted' /\ OrderInv'
  <2>1. \A j \in Level : /\ stage'[j] = "open" => stage[j] = "open"
                         /\ stage'[j] = "cut" => stage[j] = "cut" \/ keeper = "wrapper"
                         /\ single'[j] \in {0, single[j]}
    BY <1>0, <1>4
  <2> HIDE DEF Level
  <2>2. Sorted'
    BY <1>4, <2>1, SortedKept
  <2>3. OrderInv'
    BY <1>4, <1>c, OrderSame
  <2> QED BY <2>2, <2>3
<1>e. ASSUME NEW i \in Level, NEW e, stage[i] \in Busy,
             \/ Ends(i, e)
             \/ CutShort(i, e, "closed")
             \/ CutShort(i, e, "cut") /\ keeper = "wrapper",
             UNCHANGED <<keeper, registered, cleaned, callbacks, closes>>,
             single' = single \/ single' = [single EXCEPT ![i] = 0]
      PROVE  Sorted' /\ OrderInv'
  <2>1. /\ \A j \in Level : j # i => stage'[j] = stage[j] \/ stage'[j] = "closed"
        /\ stage'[i] \in {"owned", "closed", "cut"}
    BY <1>e, EndStages DEF EndsOrCut
  <2>2. stage'[i] = "cut" => keeper = "wrapper"
    <3>1. ASSUME CutShort(i, e, "closed")  PROVE stage'[i] = "closed"
      BY <1>0, <3>1 DEF CutShort
    <3>2. ASSUME Ends(i, e)  PROVE stage'[i] # "cut"
      BY <1>0, <3>2 DEF Ends
    <3> QED BY <1>e, <3>1, <3>2
  <2> QED BY <1>4, <1>e, <2>1, <2>2
<1>5. ASSUME NEW i \in Level, LoopEnds(i)
      PROVE  Sorted' /\ OrderInv'
  <2>1. stage[i] = "loop" /\ UNCHANGED <<keeper, registered, cleaned, callbacks, single, closes>>
    BY <1>5 DEF LoopEnds, fields
  <2>2. CASE HasOwned(i)
    <3>1. stage' = [stage EXCEPT ![i] = "owned"]
      BY <1>5, <2>2 DEF LoopEnds
    <3> QED BY <1>0, <1>4, <2>1, <3>1
  <2>3. CASE ~HasOwned(i)
    <3>1. PICK e : e = cleanupError[i]
      OBVIOUS
    <3>2. EndExit(i, e)
      BY <1>5, <2>3, <3>1 DEF LoopEnds
    <3> QED BY <1>e, <2>1, <3>2, EndIs DEF Busy
  <2> QED BY <2>2, <2>3
<1>6. ASSUME NEW i \in Level, NEW outcome \in Outcome, CleanupEnds(i, outcome)
      PROVE  Sorted' /\ OrderInv'
  <2>0. PICK e : e = IF outcome = "returns" THEN 0 ELSE running
    OBVIOUS
  <2>1. CleanupIs(i, outcome, e)
    BY <1>6, <2>0, CleanupThen
  <2>2. /\ UNCHANGED <<keeper, registered, cleaned, callbacks, closes>>
        /\ single' = single \/ single' = [single EXCEPT ![i] = 0]
    BY <2>1 DEF CleanupIs
  <2>3. CASE Caught(i, e)
    BY <1>4, <2>2, <2>3 DEF Caught
  <2>4. CASE stage[i] = "loop" /\ keeper = "wrapper" /\ CutShort(i, e, "cut")
    BY <1>e, <2>2, <2>4 DEF Busy
  <2>5. CASE stage[i] \in {"single", "callback"} /\ EndExit(i, e)
    BY <1>e, <2>2, <2>5, EndIs DEF Busy
  <2> QED BY <2>1, <2>3, <2>4, <2>5 DEF CleanupIs
<1>8. CASE CloseOwned \/ CloseLeft
  <2>1. PICK n \in Level : ClosesAt(n)
    BY <1>8, ClosesIs
  <2>2. /\ OwnedTurn /\ BeginExit(n, hasError) /\ closes' = closes /\ cut' = cut
        /\ hasError \in BOOLEAN /\ n \in Above /\ stage[Depth] = "owned" /\ stage[n] \in Idle
        /\ n = next \/ left # <<>>
    BY <2>1 DEF ClosesAt, OwnedTurn, TypeOK, Idle
  <2>3. closes # 0
    BY <1>0, <2>2 DEF ChainInv
  <2>4. ASSUME cut = 0, NEW j \in Level, n < j  PROVE stage[j] \in Emptied
    <3>1. CASE j = Depth
      BY <2>2, <3>1 DEF Emptied
    <3>2. CASE j # Depth
      <4>1. j \in Above /\ n = next
        BY <2>2, <2>4, <3>2 DEF UncutInv
      <4>2. stage[j] = "closed"
        BY <2>2, <2>4, <4>1 DEF ChainInv, OwnedTurn, Busy
      <4> QED BY <4>2 DEF Emptied
    <3> QED BY <3>1, <3>2
  <2> HIDE DEF Level, Above
  <2> QED BY <2>2, <2>3, <2>4, BeginSorted
<1>9. CASE LoopGoesOn
  <2>1. /\ stage' = [stage EXCEPT ![Depth] = "loop"]
        /\ UNCHANGED <<keeper, registered, cleaned, callbacks, closes, single>>
    BY <1>9 DEF LoopGoesOn, fields, history
  <2> QED BY <1>0, <1>4, <2>1
<1>10. CASE OwnedEnd
  <2>0. PICK e : e = cleanupError[Depth]
    OBVIOUS
  <2>1. /\ EndExit(Depth, e) /\ ~GoesOn(Depth)
        /\ UNCHANGED <<keeper, registered, cleaned, callbacks, closes, single>>
    BY <1>10, <2>0 DEF OwnedEnd, OwnedTurn, GoesOn, fields
  <2>2. stage' = [stage EXCEPT ![Depth] = "closed"]
    BY <2>1, EndIs DEF Ends
  <2> QED BY <1>0, <1>4, <2>1, <2>2
<1>11. CASE UNCHANGED vars
  <2>1. UNCHANGED <<keeper, registered, cleaned, callbacks, closes, single, stage, cut>>
    BY <1>11 DEF vars, fields, exit, history
  <2> QED BY <2>1, SortedKept, OrderSame
<1> QED BY <1>1, <1>2, <1>3, <1>5, <1>6, <1>8, <1>9, <1>10, <1>11 DEF Next, Done

(* compiler.py:2746-2880: the cleanups of a resolver run in the reverse    *)
(* order of what they clean up, but for the one in the field, and those of *)
(* a deeper resolver before those of a shallower one, as long as no exit   *)
(* has been cut short.                                                     *)
THEOREM Order == Spec => []CleanupOrder
<1> DEFINE All == ChainInv /\ UncutInv /\ Placed /\ LateInv /\ Sorted /\ OrderInv
<1>1. Init => All
  BY ChainInitial, CleanInitial, OrderInitial
<1>2. TypeOK /\ All /\ [Next]_vars => All'
  BY ChainStep, UncutStep, CleanStep, OrderStep
<1>3. TypeOK /\ All => CleanupOrder
  <2>1. ASSUME OrderInv  PROVE CleanupOrder
    BY <2>1 DEF OrderInv, CleanupOrder, ListInReverse, DeeperFirst, First, Regular, SameResolver
  <2> QED BY <2>1
<1> QED BY <1>1, <1>2, <1>3, TypeCorrect, PTL DEF Spec
=============================================================================
