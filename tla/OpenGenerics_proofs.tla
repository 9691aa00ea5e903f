------------------------ MODULE OpenGenerics_proofs ------------------------
(***************************************************************************)
(* Proofs about OpenGenerics, for any templates, keys, wrappers, callers   *)
(* and lock modes: scopes do not leak, objects of one scope share their    *)
(* instances, no lock is left behind, and the wrappers' caches implement   *)
(* ScopedInstances.                                                        *)
(*                                                                         *)
(* A frame of a caller's stack is described by three groups of facts: what *)
(* its label says of its match and its arguments (Sound), how it follows   *)
(* from the frame below it (Link, Under), and what it knows of the caches  *)
(* (Current).  Two builds of one guarded key never overlap: a lock keeps   *)
(* callers apart, so does the event loop when nothing below the key ever   *)
(* suspends, and one caller alone cannot be in the key twice and come to   *)
(* store it, since what it stores is Founded: it does not need itself.     *)
(***************************************************************************)
EXTENDS OpenGenerics, TLAPS

Label == {"dispatch", "once", "materialize", "open", "lock", "relook", "args", "await", "store",
          "release", "unwind", "done", "failed"}

FrameType == [at : Label, key : AnyKey, on : Wrapper, entry : Matches \cup {NoEntry},
              args : Seq(Nat), value : Nat]

Instance == [key : ClosedKey, owner : Wrapper, args : Seq(Nat)]

Counted ==
    /\ attempted \in SUBSET ClosedKey /\ materialized \in SUBSET ClosedKey
    /\ calls \in [Caller -> 0..MaxCalls] /\ faults \in 0..MaxFaults

Types ==
    /\ deployment \in Deployments /\ running \in Caller \cup {Nobody}
    /\ stack \in [Caller -> Seq(FrameType)]
    /\ born \in Seq(Instance)
    /\ DOMAIN cache = Wrapper
    /\ Counted

-----------------------------------------------------------------------------
(* Stacks: a frame and its place, and what the steps do to them.           *)
Has(c, i, f) == i \in 1..Len(stack[c]) /\ stack[c][i] = f

\* Caller c has frame g in place k now, and what it had below.
Stacked(c, k, g) ==
    \A d \in Caller, i \in Nat, f \in FrameType :
        Has(d, i, f)' <=> IF d = c THEN (i = k /\ f = g) \/ (i < k /\ Has(c, i, f)) ELSE Has(d, i, f)

Cleared(c) == \A d \in Caller, i \in Nat, f \in FrameType : Has(d, i, f)' <=> d # c /\ Has(d, i, f)

(* Sequences: what Append, Front and Last give.                            *)
LEMMA Appended ==
    ASSUME NEW S, NEW s \in Seq(S), NEW e \in S
    PROVE  /\ Append(s, e) \in Seq(S) /\ Len(Append(s, e)) = Len(s) + 1
           /\ Append(s, e)[Len(s) + 1] = e
           /\ \A i \in 1..Len(s) : Append(s, e)[i] = s[i]
           /\ Len(s) \in Nat /\ DOMAIN s = 1..Len(s)
OBVIOUS

LEMMA Fronted ==
    ASSUME NEW S, NEW s \in Seq(S), s # <<>>
    PROVE  /\ Front(s) \in Seq(S) /\ Len(Front(s)) = Len(s) - 1 /\ Len(s) \in Nat \ {0}
           /\ \A i \in 1..(Len(s) - 1) : Front(s)[i] = s[i]
           /\ Last(s) = s[Len(s)] /\ Last(s) \in S
<1>1. Len(s) \in Nat \ {0}
  OBVIOUS
<1>2. Front(s) = SubSeq(s, 1, Len(s) - 1) /\ Last(s) = s[Len(s)]
  BY DEF Front, Last
<1>3. /\ SubSeq(s, 1, Len(s) - 1) \in Seq(S) /\ Len(SubSeq(s, 1, Len(s) - 1)) = Len(s) - 1
      /\ \A i \in 1..(Len(s) - 1) : SubSeq(s, 1, Len(s) - 1)[i] = s[i]
  <2>1. SubSeq(s, 1, Len(s) - 1) = [i \in 1..(Len(s) - 1) |-> s[i]]
    BY <1>1
  <2>2. \A i \in 1..(Len(s) - 1) : s[i] \in S
    BY <1>1
  <2>3. [i \in 1..(Len(s) - 1) |-> s[i]] \in Seq(S) /\ Len([i \in 1..(Len(s) - 1) |-> s[i]]) = Len(s) - 1
    BY <1>1, <2>2
  <2> QED BY <2>1, <2>3
<1>4. s[Len(s)] \in S
  BY <1>1
<1> QED BY <1>1, <1>2, <1>3, <1>4

LEMMA Replaced ==
    ASSUME NEW S, NEW s \in Seq(S), s # <<>>, NEW e \in S
    PROVE  LET t == Append(Front(s), e)
           IN  /\ t \in Seq(S) /\ Len(t) = Len(s) /\ t[Len(s)] = e
               /\ \A i \in 1..(Len(s) - 1) : t[i] = s[i]
<1>1. Front(s) \in Seq(S) /\ Len(Front(s)) = Len(s) - 1 /\ Len(s) \in Nat \ {0}
  BY Fronted
<1>2. \A i \in 1..(Len(s) - 1) : Front(s)[i] = s[i]
  BY Fronted
<1> QED BY <1>1, <1>2, Appended

(* The frame on top.                                                       *)
LEMMA OnTop ==
    ASSUME Types, NEW c \in Caller, stack[c] # <<>>
    PROVE  /\ Top(c) \in FrameType /\ Has(c, Len(stack[c]), Top(c))
           /\ Len(stack[c]) \in Nat \ {0}
           /\ \A i \in Nat, f \in FrameType : Has(c, i, f) => i <= Len(stack[c])
           /\ \A f \in FrameType : Has(c, Len(stack[c]), f) => f = Top(c)
<1>1. stack[c] \in Seq(FrameType)
  BY DEF Types
<1>2. Len(stack[c]) \in Nat \ {0} /\ Last(stack[c]) = stack[c][Len(stack[c])] /\ Last(stack[c]) \in FrameType
  BY <1>1, Fronted
<1> QED BY <1>1, <1>2 DEF Top, Has

(* A frame takes the place of the top one.                                 *)
LEMMA PutStacks ==
    ASSUME Types, NEW c \in Caller, stack[c] # <<>>, NEW g \in FrameType, Put(c, g)
    PROVE  stack' \in [Caller -> Seq(FrameType)] /\ Stacked(c, Len(stack[c]), g)
<1> DEFINE n == Len(stack[c])
           t == Append(Front(stack[c]), g)
<1>1. stack \in [Caller -> Seq(FrameType)] /\ stack[c] \in Seq(FrameType) /\ n \in Nat \ {0}
  BY Fronted DEF Types
<1>2. t \in Seq(FrameType) /\ Len(t) = n /\ t[n] = g /\ \A i \in 1..(n - 1) : t[i] = stack[c][i]
  BY <1>1, Replaced
<1>3. stack' = [stack EXCEPT ![c] = t]
  BY DEF Put
<1> HIDE DEF t
<1>4. stack' \in [Caller -> Seq(FrameType)] /\ stack'[c] = t /\ \A d \in Caller \ {c} : stack'[d] = stack[d]
  BY <1>1, <1>2, <1>3
<1> SUFFICES ASSUME NEW d \in Caller, NEW i \in Nat, NEW f \in FrameType
             PROVE  Has(d, i, f)' <=> IF d = c THEN (i = n /\ f = g) \/ (i < n /\ Has(c, i, f))
                                      ELSE Has(d, i, f)
  BY <1>4 DEF Stacked
<1>5. CASE d # c
  BY <1>4, <1>5 DEF Has
<1>6. CASE d = c
  <2>1. Has(c, i, f)' <=> i \in 1..n /\ t[i] = f
    BY <1>4, <1>2 DEF Has
  <2> QED BY <2>1, <1>1, <1>2, <1>6 DEF Has
<1> QED BY <1>5, <1>6

(* A frame is put on top.                                                  *)
LEMMA PushStacks ==
    ASSUME Types, NEW c \in Caller, NEW g \in FrameType, stack' = [stack EXCEPT ![c] = Append(@, g)]
    PROVE  stack' \in [Caller -> Seq(FrameType)] /\ Stacked(c, Len(stack[c]) + 1, g)
<1> DEFINE n == Len(stack[c])
           t == Append(stack[c], g)
<1>1. stack \in [Caller -> Seq(FrameType)] /\ stack[c] \in Seq(FrameType) /\ n \in Nat
  BY DEF Types
<1>2. t \in Seq(FrameType) /\ Len(t) = n + 1 /\ t[n + 1] = g /\ \A i \in 1..n : t[i] = stack[c][i]
  BY <1>1, Appended
<1>3. stack' = [stack EXCEPT ![c] = t]
  OBVIOUS
<1> HIDE DEF t
<1>4. stack' \in [Caller -> Seq(FrameType)] /\ stack'[c] = t /\ \A d \in Caller \ {c} : stack'[d] = stack[d]
  BY <1>1, <1>2, <1>3
<1> SUFFICES ASSUME NEW d \in Caller, NEW i \in Nat, NEW f \in FrameType
             PROVE  Has(d, i, f)' <=> IF d = c THEN (i = n + 1 /\ f = g) \/ (i < n + 1 /\ Has(c, i, f))
                                      ELSE Has(d, i, f)
  BY <1>4 DEF Stacked
<1>5. CASE d # c
  BY <1>4, <1>5 DEF Has
<1>6. CASE d = c
  <2>1. Has(c, i, f)' <=> i \in 1..(n + 1) /\ t[i] = f
    BY <1>4, <1>2 DEF Has
  <2> QED BY <2>1, <1>1, <1>2, <1>6 DEF Has
<1> QED BY <1>5, <1>6

(* The frame below the top one, and the return to it.                      *)
LEMMA BelowTop ==
    ASSUME Types, NEW c \in Caller, IsNested(c)
    PROVE  /\ Waiting(c) \in FrameType /\ Has(c, Len(stack[c]) - 1, Waiting(c))
           /\ stack[c] # <<>> /\ Len(stack[c]) \in Nat /\ Len(stack[c]) > 1
           /\ \A f \in FrameType : Has(c, Len(stack[c]) - 1, f) => f = Waiting(c)
<1>1. stack[c] \in Seq(FrameType)
  BY DEF Types
<1> QED BY <1>1 DEF IsNested, Waiting, Has

LEMMA ReturnStacks ==
    ASSUME Types, NEW c \in Caller, IsNested(c), NEW g \in FrameType, Return(c, g)
    PROVE  stack' \in [Caller -> Seq(FrameType)] /\ Stacked(c, Len(stack[c]) - 1, g)
<1> DEFINE n == Len(stack[c])
           t == Append(Front(Front(stack[c])), g)
<1>1. stack \in [Caller -> Seq(FrameType)] /\ stack[c] \in Seq(FrameType) /\ n \in Nat /\ n > 1 /\ stack[c] # <<>>
  BY DEF Types, IsNested
<1>10. /\ Front(stack[c]) \in Seq(FrameType) /\ Len(Front(stack[c])) = n - 1
       /\ \A i \in 1..(n - 1) : Front(stack[c])[i] = stack[c][i]
  <2> HIDE DEF n
  <2>1. PICK s \in Seq(FrameType) : s = stack[c] /\ s # <<>>
    BY <1>1
  <2>2. /\ Front(s) \in Seq(FrameType) /\ Len(Front(s)) = Len(s) - 1
        /\ \A i \in 1..(Len(s) - 1) : Front(s)[i] = s[i]
    BY <2>1, Fronted
  <2> QED BY <2>1, <2>2 DEF n
<1>2. PICK r \in Seq(FrameType) : r = Front(stack[c])
  BY <1>10
<1>3. Len(r) = n - 1 /\ r # <<>> /\ \A i \in 1..(n - 1) : r[i] = stack[c][i]
  BY <1>10, <1>1, <1>2
<1>4. t = Append(Front(r), g)
  BY <1>2
<1>5. t \in Seq(FrameType) /\ Len(t) = n - 1 /\ t[n - 1] = g /\ \A i \in 1..(n - 2) : t[i] = stack[c][i]
  <2>1. LET u == Append(Front(r), g)
        IN  u \in Seq(FrameType) /\ Len(u) = Len(r) /\ u[Len(r)] = g /\ \A i \in 1..(Len(r) - 1) : u[i] = r[i]
    BY <1>3, Replaced
  <2> HIDE DEF t
  <2>2. t \in Seq(FrameType) /\ Len(t) = Len(r) /\ t[Len(r)] = g /\ \A i \in 1..(Len(r) - 1) : t[i] = r[i]
    BY <2>1, <1>4
  <2> QED BY <2>2, <1>3, <1>1
<1>6. stack' = [stack EXCEPT ![c] = t]
  BY DEF Return
<1> HIDE DEF t
<1>7. stack' \in [Caller -> Seq(FrameType)] /\ stack'[c] = t /\ \A d \in Caller \ {c} : stack'[d] = stack[d]
  BY <1>1, <1>5, <1>6
<1> SUFFICES ASSUME NEW d \in Caller, NEW i \in Nat, NEW f \in FrameType
             PROVE  Has(d, i, f)' <=> IF d = c THEN (i = n - 1 /\ f = g) \/ (i < n - 1 /\ Has(c, i, f))
                                      ELSE Has(d, i, f)
  BY <1>7 DEF Stacked
<1>8. CASE d # c
  BY <1>7, <1>8 DEF Has
<1>9. CASE d = c
  <2>1. Has(c, i, f)' <=> i \in 1..(n - 1) /\ t[i] = f
    BY <1>7, <1>5 DEF Has
  <2>2. CASE i = n - 1
    BY <2>1, <2>2, <1>1, <1>5, <1>9
  <2>3. CASE i # n - 1
    <3>1. Has(c, i, f)' <=> i \in 1..(n - 2) /\ stack[c][i] = f
      BY <2>1, <2>3, <1>1, <1>5
    <3>2. i < n - 1 /\ Has(c, i, f) <=> i \in 1..(n - 2) /\ stack[c][i] = f
      BY <1>1 DEF Has
    <3> QED BY <3>1, <3>2, <2>3, <1>9
  <2> QED BY <2>2, <2>3
<1> QED BY <1>8, <1>9

(* The first frame of a call, and the end of one.                          *)
LEMMA AskStacks ==
    ASSUME Types, NEW c \in Caller, NEW g \in FrameType, stack' = [stack EXCEPT ![c] = <<g>>]
    PROVE  stack' \in [Caller -> Seq(FrameType)] /\ Stacked(c, 1, g)
<1>1. stack \in [Caller -> Seq(FrameType)] /\ <<g>> \in Seq(FrameType)
  BY DEF Types
<1>2. stack' \in [Caller -> Seq(FrameType)] /\ stack'[c] = <<g>> /\ \A d \in Caller \ {c} : stack'[d] = stack[d]
  BY <1>1
<1>3. Len(<<g>>) = 1 /\ <<g>>[1] = g
  OBVIOUS
<1> QED
  <2> SUFFICES ASSUME NEW d \in Caller, NEW i \in Nat, NEW f \in FrameType
               PROVE  Has(d, i, f)' <=> IF d = c THEN (i = 1 /\ f = g) \/ (i < 1 /\ Has(c, i, f))
                                        ELSE Has(d, i, f)
    BY <1>2 DEF Stacked
  <2>1. CASE d # c
    BY <1>2, <2>1 DEF Has
  <2>2. CASE d = c
    <3>1. Has(c, i, f)' <=> i \in 1..1 /\ <<g>>[i] = f
      BY <1>2, <1>3 DEF Has
    <3> QED BY <3>1, <1>3, <2>2 DEF Has
  <2> QED BY <2>1, <2>2

LEMMA AnswerClears ==
    ASSUME Types, NEW c \in Caller, stack' = [stack EXCEPT ![c] = <<>>]
    PROVE  stack' \in [Caller -> Seq(FrameType)] /\ Cleared(c)
<1>1. stack \in [Caller -> Seq(FrameType)] /\ <<>> \in Seq(FrameType)
  BY DEF Types
<1>2. stack' \in [Caller -> Seq(FrameType)] /\ stack'[c] = <<>> /\ \A d \in Caller \ {c} : stack'[d] = stack[d]
  BY <1>1
<1> QED BY <1>2 DEF Cleared, Has

-----------------------------------------------------------------------------
(* Keys and what is below them.                                            *)

\* The keys that can be built at all: the least set that holds a key when it holds all below it.
Closes(S) == \A z \in ClosedKey : Below[z] \subseteq S => z \in S
Founded(k) == \A S \in SUBSET ClosedKey : Closes(S) => k \in S

\* Building x comes to build y: the least set that holds what is below x and below its members.
Leads(x, y) ==
    \A S \in SUBSET ClosedKey : Below[x] \subseteq S /\ (\A z \in S : Below[z] \subseteq S) => y \in S

\* k is built while j is.
Under(j, k) == Leads(j, k) /\ (j \in Quiet => k \in Quiet)

\* A parameter that is annotated with the key a is resolved as k, through Maybe.
Unfolds(a, k) == k = a \/ (IsMaybe(a) /\ (k = MaybeOf[a] \/ IsMaybe(MaybeOf[a])))

LEMMA KeyFacts ==
    ASSUME NEW k \in AnyKey
    PROVE  /\ Closing[k] \in ClosedKey /\ Closing[k] \in AnyKey /\ Closing[Closing[k]] = Closing[k]
           /\ IsMaybe(k) => Closing[k] = k /\ k \in ClosedKey /\ MaybeOf[k] \in AnyKey
           /\ IsMaybe(Closing[k]) => IsMaybe(k)
BY KeysAssumption DEF ClosedKey, IsMaybe

LEMMA ClosedFacts ==
    ASSUME NEW k \in ClosedKey
    PROVE  k \in AnyKey /\ Closing[k] = k
BY KeysAssumption DEF ClosedKey

LEMMA MatchFacts ==
    ASSUME NEW k \in ClosedKey, BestMatch[k].kind = "match"
    PROVE  /\ BestMatch[k] \in Matches /\ BestMatch[k] # NoEntry
           /\ Arguments[BestMatch[k]] \in Seq({TypeArgument, OpenArgument} \cup {KeyArgument(a) : a \in AnyKey})
<1>1. BestMatch[k] \in Matches
  BY DEF Matches
<1>2. BestMatch[k] # NoEntry
  BY DEF NoEntry
<1> QED BY <1>1, <1>2, KeysAssumption

LEMMA ArgumentFacts ==
    ASSUME NEW a \in AnyKey, NEW b \in AnyKey
    PROVE  /\ KeyArgument(a).is = "key" /\ KeyArgument(a).key = a
           /\ KeyArgument(a) = KeyArgument(b) => a = b
           /\ KeyArgument(a) # TypeArgument /\ KeyArgument(a) # OpenArgument
<1>1. KeyArgument(a).is = "key" /\ KeyArgument(a).key = a /\ KeyArgument(b).key = b
  BY DEF KeyArgument
<1>2. TypeArgument.is = "type" /\ OpenArgument.is = "open"
  BY DEF TypeArgument, OpenArgument
<1> QED BY <1>1, <1>2

LEMMA OwnerFacts ==
    ASSUME NEW w \in Wrapper, NEW p, OwnersAt(w, TemplateLevel[p]) # {}
    PROVE  Owner(w, p) \in Chain[w] /\ Owner(w, p) \in Wrapper
<1>1. Owner(w, p) \in OwnersAt(w, TemplateLevel[p])
  BY DEF Owner
<1> QED BY <1>1 DEF OwnersAt, Chain

LEMMA BelowFacts ==
    ASSUME NEW k \in ClosedKey
    PROVE  /\ Below[k] \subseteq ClosedKey
           /\ IsMaybe(k) => Below[k] = {Closing[MaybeOf[k]]} \cap {c \in ClosedKey : IsRegistered(c)}
           /\ FromTemplate(k) =>
                Below[k] = {Closing[a.key] : a \in {b \in Range(Arguments[BestMatch[k]]) : b.is = "key"}}
           /\ ~IsMaybe(k) /\ ~FromTemplate(k) => Below[k] = {}
<1>1. ~(IsMaybe(k) /\ FromTemplate(k))
  BY DEF FromTemplate
<1>2. CASE FromTemplate(k)
  <2>1. Below[k] = {Closing[a.key] : a \in {b \in Range(Arguments[BestMatch[k]]) : b.is = "key"}}
    BY <1>1, <1>2 DEF Below
  <2>2. BestMatch[k].kind = "match"
    BY <1>2 DEF FromTemplate
  <2>3. Arguments[BestMatch[k]] \in Seq({TypeArgument, OpenArgument} \cup {KeyArgument(a) : a \in AnyKey})
    BY <2>2, MatchFacts
  <2>4. \A b \in Range(Arguments[BestMatch[k]]) :
            b \in {TypeArgument, OpenArgument} \cup {KeyArgument(a) : a \in AnyKey}
    BY <2>3 DEF Range
  <2>5. \A b \in Range(Arguments[BestMatch[k]]) : b.is = "key" => b.key \in AnyKey
    BY <2>4 DEF TypeArgument, OpenArgument, KeyArgument
  <2>6. \A b \in Range(Arguments[BestMatch[k]]) : b.is = "key" => Closing[b.key] \in ClosedKey
    BY <2>5 DEF ClosedKey
  <2> QED BY <2>1, <2>6, <1>1, <1>2
<1>3. CASE ~FromTemplate(k)
  BY <1>3 DEF Below
<1> QED BY <1>2, <1>3

\* A key argument of a matched provider is below the key.
LEMMA NeedBelow ==
    ASSUME NEW k \in ClosedKey, FromTemplate(k), NEW i \in 1..Len(Arguments[BestMatch[k]]), NEW a \in AnyKey,
           Arguments[BestMatch[k]][i] = KeyArgument(a)
    PROVE  Closing[a] \in Below[k]
<1>1. BestMatch[k].kind = "match"
  BY DEF FromTemplate
<1>2. Arguments[BestMatch[k]] \in Seq({TypeArgument, OpenArgument} \cup {KeyArgument(b) : b \in AnyKey})
  BY <1>1, MatchFacts
<1>3. KeyArgument(a) \in Range(Arguments[BestMatch[k]])
  BY <1>2 DEF Range
<1>4. KeyArgument(a).is = "key" /\ KeyArgument(a).key = a
  BY DEF KeyArgument
<1>5. Below[k] = {Closing[b.key] : b \in {d \in Range(Arguments[BestMatch[k]]) : d.is = "key"}}
  BY BelowFacts
<1> QED BY <1>3, <1>4, <1>5

\* What is below a matched key is one of its key arguments.
LEMMA BelowNeeds ==
    ASSUME NEW k \in ClosedKey, FromTemplate(k), NEW z \in Below[k]
    PROVE  \E i \in 1..Len(Arguments[BestMatch[k]]), a \in AnyKey :
              Arguments[BestMatch[k]][i] = KeyArgument(a) /\ Closing[a] = z
<1>1. BestMatch[k].kind = "match"
  BY DEF FromTemplate
<1>2. Arguments[BestMatch[k]] \in Seq({TypeArgument, OpenArgument} \cup {KeyArgument(b) : b \in AnyKey})
  BY <1>1, MatchFacts
<1>3. PICK b \in Range(Arguments[BestMatch[k]]) : b.is = "key" /\ z = Closing[b.key]
  BY BelowFacts
<1>4. PICK i \in 1..Len(Arguments[BestMatch[k]]) : b = Arguments[BestMatch[k]][i]
  BY <1>2 DEF Range
<1>5. b \in {TypeArgument, OpenArgument} \cup {KeyArgument(a) : a \in AnyKey}
  BY <1>2, <1>4
<1>6. PICK a \in AnyKey : b = KeyArgument(a)
  BY <1>5, <1>3 DEF TypeArgument, OpenArgument
<1>7. b.key = a
  BY <1>6 DEF KeyArgument
<1> QED BY <1>3, <1>4, <1>6, <1>7

LEMMA FoundedIntro ==
    ASSUME NEW k \in ClosedKey, \A z \in Below[k] : Founded(z)
    PROVE  Founded(k)
<1> SUFFICES ASSUME NEW S \in SUBSET ClosedKey, Closes(S)
             PROVE  k \in S
  BY DEF Founded
<1>1. Below[k] \subseteq S
  BY DEF Founded
<1> QED BY <1>1 DEF Closes

LEMMA LeadsBelow ==
    ASSUME NEW j \in ClosedKey, NEW k \in Below[j]
    PROVE  Leads(j, k)
BY DEF Leads

LEMMA LeadsOn ==
    ASSUME NEW j \in ClosedKey, NEW k \in ClosedKey, Leads(j, k), NEW l \in Below[k]
    PROVE  Leads(j, l)
<1> SUFFICES ASSUME NEW S \in SUBSET ClosedKey, Below[j] \subseteq S, \A z \in S : Below[z] \subseteq S
             PROVE  l \in S
  BY DEF Leads
<1>1. k \in S
  BY DEF Leads
<1> QED BY <1>1

\* The first step of a way from x to y.
LEMMA LeadsBy ==
    ASSUME NEW x \in ClosedKey, NEW y \in ClosedKey, Leads(x, y)
    PROVE  y \in Below[x] \/ \E z \in Below[x] : Leads(z, y)
<1> DEFINE S == {t \in ClosedKey : t \in Below[x] \/ \E z \in Below[x] : Leads(z, t)}
<1>1. S \in SUBSET ClosedKey /\ Below[x] \subseteq S
  BY BelowFacts
<1>2. ASSUME NEW t \in S, NEW u \in Below[t]
      PROVE  u \in S
  <2>1. t \in ClosedKey /\ u \in ClosedKey
    BY <1>2, BelowFacts
  <2>2. CASE t \in Below[x]
    <3>1. Leads(t, u)
      BY <2>1, <1>2, LeadsBelow
    <3> QED BY <3>1, <2>1, <2>2
  <2>3. CASE \E z \in Below[x] : Leads(z, t)
    <3>1. PICK z \in Below[x] : Leads(z, t)
      BY <2>3
    <3>2. z \in ClosedKey
      BY BelowFacts
    <3>3. Leads(z, u)
      BY <3>1, <3>2, <2>1, <1>2, LeadsOn
    <3> QED BY <3>1, <3>3, <2>1
  <2> QED BY <2>2, <2>3, <1>2
<1>3. y \in S
  <2>1. \A t \in S : Below[t] \subseteq S
    BY <1>2
  <2> HIDE DEF S
  <2> QED BY <1>1, <2>1 DEF Leads
<1> QED BY <1>3

\* What needs itself cannot be built.
LEMMA FoundedIsAcyclic ==
    ASSUME NEW k \in ClosedKey, Founded(k)
    PROVE  ~Leads(k, k)
<1> DEFINE S == {z \in ClosedKey : ~Leads(z, z)}
<1>1. ASSUME NEW z \in ClosedKey, Below[z] \subseteq S
      PROVE  z \in S
  <2> SUFFICES ASSUME Leads(z, z)
               PROVE  FALSE
    OBVIOUS
  <2>1. PICK y \in Below[z] : y = z \/ Leads(y, z)
    <3>1. z \in Below[z] \/ \E y \in Below[z] : Leads(y, z)
      BY <1>1, LeadsBy
    <3> QED BY <3>1
  <2>2. y \in ClosedKey /\ ~Leads(y, y)
    BY <1>1, <2>1
  <2>3. CASE y = z
    BY <2>2, <2>3
  <2>4. CASE Leads(y, z)
    <3>1. Leads(y, y)
      BY <2>4, <2>1, <2>2, <1>1, LeadsOn
    <3> QED BY <3>1, <2>2
  <2> QED BY <2>1, <2>3, <2>4
<1>2. Closes(S) /\ S \in SUBSET ClosedKey
  BY <1>1 DEF Closes
<1>3. k \in S
  <2> HIDE DEF S
  <2> QED BY <1>2 DEF Founded
<1> QED BY <1>3

\* From a key to one below it.
LEMMA UnderOn ==
    ASSUME NEW j \in ClosedKey, NEW k \in ClosedKey, NEW l \in Below[k]
    PROVE  Under(k, l) /\ (Under(j, k) => Under(j, l))
<1>1. k \in Quiet => l \in Quiet
  BY QuietAssumption DEF Settled
<1>2. Leads(k, l)
  BY LeadsBelow
<1>3. Leads(j, k) => Leads(j, l)
  BY LeadsOn
<1> QED BY <1>1, <1>2, <1>3 DEF Under

\* A quiet key takes no asynchronous lock and awaits no provider.
LEMMA QuietFacts ==
    ASSUME NEW k \in Quiet
    PROVE  /\ k \in ClosedKey /\ k \notin AsyncBase
           /\ FromTemplate(k) => TemplateOf(k) \notin AsyncTemplate /\ (Async => ~Locks(TemplateOf(k)))
BY QuietAssumption DEF Settled, Suspends, Locks, LocksIn, Async, UsesAsyncLock

\* Maybe[T] is built when T is, or when T is not registered.
LEMMA FoundedMaybe ==
    ASSUME NEW k \in AnyKey, IsMaybe(k), Closing[MaybeOf[k]] \in Below[k] => Founded(Closing[MaybeOf[k]])
    PROVE  Founded(k)
<1>1. k \in ClosedKey
  BY KeyFacts
<1>2. Below[k] \subseteq {Closing[MaybeOf[k]]}
  BY <1>1, BelowFacts
<1> QED BY <1>1, <1>2, FoundedIntro

-----------------------------------------------------------------------------
(* The inductive invariant.                                                *)

Matched(f) == f.entry # NoEntry

\* Labels of a frame that has found its owner.
Placed == {"lock", "relook", "args", "await", "store", "release", "unwind"}

\* What the label of a frame says of its match and its arguments.
Sound(f) ==
    /\ Matched(f) => f.entry = BestMatch[KeyOf(f)] /\ FromTemplate(KeyOf(f))
    /\ f.at \in {"once", "materialize", "open"} \cup Placed => Matched(f)
    /\ f.at = "dispatch" => ~Matched(f)
    /\ f.at \in Placed \/ (f.at = "done" /\ Matched(f)) => ~Mismatch(f)
    /\ f.at \in {"lock", "relook", "release", "unwind"} => Locks(SpecOf(f))
    /\ f.at = "store" => SpecOf(f) \notin Transient
    /\ Matched(f) => Len(f.args) <= Len(Arguments[f.entry])
    /\ f.at \in {"dispatch", "once", "materialize", "open", "lock", "relook"} => f.args = <<>>
    /\ f.at = "dispatch" \/ (f.at = "done" /\ ~Matched(f)) => f.value = 0
    /\ f.at \in {"await", "store", "release", "done"} => Founded(KeyOf(f))
    /\ Matched(f) => \A i \in 1..Len(f.args), a \in AnyKey :
          Arguments[f.entry][i] = KeyArgument(a) => Founded(Closing[a])

SoundInv == \A c \in Caller, i \in Nat, f \in FrameType : Has(c, i, f) => Sound(f)

\* f waits for the frame of a key on a wrapper.
Link(f, key, on) ==
    /\ f.at = "args" /\ ~HasAllArguments(f) /\ on = OwnerOf(f)
    /\ \E a \in AnyKey :
        /\ NextArgument(f) = KeyArgument(a) /\ Unfolds(a, key)
        /\ Founded(Closing[key]) => Founded(Closing[a])

LinkInv ==
    \A c \in Caller, i \in Nat, f \in FrameType, g \in FrameType :
        Has(c, i, f) /\ Has(c, i + 1, g) => Link(f, g.key, g.on)

UnderInv ==
    \A c \in Caller, i \in Nat, j \in Nat, f \in FrameType, g \in FrameType :
        Has(c, i, f) /\ Has(c, j, g) /\ i < j => Under(KeyOf(f), KeyOf(g))

\* v is an instance of key that owner built.
Is(v, key, owner) == v \in 1..Len(born) /\ born[v].key = key /\ born[v].owner = owner

\* The closed key that answers a parameter annotated with the key a.
ServedBy(a) == IF IsMaybe(a) THEN Closing[MaybeOf[a]] ELSE Closing[a]

\* The i-th argument of a provider that the wrapper w runs is v: within scope, and shared.
Shares(w, a, v) ==
    ServedBy(a) \in CachedKey /\ Guarded(ServedBy(a)) =>
        /\ Owner(w, TemplateOf(ServedBy(a))) \in Wrapper
        /\ v = Lookup(Owner(w, TemplateOf(ServedBy(a))), ServedBy(a))
Wired(w, m, i, v) ==
    v # 0 => /\ v \in 1..Len(born) /\ born[v].owner \in Chain[w]
             /\ i \in 1..Len(Arguments[m])
             /\ \E a \in AnyKey : Arguments[m][i] = KeyArgument(a) /\ Shares(w, a, v)

Holds(f) == f.at \in {"store", "release"} \/ (f.at = "done" /\ Matched(f))
Pending(f) == f.at \in {"args", "await", "store"} /\ SpecOf(f) \notin Transient
Settles(f) == f.at \in {"release", "done"} /\ Matched(f) /\ SpecOf(f) \notin Transient

\* What a frame knows of the instances and the caches.
Current(f) ==
    /\ Holds(f) => Is(f.value, KeyOf(f), OwnerOf(f))
    /\ f.at \in {"args", "await"} => \A i \in 1..Len(f.args) : Wired(OwnerOf(f), f.entry, i, f.args[i])
    /\ Pending(f) /\ Guarded(KeyOf(f)) => Lookup(OwnerOf(f), KeyOf(f)) = 0
    /\ Settles(f) /\ Guarded(KeyOf(f)) => f.value = Lookup(OwnerOf(f), KeyOf(f))

CurrentInv == \A c \in Caller, i \in Nat, f \in FrameType : Has(c, i, f) => Current(f)

EntriesInv ==
    \A d \in DOMAIN entries : d \in AnyKey /\ entries[d] = BestMatch[Closing[d]] /\ FromTemplate(Closing[d])

CacheInv ==
    \A w \in Wrapper : \A k \in DOMAIN cache[w] : k \in CachedKey /\ Is(cache[w][k], k, w) /\ Founded(k)

\* The n-th instance is b.
Built(n, b) == n \in 1..Len(born) /\ born[n] = b

\* b is an instance of a template, wired as its provider asks.
WellBuilt(b) ==
    /\ FromTemplate(b.key)
    /\ \A i \in 1..Len(b.args) : Wired(b.owner, BestMatch[b.key], i, b.args[i])

BornInv == \A n \in Nat, b \in Instance : Built(n, b) => WellBuilt(b)

GivenInv ==
    \A g \in given : /\ g.owner \in Wrapper /\ g.key \in CachedKey
                     /\ Guarded(g.key) => g.value = Lookup(g.owner, g.key) /\ g.value # 0

\* Frames inside their `with` block, and the lock they hold.
Inside(f) == f.at \in {"relook", "args", "await", "store", "release", "unwind"} /\ Locks(SpecOf(f))
LockFor(f) == [owner |-> OwnerOf(f), key |-> KeyOf(f)]

HeldByFrame ==
    \A h \in held :
        h.by \in Caller /\ \E i \in Nat, f \in FrameType :
            Has(h.by, i, f) /\ Inside(f) /\ h = [lock |-> LockFor(f), by |-> h.by]

FrameHolds ==
    \A c \in Caller, i \in Nat, f \in FrameType :
        Has(c, i, f) /\ Inside(f) => [lock |-> LockFor(f), by |-> c] \in held

OneInside ==
    \A c \in Caller, d \in Caller, i \in Nat, j \in Nat, f \in FrameType, g \in FrameType :
        Has(c, i, f) /\ Has(d, j, g) /\ Inside(f) /\ Inside(g) /\ LockFor(f) = LockFor(g) => c = d /\ i = j

HeldInv == HeldByFrame /\ FrameHolds /\ OneInside

\* A task that is building a quiet key has not been suspended since.
LoopInv ==
    Async => \A c \in Caller, i \in Nat, f \in FrameType :
                Has(c, i, f) /\ Pending(f) /\ KeyOf(f) \in Quiet => running = c

FramesInv == SoundInv /\ LinkInv /\ UnderInv
StoreInv == EntriesInv /\ CacheInv /\ BornInv /\ GivenInv
IInv == Types /\ FramesInv /\ CurrentInv /\ StoreInv /\ HeldInv /\ LoopInv

-----------------------------------------------------------------------------
(* What a step leaves alone.                                               *)

LEMMA SoundStays ==
    ASSUME UNCHANGED deployment, NEW f \in FrameType
    PROVE  (Sound(f)' <=> Sound(f)) /\ (Inside(f)' <=> Inside(f))
<1>1. \A p : Locks(p)' <=> Locks(p)
  BY DEF Locks
<1>2. Locks(SpecOf(f))' <=> Locks(SpecOf(f))
  BY <1>1
<1> QED BY <1>2 DEF Sound, Inside

LEMMA GuardedStays ==
    ASSUME UNCHANGED deployment, NEW k
    PROVE  Guarded(k)' <=> Guarded(k)
<1>1. \A p : Locks(p)' <=> Locks(p)
  BY DEF Locks
<1> QED BY <1>1 DEF Guarded, Async

\* Instances are only added, and no guarded cell that is filled changes.
Grows ==
    /\ UNCHANGED deployment
    /\ Len(born) \in Nat /\ Len(born)' \in Nat
    /\ \A v \in 1..Len(born) : v \in 1..Len(born)' /\ born'[v] = born[v]
    /\ \A w \in Wrapper, k \in CachedKey :
          Guarded(k) /\ Lookup(w, k) # 0 => Lookup(w, k)' = Lookup(w, k)

LEMMA StillsGrow ==
    ASSUME Types, UNCHANGED <<deployment, cache, born>>
    PROVE  Grows
<1>1. Len(born) \in Nat
  BY DEF Types
<1> QED BY <1>1 DEF Grows, Lookup

LEMMA FrameFacts ==
    ASSUME NEW f \in FrameType
    PROVE  /\ f.at \in Label /\ f.key \in AnyKey /\ f.on \in Wrapper /\ f.entry \in Matches \cup {NoEntry}
           /\ f.args \in Seq(Nat) /\ f.value \in Nat
           /\ KeyOf(f) \in ClosedKey /\ KeyOf(f) \in AnyKey
<1>1. f.at \in Label /\ f.key \in AnyKey /\ f.on \in Wrapper /\ f.entry \in Matches \cup {NoEntry}
  BY DEF FrameType
<1>2. f.args \in Seq(Nat) /\ f.value \in Nat
  BY DEF FrameType
<1> QED BY <1>1, <1>2, KeyFacts DEF KeyOf

\* A matched frame runs the provider that the registry has for its key.
LEMMA MatchedFacts ==
    ASSUME NEW f \in FrameType, Sound(f), Matched(f)
    PROVE  /\ f.entry = BestMatch[KeyOf(f)] /\ FromTemplate(KeyOf(f)) /\ f.entry.kind = "match"
           /\ SpecOf(f) = TemplateOf(KeyOf(f)) /\ f.entry \in Matches
           /\ SpecOf(f) \notin Transient => KeyOf(f) \in CachedKey
           /\ Arguments[f.entry] \in Seq({TypeArgument, OpenArgument} \cup {KeyArgument(a) : a \in AnyKey})
           /\ Len(Arguments[f.entry]) \in Nat /\ Len(f.args) \in Nat
<1>1. f.entry = BestMatch[KeyOf(f)] /\ FromTemplate(KeyOf(f)) /\ KeyOf(f) \in ClosedKey /\ f.args \in Seq(Nat)
  BY FrameFacts DEF Sound
<1>2. f.entry.kind = "match" /\ SpecOf(f) = TemplateOf(KeyOf(f))
  BY <1>1 DEF FromTemplate, SpecOf, TemplateOf
<1>3. f.entry \in Matches
        /\ Arguments[f.entry] \in Seq({TypeArgument, OpenArgument} \cup {KeyArgument(a) : a \in AnyKey})
  BY <1>1, <1>2, MatchFacts
<1>4. Len(Arguments[f.entry]) \in Nat /\ Len(f.args) \in Nat
  BY <1>1, <1>3
<1> QED BY <1>1, <1>2, <1>3, <1>4 DEF CachedKey

LEMMA PlacedFacts ==
    ASSUME NEW f \in FrameType, Sound(f), ~Mismatch(f)
    PROVE  OwnerOf(f) \in Wrapper /\ OwnerOf(f) \in Chain[f.on]
<1>1. f.on \in Wrapper
  BY FrameFacts
<1>2. PICK p : p = SpecOf(f)
  OBVIOUS
<1>3. OwnersAt(f.on, TemplateLevel[p]) # {}
  BY <1>2 DEF Mismatch
<1> QED BY <1>1, <1>2, <1>3, OwnerFacts DEF OwnerOf

LEMMA IsGrows ==
    ASSUME Grows, NEW v, NEW k, NEW o, Is(v, k, o)
    PROVE  Is(v, k, o)'
BY DEF Is, Grows

LEMMA WiredGrows ==
    ASSUME Grows, NEW w, NEW m, NEW i, NEW v, Wired(w, m, i, v)
    PROVE  Wired(w, m, i, v)'
<1> SUFFICES ASSUME v # 0
             PROVE  Wired(w, m, i, v)'
  BY DEF Wired
<1>1. v \in 1..Len(born) /\ born[v].owner \in Chain[w] /\ i \in 1..Len(Arguments[m])
  BY DEF Wired
<1>2. PICK a \in AnyKey : Arguments[m][i] = KeyArgument(a) /\ Shares(w, a, v)
  BY DEF Wired
<1>3. v \in 1..Len(born)' /\ born'[v] = born[v]
  BY <1>1 DEF Grows
<1>4. PICK k, o : k = ServedBy(a) /\ o = Owner(w, TemplateOf(ServedBy(a)))
  OBVIOUS
<1>5. Guarded(k)' <=> Guarded(k)
  BY GuardedStays DEF Grows
<1>6. Shares(w, a, v)'
  <2> SUFFICES ASSUME k \in CachedKey, Guarded(k)
               PROVE  o \in Wrapper /\ v = Lookup(o, k)'
    BY <1>4, <1>5 DEF Shares
  <2>1. o \in Wrapper /\ v = Lookup(o, k)
    BY <1>2, <1>4 DEF Shares
  <2> QED BY <2>1 DEF Grows
<1> QED BY <1>1, <1>2, <1>3, <1>6 DEF Wired

LEMMA CurrentGrows ==
    ASSUME Grows, NEW f \in FrameType, Sound(f), Current(f),
           Pending(f) /\ Guarded(KeyOf(f)) => Lookup(OwnerOf(f), KeyOf(f))' = 0
    PROVE  Current(f)'
<1>1. PICK k, o : k = KeyOf(f) /\ o = OwnerOf(f)
  OBVIOUS
<1>2. Guarded(k)' <=> Guarded(k)
  BY GuardedStays DEF Grows
<1>3. Holds(f) => Is(f.value, k, o)'
  BY <1>1, IsGrows DEF Current
<1>4. ASSUME f.at \in {"args", "await"}, NEW i \in 1..Len(f.args)
      PROVE  Wired(o, f.entry, i, f.args[i])'
  <2>1. Wired(o, f.entry, i, f.args[i])
    BY <1>4, <1>1 DEF Current
  <2> QED BY <2>1, WiredGrows
<1>5. Pending(f) /\ Guarded(k)' => Lookup(o, k)' = 0
  BY <1>1, <1>2
<1>6. ASSUME Settles(f), Guarded(k)'
      PROVE  f.value = Lookup(o, k)'
  <2>1. f.value = Lookup(o, k) /\ Is(f.value, k, o)
    BY <1>6, <1>1, <1>2 DEF Current, Settles, Holds
  <2>2. o \in Wrapper /\ k \in CachedKey
    <3>1. Matched(f) /\ ~Mismatch(f) /\ SpecOf(f) \notin Transient
      BY <1>6 DEF Settles, Sound, Placed
    <3> QED BY <3>1, <1>1, MatchedFacts, PlacedFacts
  <2>3. Lookup(o, k) # 0
    BY <2>1 DEF Is, Grows
  <2> QED BY <2>1, <2>2, <2>3, <1>6, <1>2 DEF Grows
<1>7. (Holds(f)' <=> Holds(f)) /\ (Pending(f)' <=> Pending(f)) /\ (Settles(f)' <=> Settles(f))
  BY DEF Holds, Pending, Settles
<1> QED BY <1>1, <1>3, <1>4, <1>5, <1>6 DEF Current

LEMMA CacheGrows ==
    ASSUME Grows, UNCHANGED cache, CacheInv
    PROVE  CacheInv'
<1> SUFFICES ASSUME NEW w \in Wrapper, NEW k \in DOMAIN cache[w]
             PROVE  k \in CachedKey /\ Is(cache[w][k], k, w)' /\ Founded(k)
  BY DEF CacheInv
<1>1. PICK v : v = cache[w][k]
  OBVIOUS
<1>2. k \in CachedKey /\ Is(v, k, w) /\ Founded(k)
  BY <1>1 DEF CacheInv
<1>3. Is(v, k, w)'
  BY <1>2, IsGrows
<1>4. cache'[w][k] = v
  BY <1>1
<1> QED BY <1>1, <1>2, <1>3, <1>4 DEF Is

LEMMA WellBuiltGrows ==
    ASSUME Grows, NEW b \in Instance, WellBuilt(b)
    PROVE  WellBuilt(b)'
<1>1. ASSUME NEW i \in 1..Len(b.args)
      PROVE  Wired(b.owner, BestMatch[b.key], i, b.args[i])'
  <2>1. Wired(b.owner, BestMatch[b.key], i, b.args[i])
    BY DEF WellBuilt
  <2> QED BY <2>1, WiredGrows
<1>2. FromTemplate(b.key)
  BY DEF WellBuilt
<1> QED BY <1>1, <1>2 DEF WellBuilt

LEMMA BornGrows ==
    ASSUME Grows, UNCHANGED born, BornInv
    PROVE  BornInv'
<1> SUFFICES ASSUME NEW n \in Nat, NEW b \in Instance, Built(n, b)'
             PROVE  WellBuilt(b)'
  BY DEF BornInv
<1>1. Built(n, b)
  BY DEF Built
<1>2. WellBuilt(b)
  BY <1>1 DEF BornInv
<1> QED BY <1>2, WellBuiltGrows

LEMMA GivenGrows ==
    ASSUME Grows, UNCHANGED given, GivenInv
    PROVE  GivenInv'
<1> SUFFICES ASSUME NEW g \in given
             PROVE  /\ g.owner \in Wrapper /\ g.key \in CachedKey
                    /\ Guarded(g.key)' => g.value = Lookup(g.owner, g.key)' /\ g.value # 0
  BY DEF GivenInv
<1>1. g.owner \in Wrapper /\ g.key \in CachedKey
  BY DEF GivenInv
<1>2. Guarded(g.key)' <=> Guarded(g.key)
  BY GuardedStays DEF Grows
<1>3. Guarded(g.key) => g.value = Lookup(g.owner, g.key) /\ g.value # 0
  BY DEF GivenInv
<1> QED BY <1>1, <1>2, <1>3 DEF Grows

LEMMA StoreStays ==
    ASSUME Types, StoreInv, UNCHANGED <<deployment, entries, cache, born, given>>
    PROVE  StoreInv'
<1>1. Grows
  BY StillsGrow
<1>2. EntriesInv'
  BY DEF StoreInv, EntriesInv
<1> QED BY <1>1, <1>2, CacheGrows, BornGrows, GivenGrows DEF StoreInv

-----------------------------------------------------------------------------
(* What a new frame g in place k of c's stack has to bring along.          *)

LEMMA SoundStacked ==
    ASSUME SoundInv, UNCHANGED deployment, NEW c \in Caller, NEW k \in Nat, NEW g \in FrameType,
           Stacked(c, k, g), Sound(g)
    PROVE  SoundInv'
<1> SUFFICES ASSUME NEW d \in Caller, NEW i \in Nat, NEW f \in FrameType, Has(d, i, f)'
             PROVE  Sound(f)'
  BY DEF SoundInv
<1>1. f = g \/ Has(d, i, f)
  BY DEF Stacked
<1>2. Sound(f)
  BY <1>1 DEF SoundInv
<1> QED BY <1>2, SoundStays

LEMMA LinkStacked ==
    ASSUME LinkInv, NEW c \in Caller, NEW k \in Nat, NEW g \in FrameType, Stacked(c, k, g),
           \A f \in FrameType, i \in Nat : i + 1 = k /\ Has(c, i, f) => Link(f, g.key, g.on)
    PROVE  LinkInv'
<1> SUFFICES ASSUME NEW d \in Caller, NEW i \in Nat, NEW f \in FrameType, NEW h \in FrameType,
                    Has(d, i, f)', Has(d, i + 1, h)'
             PROVE  Link(f, h.key, h.on)
  BY DEF LinkInv, Link, OwnerOf, HasAllArguments, NextArgument, Unfolds, IsMaybe
<1>1. CASE d # c
  <2>1. Has(d, i, f) /\ Has(d, i + 1, h)
    BY <1>1 DEF Stacked
  <2> QED BY <2>1 DEF LinkInv
<1>2. CASE d = c
  <2>1. (i = k /\ f = g) \/ (i < k /\ Has(c, i, f))
    BY <1>2 DEF Stacked
  <2>2. (i + 1 = k /\ h = g) \/ (i + 1 < k /\ Has(c, i + 1, h))
    BY <1>2 DEF Stacked
  <2>3. CASE i + 1 = k /\ h = g
    BY <2>1, <2>3
  <2>4. CASE i + 1 < k /\ Has(c, i + 1, h)
    BY <2>1, <2>4 DEF LinkInv
  <2> QED BY <2>2, <2>3, <2>4
<1> QED BY <1>1, <1>2

LEMMA UnderStacked ==
    ASSUME UnderInv, NEW c \in Caller, NEW k \in Nat, NEW g \in FrameType, Stacked(c, k, g),
           \A f \in FrameType, i \in Nat : i < k /\ Has(c, i, f) => Under(KeyOf(f), KeyOf(g))
    PROVE  UnderInv'
<1> SUFFICES ASSUME NEW d \in Caller, NEW i \in Nat, NEW j \in Nat, NEW f \in FrameType, NEW h \in FrameType,
                    Has(d, i, f)', Has(d, j, h)', i < j
             PROVE  Under(KeyOf(f), KeyOf(h))
  BY DEF UnderInv, Under, KeyOf, Leads, Below
<1>1. CASE d # c
  <2>1. Has(d, i, f) /\ Has(d, j, h)
    BY <1>1 DEF Stacked
  <2> QED BY <2>1 DEF UnderInv
<1>2. CASE d = c
  <2>1. (i = k /\ f = g) \/ (i < k /\ Has(c, i, f))
    BY <1>2 DEF Stacked
  <2>2. (j = k /\ h = g) \/ (j < k /\ Has(c, j, h))
    BY <1>2 DEF Stacked
  <2>3. CASE j = k /\ h = g
    BY <2>1, <2>3
  <2>4. CASE j < k /\ Has(c, j, h)
    BY <2>1, <2>4 DEF UnderInv
  <2> QED BY <2>2, <2>3, <2>4
<1> QED BY <1>1, <1>2

LEMMA CurrentStacked ==
    ASSUME SoundInv, CurrentInv, Grows, NEW c \in Caller, NEW k \in Nat, NEW g \in FrameType, Stacked(c, k, g),
           Current(g)',
           \A d \in Caller, i \in Nat, f \in FrameType :
               Has(d, i, f) /\ (d # c \/ i < k) /\ Pending(f) /\ Guarded(KeyOf(f)) =>
                   Lookup(OwnerOf(f), KeyOf(f))' = 0
    PROVE  CurrentInv'
<1> SUFFICES ASSUME NEW d \in Caller, NEW i \in Nat, NEW f \in FrameType, Has(d, i, f)'
             PROVE  Current(f)'
  BY DEF CurrentInv
<1>1. CASE f = g
  BY <1>1
<1>2. CASE f # g
  <2>1. Has(d, i, f) /\ (d # c \/ i < k)
    BY <1>2 DEF Stacked
  <2>2. Sound(f) /\ Current(f)
    BY <2>1 DEF SoundInv, CurrentInv
  <2>3. Pending(f) /\ Guarded(KeyOf(f)) => Lookup(OwnerOf(f), KeyOf(f))' = 0
    BY <2>1
  <2> QED BY <2>2, <2>3, CurrentGrows
<1> QED BY <1>1, <1>2

\* The same when no cache changes.
LEMMA CurrentKept ==
    ASSUME SoundInv, CurrentInv, Grows, UNCHANGED cache,
           NEW c \in Caller, NEW k \in Nat, NEW g \in FrameType, Stacked(c, k, g), Current(g)'
    PROVE  CurrentInv'
<1>1. ASSUME NEW d \in Caller, NEW i \in Nat, NEW f \in FrameType, Has(d, i, f), Pending(f), Guarded(KeyOf(f))
      PROVE  Lookup(OwnerOf(f), KeyOf(f))' = 0
  <2>1. Lookup(OwnerOf(f), KeyOf(f)) = 0
    BY <1>1 DEF CurrentInv, Current
  <2>2. PICK o, l : o = OwnerOf(f) /\ l = KeyOf(f)
    OBVIOUS
  <2>3. Lookup(o, l)' = Lookup(o, l)
    BY DEF Lookup
  <2> QED BY <2>1, <2>2, <2>3
<1> QED BY <1>1, CurrentStacked

LEMMA HeldStacked ==
    ASSUME HeldInv, UNCHANGED <<deployment, held>>, NEW c \in Caller, NEW k \in Nat, NEW g \in FrameType,
           Stacked(c, k, g),
           \A i \in Nat, f \in FrameType :
               i >= k /\ Has(c, i, f) /\ Inside(f) => i = k /\ Inside(g) /\ LockFor(f) = LockFor(g),
           Inside(g) => \E f \in FrameType : Has(c, k, f) /\ Inside(f) /\ LockFor(f) = LockFor(g)
    PROVE  HeldInv'
<1>1. ASSUME NEW d \in Caller, NEW i \in Nat, NEW f \in FrameType, Has(d, i, f)', Inside(f)'
      PROVE  Inside(f) /\ \E e \in FrameType : Has(d, i, e) /\ Inside(e) /\ LockFor(e) = LockFor(f)
  <2>1. Inside(f)
    BY <1>1, SoundStays
  <2> QED BY <1>1, <2>1 DEF Stacked
<1>2. HeldByFrame'
  <2> SUFFICES ASSUME NEW h \in held
               PROVE  /\ h.by \in Caller
                      /\ \E i \in Nat, f \in FrameType :
                            Has(h.by, i, f)' /\ Inside(f)' /\ h = [lock |-> LockFor(f), by |-> h.by]
    BY DEF HeldByFrame
  <2>1. PICK d \in Caller, i \in Nat, f \in FrameType :
            d = h.by /\ Has(d, i, f) /\ Inside(f) /\ h = [lock |-> LockFor(f), by |-> d]
    BY DEF HeldInv, HeldByFrame
  <2>2. PICK e \in FrameType : Has(d, i, e)' /\ Inside(e) /\ LockFor(e) = LockFor(f)
    <3>1. CASE d # c \/ i < k
      BY <2>1, <3>1 DEF Stacked
    <3>2. CASE d = c /\ i >= k
      <4>1. i = k /\ Inside(g) /\ LockFor(f) = LockFor(g)
        BY <2>1, <3>2
      <4>2. Has(d, i, g)'
        BY <4>1, <3>2 DEF Stacked
      <4> QED BY <4>1, <4>2
    <3> QED BY <3>1, <3>2
  <2>3. Inside(e)'
    BY <2>2, SoundStays
  <2>4. h = [lock |-> LockFor(e), by |-> d]
    BY <2>1, <2>2
  <2>5. Has(h.by, i, e)'
    BY <2>1, <2>2
  <2> QED BY <2>1, <2>3, <2>4, <2>5
<1>3. FrameHolds'
  <2> SUFFICES ASSUME NEW d \in Caller, NEW i \in Nat, NEW f \in FrameType, Has(d, i, f)', Inside(f)'
               PROVE  [lock |-> LockFor(f), by |-> d] \in held
    BY DEF FrameHolds, LockFor, OwnerOf, KeyOf, SpecOf, Owner, OwnersAt
  <2>1. PICK e \in FrameType : Has(d, i, e) /\ Inside(e) /\ LockFor(e) = LockFor(f)
    BY <1>1
  <2> QED BY <2>1 DEF HeldInv, FrameHolds
<1>4. OneInside'
  <2> SUFFICES ASSUME NEW d \in Caller, NEW e \in Caller, NEW i \in Nat, NEW j \in Nat,
                      NEW f \in FrameType, NEW h \in FrameType,
                      Has(d, i, f)', Has(e, j, h)', Inside(f)', Inside(h)', LockFor(f) = LockFor(h)
               PROVE  d = e /\ i = j
    BY DEF OneInside, LockFor, OwnerOf, KeyOf, SpecOf, Owner, OwnersAt
  <2>1. PICK f1 \in FrameType : Has(d, i, f1) /\ Inside(f1) /\ LockFor(f1) = LockFor(f)
    BY <1>1
  <2>2. PICK h1 \in FrameType : Has(e, j, h1) /\ Inside(h1) /\ LockFor(h1) = LockFor(h)
    BY <1>1
  <2> QED BY <2>1, <2>2 DEF HeldInv, OneInside
<1> QED BY <1>2, <1>3, <1>4 DEF HeldInv

LEMMA LoopRuns ==
    ASSUME Types, LoopInv, UNCHANGED deployment, NEW c \in Caller, NEW k \in Nat, NEW g \in FrameType,
           Stacked(c, k, g), Runs(c)
    PROVE  LoopInv' /\ running' \in Caller \cup {Nobody}
<1>1. CASE ~Async
  BY <1>1 DEF LoopInv, Async, Runs, Control, Types
<1>2. CASE Async
  <2>1. running \in {c, Nobody} /\ running' = c
    BY <1>2 DEF Runs, Control
  <2> SUFFICES ASSUME NEW d \in Caller, NEW i \in Nat, NEW f \in FrameType, Has(d, i, f)', Pending(f), KeyOf(f) \in Quiet
               PROVE  d = c
    BY <2>1 DEF LoopInv, Pending, KeyOf, SpecOf
  <2> SUFFICES ASSUME d # c
               PROVE  FALSE
    OBVIOUS
  <2>2. Has(d, i, f)
    BY DEF Stacked
  <2>3. running = d
    BY <2>2, <1>2 DEF LoopInv
  <2> QED BY <2>3, <2>1, WrappersAssumption
<1> QED BY <1>1, <1>2

LEMMA LoopYields ==
    ASSUME Types, LoopInv, UNCHANGED deployment, NEW c \in Caller, Yields(c),
           \A d \in Caller, i \in Nat, f \in FrameType : Has(d, i, f)' /\ d # c => Has(d, i, f),
           \A i \in Nat, f \in FrameType : Has(c, i, f)' => ~(Pending(f) /\ KeyOf(f) \in Quiet)
    PROVE  LoopInv' /\ running' \in Caller \cup {Nobody}
<1>1. CASE ~Async
  BY <1>1 DEF LoopInv, Async, Yields, Control, Types
<1>2. CASE Async
  <2>1. running \in {c, Nobody} /\ running' = Nobody
    BY <1>2 DEF Yields, Control
  <2> SUFFICES ASSUME NEW d \in Caller, NEW i \in Nat, NEW f \in FrameType, Has(d, i, f)', Pending(f), KeyOf(f) \in Quiet
               PROVE  FALSE
    BY <2>1 DEF LoopInv, Pending, KeyOf, SpecOf
  <2>2. d # c /\ Has(d, i, f)
    OBVIOUS
  <2>3. running = d
    BY <2>2, <1>2 DEF LoopInv
  <2> QED BY <2>3, <2>2, <2>1, WrappersAssumption
<1> QED BY <1>1, <1>2

-----------------------------------------------------------------------------
(* Steps that put a frame in the place of the top one, for the same key.   *)

LEMMA TopFrames ==
    ASSUME IInv, UNCHANGED deployment, NEW c \in Caller, stack[c] # <<>>,
           NEW t \in FrameType, t = Top(c), NEW g \in FrameType, Put(c, g), g.key = t.key, g.on = t.on, Sound(g)
    PROVE  stack' \in [Caller -> Seq(FrameType)] /\ Stacked(c, Len(stack[c]), g) /\ FramesInv'
<1> DEFINE k == Len(stack[c])
<1>1. Types /\ SoundInv /\ LinkInv /\ UnderInv
  BY DEF IInv, FramesInv
<1>2. stack' \in [Caller -> Seq(FrameType)] /\ Stacked(c, k, g)
  BY <1>1, PutStacks
<1>3. Has(c, k, t) /\ k \in Nat
  BY <1>1, OnTop
<1>4. KeyOf(g) = KeyOf(t)
  BY DEF KeyOf
<1> HIDE DEF k
<1>5. SoundInv'
  BY <1>1, <1>2, <1>3, SoundStacked
<1>6. LinkInv'
  <2>1. \A f \in FrameType, i \in Nat : i + 1 = k /\ Has(c, i, f) => Link(f, g.key, g.on)
    BY <1>1, <1>3 DEF LinkInv
  <2> QED BY <2>1, <1>1, <1>2, <1>3, LinkStacked
<1>7. UnderInv'
  <2>1. \A f \in FrameType, i \in Nat : i < k /\ Has(c, i, f) => Under(KeyOf(f), KeyOf(g))
    BY <1>1, <1>3, <1>4 DEF UnderInv
  <2> QED BY <2>1, <1>1, <1>2, <1>3, UnderStacked
<1> QED BY <1>2, <1>5, <1>6, <1>7 DEF FramesInv, k

LEMMA TopHeld ==
    ASSUME IInv, UNCHANGED <<deployment, held>>, NEW c \in Caller, stack[c] # <<>>,
           NEW t \in FrameType, t = Top(c), NEW g \in FrameType, Stacked(c, Len(stack[c]), g),
           g.key = t.key, g.on = t.on, Inside(t) <=> Inside(g), Inside(g) => g.entry = t.entry
    PROVE  HeldInv'
<1>1. Types /\ HeldInv
  BY DEF IInv
<1>2. PICK k \in Nat : k = Len(stack[c])
  BY <1>1, OnTop
<1>3. /\ Has(c, k, t)
      /\ \A i \in Nat, f \in FrameType : Has(c, i, f) => i <= k
      /\ \A f \in FrameType : Has(c, k, f) => f = t
  BY <1>1, <1>2, OnTop
<1>4. Inside(g) => LockFor(t) = LockFor(g)
  BY DEF LockFor, OwnerOf, SpecOf, KeyOf
<1>5. \A i \in Nat, f \in FrameType :
          i >= k /\ Has(c, i, f) /\ Inside(f) => i = k /\ Inside(g) /\ LockFor(f) = LockFor(g)
  BY <1>3, <1>4
<1>6. Inside(g) => \E f \in FrameType : Has(c, k, f) /\ Inside(f) /\ LockFor(f) = LockFor(g)
  BY <1>3, <1>4
<1>7. Stacked(c, k, g)
  BY <1>2
<1> QED BY <1>1, <1>5, <1>6, <1>7, HeldStacked

LEMMA TopYields ==
    ASSUME IInv, UNCHANGED deployment, NEW c \in Caller, stack[c] # <<>>, NEW t \in FrameType, t = Top(c),
           NEW g \in FrameType, g.key = t.key, Stacked(c, Len(stack[c]), g), Yields(c), KeyOf(t) \notin Quiet
    PROVE  LoopInv' /\ running' \in Caller \cup {Nobody}
<1> DEFINE k == Len(stack[c])
<1>1. Types /\ LoopInv /\ UnderInv
  BY DEF IInv, FramesInv
<1>2. Has(c, k, t) /\ k \in Nat
  BY <1>1, OnTop
<1>3. KeyOf(g) = KeyOf(t)
  BY DEF KeyOf
<1> HIDE DEF k
<1>4. Stacked(c, k, g)
  BY DEF k
<1>5. ASSUME NEW i \in Nat, NEW f \in FrameType, Has(c, i, f)'
      PROVE  ~(Pending(f) /\ KeyOf(f) \in Quiet)
  <2>1. CASE f = g
    BY <2>1, <1>3
  <2>2. CASE i < k /\ Has(c, i, f)
    <3>1. Under(KeyOf(f), KeyOf(t))
      BY <2>2, <1>1, <1>2 DEF UnderInv
    <3> QED BY <3>1 DEF Under
  <2> QED BY <2>1, <2>2, <1>4, <1>5 DEF Stacked
<1>6. \A d \in Caller, i \in Nat, f \in FrameType : Has(d, i, f)' /\ d # c => Has(d, i, f)
  BY <1>4 DEF Stacked
<1> QED BY <1>1, <1>5, <1>6, LoopYields

LEMMA TopGrows ==
    ASSUME IInv, UNCHANGED deployment, NEW c \in Caller, stack[c] # <<>>,
           NEW t \in FrameType, t = Top(c), NEW g \in FrameType, Put(c, g),
           g.key = t.key, g.on = t.on, Sound(g), CurrentInv', HeldInv', Counted', StoreInv',
           born' \in Seq(Instance), DOMAIN cache' = Wrapper,
           Runs(c) \/ (Yields(c) /\ KeyOf(t) \notin Quiet)
    PROVE  IInv'
<1>1. Types /\ LoopInv
  BY DEF IInv
<1>2. stack' \in [Caller -> Seq(FrameType)] /\ Stacked(c, Len(stack[c]), g) /\ FramesInv'
  BY TopFrames
<1>3. PICK k \in Nat : k = Len(stack[c])
  BY <1>1, OnTop
<1>4. Stacked(c, k, g)
  BY <1>2, <1>3
<1>5. LoopInv' /\ running' \in Caller \cup {Nobody}
  <2>1. CASE Runs(c)
    BY <2>1, <1>1, <1>4, LoopRuns
  <2>2. CASE Yields(c) /\ KeyOf(t) \notin Quiet
    BY <2>2, <1>2, TopYields
  <2> QED BY <2>1, <2>2
<1>6. Types'
  BY <1>1, <1>2, <1>5 DEF Types
<1> QED BY <1>2, <1>5, <1>6 DEF IInv

LEMMA TopMoves ==
    ASSUME IInv, UNCHANGED <<deployment, cache, born>>, NEW c \in Caller, stack[c] # <<>>,
           NEW t \in FrameType, t = Top(c), NEW g \in FrameType, Put(c, g),
           g.key = t.key, g.on = t.on, Sound(g), Current(g), HeldInv', Counted', StoreInv',
           Runs(c) \/ (Yields(c) /\ KeyOf(t) \notin Quiet)
    PROVE  IInv'
<1>1. Types /\ SoundInv /\ CurrentInv
  BY DEF IInv, FramesInv
<1>2. PICK k \in Nat : k = Len(stack[c])
  BY <1>1, OnTop
<1>3. Stacked(c, k, g)
  BY <1>2, TopFrames
<1>4. Grows
  BY <1>1, StillsGrow
<1>5. Current(g)'
  <2>1. PICK o, l : o = OwnerOf(g) /\ l = KeyOf(g)
    OBVIOUS
  <2>2. Lookup(o, l)' = Lookup(o, l)
    BY DEF Lookup
  <2>3. Pending(g) /\ Guarded(KeyOf(g)) => Lookup(OwnerOf(g), KeyOf(g))' = 0
    BY <2>1, <2>2 DEF Current
  <2> QED BY <2>3, <1>4, CurrentGrows
<1>6. CurrentInv'
  BY <1>1, <1>3, <1>4, <1>5, CurrentKept
<1>7. born' \in Seq(Instance) /\ DOMAIN cache' = Wrapper
  BY <1>1 DEF Types
<1> QED BY <1>6, <1>7, TopGrows

LEMMA TopKeeps ==
    ASSUME IInv, UNCHANGED <<deployment, cache, held, born>>, NEW c \in Caller, stack[c] # <<>>,
           NEW t \in FrameType, t = Top(c), NEW g \in FrameType, Put(c, g),
           g.key = t.key, g.on = t.on, Inside(t) <=> Inside(g), Inside(g) => g.entry = t.entry,
           Sound(g), Current(g), Counted', StoreInv',
           Runs(c) \/ (Yields(c) /\ KeyOf(t) \notin Quiet)
    PROVE  IInv'
<1>1. Stacked(c, Len(stack[c]), g)
  BY TopFrames
<1>2. HeldInv'
  BY <1>1, TopHeld
<1> QED BY <1>2, TopMoves

\* A label takes the place of another.
Relabelled(t, g, l) ==
    g.at = l /\ g.key = t.key /\ g.on = t.on /\ g.entry = t.entry /\ g.args = t.args /\ g.value = t.value

LEMMA GotoPuts ==
    ASSUME Types, NEW c \in Caller, stack[c] # <<>>, NEW t \in FrameType, t = Top(c), NEW l \in Label, Goto(c, l)
    PROVE  \E g \in FrameType : Put(c, g) /\ Relabelled(t, g, l)
<1> DEFINE g == [t EXCEPT !.at = l]
<1>1. g \in FrameType /\ Relabelled(t, g, l)
  BY DEF FrameType, Relabelled
<1>2. Put(c, g)
  BY DEF Goto
<1> QED BY <1>1, <1>2

LEMMA DonePuts ==
    ASSUME Types, NEW c \in Caller, stack[c] # <<>>, NEW t \in FrameType, t = Top(c), NEW v \in Nat, Done(c, v)
    PROVE  \E g \in FrameType : /\ Put(c, g) /\ g.at = "done" /\ g.key = t.key /\ g.on = t.on
                                /\ g.entry = t.entry /\ g.args = t.args /\ g.value = v
<1> DEFINE g == [t EXCEPT !.at = "done", !.value = v]
<1>1. /\ g \in FrameType /\ g.at = "done" /\ g.key = t.key /\ g.on = t.on
      /\ g.entry = t.entry /\ g.args = t.args /\ g.value = v
  BY DEF FrameType, Label
<1>2. Put(c, g)
  BY DEF Done
<1> QED BY <1>1, <1>2

\* What the step of a caller finds on top.
LEMMA TopFacts ==
    ASSUME IInv, NEW c \in Caller, stack[c] # <<>>
    PROVE  \E t \in FrameType : t = Top(c) /\ Sound(t) /\ Current(t) /\ Has(c, Len(stack[c]), t)
<1>1. Types /\ SoundInv /\ CurrentInv
  BY DEF IInv, FramesInv
<1>2. Top(c) \in FrameType /\ Has(c, Len(stack[c]), Top(c)) /\ Len(stack[c]) \in Nat
  BY <1>1, OnTop
<1>3. PICK t \in FrameType, k \in Nat : t = Top(c) /\ k = Len(stack[c])
  BY <1>2
<1>4. Has(c, k, t)
  BY <1>2, <1>3
<1>5. Sound(t) /\ Current(t)
  BY <1>1, <1>4 DEF SoundInv, CurrentInv
<1> QED BY <1>3, <1>4, <1>5

-----------------------------------------------------------------------------
(* The steps of a caller, one by one.                                      *)

LEMMA AtFacts ==
    ASSUME NEW c \in Caller, NEW l \in Label, At(c, l)
    PROVE  stack[c] # <<>> /\ Top(c).at = l
BY DEF At

LEMMA StillStore ==
    ASSUME IInv, UNCHANGED <<deployment, entries, cache, born, given>>
    PROVE  StoreInv'
BY StoreStays DEF IInv

LEMMA StillCounted ==
    ASSUME IInv, UNCHANGED <<attempted, materialized, calls, faults>>
    PROVE  Counted'
BY DEF IInv, Types, Counted

\* A key that the generated resolver knows is built without the registry.
LEMMA KnownIsFounded ==
    ASSUME NEW k \in ClosedKey, Known(k), ~IsMaybe(k)
    PROVE  Founded(k)
<1>1. Below[k] = {}
  BY BelowFacts DEF FromTemplate
<1> QED BY <1>1, FoundedIntro

LEMMA BaseStep ==
    ASSUME IInv, NEW c \in Caller, BaseKnows(c), NEW l \in {"done", "failed"}, Goto(c, l),
           UNCHANGED <<deployment, shared, born, given, calls, faults>>,
           Runs(c) \/ (Yields(c) /\ KeyOf(Top(c)) \notin Quiet)
    PROVE  IInv'
<1>1. stack[c] # <<>>
  BY DEF BaseKnows, At
<1>2. PICK t \in FrameType : t = Top(c) /\ Sound(t) /\ Current(t)
  BY <1>1, TopFacts
<1>3. t.at = "dispatch" /\ ~IsMaybe(t.key) /\ Known(KeyOf(t))
  BY <1>2 DEF BaseKnows, At
<1>4. Types /\ l \in Label
  BY DEF IInv, Label
<1>5. PICK g \in FrameType : Put(c, g) /\ Relabelled(t, g, l)
  BY <1>1, <1>2, <1>4, GotoPuts
<1>6. g.at \in {"done", "failed"} /\ g.key = t.key /\ g.on = t.on /\ KeyOf(g) = KeyOf(t) /\ ~Matched(g)
        /\ g.args = <<>> /\ g.value = 0
  BY <1>5, <1>3, <1>2 DEF Relabelled, KeyOf, Matched, Sound
<1>7. Founded(KeyOf(g))
  BY <1>3, <1>6, FrameFacts, KeyFacts, KnownIsFounded DEF KeyOf
<1>8. Sound(g)
  BY <1>6, <1>7 DEF Sound, Placed
<1>9. Current(g) /\ ~Inside(g) /\ ~Inside(t)
  BY <1>6, <1>3 DEF Current, Holds, Pending, Settles, Inside
<1>10. StoreInv' /\ Counted'
  BY StillStore, StillCounted DEF shared
<1> QED BY <1>1, <1>2, <1>5, <1>6, <1>8, <1>9, <1>10, TopKeeps DEF shared

LEMMA ResolveBaseStep ==
    ASSUME IInv, NEW c \in Caller, ResolveBase(c)
    PROVE  IInv'
<1>1. PICK l \in {"done", "failed"} : Goto(c, l)
  BY DEF ResolveBase
<1> QED BY <1>1, BaseStep DEF ResolveBase

LEMMA AwaitBaseStep ==
    ASSUME IInv, NEW c \in Caller, AwaitBase(c)
    PROVE  IInv'
<1>1. KeyOf(Top(c)) \notin Quiet
  <2>1. PICK k : k = KeyOf(Top(c))
    OBVIOUS
  <2>2. k \in AsyncBase
    BY <2>1 DEF AwaitBase
  <2> QED BY <2>1, <2>2, QuietFacts
<1>2. Goto(c, "done") /\ BaseKnows(c)
  BY DEF AwaitBase
<1> QED BY <1>1, <1>2, BaseStep DEF AwaitBase

LEMMA DispatchStep ==
    ASSUME IInv, NEW c \in Caller, Dispatch(c)
    PROVE  IInv'
<1>1. stack[c] # <<>>
  BY DEF Dispatch, At
<1>2. PICK t \in FrameType : t = Top(c) /\ Sound(t) /\ Current(t)
  BY <1>1, TopFacts
<1>3. t.at = "dispatch" /\ t.key \in DOMAIN entries
  BY <1>2 DEF Dispatch, At
<1>4. entries[t.key] = BestMatch[KeyOf(t)] /\ FromTemplate(KeyOf(t))
  BY <1>3 DEF IInv, StoreInv, EntriesInv, KeyOf
<1>5. PICK e \in Matches : e = entries[t.key] /\ e # NoEntry
  BY <1>4, FrameFacts, MatchFacts DEF FromTemplate
<1> DEFINE g == [t EXCEPT !.at = "open", !.entry = e]
<1>6. /\ g \in FrameType /\ g.at = "open" /\ g.key = t.key /\ g.on = t.on /\ g.entry = e
      /\ g.args = t.args /\ g.value = t.value
  BY DEF FrameType, Label
<1>7. Put(c, g)
  BY <1>2, <1>5 DEF Dispatch
<1> HIDE DEF g
<1>8. g.args = <<>> /\ KeyOf(g) = KeyOf(t) /\ Matched(g) /\ g.entry = BestMatch[KeyOf(g)]
  BY <1>6, <1>3, <1>2, <1>4, <1>5 DEF Sound, KeyOf, Matched
<1>9. Arguments[g.entry] \in Seq({TypeArgument, OpenArgument} \cup {KeyArgument(a) : a \in AnyKey})
  BY <1>4, <1>8, FrameFacts, MatchFacts DEF FromTemplate
<1>10. Len(g.args) = 0 /\ Len(Arguments[g.entry]) \in Nat
  BY <1>8, <1>9
<1>11. Sound(g)
  BY <1>4, <1>6, <1>8, <1>10 DEF Sound, Placed
<1>12. Current(g) /\ ~Inside(g) /\ ~Inside(t)
  BY <1>6, <1>3 DEF Current, Holds, Pending, Settles, Inside
<1>13. StoreInv' /\ Counted' /\ Runs(c) /\ UNCHANGED <<deployment, cache, held, born>>
  BY StillStore, StillCounted DEF shared, Dispatch
<1> QED BY <1>1, <1>2, <1>6, <1>7, <1>11, <1>12, <1>13, TopKeeps

LEMMA AfterBaseMissStep ==
    ASSUME IInv, NEW c \in Caller, AfterBaseMiss(c)
    PROVE  IInv'
<1>1. stack[c] # <<>>
  BY DEF AfterBaseMiss, At
<1>2. PICK t \in FrameType : t = Top(c) /\ Sound(t) /\ Current(t)
  BY <1>1, TopFacts
<1>3. t.at = "dispatch" /\ ~IsMaybe(t.key) /\ ~Known(KeyOf(t)) /\ Runs(c)
  BY <1>2 DEF AfterBaseMiss, At
<1>4. /\ t.args = <<>> /\ t.value = 0 /\ ~Inside(t) /\ t.key \in AnyKey /\ KeyOf(t) \in ClosedKey
      /\ KeyOf(t) \in AnyKey /\ Closing[KeyOf(t)] = KeyOf(t) /\ ~IsMaybe(KeyOf(t))
  BY <1>2, <1>3, FrameFacts, KeyFacts DEF Sound, Inside, KeyOf
<1>5. Counted' /\ UNCHANGED <<deployment, cache, held, born>>
  BY StillCounted DEF AfterBaseMiss
<1>6. PICK e : e = BestMatch[KeyOf(t)]
  OBVIOUS
<1>7. CASE e.kind = "match"
  <2>1. FromTemplate(KeyOf(t)) /\ e \in Matches /\ e # NoEntry
            /\ Arguments[e] \in Seq({TypeArgument, OpenArgument} \cup {KeyArgument(a) : a \in AnyKey})
    BY <1>3, <1>4, <1>6, <1>7, MatchFacts DEF FromTemplate
  <2> DEFINE g == [t EXCEPT !.at = "once", !.entry = e]
  <2>2. /\ g \in FrameType /\ g.at = "once" /\ g.key = t.key /\ g.on = t.on /\ g.entry = e
        /\ g.args = t.args /\ g.value = t.value
    BY <2>1 DEF FrameType, Label
  <2>3. /\ Put(c, g)
        /\ entries' = [k \in {t.key, KeyOf(t)} \cup DOMAIN entries |->
                          IF k \in {t.key, KeyOf(t)} THEN e ELSE entries[k]]
    BY <1>2, <1>6, <1>7 DEF AfterBaseMiss
  <2> HIDE DEF g
  <2>4. KeyOf(g) = KeyOf(t) /\ Matched(g) /\ g.entry = BestMatch[KeyOf(g)] /\ Len(g.args) = 0 /\ g.args = <<>>
    BY <2>2, <1>4, <1>6, <2>1 DEF KeyOf, Matched
  <2>5. Sound(g)
    BY <2>1, <2>2, <2>4 DEF Sound, Placed
  <2>6. Current(g) /\ ~Inside(g)
    BY <2>2 DEF Current, Holds, Pending, Settles, Inside
  <2>7. EntriesInv'
    <3>1. EntriesInv
      BY DEF IInv, StoreInv
    <3>2. DOMAIN entries' = {t.key, KeyOf(t)} \cup DOMAIN entries
      BY <2>3
    <3>3. \A d \in DOMAIN entries' : entries'[d] = IF d \in {t.key, KeyOf(t)} THEN e ELSE entries[d]
      BY <2>3
    <3>4. \A d \in {t.key, KeyOf(t)} : d \in AnyKey /\ Closing[d] = KeyOf(t)
      BY <1>4 DEF KeyOf
    <3>5. ASSUME NEW d \in DOMAIN entries'
          PROVE  d \in AnyKey /\ entries'[d] = BestMatch[Closing[d]] /\ FromTemplate(Closing[d])
      <4>1. CASE d \in {t.key, KeyOf(t)}
        BY <4>1, <3>3, <3>4, <2>1, <1>6
      <4>2. CASE d \notin {t.key, KeyOf(t)}
        BY <4>2, <3>1, <3>2, <3>3 DEF EntriesInv
      <4> QED BY <4>1, <4>2
    <3> QED BY <3>5 DEF EntriesInv, FromTemplate, Known, IsMaybe, ClosedKey
  <2>8. StoreInv'
    <3>1. Types /\ CacheInv /\ BornInv /\ GivenInv /\ UNCHANGED given
      BY DEF IInv, StoreInv, AfterBaseMiss
    <3>2. Grows
      BY <3>1, <1>5, StillsGrow
    <3> QED BY <3>1, <3>2, <1>5, <2>7, CacheGrows, BornGrows, GivenGrows DEF StoreInv
  <2> QED BY <1>1, <1>2, <1>3, <1>4, <1>5, <2>2, <2>3, <2>5, <2>6, <2>8, TopKeeps
<1>8. CASE e.kind # "match"
  <2>1. Goto(c, "failed") /\ UNCHANGED <<entries, given>>
    BY <1>2, <1>6, <1>8 DEF AfterBaseMiss
  <2>2. PICK g \in FrameType : Put(c, g) /\ Relabelled(t, g, "failed")
    BY <1>1, <1>2, <2>1, GotoPuts DEF IInv, Label
  <2>3. Sound(g) /\ Current(g) /\ ~Inside(g) /\ g.key = t.key /\ g.on = t.on
    BY <2>2, <1>2, <1>3 DEF Relabelled, Sound, Placed, Current, Holds, Pending, Settles, Inside, KeyOf, Matched
  <2>4. StoreInv'
    BY <2>1, <1>5, StillStore
  <2> QED BY <1>1, <1>2, <1>3, <1>4, <1>5, <2>2, <2>3, <2>4, TopKeeps
<1> QED BY <1>7, <1>8

\* A frame that only gets another label.
LEMMA RelabelStep ==
    ASSUME IInv, NEW c \in Caller, stack[c] # <<>>, NEW t \in FrameType, t = Top(c),
           NEW g \in FrameType, Put(c, g), NEW l \in Label, Relabelled(t, g, l), Sound(g), Current(g),
           Inside(t) <=> Inside(g), UNCHANGED <<deployment, entries, cache, held, born, given>>, Counted',
           Runs(c) \/ (Yields(c) /\ KeyOf(t) \notin Quiet)
    PROVE  IInv'
<1>1. g.key = t.key /\ g.on = t.on /\ g.entry = t.entry
  BY DEF Relabelled
<1>2. StoreInv'
  BY StillStore
<1> QED BY <1>1, <1>2, TopKeeps

LEMMA MaterializeSteps ==
    ASSUME IInv, NEW c \in Caller, MaterializeOnce(c) \/ Materialize(c) \/ MaterializeFails(c)
    PROVE  IInv'
<1>1. stack[c] # <<>> /\ Top(c).at \in {"once", "materialize"}
  BY DEF MaterializeOnce, Materialize, MaterializeFails, At
<1>2. PICK t \in FrameType : t = Top(c) /\ Sound(t) /\ Current(t)
  BY <1>1, TopFacts
<1>3. t.at \in {"once", "materialize"} /\ KeyOf(t) \in ClosedKey
  BY <1>1, <1>2, FrameFacts
<1>4. PICK l \in {"open", "materialize", "failed"} : Goto(c, l)
  BY DEF MaterializeOnce, Materialize, MaterializeFails
<1>5. PICK g \in FrameType : Put(c, g) /\ Relabelled(t, g, l)
  BY <1>1, <1>2, <1>4, GotoPuts DEF IInv, Label
<1>6. Runs(c) /\ UNCHANGED <<deployment, entries, cache, held, born, given>>
  BY DEF MaterializeOnce, Materialize, MaterializeFails, shared
<1>7. Counted'
  <2>1. Counted /\ faults \in Nat /\ MaxFaults \in Nat
    BY WrappersAssumption DEF IInv, Types, Counted
  <2>2. CASE MaterializeOnce(c)
    BY <2>1, <2>2, <1>2, <1>3 DEF MaterializeOnce, Counted
  <2>3. CASE Materialize(c)
    BY <2>1, <2>3, <1>2, <1>3 DEF Materialize, Counted
  <2>4. CASE MaterializeFails(c)
    <3>1. faults' \in 0..MaxFaults
      BY <2>1, <2>4 DEF MaterializeFails
    <3> QED BY <2>1, <2>4, <3>1 DEF MaterializeFails, Counted, shared
  <2> QED BY <2>2, <2>3, <2>4
<1>8. Sound(g)
  <2>1. Matched(t) /\ t.args = <<>>
    BY <1>2, <1>3 DEF Sound
  <2> QED BY <2>1, <1>2, <1>3, <1>5 DEF Sound, Relabelled, Placed, KeyOf, Matched
<1>9. Current(g) /\ ~Inside(g) /\ ~Inside(t)
  BY <1>3, <1>5 DEF Relabelled, Current, Holds, Pending, Settles, Inside
<1>10. l \in Label
  BY DEF Label
<1> QED BY <1>1, <1>2, <1>5, <1>6, <1>7, <1>8, <1>9, <1>10, RelabelStep

\* What the cache of a frame's owner has for its key.
LEMMA CacheHit ==
    ASSUME IInv, NEW o \in Wrapper, NEW k, Lookup(o, k) # 0
    PROVE  k \in CachedKey /\ Is(Lookup(o, k), k, o) /\ Founded(k) /\ Lookup(o, k) \in Nat
<1>1. k \in DOMAIN cache[o] /\ Lookup(o, k) = cache[o][k]
  BY DEF Lookup
<1>2. k \in CachedKey /\ Is(cache[o][k], k, o) /\ Founded(k)
  BY <1>1 DEF IInv, StoreInv, CacheInv
<1>3. Len(born) \in Nat
  BY DEF IInv, Types
<1> QED BY <1>1, <1>2, <1>3 DEF Is

LEMMA OpenMatchStep ==
    ASSUME IInv, NEW c \in Caller, OpenMatch(c)
    PROVE  IInv'
<1>1. stack[c] # <<>>
  BY DEF OpenMatch, At
<1>2. PICK t \in FrameType : t = Top(c) /\ Sound(t) /\ Current(t)
  BY <1>1, TopFacts
<1>3. t.at = "open" /\ Runs(c) /\ UNCHANGED <<deployment, entries, cache, held, born, given>>
  BY <1>2 DEF OpenMatch, At, shared
<1>4. Matched(t) /\ t.args = <<>> /\ ~Inside(t) /\ Len(t.args) = 0
  BY <1>2, <1>3 DEF Sound, Inside
<1>5. Counted' /\ StoreInv'
  BY StillCounted, StillStore DEF OpenMatch, shared
<1>6. PICK o, k, p : o = OwnerOf(t) /\ k = KeyOf(t) /\ p = SpecOf(t)
  OBVIOUS
<1>7. CASE Mismatch(t) \/ (p \in AsyncTemplate /\ ~Async)
  <2>1. Goto(c, "failed")
    BY <1>2, <1>6, <1>7 DEF OpenMatch
  <2>2. PICK g \in FrameType : Put(c, g) /\ Relabelled(t, g, "failed")
    BY <2>1, <1>1, <1>2, GotoPuts DEF IInv, Label
  <2>3. Sound(g) /\ Current(g) /\ ~Inside(g)
    BY <2>2, <1>2, <1>3 DEF Relabelled, Sound, Placed, Current, Holds, Pending, Settles, Inside, KeyOf, Matched
  <2>4. "failed" \in Label
    BY DEF Label
  <2> QED BY <1>1, <1>2, <1>3, <1>4, <1>5, <2>2, <2>3, <2>4, RelabelStep
<1>8. CASE ~Mismatch(t) /\ ~(p \in AsyncTemplate /\ ~Async) /\ p \in Transient
  <2>1. Goto(c, "args") /\ ~Locks(p)
    BY <1>2, <1>6, <1>8 DEF OpenMatch, Locks, LocksIn
  <2>2. PICK g \in FrameType : Put(c, g) /\ Relabelled(t, g, "args")
    BY <2>1, <1>1, <1>2, GotoPuts DEF IInv, Label
  <2>3. /\ g.at = "args" /\ KeyOf(g) = k /\ SpecOf(g) = p /\ OwnerOf(g) = o /\ g.args = <<>> /\ Len(g.args) = 0
        /\ (Mismatch(g) <=> Mismatch(t)) /\ Matched(g) /\ g.entry = t.entry
    BY <2>2, <1>4, <1>6 DEF Relabelled, KeyOf, SpecOf, OwnerOf, Mismatch, Matched
  <2>4. Sound(g)
    BY <2>3, <1>2, <1>4, <1>6, <1>8 DEF Sound, Placed
  <2>5. Current(g) /\ ~Inside(g)
    BY <2>1, <2>3, <1>8 DEF Current, Holds, Pending, Settles, Inside
  <2>6. "args" \in Label
    BY DEF Label
  <2> QED BY <1>1, <1>2, <1>3, <1>4, <1>5, <2>2, <2>4, <2>5, <2>6, RelabelStep
<1>9. CASE ~Mismatch(t) /\ ~(p \in AsyncTemplate /\ ~Async) /\ p \notin Transient /\ Lookup(o, k) # 0
  <2>1. o \in Wrapper
    BY <1>2, <1>6, <1>9, PlacedFacts
  <2>2. PICK v \in Nat : v = Lookup(o, k) /\ Is(v, k, o) /\ Founded(k)
    BY <2>1, <1>9, CacheHit
  <2>3. Done(c, v)
    BY <1>2, <1>6, <1>9, <2>2 DEF OpenMatch
  <2>4. PICK g \in FrameType : /\ Put(c, g) /\ g.at = "done" /\ g.key = t.key /\ g.on = t.on
                               /\ g.entry = t.entry /\ g.args = t.args /\ g.value = v
    BY <2>3, <1>1, <1>2, DonePuts DEF IInv
  <2>5. /\ KeyOf(g) = k /\ SpecOf(g) = p /\ OwnerOf(g) = o /\ Len(g.args) = 0
        /\ (Mismatch(g) <=> Mismatch(t)) /\ Matched(g)
    BY <2>4, <1>4, <1>6 DEF KeyOf, SpecOf, OwnerOf, Mismatch, Matched
  <2>6. Sound(g)
    BY <2>2, <2>4, <2>5, <1>2, <1>4, <1>6, <1>9 DEF Sound, Placed
  <2>7. Current(g) /\ ~Inside(g)
    BY <2>2, <2>4, <2>5 DEF Current, Holds, Pending, Settles, Inside
  <2> QED BY <1>1, <1>2, <1>3, <1>4, <1>5, <2>4, <2>6, <2>7, TopKeeps
<1>10. CASE ~Mismatch(t) /\ ~(p \in AsyncTemplate /\ ~Async) /\ p \notin Transient /\ Lookup(o, k) = 0
  <2>1. Goto(c, IF Locks(p) THEN "lock" ELSE "args")
    BY <1>2, <1>6, <1>10 DEF OpenMatch
  <2>2. PICK l \in {"lock", "args"} : l = (IF Locks(p) THEN "lock" ELSE "args") /\ Goto(c, l)
    BY <2>1
  <2>3. PICK g \in FrameType : Put(c, g) /\ Relabelled(t, g, l)
    BY <2>2, <1>1, <1>2, GotoPuts DEF IInv, Label
  <2>4. /\ g.at = l /\ KeyOf(g) = k /\ SpecOf(g) = p /\ OwnerOf(g) = o /\ g.args = <<>> /\ Len(g.args) = 0
        /\ (Mismatch(g) <=> Mismatch(t)) /\ Matched(g) /\ g.entry = t.entry
    BY <2>3, <1>4, <1>6 DEF Relabelled, KeyOf, SpecOf, OwnerOf, Mismatch, Matched
  <2>5. Sound(g)
    BY <2>2, <2>4, <1>2, <1>4, <1>6, <1>10 DEF Sound, Placed
  <2>6. Current(g)
    BY <2>2, <2>4, <1>10 DEF Current, Holds, Pending, Settles
  <2>7. ~Inside(g) /\ l \in Label
    BY <2>2, <2>4 DEF Inside, Label
  <2> QED BY <1>1, <1>2, <1>3, <1>4, <1>5, <2>3, <2>5, <2>6, <2>7, RelabelStep
<1> QED BY <1>7, <1>8, <1>9, <1>10, <1>6

LEMMA RelookStep ==
    ASSUME IInv, NEW c \in Caller, Relook(c)
    PROVE  IInv'
<1>1. stack[c] # <<>>
  BY DEF Relook, At
<1>2. PICK t \in FrameType : t = Top(c) /\ Sound(t) /\ Current(t)
  BY <1>1, TopFacts
<1>3. t.at = "relook" /\ Runs(c) /\ UNCHANGED <<deployment, entries, cache, held, born, given>>
  BY <1>2 DEF Relook, At, shared
<1>4. Matched(t) /\ t.args = <<>> /\ Inside(t) /\ Len(t.args) = 0 /\ Locks(SpecOf(t)) /\ ~Mismatch(t)
  BY <1>2, <1>3 DEF Sound, Inside, Placed
<1>5. Counted' /\ StoreInv'
  BY StillCounted, StillStore DEF Relook, shared
<1>6. PICK o, k, p : o = OwnerOf(t) /\ k = KeyOf(t) /\ p = SpecOf(t)
  OBVIOUS
<1>7. o \in Wrapper
  BY <1>2, <1>4, <1>6, PlacedFacts
<1>8. CASE Lookup(o, k) # 0
  <2>1. PICK v \in Nat : v = Lookup(o, k) /\ Is(v, k, o) /\ Founded(k)
    BY <1>7, <1>8, CacheHit
  <2> DEFINE g == [t EXCEPT !.at = "release", !.value = v]
  <2>2. /\ g \in FrameType /\ g.at = "release" /\ g.key = t.key /\ g.on = t.on
        /\ g.entry = t.entry /\ g.args = t.args /\ g.value = v
    BY DEF FrameType, Label
  <2>3. Put(c, g)
    BY <2>1, <1>2, <1>6, <1>8 DEF Relook
  <2> HIDE DEF g
  <2>4. /\ KeyOf(g) = k /\ SpecOf(g) = p /\ OwnerOf(g) = o /\ Len(g.args) = 0
        /\ (Mismatch(g) <=> Mismatch(t)) /\ Matched(g)
    BY <2>2, <1>4, <1>6 DEF KeyOf, SpecOf, OwnerOf, Mismatch, Matched
  <2>5. Sound(g)
    BY <2>1, <2>2, <2>4, <1>2, <1>4, <1>6 DEF Sound, Placed
  <2>6. Current(g)
    BY <2>1, <2>2, <2>4 DEF Current, Holds, Pending, Settles
  <2>7. Inside(g)
    BY <2>2, <2>4, <1>4, <1>6 DEF Inside
  <2> QED BY <1>1, <1>2, <1>3, <1>4, <1>5, <2>2, <2>3, <2>5, <2>6, <2>7, TopKeeps
<1>9. CASE Lookup(o, k) = 0
  <2>1. Goto(c, "args")
    BY <1>2, <1>6, <1>9 DEF Relook
  <2>2. PICK g \in FrameType : Put(c, g) /\ Relabelled(t, g, "args")
    BY <2>1, <1>1, <1>2, GotoPuts DEF IInv, Label
  <2>3. /\ g.at = "args" /\ KeyOf(g) = k /\ SpecOf(g) = p /\ OwnerOf(g) = o /\ g.args = <<>> /\ Len(g.args) = 0
        /\ (Mismatch(g) <=> Mismatch(t)) /\ Matched(g) /\ g.entry = t.entry
    BY <2>2, <1>4, <1>6 DEF Relabelled, KeyOf, SpecOf, OwnerOf, Mismatch, Matched
  <2>4. Sound(g)
    BY <2>3, <1>2, <1>4, <1>6 DEF Sound, Placed
  <2>5. Current(g)
    BY <2>3, <1>9 DEF Current, Holds, Pending, Settles
  <2>6. Inside(g) /\ "args" \in Label
    BY <2>3, <1>4, <1>6 DEF Inside, Label
  <2> QED BY <1>1, <1>2, <1>3, <1>4, <1>5, <2>2, <2>4, <2>5, <2>6, RelabelStep
<1> QED BY <1>8, <1>9

LEMMA BindTypeArgumentStep ==
    ASSUME IInv, NEW c \in Caller, BindTypeArgument(c)
    PROVE  IInv'
<1>1. stack[c] # <<>>
  BY DEF BindTypeArgument, Lacks, At
<1>2. PICK t \in FrameType : t = Top(c) /\ Sound(t) /\ Current(t)
  BY <1>1, TopFacts
<1>3. /\ t.at = "args" /\ ~HasAllArguments(t) /\ NextArgument(t) = TypeArgument /\ Runs(c)
      /\ UNCHANGED <<deployment, entries, cache, held, born, given>>
  BY <1>2 DEF BindTypeArgument, Lacks, At, shared
<1>4. Matched(t)
  BY <1>2, <1>3 DEF Sound, Placed
<1>5. Counted' /\ StoreInv'
  BY StillCounted, StillStore DEF BindTypeArgument, shared
<1>6. t.args \in Seq(Nat) /\ Len(t.args) \in Nat /\ Len(Arguments[t.entry]) \in Nat
  BY <1>2, <1>4, FrameFacts, MatchedFacts
<1>7. Len(t.args) < Len(Arguments[t.entry]) /\ Arguments[t.entry][Len(t.args) + 1] = TypeArgument
  BY <1>2, <1>3, <1>4, <1>6 DEF Sound, HasAllArguments, NextArgument
<1>8. PICK u \in Seq(Nat) : u = Append(t.args, 0)
  BY <1>6, Appended
<1>9. Len(u) = Len(t.args) + 1 /\ u[Len(t.args) + 1] = 0 /\ \A i \in 1..Len(t.args) : u[i] = t.args[i]
  BY <1>6, <1>8, Appended
<1> DEFINE g == [t EXCEPT !.args = u]
<1>10. /\ g \in FrameType /\ g.at = "args" /\ g.key = t.key /\ g.on = t.on
       /\ g.entry = t.entry /\ g.args = u /\ g.value = t.value
  BY <1>3 DEF FrameType
<1>11. Put(c, g)
  BY <1>2, <1>8 DEF BindTypeArgument
<1> HIDE DEF g
<1>12. /\ KeyOf(g) = KeyOf(t) /\ SpecOf(g) = SpecOf(t) /\ OwnerOf(g) = OwnerOf(t)
       /\ (Mismatch(g) <=> Mismatch(t)) /\ Matched(g)
  BY <1>10, <1>4 DEF KeyOf, SpecOf, OwnerOf, Mismatch, Matched
<1>13. Sound(g)
  <2>1. ASSUME NEW i \in 1..Len(u), NEW a \in AnyKey, Arguments[t.entry][i] = KeyArgument(a)
        PROVE  Founded(Closing[a])
    <3>1. i \in 1..Len(t.args)
      BY <2>1, <1>6, <1>7, <1>9, ArgumentFacts
    <3> QED BY <2>1, <3>1, <1>2, <1>4 DEF Sound
  <2>2. Len(u) <= Len(Arguments[t.entry])
    BY <1>6, <1>7, <1>9
  <2> QED BY <2>1, <2>2, <1>2, <1>3, <1>4, <1>10, <1>12 DEF Sound, Placed
<1>14. Current(g)
  <2>1. ASSUME NEW i \in 1..Len(u)
        PROVE  Wired(OwnerOf(t), t.entry, i, u[i])
    <3>1. CASE i \in 1..Len(t.args)
      BY <3>1, <1>2, <1>3, <1>9 DEF Current
    <3>2. CASE i = Len(t.args) + 1
      BY <3>2, <1>9 DEF Wired
    <3> QED BY <3>1, <3>2, <1>6, <1>9
  <2>2. Pending(g) /\ Guarded(KeyOf(g)) => Lookup(OwnerOf(g), KeyOf(g)) = 0
    BY <1>2, <1>3, <1>10, <1>12 DEF Current, Pending
  <2> QED BY <2>1, <2>2, <1>10, <1>12 DEF Current, Holds, Settles
<1>15. Inside(t) <=> Inside(g)
  BY <1>3, <1>10, <1>12 DEF Inside
<1> QED BY <1>1, <1>2, <1>3, <1>5, <1>10, <1>11, <1>13, <1>14, <1>15, TopKeeps

\* An error leaves the frame through its lock.
LEMMA AbortStep ==
    ASSUME IInv, NEW c \in Caller, stack[c] # <<>>, Top(c).at \in {"args", "await"}, Goto(c, Abort(Top(c))),
           UNCHANGED <<deployment, shared, born, given, calls>>, Runs(c),
           faults' = faults \/ (faults < MaxFaults /\ faults' = faults + 1)
    PROVE  IInv'
<1>1. PICK t \in FrameType : t = Top(c) /\ Sound(t) /\ Current(t)
  BY TopFacts
<1>2. PICK l \in {"unwind", "failed"} : l = Abort(t)
  BY DEF Abort
<1>3. l \in Label
  BY DEF Label
<1>4. PICK g \in FrameType : Put(c, g) /\ Relabelled(t, g, l)
  BY <1>1, <1>2, <1>3, GotoPuts DEF IInv
<1>5. Matched(t) /\ ~Mismatch(t) /\ t.at \in {"args", "await"}
  BY <1>1 DEF Sound, Placed
<1>6. /\ g.at = l /\ KeyOf(g) = KeyOf(t) /\ SpecOf(g) = SpecOf(t) /\ OwnerOf(g) = OwnerOf(t)
      /\ (Mismatch(g) <=> Mismatch(t)) /\ Matched(g) /\ g.entry = t.entry /\ g.args = t.args
  BY <1>4, <1>5 DEF Relabelled, KeyOf, SpecOf, OwnerOf, Mismatch, Matched
<1>7. l = "unwind" <=> Locks(SpecOf(t))
  BY <1>2 DEF Abort
<1>8. Sound(g)
  BY <1>1, <1>2, <1>5, <1>6, <1>7 DEF Sound, Placed
<1>9. Current(g)
  BY <1>2, <1>6 DEF Current, Holds, Pending, Settles
<1>10. Inside(t) <=> Inside(g)
  BY <1>2, <1>5, <1>6, <1>7 DEF Inside
<1>11. Counted'
  <2>1. Counted /\ faults \in Nat /\ MaxFaults \in Nat
    BY WrappersAssumption DEF IInv, Types, Counted
  <2>2. faults' \in 0..MaxFaults
    BY <2>1 DEF Counted
  <2> QED BY <2>1, <2>2 DEF Counted, shared
<1> QED BY <1>1, <1>3, <1>4, <1>8, <1>9, <1>10, <1>11, RelabelStep DEF shared

LEMMA ArgumentOpenStep ==
    ASSUME IInv, NEW c \in Caller, ArgumentOpen(c)
    PROVE  IInv'
<1>1. stack[c] # <<>> /\ Top(c).at = "args" /\ Goto(c, Abort(Top(c))) /\ Runs(c)
  BY DEF ArgumentOpen, Lacks, At
<1>2. UNCHANGED <<deployment, shared, born, given, calls>> /\ faults' = faults
  BY DEF ArgumentOpen
<1>3. Top(c).at \in {"args", "await"}
  BY <1>1
<1> QED BY <1>1, <1>2, <1>3, AbortStep

LEMMA ProviderFailsStep ==
    ASSUME IInv, NEW c \in Caller, ProviderFails(c)
    PROVE  IInv'
BY AbortStep DEF ProviderFails, ProviderTurn, At

\* When a provider has all its arguments, its key is founded.
LEMMA AllArgumentsFounded ==
    ASSUME NEW t \in FrameType, Sound(t), Matched(t), HasAllArguments(t)
    PROVE  Founded(KeyOf(t))
<1>1. KeyOf(t) \in ClosedKey /\ FromTemplate(KeyOf(t)) /\ t.entry = BestMatch[KeyOf(t)]
  BY FrameFacts, MatchedFacts
<1>2. ASSUME NEW z \in Below[KeyOf(t)]
      PROVE  Founded(z)
  <2>1. PICK i \in 1..Len(Arguments[t.entry]), a \in AnyKey : Arguments[t.entry][i] = KeyArgument(a) /\ Closing[a] = z
    BY <1>1, BelowNeeds
  <2>2. i \in 1..Len(t.args)
    BY DEF HasAllArguments
  <2> QED BY <2>1, <2>2 DEF Sound
<1> QED BY <1>1, <1>2, FoundedIntro

LEMMA AwaitProviderStep ==
    ASSUME IInv, NEW c \in Caller, AwaitProvider(c)
    PROVE  IInv'
<1>1. stack[c] # <<>>
  BY DEF AwaitProvider, At
<1>2. PICK t \in FrameType : t = Top(c) /\ Sound(t) /\ Current(t)
  BY <1>1, TopFacts
<1>3. /\ t.at = "args" /\ HasAllArguments(t) /\ SpecOf(t) \in AsyncTemplate /\ Yields(c)
      /\ UNCHANGED <<deployment, entries, cache, held, born, given>>
  BY <1>2 DEF AwaitProvider, At, shared
<1>4. PICK g \in FrameType : Put(c, g) /\ Relabelled(t, g, "await")
  BY <1>1, <1>2, GotoPuts DEF IInv, Label, AwaitProvider
<1>5. Matched(t) /\ ~Mismatch(t)
  BY <1>2, <1>3 DEF Sound, Placed
<1>6. /\ g.at = "await" /\ KeyOf(g) = KeyOf(t) /\ SpecOf(g) = SpecOf(t) /\ OwnerOf(g) = OwnerOf(t)
      /\ (Mismatch(g) <=> Mismatch(t)) /\ Matched(g) /\ g.entry = t.entry /\ g.args = t.args
  BY <1>4, <1>5 DEF Relabelled, KeyOf, SpecOf, OwnerOf, Mismatch, Matched
<1>7. Founded(KeyOf(t))
  BY <1>2, <1>3, <1>5, AllArgumentsFounded
<1>8. Sound(g)
  BY <1>2, <1>3, <1>5, <1>6, <1>7 DEF Sound, Placed
<1>9. Current(g)
  BY <1>2, <1>3, <1>6 DEF Current, Holds, Pending, Settles
<1>10. Inside(t) <=> Inside(g)
  BY <1>3, <1>6 DEF Inside
<1>11. KeyOf(t) \notin Quiet
  <2>1. SpecOf(t) = TemplateOf(KeyOf(t)) /\ FromTemplate(KeyOf(t))
    BY <1>2, <1>5, MatchedFacts
  <2> QED BY <2>1, <1>3, QuietFacts
<1>12. Counted' /\ "await" \in Label
  BY StillCounted DEF AwaitProvider, shared, Label
<1> QED BY <1>1, <1>2, <1>3, <1>4, <1>8, <1>9, <1>10, <1>11, <1>12, RelabelStep

LEMMA AcquireStep ==
    ASSUME IInv, NEW c \in Caller, Acquire(c)
    PROVE  IInv'
<1>1. stack[c] # <<>>
  BY DEF Acquire, At
<1>2. PICK t \in FrameType : t = Top(c) /\ Sound(t) /\ Current(t)
  BY <1>1, TopFacts
<1>3. t.at = "lock" /\ Runs(c) /\ UNCHANGED <<deployment, entries, cache, born, given>>
  BY <1>2 DEF Acquire, At
<1>4. PICK g \in FrameType : Put(c, g) /\ Relabelled(t, g, "relook")
  BY <1>1, <1>2, GotoPuts DEF IInv, Label, Acquire
<1>5. Matched(t) /\ ~Mismatch(t) /\ Locks(SpecOf(t)) /\ ~Inside(t)
  BY <1>2, <1>3 DEF Sound, Placed, Inside
<1>6. /\ g.at = "relook" /\ KeyOf(g) = KeyOf(t) /\ SpecOf(g) = SpecOf(t) /\ OwnerOf(g) = OwnerOf(t)
      /\ (Mismatch(g) <=> Mismatch(t)) /\ Matched(g) /\ g.entry = t.entry /\ g.args = t.args
      /\ g.key = t.key /\ g.on = t.on
  BY <1>4, <1>5 DEF Relabelled, KeyOf, SpecOf, OwnerOf, Mismatch, Matched
<1>7. Sound(g)
  BY <1>2, <1>3, <1>5, <1>6 DEF Sound, Placed
<1>8. Current(g) /\ Inside(g)
  BY <1>5, <1>6 DEF Current, Holds, Pending, Settles, Inside
<1>9. Counted' /\ StoreInv'
  BY <1>3, StillCounted, StillStore DEF Acquire
<1>10. PICK lock : lock = LockFor(t) /\ LockFor(g) = lock
  BY <1>6 DEF LockFor
<1>11. held' = held \cup {[lock |-> lock, by |-> c]} /\ \A h \in held : h.lock # lock
  BY <1>2, <1>10 DEF Acquire, LockOf, LockFor, Taken
<1>12. Types /\ HeldInv
  BY DEF IInv
<1>13. PICK k \in Nat : k = Len(stack[c]) /\ Stacked(c, k, g)
  BY <1>2, <1>1, <1>3, <1>4, <1>6, <1>7, <1>12, OnTop, TopFrames
<1>14. \A f \in FrameType, i \in Nat : Has(c, i, f) => i < k \/ (i = k /\ f = t)
  BY <1>1, <1>2, <1>12, <1>13, OnTop
<1>15. \A d \in Caller, i \in Nat, f \in FrameType : Has(d, i, f) /\ Inside(f) => Has(d, i, f)' /\ LockFor(f) # lock
  <2> SUFFICES ASSUME NEW d \in Caller, NEW i \in Nat, NEW f \in FrameType, Has(d, i, f), Inside(f)
               PROVE  Has(d, i, f)' /\ LockFor(f) # lock
    OBVIOUS
  <2>1. d # c \/ i < k
    BY <1>5, <1>14
  <2>2. [lock |-> LockFor(f), by |-> d] \in held
    BY <1>12 DEF HeldInv, FrameHolds
  <2> QED BY <2>1, <2>2, <1>11, <1>13 DEF Stacked
<1>16. \A d \in Caller, i \in Nat, f \in FrameType :
           Has(d, i, f)' /\ Inside(f) => (d = c /\ i = k /\ f = g) \/ Has(d, i, f)
  BY <1>13 DEF Stacked
<1>17. HeldByFrame'
  <2> SUFFICES ASSUME NEW h \in held'
               PROVE  /\ h.by \in Caller
                      /\ \E i \in Nat, f \in FrameType :
                            Has(h.by, i, f)' /\ Inside(f)' /\ h = [lock |-> LockFor(f), by |-> h.by]
    BY DEF HeldByFrame
  <2>1. CASE h \in held
    <3>1. PICK d \in Caller, i \in Nat, f \in FrameType :
              d = h.by /\ Has(d, i, f) /\ Inside(f) /\ h = [lock |-> LockFor(f), by |-> d]
      BY <2>1, <1>12 DEF HeldInv, HeldByFrame
    <3>2. Has(d, i, f)' /\ Inside(f)'
      BY <3>1, <1>3, <1>15, SoundStays
    <3> QED BY <3>1, <3>2
  <2>2. CASE h = [lock |-> lock, by |-> c]
    <3>1. Has(c, k, g)' /\ Inside(g)'
      BY <1>3, <1>8, <1>13, SoundStays DEF Stacked
    <3> QED BY <2>2, <3>1, <1>10
  <2> QED BY <2>1, <2>2, <1>11
<1>18. FrameHolds'
  <2> SUFFICES ASSUME NEW d \in Caller, NEW i \in Nat, NEW f \in FrameType, Has(d, i, f)', Inside(f)'
               PROVE  [lock |-> LockFor(f), by |-> d] \in held'
    BY DEF FrameHolds, LockFor, OwnerOf, KeyOf, SpecOf, Owner, OwnersAt
  <2>1. Inside(f)
    BY <1>3, SoundStays
  <2>2. CASE d = c /\ i = k /\ f = g
    BY <2>2, <1>10, <1>11
  <2>3. CASE Has(d, i, f)
    BY <2>1, <2>3, <1>11, <1>12 DEF HeldInv, FrameHolds
  <2> QED BY <2>1, <2>2, <2>3, <1>16
<1>19. OneInside'
  <2> SUFFICES ASSUME NEW d \in Caller, NEW e \in Caller, NEW i \in Nat, NEW j \in Nat,
                      NEW f \in FrameType, NEW h \in FrameType,
                      Has(d, i, f)', Has(e, j, h)', Inside(f)', Inside(h)', LockFor(f) = LockFor(h)
               PROVE  d = e /\ i = j
    BY DEF OneInside, LockFor, OwnerOf, KeyOf, SpecOf, Owner, OwnersAt
  <2>1. Inside(f) /\ Inside(h)
    BY <1>3, SoundStays
  <2>2. CASE Has(d, i, f) /\ Has(e, j, h)
    BY <2>1, <2>2, <1>12 DEF HeldInv, OneInside
  <2>3. (d = c /\ i = k /\ f = g) \/ Has(d, i, f)
    BY <2>1, <1>16
  <2>4. (e = c /\ j = k /\ h = g) \/ Has(e, j, h)
    BY <2>1, <1>16
  <2>5. ~(Has(d, i, f) /\ e = c /\ j = k /\ h = g) /\ ~(Has(e, j, h) /\ d = c /\ i = k /\ f = g)
    BY <2>1, <1>10, <1>15
  <2> QED BY <2>2, <2>3, <2>4, <2>5
<1>20. HeldInv'
  BY <1>17, <1>18, <1>19 DEF HeldInv
<1> QED BY <1>1, <1>2, <1>3, <1>4, <1>6, <1>7, <1>8, <1>9, <1>20, TopMoves

LEMMA ReleaseStep ==
    ASSUME IInv, NEW c \in Caller, Release(c)
    PROVE  IInv'
<1>1. stack[c] # <<>>
  BY DEF Release, At
<1>2. PICK t \in FrameType : t = Top(c) /\ Sound(t) /\ Current(t)
  BY <1>1, TopFacts
<1>3. t.at \in {"release", "unwind"} /\ Runs(c) /\ UNCHANGED <<deployment, entries, cache, born, given>>
  BY <1>2 DEF Release, At
<1>4. PICK l \in {"done", "failed"} : Goto(c, l) /\ (l = "done" <=> t.at = "release")
  BY <1>1, <1>2, <1>3 DEF Release, At
<1>5. PICK g \in FrameType : Put(c, g) /\ Relabelled(t, g, l)
  BY <1>1, <1>2, <1>4, GotoPuts DEF IInv, Label
<1>6. Matched(t) /\ ~Mismatch(t) /\ Locks(SpecOf(t)) /\ Inside(t)
  BY <1>2, <1>3 DEF Sound, Placed, Inside
<1>7. /\ g.at = l /\ KeyOf(g) = KeyOf(t) /\ SpecOf(g) = SpecOf(t) /\ OwnerOf(g) = OwnerOf(t)
      /\ (Mismatch(g) <=> Mismatch(t)) /\ Matched(g) /\ g.entry = t.entry /\ g.args = t.args
      /\ g.key = t.key /\ g.on = t.on /\ g.value = t.value
  BY <1>5, <1>6 DEF Relabelled, KeyOf, SpecOf, OwnerOf, Mismatch, Matched
<1>8. Sound(g)
  BY <1>2, <1>3, <1>4, <1>6, <1>7 DEF Sound, Placed
<1>9. Current(g)
  <2>1. CASE l = "failed"
    BY <2>1, <1>7 DEF Current, Holds, Pending, Settles
  <2>2. CASE l = "done"
    BY <2>2, <1>2, <1>4, <1>6, <1>7 DEF Current, Holds, Pending, Settles
  <2> QED BY <2>1, <2>2
<1>10. ~Inside(g)
  BY <1>7 DEF Inside
<1>11. Counted' /\ StoreInv'
  BY <1>3, StillCounted, StillStore DEF Release
<1>12. PICK lock : lock = LockFor(t)
  OBVIOUS
<1>13. held' = held \ {[lock |-> lock, by |-> c]}
  BY <1>2, <1>12 DEF Release, LockOf, LockFor
<1>14. Types /\ HeldInv
  BY DEF IInv
<1>15. PICK k \in Nat : k = Len(stack[c]) /\ Stacked(c, k, g)
  BY <1>2, <1>1, <1>3, <1>5, <1>7, <1>8, <1>14, OnTop, TopFrames
<1>16. Has(c, k, t) /\ \A f \in FrameType, i \in Nat : Has(c, i, f) => i < k \/ (i = k /\ f = t)
  BY <1>1, <1>2, <1>14, <1>15, OnTop
<1>17. \A d \in Caller, i \in Nat, f \in FrameType : Has(d, i, f)' /\ Inside(f) => Has(d, i, f) /\ (d # c \/ i # k)
  BY <1>10, <1>15 DEF Stacked
<1>18. HeldByFrame'
  <2> SUFFICES ASSUME NEW h \in held, h # [lock |-> lock, by |-> c]
               PROVE  /\ h.by \in Caller
                      /\ \E i \in Nat, f \in FrameType :
                            Has(h.by, i, f)' /\ Inside(f)' /\ h = [lock |-> LockFor(f), by |-> h.by]
    BY <1>13 DEF HeldByFrame
  <2>1. PICK d \in Caller, i \in Nat, f \in FrameType :
            d = h.by /\ Has(d, i, f) /\ Inside(f) /\ h = [lock |-> LockFor(f), by |-> d]
    BY <1>14 DEF HeldInv, HeldByFrame
  <2>2. d # c \/ i < k
    BY <2>1, <1>12, <1>16
  <2>3. Has(d, i, f)' /\ Inside(f)'
    BY <2>1, <2>2, <1>3, <1>15, SoundStays DEF Stacked
  <2> QED BY <2>1, <2>3
<1>19. FrameHolds'
  <2> SUFFICES ASSUME NEW d \in Caller, NEW i \in Nat, NEW f \in FrameType, Has(d, i, f)', Inside(f)'
               PROVE  [lock |-> LockFor(f), by |-> d] \in held'
    BY DEF FrameHolds, LockFor, OwnerOf, KeyOf, SpecOf, Owner, OwnersAt
  <2>1. Inside(f)
    BY <1>3, SoundStays
  <2>2. Has(d, i, f) /\ (d # c \/ i # k)
    BY <2>1, <1>17
  <2>3. [lock |-> LockFor(f), by |-> d] \in held
    BY <2>1, <2>2, <1>14 DEF HeldInv, FrameHolds
  <2>4. [lock |-> LockFor(f), by |-> d] # [lock |-> lock, by |-> c]
    <3>1. SUFFICES ASSUME LockFor(f) = lock, d = c
                   PROVE  FALSE
      OBVIOUS
    <3>2. d = c /\ i = k
      BY <3>1, <2>1, <2>2, <1>6, <1>12, <1>14, <1>16 DEF HeldInv, OneInside
    <3> QED BY <3>2, <2>2
  <2> QED BY <2>3, <2>4, <1>13
<1>20. OneInside'
  <2> SUFFICES ASSUME NEW d \in Caller, NEW e \in Caller, NEW i \in Nat, NEW j \in Nat,
                      NEW f \in FrameType, NEW h \in FrameType,
                      Has(d, i, f)', Has(e, j, h)', Inside(f)', Inside(h)', LockFor(f) = LockFor(h)
               PROVE  d = e /\ i = j
    BY DEF OneInside, LockFor, OwnerOf, KeyOf, SpecOf, Owner, OwnersAt
  <2>1. Inside(f) /\ Inside(h)
    BY <1>3, SoundStays
  <2>2. Has(d, i, f) /\ Has(e, j, h)
    BY <2>1, <1>17
  <2> QED BY <2>1, <2>2, <1>14 DEF HeldInv, OneInside
<1>21. HeldInv'
  BY <1>18, <1>19, <1>20 DEF HeldInv
<1> QED BY <1>1, <1>2, <1>3, <1>5, <1>7, <1>8, <1>9, <1>11, <1>21, TopMoves

LEMMA BuildStep ==
    ASSUME IInv, NEW c \in Caller, Build(c)
    PROVE  IInv'
<1>1. stack[c] # <<>>
  BY DEF Build, ProviderTurn, At
<1>2. PICK t \in FrameType : t = Top(c) /\ Sound(t) /\ Current(t)
  BY <1>1, TopFacts
<1>3. /\ t.at = "await" \/ (t.at = "args" /\ HasAllArguments(t))
      /\ Runs(c) /\ UNCHANGED <<deployment, entries, cache, held, given>>
  BY <1>2 DEF Build, ProviderTurn, At, shared
<1>4. Matched(t) /\ ~Mismatch(t)
  BY <1>2, <1>3 DEF Sound, Placed
<1>5. PICK o, k, p : o \in Wrapper /\ k \in ClosedKey /\ o = OwnerOf(t) /\ k = KeyOf(t) /\ p = SpecOf(t)
  BY <1>2, <1>4, PlacedFacts, FrameFacts
<1>6. Founded(k) /\ FromTemplate(k) /\ t.entry = BestMatch[k] /\ t.args \in Seq(Nat)
  BY <1>2, <1>3, <1>4, <1>5, AllArgumentsFounded, MatchedFacts, FrameFacts DEF Sound
<1>7. Types /\ SoundInv /\ CurrentInv /\ StoreInv
  BY DEF IInv, FramesInv
<1>8. born \in Seq(Instance) /\ Len(born) \in Nat
  BY <1>7 DEF Types
<1>9. PICK b \in Instance : b = [key |-> k, owner |-> o, args |-> t.args]
  BY <1>5, <1>6 DEF Instance
<1>10. b.key = k /\ b.owner = o /\ b.args = t.args
  BY <1>9
<1>11. PICK v \in Nat : v = Len(born) + 1
  BY <1>8
<1>12. born' = Append(born, b)
  BY <1>2, <1>5, <1>9 DEF Build
<1>13. born' \in Seq(Instance) /\ Len(born)' = v /\ born'[v] = b /\ \A i \in 1..Len(born) : born'[i] = born[i]
  BY <1>8, <1>11, <1>12, Appended
<1>14. Grows
  <2>1. \A w \in Wrapper, l \in CachedKey : Lookup(w, l)' = Lookup(w, l)
    BY <1>3 DEF Lookup
  <2> QED BY <2>1, <1>3, <1>8, <1>11, <1>13 DEF Grows
<1>15. PICK l \in {"done", "store"} : l = "done" <=> p \in Transient
  OBVIOUS
<1> DEFINE g == [t EXCEPT !.value = v, !.at = l]
<1>16. /\ g \in FrameType /\ g.at = l /\ g.key = t.key /\ g.on = t.on
       /\ g.entry = t.entry /\ g.args = t.args /\ g.value = v
  BY DEF FrameType, Label
<1>17. Put(c, g)
  BY <1>2, <1>5, <1>11, <1>15 DEF Build
<1> HIDE DEF g
<1>18. /\ KeyOf(g) = k /\ SpecOf(g) = p /\ OwnerOf(g) = o /\ (Mismatch(g) <=> Mismatch(t)) /\ Matched(g)
  BY <1>16, <1>4, <1>5 DEF KeyOf, SpecOf, OwnerOf, Mismatch, Matched
<1>19. Sound(g)
  BY <1>2, <1>4, <1>5, <1>6, <1>15, <1>16, <1>18 DEF Sound, Placed
<1>20. Inside(t) <=> Inside(g)
  BY <1>3, <1>5, <1>15, <1>16, <1>18 DEF Inside, Locks, LocksIn
<1>21. Current(g)'
  <2>1. Is(v, k, o)'
    BY <1>10, <1>11, <1>8, <1>13 DEF Is
  <2>2. Pending(g) /\ Guarded(k)' => Lookup(o, k)' = 0
    <3>1. Guarded(k)' <=> Guarded(k)
      BY <1>3, GuardedStays
    <3>2. Pending(g) /\ Guarded(k) => Lookup(o, k) = 0
      BY <1>2, <1>3, <1>5, <1>18 DEF Current, Pending
    <3> QED BY <3>1, <3>2, <1>3 DEF Lookup
  <2>3. ~Settles(g) /\ g.at \notin {"args", "await"}
    BY <1>15, <1>16, <1>18 DEF Settles
  <2>4. (Pending(g)' <=> Pending(g)) /\ (Settles(g)' <=> Settles(g))
    BY DEF Pending, Settles
  <2> QED BY <2>1, <2>2, <2>3, <2>4, <1>16, <1>18 DEF Current
<1>22. PICK n \in Nat : n = Len(stack[c])
  BY <1>1, <1>7, OnTop
<1>23. Stacked(c, n, g)
  BY <1>1, <1>2, <1>3, <1>16, <1>17, <1>19, <1>22, TopFrames
<1>24. CurrentInv'
  BY <1>3, <1>7, <1>14, <1>16, <1>21, <1>23, CurrentKept
<1>25. HeldInv'
  BY <1>1, <1>2, <1>3, <1>16, <1>20, <1>22, <1>23, TopHeld
<1>26. BornInv'
  <2> SUFFICES ASSUME NEW m \in Nat, NEW x \in Instance, Built(m, x)'
               PROVE  WellBuilt(x)'
    BY DEF BornInv
  <2>1. CASE m \in 1..Len(born)
    <3>1. Built(m, x)
      BY <2>1, <1>13 DEF Built
    <3>2. WellBuilt(x)
      BY <3>1, <1>7 DEF StoreInv, BornInv
    <3> QED BY <3>2, <1>14, WellBuiltGrows
  <2>2. CASE m = v
    <3>1. x = b
      BY <2>2, <1>13 DEF Built
    <3>2. ASSUME NEW i \in 1..Len(t.args)
          PROVE  Wired(o, BestMatch[k], i, t.args[i])
      BY <1>2, <1>3, <1>5, <1>6 DEF Current
    <3>3. WellBuilt(b)
      BY <3>2, <1>6, <1>10 DEF WellBuilt
    <3> QED BY <3>1, <3>3, <1>14, WellBuiltGrows
  <2> QED BY <2>1, <2>2, <1>8, <1>11, <1>13 DEF Built
<1>27. StoreInv'
  <2>1. EntriesInv'
    BY <1>3, <1>7 DEF StoreInv, EntriesInv
  <2> QED BY <2>1, <1>3, <1>7, <1>14, <1>26, CacheGrows, GivenGrows DEF StoreInv
<1>28. Counted' /\ DOMAIN cache' = Wrapper
  BY <1>3, <1>7, StillCounted DEF Build, shared, Types
<1> QED BY <1>1, <1>2, <1>3, <1>13, <1>16, <1>17, <1>19, <1>24, <1>25, <1>27, <1>28, TopGrows

\* Nobody else is building the guarded key that a caller is about to store.
LEMMA OneBuild ==
    ASSUME IInv, NEW c \in Caller, NEW n \in Nat, NEW t \in FrameType, Has(c, n, t), Runs(c),
           t.at = "store", Guarded(KeyOf(t)),
           NEW d \in Caller, NEW i \in Nat, NEW f \in FrameType, Has(d, i, f), d # c \/ i < n,
           Pending(f), KeyOf(f) = KeyOf(t), OwnerOf(f) = OwnerOf(t)
    PROVE  FALSE
<1>1. SoundInv /\ UnderInv /\ HeldInv /\ LoopInv
  BY DEF IInv, FramesInv
<1>2. Sound(t) /\ Sound(f)
  BY <1>1 DEF SoundInv
<1>3. Matched(t) /\ Matched(f) /\ Pending(t)
  BY <1>2 DEF Sound, Pending, Placed
<1>4. PICK k \in ClosedKey : k = KeyOf(t)
  BY FrameFacts
<1>5. SpecOf(t) = TemplateOf(k) /\ SpecOf(f) = TemplateOf(k)
  BY <1>2, <1>3, <1>4, MatchedFacts
<1>6. CASE d = c
  <2>1. Leads(k, k)
    BY <1>1, <1>4, <1>6 DEF UnderInv, Under
  <2>2. Founded(k)
    BY <1>2, <1>4 DEF Sound
  <2> QED BY <2>1, <2>2, FoundedIsAcyclic
<1>7. CASE d # c /\ Locks(TemplateOf(k))
  <2>1. Inside(t) /\ Inside(f) /\ LockFor(t) = LockFor(f)
    BY <1>5, <1>7 DEF Inside, Pending, LockFor
  <2> QED BY <2>1, <1>1, <1>7 DEF HeldInv, OneInside
<1>8. CASE d # c /\ Async /\ k \in Quiet
  <2>1. running = c /\ running = d
    BY <1>1, <1>3, <1>4, <1>8 DEF LoopInv
  <2> QED BY <2>1, <1>8
<1> QED BY <1>4, <1>6, <1>7, <1>8 DEF Guarded

LEMMA StoreStep ==
    ASSUME IInv, NEW c \in Caller, Store(c)
    PROVE  IInv'
<1>1. stack[c] # <<>>
  BY DEF Store, At
<1>2. PICK t \in FrameType : t = Top(c) /\ Sound(t) /\ Current(t)
  BY <1>1, TopFacts
<1>3. t.at = "store" /\ Runs(c) /\ UNCHANGED <<deployment, entries, held, born, given>>
  BY <1>2 DEF Store, At
<1>4. Matched(t) /\ ~Mismatch(t) /\ SpecOf(t) \notin Transient
  BY <1>2, <1>3 DEF Sound, Placed
<1>29. OwnerOf(t) \in Wrapper
  BY <1>2, <1>4, PlacedFacts
<1>30. KeyOf(t) \in CachedKey /\ t.value \in Nat
  BY <1>2, <1>4, FrameFacts, MatchedFacts
<1>5. PICK o \in Wrapper, k \in CachedKey, p \in {SpecOf(t)}, v \in Nat :
          o = OwnerOf(t) /\ k = KeyOf(t) /\ p = SpecOf(t) /\ v = t.value
  BY <1>29, <1>30
<1>6. Founded(k) /\ Is(v, k, o) /\ Pending(t) /\ p \notin Transient
  BY <1>2, <1>3, <1>4, <1>5 DEF Sound, Current, Holds, Pending
<1>7. Types /\ SoundInv /\ CurrentInv /\ StoreInv
  BY DEF IInv, FramesInv
<1>8. DOMAIN cache = Wrapper /\ Len(born) \in Nat /\ v # 0
  BY <1>6, <1>7 DEF Types, Is
<1>9. cache' = [cache EXCEPT ![o] = [q \in {k} \cup DOMAIN @ |-> IF q = k THEN v ELSE @[q]]]
  BY <1>2, <1>5 DEF Store
<1>10. /\ DOMAIN cache' = Wrapper
       /\ \A w \in Wrapper \ {o} : cache'[w] = cache[w]
       /\ DOMAIN cache'[o] = {k} \cup DOMAIN cache[o]
       /\ \A q \in {k} \cup DOMAIN cache[o] : cache'[o][q] = IF q = k THEN v ELSE cache[o][q]
  BY <1>8, <1>9
<1>11. \A w \in Wrapper : \A q : Lookup(w, q)' = IF w = o /\ q = k THEN v ELSE Lookup(w, q)
  BY <1>10 DEF Lookup
<1>12. Guarded(k) => Lookup(o, k) = 0
  BY <1>2, <1>5, <1>6 DEF Current
<1>13. Grows
  BY <1>3, <1>8, <1>11, <1>12 DEF Grows
<1>14. PICK l \in {"release", "done"} : l = "release" <=> Locks(p)
  OBVIOUS
<1>15. Goto(c, l)
  BY <1>2, <1>5, <1>14 DEF Store
<1>16. PICK g \in FrameType : Put(c, g) /\ Relabelled(t, g, l)
  BY <1>1, <1>2, <1>7, <1>15, GotoPuts DEF Label
<1>17. /\ g.at = l /\ KeyOf(g) = k /\ SpecOf(g) = p /\ OwnerOf(g) = o /\ (Mismatch(g) <=> Mismatch(t))
       /\ Matched(g) /\ g.entry = t.entry /\ g.args = t.args /\ g.key = t.key /\ g.on = t.on /\ g.value = v
  BY <1>16, <1>4, <1>5 DEF Relabelled, KeyOf, SpecOf, OwnerOf, Mismatch, Matched
<1>18. Sound(g)
  BY <1>2, <1>3, <1>4, <1>5, <1>6, <1>14, <1>17 DEF Sound, Placed
<1>19. Inside(t) <=> Inside(g)
  BY <1>3, <1>5, <1>14, <1>17 DEF Inside
<1>20. Current(g)'
  <2>1. Is(v, k, o)'
    BY <1>6, <1>13, IsGrows
  <2>2. Lookup(o, k)' = v
    BY <1>11
  <2>3. ~Pending(g) /\ g.at \notin {"args", "await"}
    BY <1>17 DEF Pending
  <2>4. Pending(g)' <=> Pending(g)
    BY DEF Pending
  <2> QED BY <2>1, <2>2, <2>3, <2>4, <1>17 DEF Current
<1>21. PICK n \in Nat : n = Len(stack[c]) /\ Has(c, n, t)
  BY <1>1, <1>2, <1>7, OnTop
<1>22. Stacked(c, n, g)
  BY <1>1, <1>2, <1>3, <1>16, <1>17, <1>18, <1>21, TopFrames
<1>23. ASSUME NEW d \in Caller, NEW i \in Nat, NEW f \in FrameType, Has(d, i, f), d # c \/ i < n,
              Pending(f), Guarded(KeyOf(f))
       PROVE  Lookup(OwnerOf(f), KeyOf(f))' = 0
  <2>1. Sound(f) /\ Current(f)
    BY <1>7, <1>23 DEF SoundInv, CurrentInv
  <2>2. ~Mismatch(f)
    BY <2>1, <1>23 DEF Sound, Pending, Placed
  <2>3. PICK w, q : w \in Wrapper /\ w = OwnerOf(f) /\ q = KeyOf(f)
    BY <2>1, <2>2, PlacedFacts
  <2>4. Lookup(w, q) = 0
    BY <2>1, <2>3, <1>23 DEF Current
  <2>5. ~(w = o /\ q = k)
    BY <2>3, <1>23, <1>3, <1>5, <1>21, OneBuild
  <2> QED BY <2>3, <2>4, <2>5, <1>11
<1>24. CurrentInv'
  BY <1>7, <1>13, <1>20, <1>22, <1>23, CurrentStacked
<1>25. HeldInv'
  BY <1>1, <1>2, <1>3, <1>17, <1>19, <1>21, <1>22, TopHeld
<1>26. CacheInv'
  <2> SUFFICES ASSUME NEW w \in Wrapper, NEW q \in DOMAIN cache'[w]
               PROVE  q \in CachedKey /\ Founded(q) /\ \E x : x = cache'[w][q] /\ Is(x, q, w)'
    BY DEF CacheInv, Is
  <2>1. CASE w = o /\ q = k
    <3>1. cache'[w][q] = v /\ Is(v, q, w)'
      BY <2>1, <1>6, <1>10, <1>13, IsGrows
    <3> QED BY <2>1, <3>1, <1>6
  <2>2. CASE ~(w = o /\ q = k)
    <3>1. q \in DOMAIN cache[w] /\ cache'[w][q] = cache[w][q]
      BY <2>2, <1>10
    <3>2. PICK x : x = cache[w][q]
      OBVIOUS
    <3>3. q \in CachedKey /\ Is(x, q, w) /\ Founded(q)
      BY <3>1, <3>2, <1>7 DEF StoreInv, CacheInv
    <3>4. Is(x, q, w)'
      BY <3>3, <1>13, IsGrows
    <3> QED BY <3>1, <3>2, <3>3, <3>4
  <2> QED BY <2>1, <2>2
<1>27. StoreInv'
  <2>1. EntriesInv'
    BY <1>3, <1>7 DEF StoreInv, EntriesInv
  <2> QED BY <2>1, <1>3, <1>7, <1>13, <1>26, BornGrows, GivenGrows DEF StoreInv
<1>28. Counted' /\ born' \in Seq(Instance)
  BY <1>3, <1>7, StillCounted DEF Store, Types
<1> QED BY <1>1, <1>2, <1>3, <1>10, <1>16, <1>17, <1>18, <1>24, <1>25, <1>27, <1>28, TopGrows

LEMMA PutTop ==
    ASSUME Types, NEW c \in Caller, stack[c] # <<>>, UNCHANGED stack
    PROVE  Put(c, Top(c))
<1>1. PICK s \in Seq(FrameType) : s = stack[c] /\ s # <<>>
  BY DEF Types
<1>2. Last(s) \in FrameType /\ Last(s) = s[Len(s)] /\ Len(s) \in Nat
  BY <1>1, Fronted
<1>3. PICK t \in FrameType : t = Last(s)
  BY <1>2
<1>4. PICK u \in Seq(FrameType) : u = Append(Front(s), t)
  BY <1>1, <1>3, Replaced
<1>5. Len(u) = Len(s) /\ u[Len(s)] = t /\ \A i \in 1..(Len(s) - 1) : u[i] = s[i]
  BY <1>1, <1>3, <1>4, Replaced
<1>6. \A i \in 1..Len(s) : u[i] = s[i]
  BY <1>2, <1>3, <1>5
<1>7. u = s
  BY <1>1, <1>4, <1>5, <1>6
<1>8. stack \in [Caller -> Seq(FrameType)]
  BY DEF Types
<1>9. stack = [stack EXCEPT ![c] = s]
  BY <1>1, <1>8
<1> QED BY <1>1, <1>3, <1>4, <1>7, <1>9 DEF Put, Top

LEMMA AwaitLockStep ==
    ASSUME IInv, NEW c \in Caller, AwaitLock(c)
    PROVE  IInv'
<1>1. stack[c] # <<>>
  BY DEF AwaitLock, At
<1>2. PICK t \in FrameType : t = Top(c) /\ Sound(t) /\ Current(t)
  BY <1>1, TopFacts
<1>3. /\ t.at = "lock" /\ Async /\ Yields(c) /\ UNCHANGED stack
      /\ UNCHANGED <<deployment, entries, cache, held, born, given>>
  BY <1>2 DEF AwaitLock, At, shared
<1>4. Put(c, t)
  BY <1>1, <1>2, <1>3, PutTop DEF IInv
<1>5. KeyOf(t) \notin Quiet
  <2>1. Matched(t) /\ Locks(SpecOf(t))
    BY <1>2, <1>3 DEF Sound, Placed
  <2>2. SpecOf(t) = TemplateOf(KeyOf(t)) /\ FromTemplate(KeyOf(t))
    BY <2>1, <1>2, MatchedFacts
  <2> QED BY <2>1, <2>2, <1>3, QuietFacts
<1>6. Counted' /\ StoreInv'
  BY <1>3, StillCounted, StillStore DEF AwaitLock, shared
<1> QED BY <1>1, <1>2, <1>3, <1>4, <1>5, <1>6, TopKeeps

\* Maybe[T] goes on as T.
LEMMA MaybeGoesOn ==
    ASSUME IInv, NEW c \in Caller, stack[c] # <<>>, NEW t \in FrameType, t = Top(c), t.at = "dispatch",
           IsMaybe(t.key), IsRegistered(Closing[MaybeOf[t.key]]),
           Put(c, Frame(MaybeOf[t.key], t.on)), Runs(c),
           UNCHANGED <<deployment, shared, born, given, calls, faults>>
    PROVE  IInv'
<1>1. PICK k \in AnyKey : k = MaybeOf[t.key]
  BY FrameFacts, KeyFacts
<1>2. /\ Closing[k] \in ClosedKey /\ t.key \in AnyKey /\ t.key \in ClosedKey /\ Closing[t.key] = t.key
      /\ KeyOf(t) = t.key /\ t.on \in Wrapper
  BY FrameFacts, KeyFacts DEF KeyOf
<1>3. Below[t.key] = {Closing[k]}
  BY <1>1, <1>2, BelowFacts
<1> DEFINE g == Frame(k, t.on)
<1>4. g \in FrameType /\ g.at = "dispatch" /\ g.key = k /\ g.on = t.on /\ g.entry = NoEntry /\ g.args = <<>> /\ g.value = 0
  BY <1>2 DEF Frame, FrameType, Label
<1>5. Put(c, g)
  BY <1>1
<1> HIDE DEF g
<1>6. Types /\ SoundInv /\ LinkInv /\ UnderInv /\ CurrentInv /\ HeldInv /\ LoopInv
  BY DEF IInv, FramesInv
<1>7. PICK n \in Nat : n = Len(stack[c]) /\ Has(c, n, t)
  BY <1>6, OnTop
<1>8. stack' \in [Caller -> Seq(FrameType)] /\ Stacked(c, n, g)
  BY <1>4, <1>5, <1>6, <1>7, PutStacks
<1>9. Sound(g) /\ Current(g) /\ ~Inside(g) /\ ~Inside(t)
  BY <1>4 DEF Sound, Current, Inside, Matched, Placed, Holds, Pending, Settles
<1>10. SoundInv'
  BY <1>4, <1>6, <1>8, <1>9, SoundStacked
<1>11. LinkInv'
  <2>1. ASSUME NEW f \in FrameType, NEW i \in Nat, i + 1 = n, Has(c, i, f)
        PROVE  Link(f, g.key, g.on)
    <3>1. Link(f, t.key, t.on)
      BY <2>1, <1>6, <1>7 DEF LinkInv
    <3>2. PICK a \in AnyKey : NextArgument(f) = KeyArgument(a) /\ Unfolds(a, t.key)
                               /\ (Founded(Closing[t.key]) => Founded(Closing[a]))
      BY <3>1 DEF Link
    <3>3. Unfolds(a, k)
      BY <3>2, <1>1 DEF Unfolds
    <3>4. Founded(Closing[k]) => Founded(t.key)
      BY <1>1, <1>2, FoundedMaybe
    <3> QED BY <3>1, <3>2, <3>3, <3>4, <1>2, <1>4 DEF Link
  <2> QED BY <2>1, <1>4, <1>6, <1>8, LinkStacked
<1>12. UnderInv'
  <2>1. ASSUME NEW f \in FrameType, NEW i \in Nat, i < n, Has(c, i, f)
        PROVE  Under(KeyOf(f), KeyOf(g))
    <3>1. Under(KeyOf(f), t.key)
      BY <2>1, <1>2, <1>6, <1>7 DEF UnderInv
    <3>2. KeyOf(f) \in ClosedKey /\ KeyOf(g) = Closing[k]
      BY <1>4, FrameFacts DEF KeyOf
    <3> QED BY <3>1, <3>2, <1>2, <1>3, UnderOn
  <2> QED BY <2>1, <1>4, <1>6, <1>8, UnderStacked
<1>13. Grows /\ UNCHANGED <<cache, held>>
  BY <1>6, StillsGrow DEF shared
<1>14. Current(g)'
  BY <1>4, <1>9, <1>13, CurrentGrows DEF Pending
<1>15. CurrentInv'
  BY <1>4, <1>6, <1>8, <1>13, <1>14, CurrentKept
<1>16. HeldInv'
  <2>1. \A i \in Nat, f \in FrameType : i >= n /\ Has(c, i, f) => f = t
    BY <1>6, <1>7, OnTop
  <2> QED BY <2>1, <1>4, <1>6, <1>8, <1>9, <1>13, HeldStacked
<1>17. LoopInv' /\ running' \in Caller \cup {Nobody}
  BY <1>4, <1>6, <1>8, LoopRuns
<1>18. StoreInv' /\ Counted'
  BY StillStore, StillCounted DEF shared
<1>19. Types'
  BY <1>6, <1>8, <1>17, <1>18 DEF Types, shared
<1> QED BY <1>10, <1>11, <1>12, <1>15, <1>16, <1>17, <1>18, <1>19 DEF IInv, FramesInv

LEMMA ResolveMaybeStep ==
    ASSUME IInv, NEW c \in Caller, ResolveMaybe(c)
    PROVE  IInv'
<1>1. stack[c] # <<>>
  BY DEF ResolveMaybe, At
<1>2. PICK t \in FrameType : t = Top(c) /\ Sound(t) /\ Current(t)
  BY <1>1, TopFacts
<1>3. /\ t.at = "dispatch" /\ IsMaybe(t.key) /\ Runs(c)
      /\ UNCHANGED <<deployment, shared, born, given, calls, faults>>
  BY <1>2 DEF ResolveMaybe, At
<1>4. CASE IsRegistered(Closing[MaybeOf[t.key]])
  <2>1. Put(c, Frame(MaybeOf[t.key], t.on))
    BY <1>2, <1>4 DEF ResolveMaybe
  <2> QED BY <1>1, <1>2, <1>3, <1>4, <2>1, MaybeGoesOn
<1>5. CASE ~IsRegistered(Closing[MaybeOf[t.key]])
  <2>1. Goto(c, "failed") \/ Done(c, 0)
    BY <1>2, <1>5 DEF ResolveMaybe
  <2>2. ~Matched(t) /\ t.args = <<>> /\ t.value = 0 /\ ~Inside(t)
    BY <1>2, <1>3 DEF Sound, Inside
  <2>3. PICK g \in FrameType : /\ Put(c, g) /\ g.at \in {"failed", "done"} /\ g.key = t.key /\ g.on = t.on
                               /\ g.entry = t.entry /\ g.args = t.args /\ g.value = 0
    <3>1. CASE Goto(c, "failed")
      <4>1. PICK g \in FrameType : Put(c, g) /\ Relabelled(t, g, "failed")
        BY <3>1, <1>1, <1>2, GotoPuts DEF IInv, Label
      <4> QED BY <4>1, <2>2 DEF Relabelled
    <3>2. CASE Done(c, 0)
      <4>1. PICK g \in FrameType : /\ Put(c, g) /\ g.at = "done" /\ g.key = t.key /\ g.on = t.on
                                   /\ g.entry = t.entry /\ g.args = t.args /\ g.value = 0
        BY <3>2, <1>1, <1>2, DonePuts DEF IInv
      <4> QED BY <4>1
    <3> QED BY <2>1, <3>1, <3>2
  <2>4. Founded(KeyOf(t))
    <3>1. t.key \in AnyKey /\ KeyOf(t) = t.key /\ t.key \in ClosedKey
      BY <1>3, FrameFacts, KeyFacts DEF KeyOf
    <3>2. Closing[MaybeOf[t.key]] \notin Below[t.key]
      BY <3>1, <1>3, <1>5, BelowFacts
    <3> QED BY <3>1, <3>2, <1>3, FoundedMaybe
  <2>5. ~Matched(g) /\ KeyOf(g) = KeyOf(t) /\ ~Inside(g)
    BY <2>2, <2>3 DEF Matched, KeyOf, Inside
  <2>6. Sound(g) /\ Current(g)
    BY <2>2, <2>3, <2>4, <2>5 DEF Sound, Placed, Current, Holds, Pending, Settles
  <2>7. StoreInv' /\ Counted' /\ UNCHANGED <<cache, held>>
    BY <1>3, StillStore, StillCounted DEF shared
  <2> QED BY <1>1, <1>2, <1>3, <2>2, <2>3, <2>5, <2>6, <2>7, TopKeeps
<1> QED BY <1>4, <1>5

LEMMA ResolveArgumentStep ==
    ASSUME IInv, NEW c \in Caller, ResolveArgument(c)
    PROVE  IInv'
<1>1. PICK a \in AnyKey : /\ Lacks(c, KeyArgument(a)) /\ Runs(c)
                          /\ stack' = [stack EXCEPT ![c] = Append(@, Frame(a, OwnerOf(Top(c))))]
                          /\ UNCHANGED <<deployment, shared, born, given, calls, faults>>
  BY DEF ResolveArgument
<1>2. stack[c] # <<>>
  BY <1>1 DEF Lacks, At
<1>3. PICK t \in FrameType : t = Top(c) /\ Sound(t) /\ Current(t)
  BY <1>2, TopFacts
<1>4. t.at = "args" /\ ~HasAllArguments(t) /\ NextArgument(t) = KeyArgument(a)
  BY <1>1, <1>3 DEF Lacks, At
<1>5. Matched(t) /\ ~Mismatch(t)
  BY <1>3, <1>4 DEF Sound, Placed
<1>6. PICK o \in Wrapper : o = OwnerOf(t)
  BY <1>3, <1>5, PlacedFacts
<1> DEFINE g == Frame(a, o)
<1>7. g \in FrameType /\ g.at = "dispatch" /\ g.key = a /\ g.on = o /\ g.entry = NoEntry /\ g.args = <<>> /\ g.value = 0
  BY DEF Frame, FrameType, Label
<1>8. stack' = [stack EXCEPT ![c] = Append(@, g)]
  BY <1>1, <1>3, <1>6
<1> HIDE DEF g
<1>9. Types /\ SoundInv /\ LinkInv /\ UnderInv /\ CurrentInv /\ HeldInv /\ LoopInv
  BY DEF IInv, FramesInv
<1>10. PICK n \in Nat : n = Len(stack[c]) /\ Has(c, n, t)
  BY <1>2, <1>3, <1>9, OnTop
<1>11. /\ \A i \in Nat, f \in FrameType : Has(c, i, f) => i <= n
       /\ \A f \in FrameType : Has(c, n, f) => f = t
  BY <1>2, <1>3, <1>9, <1>10, OnTop
<1>12. PICK k \in Nat : k = n + 1
  OBVIOUS
<1>13. stack' \in [Caller -> Seq(FrameType)] /\ Stacked(c, k, g)
  BY <1>7, <1>8, <1>9, <1>10, <1>12, PushStacks
<1>14. Sound(g) /\ Current(g) /\ ~Inside(g)
  BY <1>7 DEF Sound, Current, Inside, Matched, Placed, Holds, Pending, Settles
<1>15. SoundInv'
  BY <1>1, <1>7, <1>9, <1>13, <1>14, SoundStacked
<1>16. LinkInv'
  <2>1. Link(t, g.key, g.on)
    BY <1>4, <1>6, <1>7 DEF Link, Unfolds
  <2>2. \A f \in FrameType, i \in Nat : i + 1 = k /\ Has(c, i, f) => Link(f, g.key, g.on)
    BY <2>1, <1>10, <1>11, <1>12
  <2> QED BY <2>2, <1>7, <1>9, <1>13, LinkStacked
<1>17. Closing[a] \in Below[KeyOf(t)] /\ KeyOf(t) \in ClosedKey /\ KeyOf(g) = Closing[a]
  <2>1. /\ t.entry = BestMatch[KeyOf(t)] /\ FromTemplate(KeyOf(t)) /\ KeyOf(t) \in ClosedKey
        /\ Len(t.args) \in Nat /\ Len(Arguments[t.entry]) \in Nat
    BY <1>3, <1>5, MatchedFacts, FrameFacts
  <2>2. Len(t.args) + 1 \in 1..Len(Arguments[t.entry])
    BY <2>1, <1>3, <1>4, <1>5 DEF Sound, HasAllArguments
  <2>3. Arguments[BestMatch[KeyOf(t)]][Len(t.args) + 1] = KeyArgument(a)
    BY <2>1, <1>4 DEF NextArgument
  <2>4. PICK i, q : i = Len(t.args) + 1 /\ q = KeyOf(t)
    OBVIOUS
  <2>5. Closing[a] \in Below[q]
    BY <2>1, <2>2, <2>3, <2>4, NeedBelow
  <2> QED BY <2>1, <2>4, <2>5, <1>7 DEF KeyOf
<1>18. UnderInv'
  <2>1. ASSUME NEW f \in FrameType, NEW i \in Nat, i < k, Has(c, i, f)
        PROVE  Under(KeyOf(f), KeyOf(g))
    <3>1. CASE i = n
      BY <3>1, <2>1, <1>11, <1>17, UnderOn
    <3>2. CASE i < n
      <4>1. Under(KeyOf(f), KeyOf(t)) /\ KeyOf(f) \in ClosedKey
        BY <3>2, <2>1, <1>9, <1>10, FrameFacts DEF UnderInv
      <4> QED BY <4>1, <1>17, UnderOn
    <3> QED BY <3>1, <3>2, <2>1, <1>11
  <2> QED BY <2>1, <1>7, <1>9, <1>13, UnderStacked
<1>19. Grows /\ UNCHANGED <<cache, held, deployment>>
  BY <1>1, <1>9, StillsGrow DEF shared
<1>20. Current(g)'
  BY <1>7, <1>14, <1>19, CurrentGrows DEF Pending
<1>21. CurrentInv'
  BY <1>7, <1>9, <1>13, <1>19, <1>20, CurrentKept
<1>22. HeldInv'
  <2>1. \A i \in Nat, f \in FrameType : ~(i >= k /\ Has(c, i, f))
    BY <1>11, <1>12
  <2> QED BY <2>1, <1>7, <1>9, <1>13, <1>14, <1>19, HeldStacked
<1>23. LoopInv' /\ running' \in Caller \cup {Nobody}
  BY <1>1, <1>7, <1>9, <1>13, LoopRuns
<1>24. StoreInv' /\ Counted'
  BY <1>1, StillStore, StillCounted DEF shared
<1>25. Types'
  BY <1>1, <1>9, <1>13, <1>23, <1>24 DEF Types, shared
<1> QED BY <1>15, <1>16, <1>18, <1>21, <1>22, <1>23, <1>24, <1>25 DEF IInv, FramesInv

LEMMA AskStep ==
    ASSUME IInv, NEW c \in Caller, NEW w \in Wrapper, NEW d \in Requests, Ask(c, w, d)
    PROVE  IInv'
<1>1. /\ stack[c] = <<>> /\ calls[c] < MaxCalls /\ Runs(c)
      /\ calls' = [calls EXCEPT ![c] = @ + 1]
      /\ stack' = [stack EXCEPT ![c] = <<Frame(d, w)>>]
      /\ UNCHANGED <<deployment, shared, born, given, faults>>
  BY DEF Ask
<1>2. d \in AnyKey
  BY KeysAssumption
<1> DEFINE g == Frame(d, w)
<1>3. g \in FrameType /\ g.at = "dispatch" /\ g.entry = NoEntry /\ g.args = <<>> /\ g.value = 0
  BY <1>2 DEF Frame, FrameType, Label
<1>4. stack' = [stack EXCEPT ![c] = <<g>>]
  BY <1>1
<1> HIDE DEF g
<1>5. Types /\ SoundInv /\ LinkInv /\ UnderInv /\ CurrentInv /\ HeldInv /\ LoopInv
  BY DEF IInv, FramesInv
<1>6. stack' \in [Caller -> Seq(FrameType)] /\ Stacked(c, 1, g)
  BY <1>3, <1>4, <1>5, AskStacks
<1>7. \A i \in Nat, f \in FrameType : ~Has(c, i, f)
  BY <1>1 DEF Has
<1>8. Sound(g) /\ Current(g) /\ ~Inside(g)
  BY <1>3 DEF Sound, Current, Inside, Matched, Placed, Holds, Pending, Settles
<1>9. PICK k \in Nat : k = 1
  OBVIOUS
<1>10. Stacked(c, k, g)
  BY <1>6, <1>9
<1>11. SoundInv'
  BY <1>1, <1>3, <1>5, <1>8, <1>10, SoundStacked
<1>12. LinkInv'
  BY <1>3, <1>5, <1>7, <1>10, LinkStacked
<1>13. UnderInv'
  BY <1>3, <1>5, <1>7, <1>10, UnderStacked
<1>14. Grows /\ UNCHANGED <<cache, held, deployment>>
  BY <1>1, <1>5, StillsGrow DEF shared
<1>15. Current(g)'
  BY <1>3, <1>8, <1>14, CurrentGrows DEF Pending
<1>16. CurrentInv'
  BY <1>3, <1>5, <1>10, <1>14, <1>15, CurrentKept
<1>17. HeldInv'
  BY <1>3, <1>5, <1>7, <1>8, <1>10, <1>14, HeldStacked
<1>18. LoopInv' /\ running' \in Caller \cup {Nobody}
  BY <1>1, <1>3, <1>5, <1>10, LoopRuns
<1>19. StoreInv'
  BY <1>1, StillStore DEF shared
<1>20. Counted'
  <2>1. Counted /\ MaxCalls \in Nat
    BY <1>5, WrappersAssumption DEF Types
  <2>2. calls[c] + 1 \in 0..MaxCalls
    BY <2>1, <1>1 DEF Counted
  <2>3. calls' \in [Caller -> 0..MaxCalls]
    BY <2>1, <2>2, <1>1 DEF Counted
  <2> QED BY <2>1, <2>3, <1>1 DEF Counted, shared
<1>21. Types'
  BY <1>1, <1>5, <1>6, <1>18, <1>20 DEF Types, shared
<1> QED BY <1>11, <1>12, <1>13, <1>16, <1>17, <1>18, <1>19, <1>21 DEF IInv, FramesInv

\* A call comes back to the frame that waits for it.
LEMMA ReturnStep ==
    ASSUME IInv, UNCHANGED <<deployment, cache, held, born>>, NEW c \in Caller, IsNested(c),
           NEW w \in FrameType, w = Waiting(c), ~Inside(Top(c)), NEW g \in FrameType, Return(c, g),
           g.key = w.key, g.on = w.on, g.entry = w.entry, Inside(w) <=> Inside(g), Sound(g), Current(g),
           Counted', StoreInv', Runs(c)
    PROVE  IInv'
<1>1. Types /\ SoundInv /\ LinkInv /\ UnderInv /\ CurrentInv /\ HeldInv /\ LoopInv
  BY DEF IInv, FramesInv
<1>2. PICK n \in Nat, k \in Nat : n = Len(stack[c]) /\ k = n - 1 /\ stack[c] # <<>>
  BY <1>1, BelowTop
<1>3. Has(c, k, w) /\ \A f \in FrameType : Has(c, k, f) => f = w
  BY <1>1, <1>2, BelowTop
<1>4. /\ \A i \in Nat, f \in FrameType : Has(c, i, f) => i <= n
      /\ \A f \in FrameType : Has(c, n, f) => f = Top(c)
  BY <1>1, <1>2, OnTop
<1>5. stack' \in [Caller -> Seq(FrameType)] /\ Stacked(c, k, g)
  BY <1>1, <1>2, ReturnStacks
<1>6. KeyOf(g) = KeyOf(w) /\ LockFor(w) = LockFor(g)
  BY DEF KeyOf, LockFor, OwnerOf, SpecOf
<1>7. SoundInv'
  BY <1>1, <1>5, SoundStacked
<1>8. LinkInv'
  <2>1. \A f \in FrameType, i \in Nat : i + 1 = k /\ Has(c, i, f) => Link(f, g.key, g.on)
    BY <1>1, <1>3 DEF LinkInv
  <2> QED BY <2>1, <1>1, <1>5, LinkStacked
<1>9. UnderInv'
  <2>1. \A f \in FrameType, i \in Nat : i < k /\ Has(c, i, f) => Under(KeyOf(f), KeyOf(g))
    BY <1>1, <1>3, <1>6 DEF UnderInv
  <2> QED BY <2>1, <1>1, <1>5, UnderStacked
<1>10. Grows
  BY <1>1, StillsGrow
<1>11. Current(g)'
  <2>1. PICK o, l : o = OwnerOf(g) /\ l = KeyOf(g)
    OBVIOUS
  <2>2. Lookup(o, l)' = Lookup(o, l)
    BY DEF Lookup
  <2>3. Pending(g) /\ Guarded(KeyOf(g)) => Lookup(OwnerOf(g), KeyOf(g))' = 0
    BY <2>1, <2>2 DEF Current
  <2> QED BY <2>3, <1>10, CurrentGrows
<1>12. CurrentInv'
  BY <1>1, <1>5, <1>10, <1>11, CurrentKept
<1>13. HeldInv'
  <2>1. \A i \in Nat, f \in FrameType :
            i >= k /\ Has(c, i, f) /\ Inside(f) => i = k /\ Inside(g) /\ LockFor(f) = LockFor(g)
    <3> SUFFICES ASSUME NEW i \in Nat, NEW f \in FrameType, i >= k, Has(c, i, f), Inside(f)
                 PROVE  i = k /\ Inside(g) /\ LockFor(f) = LockFor(g)
      OBVIOUS
    <3>1. i = k \/ i = n
      BY <1>2, <1>4
    <3>2. i # n
      BY <1>4
    <3> QED BY <3>1, <3>2, <1>3, <1>6
  <2>2. Inside(g) => \E f \in FrameType : Has(c, k, f) /\ Inside(f) /\ LockFor(f) = LockFor(g)
    BY <1>3, <1>6
  <2> QED BY <2>1, <2>2, <1>1, <1>5, HeldStacked
<1>14. LoopInv' /\ running' \in Caller \cup {Nobody}
  BY <1>1, <1>5, LoopRuns
<1>15. Types'
  BY <1>1, <1>5, <1>14 DEF Types
<1> QED BY <1>7, <1>8, <1>9, <1>12, <1>13, <1>14, <1>15 DEF IInv, FramesInv

\* The frame that waits, and the one it waits for.
LEMMA WaitingFacts ==
    ASSUME IInv, NEW c \in Caller, IsNested(c)
    PROVE  \E t \in FrameType, w \in FrameType :
              /\ t = Top(c) /\ Sound(t) /\ Current(t)
              /\ w = Waiting(c) /\ Sound(w) /\ Current(w) /\ Link(w, t.key, t.on)
<1>1. Types /\ SoundInv /\ LinkInv /\ CurrentInv
  BY DEF IInv, FramesInv
<1>2. /\ Waiting(c) \in FrameType /\ Has(c, Len(stack[c]) - 1, Waiting(c))
      /\ stack[c] # <<>> /\ Len(stack[c]) \in Nat /\ Len(stack[c]) > 1
  BY <1>1, BelowTop
<1>3. Top(c) \in FrameType /\ Has(c, Len(stack[c]), Top(c))
  BY <1>1, <1>2, OnTop
<1>4. PICK i \in Nat : i = Len(stack[c]) - 1
  <2>1. PICK n \in Nat : n = Len(stack[c]) /\ n > 1
    BY <1>2
  <2>2. n - 1 \in Nat
    BY <2>1
  <2> QED BY <2>1, <2>2
<1>5. PICK t \in FrameType, w \in FrameType : t = Top(c) /\ w = Waiting(c)
  BY <1>2, <1>3
<1>6. Has(c, i, w) /\ Has(c, i + 1, t) /\ i + 1 \in Nat
  BY <1>2, <1>3, <1>4, <1>5
<1>7. Sound(t) /\ Current(t) /\ Sound(w) /\ Current(w)
  BY <1>1, <1>6 DEF SoundInv, CurrentInv
<1>8. Link(w, t.key, t.on)
  BY <1>1, <1>6 DEF LinkInv
<1> QED BY <1>5, <1>7, <1>8

LEMMA ArgumentFailedStep ==
    ASSUME IInv, NEW c \in Caller, ArgumentFailed(c)
    PROVE  IInv'
<1>1. IsNested(c) /\ Runs(c) /\ UNCHANGED <<deployment, shared, born, given, calls, faults>>
  BY DEF ArgumentFailed
<1>2. PICK t \in FrameType, w \in FrameType :
              /\ t = Top(c) /\ Sound(t) /\ Current(t)
              /\ w = Waiting(c) /\ Sound(w) /\ Current(w) /\ Link(w, t.key, t.on)
  BY <1>1, WaitingFacts
<1>3. t.at = "failed" /\ w.at = "args"
  BY <1>2 DEF ArgumentFailed, At, Link
<1>4. PICK l \in {"unwind", "failed"} : l = Abort(w) /\ (l = "unwind" <=> Locks(SpecOf(w)))
  BY DEF Abort
<1> DEFINE g == [w EXCEPT !.at = l]
<1>5. g \in FrameType /\ Relabelled(w, g, l)
  BY DEF FrameType, Label, Relabelled
<1>6. Return(c, g)
  BY <1>2, <1>4 DEF ArgumentFailed
<1> HIDE DEF g
<1>7. Matched(w) /\ ~Mismatch(w)
  BY <1>2, <1>3 DEF Sound, Placed
<1>8. /\ g.at = l /\ KeyOf(g) = KeyOf(w) /\ SpecOf(g) = SpecOf(w) /\ OwnerOf(g) = OwnerOf(w)
      /\ (Mismatch(g) <=> Mismatch(w)) /\ Matched(g) /\ g.entry = w.entry /\ g.args = w.args
      /\ g.key = w.key /\ g.on = w.on
  BY <1>5, <1>7 DEF Relabelled, KeyOf, SpecOf, OwnerOf, Mismatch, Matched
<1>9. Sound(g)
  BY <1>2, <1>4, <1>7, <1>8 DEF Sound, Placed
<1>10. Current(g)
  BY <1>4, <1>8 DEF Current, Holds, Pending, Settles
<1>11. (Inside(w) <=> Inside(g)) /\ ~Inside(t)
  BY <1>3, <1>4, <1>8 DEF Inside
<1>12. StoreInv' /\ Counted' /\ UNCHANGED <<cache, held>>
  BY <1>1, StillStore, StillCounted DEF shared
<1> QED BY <1>1, <1>2, <1>5, <1>6, <1>8, <1>9, <1>10, <1>11, <1>12, ReturnStep

\* What is handed out for a cached key is what its cell holds.
LEMMA HandsFacts ==
    ASSUME IInv, NEW f \in FrameType, Sound(f), Current(f), f.at = "done", NEW h \in Hands(f)
    PROVE  /\ h.owner \in Wrapper /\ h.key \in CachedKey
           /\ Guarded(h.key) => h.value = Lookup(h.owner, h.key) /\ h.value # 0
<1>1. IsCached(f) /\ h = [owner |-> OwnerOf(f), key |-> KeyOf(f), value |-> f.value]
  BY DEF Hands
<1>2. f.entry.kind = "match" /\ SpecOf(f) \notin Transient
  BY <1>1 DEF IsCached
<1>3. Matched(f)
  BY <1>2 DEF Matched, NoEntry
<1>4. OwnerOf(f) \in Wrapper /\ KeyOf(f) \in CachedKey
  BY <1>2, <1>3, MatchedFacts, PlacedFacts DEF Sound
<1>5. Is(f.value, KeyOf(f), OwnerOf(f)) /\ (Guarded(KeyOf(f)) => f.value = Lookup(OwnerOf(f), KeyOf(f)))
  BY <1>2, <1>3 DEF Current, Holds, Settles
<1>6. Len(born) \in Nat
  BY DEF IInv, Types
<1>7. f.value # 0
  BY <1>5, <1>6 DEF Is
<1>8. h.owner = OwnerOf(f) /\ h.key = KeyOf(f) /\ h.value = f.value
  BY <1>1
<1> QED BY <1>4, <1>5, <1>7, <1>8

LEMMA StoreHands ==
    ASSUME IInv, UNCHANGED <<deployment, entries, cache, born>>, NEW f \in FrameType, Sound(f), Current(f), f.at = "done",
           given' = given \cup Hands(f)
    PROVE  StoreInv'
<1>1. Types /\ StoreInv
  BY DEF IInv
<1>2. Grows
  BY <1>1, StillsGrow
<1>3. GivenInv'
  <2> SUFFICES ASSUME NEW h \in given \cup Hands(f)
               PROVE  /\ h.owner \in Wrapper /\ h.key \in CachedKey
                      /\ Guarded(h.key)' => h.value = Lookup(h.owner, h.key)' /\ h.value # 0
    BY DEF GivenInv
  <2>1. /\ h.owner \in Wrapper /\ h.key \in CachedKey
        /\ Guarded(h.key) => h.value = Lookup(h.owner, h.key) /\ h.value # 0
    BY <1>1, HandsFacts DEF StoreInv, GivenInv
  <2>2. Guarded(h.key)' <=> Guarded(h.key)
    BY GuardedStays
  <2> QED BY <2>1, <2>2, <1>2 DEF Grows
<1>4. EntriesInv'
  BY <1>1 DEF StoreInv, EntriesInv
<1> QED BY <1>1, <1>2, <1>3, <1>4, CacheGrows, BornGrows DEF StoreInv

\* What the frame that waits takes as its next argument is in scope, and shared.
LEMMA ArgumentWired ==
    ASSUME IInv, NEW t \in FrameType, NEW w \in FrameType, Sound(t), Current(t), t.at = "done",
           Sound(w), Matched(w), ~Mismatch(w), Link(w, t.key, t.on)
    PROVE  Wired(OwnerOf(w), w.entry, Len(w.args) + 1, t.value)
<1> SUFFICES ASSUME t.value # 0
             PROVE  Wired(OwnerOf(w), w.entry, Len(w.args) + 1, t.value)
  BY DEF Wired
<1>1. Matched(t) /\ ~Mismatch(t)
  BY DEF Sound
<1>2. Is(t.value, KeyOf(t), OwnerOf(t))
  BY <1>1 DEF Current, Holds
<1>3. t.on = OwnerOf(w) /\ ~HasAllArguments(w)
  BY DEF Link
<1>4. OwnerOf(t) \in Chain[OwnerOf(w)] /\ OwnerOf(t) \in Wrapper
  BY <1>1, <1>3, PlacedFacts
<1>5. Len(w.args) + 1 \in 1..Len(Arguments[w.entry])
  <2>1. Len(w.args) \in Nat /\ Len(Arguments[w.entry]) \in Nat /\ Len(w.args) <= Len(Arguments[w.entry])
    BY MatchedFacts DEF Sound
  <2> QED BY <2>1, <1>3 DEF HasAllArguments
<1>6. PICK a \in AnyKey : NextArgument(w) = KeyArgument(a) /\ Unfolds(a, t.key)
  BY DEF Link
<1>7. FromTemplate(KeyOf(t)) /\ SpecOf(t) = TemplateOf(KeyOf(t)) /\ (SpecOf(t) \notin Transient => KeyOf(t) \in CachedKey)
  BY <1>1, MatchedFacts
<1>8. ASSUME ServedBy(a) \in CachedKey, Guarded(ServedBy(a))
      PROVE  /\ Owner(OwnerOf(w), TemplateOf(ServedBy(a))) \in Wrapper
             /\ t.value = Lookup(Owner(OwnerOf(w), TemplateOf(ServedBy(a))), ServedBy(a))
  <2>1. KeyOf(t) = ServedBy(a)
    <3>1. t.key \in AnyKey
      BY FrameFacts
    <3>2. CASE t.key = a
      <4>1. ~IsMaybe(a)
        BY <3>2, <1>7, <3>1, KeyFacts DEF KeyOf, FromTemplate
      <4> QED BY <3>2, <4>1 DEF ServedBy, KeyOf
    <3>3. CASE IsMaybe(a) /\ t.key = MaybeOf[a]
      BY <3>3 DEF ServedBy, KeyOf
    <3>4. CASE IsMaybe(a) /\ IsMaybe(MaybeOf[a])
      <4>1. MaybeOf[a] \in AnyKey
        BY <3>4, KeyFacts
      <4>2. Closing[MaybeOf[a]] = MaybeOf[a]
        BY <4>1, <3>4, KeyFacts
      <4>3. IsMaybe(ServedBy(a))
        BY <4>2, <3>4 DEF ServedBy
      <4> QED BY <4>3, <1>8 DEF CachedKey, FromTemplate
    <3> QED BY <1>6, <3>2, <3>3, <3>4 DEF Unfolds
  <2>2. SpecOf(t) \notin Transient /\ Settles(t)
    BY <2>1, <1>1, <1>7, <1>8 DEF CachedKey, Settles
  <2>3. t.value = Lookup(OwnerOf(t), KeyOf(t))
    BY <2>1, <2>2, <1>8 DEF Current
  <2>4. OwnerOf(t) = Owner(OwnerOf(w), TemplateOf(ServedBy(a)))
    BY <2>1, <1>3, <1>7 DEF OwnerOf
  <2> QED BY <2>1, <2>3, <2>4, <1>4
<1>9. Shares(OwnerOf(w), a, t.value)
  BY <1>8 DEF Shares
<1>10. Arguments[w.entry][Len(w.args) + 1] = KeyArgument(a)
  BY <1>6 DEF NextArgument
<1> QED BY <1>2, <1>4, <1>5, <1>9, <1>10 DEF Wired, Is

LEMMA TakeArgumentStep ==
    ASSUME IInv, NEW c \in Caller, TakeArgument(c)
    PROVE  IInv'
<1>1. IsNested(c) /\ Runs(c) /\ UNCHANGED <<deployment, shared, born, calls, faults>>
  BY DEF TakeArgument
<1>2. PICK t \in FrameType, w \in FrameType :
              /\ t = Top(c) /\ Sound(t) /\ Current(t)
              /\ w = Waiting(c) /\ Sound(w) /\ Current(w) /\ Link(w, t.key, t.on)
  BY <1>1, WaitingFacts
<1>3. t.at = "done" /\ w.at = "args" /\ ~HasAllArguments(w) /\ given' = given \cup Hands(t)
  BY <1>2 DEF TakeArgument, At, Link
<1>4. Matched(w) /\ ~Mismatch(w)
  BY <1>2, <1>3 DEF Sound, Placed
<1>5. w.args \in Seq(Nat) /\ Len(w.args) \in Nat /\ Len(Arguments[w.entry]) \in Nat /\ t.value \in Nat
  BY <1>2, <1>4, FrameFacts, MatchedFacts
<1>6. PICK v \in Nat : v = t.value
  BY <1>5
<1>7. PICK u \in Seq(Nat) : u = Append(w.args, v)
  BY <1>5, Appended
<1>8. Len(u) = Len(w.args) + 1 /\ u[Len(w.args) + 1] = v /\ \A i \in 1..Len(w.args) : u[i] = w.args[i]
  BY <1>5, <1>7, Appended
<1> DEFINE g == [w EXCEPT !.args = u]
<1>9. /\ g \in FrameType /\ g.at = "args" /\ g.key = w.key /\ g.on = w.on
      /\ g.entry = w.entry /\ g.args = u /\ g.value = w.value
  BY <1>3 DEF FrameType
<1>10. Return(c, g)
  BY <1>2, <1>6, <1>7 DEF TakeArgument
<1> HIDE DEF g
<1>11. /\ KeyOf(g) = KeyOf(w) /\ SpecOf(g) = SpecOf(w) /\ OwnerOf(g) = OwnerOf(w)
       /\ (Mismatch(g) <=> Mismatch(w)) /\ Matched(g)
  BY <1>9, <1>4 DEF KeyOf, SpecOf, OwnerOf, Mismatch, Matched
<1>12. PICK m \in Nat : m = Len(w.args) + 1
  BY <1>5
<1>13. Sound(g)
  <2>1. ASSUME NEW i \in 1..Len(u), NEW a \in AnyKey, Arguments[w.entry][i] = KeyArgument(a)
        PROVE  Founded(Closing[a])
    <3>1. CASE i \in 1..Len(w.args)
      BY <2>1, <3>1, <1>2, <1>4 DEF Sound
    <3>2. CASE i = m
      <4>1. PICK b \in AnyKey : NextArgument(w) = KeyArgument(b)
                                  /\ (Founded(Closing[t.key]) => Founded(Closing[b]))
        BY <1>2 DEF Link
      <4>2. a = b
        BY <2>1, <3>2, <4>1, <1>12, ArgumentFacts DEF NextArgument
      <4>3. Founded(Closing[t.key])
        BY <1>2, <1>3 DEF Sound, KeyOf
      <4> QED BY <4>1, <4>2, <4>3
    <3> QED BY <3>1, <3>2, <1>5, <1>8, <1>12
  <2>2. Len(u) <= Len(Arguments[w.entry])
    BY <1>2, <1>3, <1>4, <1>5, <1>8 DEF Sound, HasAllArguments
  <2> QED BY <2>1, <2>2, <1>2, <1>3, <1>4, <1>9, <1>11 DEF Sound, Placed
<1>14. Current(g)
  <2>1. ASSUME NEW i \in 1..Len(u)
        PROVE  Wired(OwnerOf(w), w.entry, i, u[i])
    <3>1. CASE i \in 1..Len(w.args)
      BY <3>1, <1>2, <1>3, <1>8 DEF Current
    <3>2. CASE i = m
      BY <3>2, <1>2, <1>3, <1>4, <1>6, <1>8, <1>12, ArgumentWired
    <3> QED BY <3>1, <3>2, <1>5, <1>8, <1>12
  <2>2. Pending(g) /\ Guarded(KeyOf(g)) => Lookup(OwnerOf(g), KeyOf(g)) = 0
    BY <1>2, <1>3, <1>9, <1>11 DEF Current, Pending
  <2> QED BY <2>1, <2>2, <1>9, <1>11 DEF Current, Holds, Settles
<1>15. (Inside(w) <=> Inside(g)) /\ ~Inside(t)
  BY <1>3, <1>9, <1>11 DEF Inside
<1>16. StoreInv'
  BY <1>1, <1>2, <1>3, StoreHands DEF shared
<1>17. Counted' /\ UNCHANGED <<cache, held>>
  BY <1>1, StillCounted DEF shared
<1> QED BY <1>1, <1>2, <1>9, <1>10, <1>13, <1>14, <1>15, <1>16, <1>17, ReturnStep

LEMMA AnswerStep ==
    ASSUME IInv, NEW c \in Caller, Answer(c)
    PROVE  IInv'
<1>1. /\ stack[c] # <<>> /\ ~IsNested(c) /\ Yields(c)
      /\ stack' = [stack EXCEPT ![c] = <<>>]
      /\ UNCHANGED <<deployment, shared, born, calls, faults>>
  BY DEF Answer, At
<1>2. PICK t \in FrameType : t = Top(c) /\ Sound(t) /\ Current(t)
  BY <1>1, TopFacts
<1>3. t.at \in {"done", "failed"} /\ given' = IF t.at = "done" THEN given \cup Hands(t) ELSE given
  BY <1>2 DEF Answer, At
<1>4. Types /\ SoundInv /\ LinkInv /\ UnderInv /\ CurrentInv /\ HeldInv /\ LoopInv
  BY DEF IInv, FramesInv
<1>5. stack' \in [Caller -> Seq(FrameType)] /\ Cleared(c)
  BY <1>1, <1>4, AnswerClears
<1>6. \A i \in Nat, f \in FrameType : Has(c, i, f) => f = t
  <2>1. Len(stack[c]) = 1
    <3>1. PICK n \in Nat \ {0} : n = Len(stack[c])
      BY <1>1, <1>4, OnTop
    <3>2. ~(n > 1)
      BY <1>1, <3>1 DEF IsNested
    <3>3. n = 1
      BY <3>2
    <3> QED BY <3>1, <3>3
  <2>2. \A i \in Nat, f \in FrameType : Has(c, i, f) => i = 1
    BY <2>1 DEF Has
  <2> QED BY <2>1, <2>2, <1>1, <1>2, <1>4, OnTop
<1>7. ~Inside(t)
  BY <1>3 DEF Inside
<1>8. Grows /\ UNCHANGED <<cache, held, deployment>>
  BY <1>1, <1>4, StillsGrow DEF shared
<1>9. ASSUME NEW d \in Caller, NEW i \in Nat, NEW f \in FrameType, Has(d, i, f)'
      PROVE  Has(d, i, f) /\ d # c /\ Sound(f) /\ Current(f) /\ (Inside(f)' <=> Inside(f)) /\ Sound(f)'
  <2>1. Has(d, i, f) /\ d # c
    BY <1>5, <1>9 DEF Cleared
  <2>2. Sound(f) /\ Current(f)
    BY <2>1, <1>4 DEF SoundInv, CurrentInv
  <2> QED BY <2>1, <2>2, <1>8, SoundStays
<1>10. SoundInv'
  BY <1>9 DEF SoundInv
<1>11. LinkInv'
  <2> SUFFICES ASSUME NEW d \in Caller, NEW i \in Nat, NEW f \in FrameType, NEW h \in FrameType,
                      Has(d, i, f)', Has(d, i + 1, h)'
               PROVE  Link(f, h.key, h.on)
    BY DEF LinkInv, Link, OwnerOf, HasAllArguments, NextArgument, Unfolds, IsMaybe
  <2>1. Has(d, i, f) /\ Has(d, i + 1, h)
    BY <1>9
  <2> QED BY <2>1, <1>4 DEF LinkInv
<1>12. UnderInv'
  <2> SUFFICES ASSUME NEW d \in Caller, NEW i \in Nat, NEW j \in Nat, NEW f \in FrameType, NEW h \in FrameType,
                      Has(d, i, f)', Has(d, j, h)', i < j
               PROVE  Under(KeyOf(f), KeyOf(h))
    BY DEF UnderInv, Under, KeyOf, Leads, Below
  <2>1. Has(d, i, f) /\ Has(d, j, h)
    BY <1>9
  <2> QED BY <2>1, <1>4 DEF UnderInv
<1>13. CurrentInv'
  <2> SUFFICES ASSUME NEW d \in Caller, NEW i \in Nat, NEW f \in FrameType, Has(d, i, f)'
               PROVE  Current(f)'
    BY DEF CurrentInv
  <2>1. Sound(f) /\ Current(f)
    BY <1>9
  <2>2. PICK o, l : o = OwnerOf(f) /\ l = KeyOf(f)
    OBVIOUS
  <2>3. Lookup(o, l)' = Lookup(o, l)
    BY <1>8 DEF Lookup
  <2>4. Pending(f) /\ Guarded(KeyOf(f)) => Lookup(OwnerOf(f), KeyOf(f))' = 0
    BY <2>1, <2>2, <2>3 DEF Current
  <2> QED BY <2>1, <2>4, <1>8, CurrentGrows
<1>14. HeldByFrame'
  <2> SUFFICES ASSUME NEW h \in held
               PROVE  /\ h.by \in Caller
                      /\ \E i \in Nat, f \in FrameType :
                            Has(h.by, i, f)' /\ Inside(f)' /\ h = [lock |-> LockFor(f), by |-> h.by]
    BY <1>8 DEF HeldByFrame
  <2>1. PICK d \in Caller, i \in Nat, f \in FrameType :
            d = h.by /\ Has(d, i, f) /\ Inside(f) /\ h = [lock |-> LockFor(f), by |-> d]
    BY <1>4 DEF HeldInv, HeldByFrame
  <2>2. d # c
    BY <2>1, <1>6, <1>7
  <2>3. Has(d, i, f)' /\ Inside(f)'
    BY <2>1, <2>2, <1>5, <1>8, SoundStays DEF Cleared
  <2> QED BY <2>1, <2>3
<1>15. FrameHolds'
  <2> SUFFICES ASSUME NEW d \in Caller, NEW i \in Nat, NEW f \in FrameType, Has(d, i, f)', Inside(f)'
               PROVE  [lock |-> LockFor(f), by |-> d] \in held
    BY <1>8 DEF FrameHolds, LockFor, OwnerOf, KeyOf, SpecOf, Owner, OwnersAt
  <2> QED BY <1>4, <1>9 DEF HeldInv, FrameHolds
<1>16. OneInside'
  <2> SUFFICES ASSUME NEW d \in Caller, NEW e \in Caller, NEW i \in Nat, NEW j \in Nat,
                      NEW f \in FrameType, NEW h \in FrameType,
                      Has(d, i, f)', Has(e, j, h)', Inside(f)', Inside(h)', LockFor(f) = LockFor(h)
               PROVE  d = e /\ i = j
    BY DEF OneInside, LockFor, OwnerOf, KeyOf, SpecOf, Owner, OwnersAt
  <2> QED BY <1>4, <1>9 DEF HeldInv, OneInside
<1>17. LoopInv' /\ running' \in Caller \cup {Nobody}
  BY <1>1, <1>4, <1>8, <1>9, LoopYields
<1>18. StoreInv'
  <2>1. UNCHANGED <<deployment, entries, cache, born>>
    BY <1>1 DEF shared
  <2>2. CASE t.at = "done"
    BY <2>1, <2>2, <1>2, <1>3, StoreHands
  <2>3. CASE t.at # "done"
    BY <2>1, <2>3, <1>3, StillStore
  <2> QED BY <2>2, <2>3
<1>19. Counted'
  BY <1>1, StillCounted DEF shared
<1>20. Types'
  BY <1>1, <1>4, <1>5, <1>17, <1>19 DEF Types, shared
<1> QED BY <1>10, <1>11, <1>12, <1>13, <1>14, <1>15, <1>16, <1>17, <1>18, <1>20 DEF IInv, FramesInv, HeldInv

-----------------------------------------------------------------------------
(* The invariant holds.                                                    *)

LEMMA Initial == Init => IInv
<1> SUFFICES ASSUME Init
             PROVE  IInv
  OBVIOUS
<1>1. \A c \in Caller, i \in Nat, f \in FrameType : ~Has(c, i, f)
  BY DEF Init, Has
<1>2. born = <<>> /\ Len(born) = 0 /\ held = {} /\ given = {}
  BY DEF Init
<1>3. Types
  <2>1. stack \in [Caller -> Seq(FrameType)] /\ born \in Seq(Instance)
    BY DEF Init
  <2>2. calls \in [Caller -> 0..MaxCalls] /\ faults \in 0..MaxFaults
    BY WrappersAssumption DEF Init
  <2> QED BY <2>1, <2>2 DEF Types, Counted, Init
<1>4. FramesInv /\ CurrentInv /\ LoopInv
  BY <1>1 DEF FramesInv, SoundInv, LinkInv, UnderInv, CurrentInv, LoopInv
<1>5. HeldInv
  BY <1>1, <1>2 DEF HeldInv, HeldByFrame, FrameHolds, OneInside
<1>6. StoreInv
  <2>1. EntriesInv
    <3>1. DOMAIN entries = {}
      BY DEF Init
    <3> QED BY <3>1 DEF EntriesInv
  <2>2. CacheInv
    <3>1. \A w \in Wrapper : DOMAIN cache[w] = {}
      BY DEF Init
    <3> QED BY <3>1 DEF CacheInv
  <2>3. BornInv
    BY <1>2 DEF BornInv, Built
  <2> QED BY <2>1, <2>2, <2>3, <1>2 DEF StoreInv, GivenInv
<1> QED BY <1>3, <1>4, <1>5, <1>6 DEF IInv

LEMMA Stutters ==
    ASSUME IInv, UNCHANGED vars
    PROVE  IInv'
<1>1. Types' /\ CurrentInv' /\ StoreInv' /\ HeldInv' /\ LoopInv'
  <2>1. UNCHANGED <<deployment, entries, attempted, materialized, cache, held, stack, running, born, given, calls, faults>>
    BY DEF vars, shared
  <2>2. \A d \in Caller, i \in Nat, f \in FrameType : Has(d, i, f)' <=> Has(d, i, f)
    BY <2>1 DEF Has
  <2>3. Types'
    BY <2>1 DEF IInv, Types, Counted
  <2>4. StoreInv'
    BY <2>1, StillStore
  <2>5. CurrentInv'
    <3> SUFFICES ASSUME NEW d \in Caller, NEW i \in Nat, NEW f \in FrameType, Has(d, i, f)'
                 PROVE  Current(f)'
      BY DEF CurrentInv
    <3>1. Sound(f) /\ Current(f)
      BY <2>2 DEF IInv, FramesInv, SoundInv, CurrentInv
    <3>2. PICK o, l : o = OwnerOf(f) /\ l = KeyOf(f)
      OBVIOUS
    <3>3. Lookup(o, l)' = Lookup(o, l)
      BY <2>1 DEF Lookup
    <3>4. Pending(f) /\ Guarded(KeyOf(f)) => Lookup(OwnerOf(f), KeyOf(f))' = 0
      BY <3>1, <3>2, <3>3 DEF Current
    <3>5. Grows
      BY <2>1, StillsGrow DEF IInv
    <3> QED BY <3>1, <3>4, <3>5, CurrentGrows
  <2>6. \A f \in FrameType : Inside(f)' <=> Inside(f)
    BY <2>1, SoundStays
  <2>7. HeldInv
    BY DEF IInv
  <2>8. HeldByFrame'
    <3> SUFFICES ASSUME NEW h \in held
                 PROVE  /\ h.by \in Caller
                        /\ \E i \in Nat, f \in FrameType :
                              Has(h.by, i, f)' /\ Inside(f)' /\ h = [lock |-> LockFor(f), by |-> h.by]
      BY <2>1 DEF HeldByFrame
    <3>1. PICK d \in Caller, i \in Nat, f \in FrameType :
              d = h.by /\ Has(d, i, f) /\ Inside(f) /\ h = [lock |-> LockFor(f), by |-> d]
      BY <2>7 DEF HeldInv, HeldByFrame
    <3> QED BY <3>1, <2>2, <2>6
  <2>9. FrameHolds'
    <3> SUFFICES ASSUME NEW d \in Caller, NEW i \in Nat, NEW f \in FrameType, Has(d, i, f)', Inside(f)'
                 PROVE  [lock |-> LockFor(f), by |-> d] \in held
      BY <2>1 DEF FrameHolds, LockFor, OwnerOf, KeyOf, SpecOf, Owner, OwnersAt
    <3> QED BY <2>2, <2>6, <2>7 DEF HeldInv, FrameHolds
  <2>10. OneInside'
    <3> SUFFICES ASSUME NEW d \in Caller, NEW e \in Caller, NEW i \in Nat, NEW j \in Nat,
                        NEW f \in FrameType, NEW h \in FrameType,
                        Has(d, i, f)', Has(e, j, h)', Inside(f)', Inside(h)', LockFor(f) = LockFor(h)
                 PROVE  d = e /\ i = j
      BY DEF OneInside, LockFor, OwnerOf, KeyOf, SpecOf, Owner, OwnersAt
    <3> QED BY <2>2, <2>6, <2>7 DEF HeldInv, OneInside
  <2>11. LoopInv'
    BY <2>1, <2>2 DEF IInv, LoopInv, Async, Pending, KeyOf, SpecOf
  <2> QED BY <2>3, <2>4, <2>5, <2>8, <2>9, <2>10, <2>11 DEF HeldInv
<1>2. FramesInv'
  <2>1. \A d \in Caller, i \in Nat, f \in FrameType : Has(d, i, f)' <=> Has(d, i, f)
    BY DEF Has, vars
  <2>2. SoundInv'
    BY <2>1, SoundStays DEF IInv, FramesInv, SoundInv, vars
  <2>3. LinkInv'
    <3> SUFFICES ASSUME NEW d \in Caller, NEW i \in Nat, NEW f \in FrameType, NEW h \in FrameType,
                        Has(d, i, f)', Has(d, i + 1, h)'
                 PROVE  Link(f, h.key, h.on)
      BY DEF LinkInv, Link, OwnerOf, HasAllArguments, NextArgument, Unfolds, IsMaybe
    <3>1. Has(d, i, f) /\ Has(d, i + 1, h)
      BY <2>1
    <3> QED BY <3>1 DEF IInv, FramesInv, LinkInv
  <2>4. UnderInv'
    <3> SUFFICES ASSUME NEW d \in Caller, NEW i \in Nat, NEW j \in Nat, NEW f \in FrameType, NEW h \in FrameType,
                        Has(d, i, f)', Has(d, j, h)', i < j
                 PROVE  Under(KeyOf(f), KeyOf(h))
      BY DEF UnderInv, Under, KeyOf, Leads, Below
    <3> QED BY <2>1 DEF IInv, FramesInv, UnderInv
  <2> QED BY <2>2, <2>3, <2>4 DEF FramesInv
<1> QED BY <1>1, <1>2 DEF IInv

LEMMA Step == IInv /\ [Next]_vars => IInv'
<1> SUFFICES ASSUME IInv, [Next]_vars
             PROVE  IInv'
  OBVIOUS
<1>1. ASSUME NEW c \in Caller, CallerStep(c)
      PROVE  IInv'
  BY <1>1, ResolveBaseStep, AwaitBaseStep, ResolveMaybeStep, DispatchStep, AfterBaseMissStep, MaterializeSteps,
     OpenMatchStep, AcquireStep, AwaitLockStep, RelookStep, BindTypeArgumentStep, ResolveArgumentStep,
     ArgumentOpenStep, TakeArgumentStep, ArgumentFailedStep, AwaitProviderStep, BuildStep, StoreStep,
     ReleaseStep, AnswerStep DEF CallerStep
<1>2. ASSUME NEW c \in Caller, MaterializeFails(c) \/ ProviderFails(c)
      PROVE  IInv'
  BY <1>2, MaterializeSteps, ProviderFailsStep
<1>3. ASSUME NEW c \in Caller, NEW w \in Wrapper, NEW d \in Requests, Ask(c, w, d)
      PROVE  IInv'
  BY <1>3, AskStep
<1>4. CASE UNCHANGED vars \/ AllAnswered
  BY <1>4, Stutters DEF AllAnswered
<1> QED BY <1>1, <1>2, <1>3, <1>4 DEF Next, CallerMoves

THEOREM Inductive == Spec => []IInv
<1> QED BY Initial, Step, PTL DEF Spec

-----------------------------------------------------------------------------
(* What follows from it.                                                   *)

LEMMA TypesHold == IInv => TypeOK
<1> SUFFICES ASSUME IInv
             PROVE  TypeOK
  OBVIOUS
<1>1. Types /\ Counted /\ StoreInv
  BY DEF IInv, Types
<1>2. ASSUME NEW d \in DOMAIN entries
      PROVE  entries[d] \in Matches
  <2>1. d \in AnyKey /\ entries[d] = BestMatch[Closing[d]] /\ FromTemplate(Closing[d])
    BY <1>1 DEF StoreInv, EntriesInv
  <2> QED BY <2>1, KeyFacts, MatchFacts DEF FromTemplate
<1>3. ASSUME NEW w \in Wrapper
      PROVE  DOMAIN cache[w] \subseteq ClosedKey /\ Range(cache[w]) \subseteq DOMAIN born
  <2>1. DOMAIN born = 1..Len(born)
    BY <1>1 DEF Types
  <2>2. \A k \in DOMAIN cache[w] : k \in CachedKey /\ Is(cache[w][k], k, w)
    BY <1>1 DEF StoreInv, CacheInv
  <2> QED BY <2>1, <2>2 DEF CachedKey, Is, Range
<1>4. \A c \in Caller : calls[c] \in 0..MaxCalls
  BY <1>1 DEF Counted
<1> QED BY <1>1, <1>2, <1>3, <1>4 DEF TypeOK, Types, Counted

(* The caches, the event loop and the counters stay in their types: what a *)
(* wrapper caches are closed keys and instances that were built.           *)
THEOREM TypeCorrect == Spec => []TypeOK
<1> QED BY Inductive, TypesHold, PTL

LEMMA InstanceFacts ==
    ASSUME IInv, NEW n \in DOMAIN born
    PROVE  \E b \in Instance : b = born[n] /\ WellBuilt(b) /\ DOMAIN b.args = 1..Len(b.args)
<1>1. Types /\ BornInv
  BY DEF IInv, StoreInv
<1>2. born \in Seq(Instance) /\ n \in 1..Len(born) /\ n \in Nat
  BY <1>1 DEF Types
<1>3. PICK b \in Instance : b = born[n]
  BY <1>2
<1>4. WellBuilt(b)
  BY <1>1, <1>2, <1>3 DEF BornInv, Built
<1>5. b.args \in Seq(Nat)
  BY DEF Instance
<1>6. DOMAIN b.args = 1..Len(b.args)
  BY <1>5
<1> QED BY <1>3, <1>4, <1>6

LEMMA WiringHolds == IInv => WiredWithinScope
<1> SUFFICES ASSUME IInv
             PROVE  WiredWithinScope
  OBVIOUS
<1>1. ScopeIsolation
  <2> SUFFICES ASSUME NEW n \in DOMAIN born, NEW i \in DOMAIN born[n].args, born[n].args[i] # 0
               PROVE  born[born[n].args[i]].owner \in Chain[born[n].owner]
    BY DEF ScopeIsolation
  <2>1. PICK b \in Instance : b = born[n] /\ WellBuilt(b) /\ DOMAIN b.args = 1..Len(b.args)
    BY InstanceFacts
  <2>2. Wired(b.owner, BestMatch[b.key], i, b.args[i])
    BY <2>1 DEF WellBuilt
  <2> QED BY <2>1, <2>2 DEF Wired
<1>2. SharedWiring
  <2> SUFFICES ASSUME NEW n \in DOMAIN born, NEW i \in DOMAIN born[n].args
               PROVE  LET need == Closing[Arguments[BestMatch[born[n].key]][i].key]
                          d    == IF IsMaybe(need) THEN Closing[MaybeOf[need]] ELSE need
                      IN  born[n].args[i] # 0 /\ d \in CachedKey /\ Guarded(d) =>
                              born[n].args[i] = Lookup(Owner(born[n].owner, TemplateOf(d)), d)
    BY DEF SharedWiring
  <2> DEFINE need == Closing[Arguments[BestMatch[born[n].key]][i].key]
             d    == IF IsMaybe(need) THEN Closing[MaybeOf[need]] ELSE need
  <2> SUFFICES ASSUME born[n].args[i] # 0, d \in CachedKey, Guarded(d)
               PROVE  born[n].args[i] = Lookup(Owner(born[n].owner, TemplateOf(d)), d)
    OBVIOUS
  <2>1. PICK b \in Instance : b = born[n] /\ WellBuilt(b) /\ DOMAIN b.args = 1..Len(b.args)
    BY InstanceFacts
  <2>2. Wired(b.owner, BestMatch[b.key], i, b.args[i])
    BY <2>1 DEF WellBuilt
  <2>3. PICK a \in AnyKey : Arguments[BestMatch[b.key]][i] = KeyArgument(a) /\ Shares(b.owner, a, b.args[i])
    BY <2>1, <2>2 DEF Wired
  <2>4. need = Closing[a]
    BY <2>1, <2>3, ArgumentFacts
  <2>5. d = ServedBy(a)
    BY <2>4, KeyFacts DEF ServedBy
  <2> QED BY <2>1, <2>3, <2>5 DEF Shares
<1> QED BY <1>1, <1>2 DEF WiredWithinScope

(* Whatever a provider is given was built in its scope or in one its scope *)
(* was entered from, and for a guarded key it is the very instance that    *)
(* the owner's cache holds (open_generics.py:987-1071, 1093-1223).         *)
THEOREM WiringWithinScope == Spec => []WiredWithinScope
<1> QED BY Inductive, WiringHolds, PTL

(* All callers that are handed a guarded key in one scope are handed the   *)
(* same instance.                                                          *)
THEOREM OneInstance == Spec => []OneInstancePerKey
<1>1. IInv => OneInstancePerKey
  BY DEF IInv, StoreInv, GivenInv, OneInstancePerKey, SameInstance
<1> QED BY <1>1, Inductive, PTL

(* A caller between two calls holds no lock, however its calls ended.      *)
THEOREM LocksReleased == Spec => []NoLockLeft
<1>1. IInv => NoLockLeft
  <2> SUFFICES ASSUME IInv, NEW h \in held
               PROVE  stack[h.by] # <<>>
    BY DEF NoLockLeft
  <2>1. PICK i \in Nat, f \in FrameType : Has(h.by, i, f)
    BY DEF IInv, HeldInv, HeldByFrame
  <2> QED BY <2>1 DEF Has
<1> QED BY <1>1, Inductive, PTL

\* No key is built on the way to itself.
Acyclic == \A k \in ClosedKey : ~Leads(k, k)

(* When no template needs itself, a caller never waits for a lock that it  *)
(* holds: the only way to meet one's own lock is a circle of templates,    *)
(* which OpenCircular.cfg shows.                                           *)
THEOREM CirclesOnly == Acyclic => (Spec => []NoSelfWait)
<1>1. Acyclic /\ IInv => NoSelfWait
  <2> SUFFICES ASSUME Acyclic, IInv, NEW c \in Caller, At(c, "lock"), [lock |-> LockOf(c), by |-> c] \in held
               PROVE  FALSE
    BY DEF NoSelfWait
  <2>1. stack[c] # <<>> /\ Types /\ HeldInv /\ UnderInv
    BY DEF At, IInv, FramesInv
  <2>2. PICK n \in Nat : n = Len(stack[c])
    BY <2>1, OnTop
  <2>3. PICK t \in FrameType : t = Top(c) /\ Has(c, n, t) /\ t.at = "lock"
    BY <2>1, <2>2, OnTop DEF At
  <2>4. /\ \A i \in Nat, f \in FrameType : Has(c, i, f) => i <= n
        /\ \A f \in FrameType : Has(c, n, f) => f = t
    BY <2>1, <2>2, <2>3, OnTop
  <2>5. [lock |-> LockFor(t), by |-> c] \in held
    BY <2>3 DEF LockOf, LockFor
  <2>6. PICK i \in Nat, f \in FrameType :
            Has(c, i, f) /\ Inside(f) /\ [lock |-> LockFor(t), by |-> c] = [lock |-> LockFor(f), by |-> c]
    BY <2>1, <2>5 DEF HeldInv, HeldByFrame
  <2>7. LockFor(t) = LockFor(f)
    BY <2>6
  <2>8. KeyOf(t) = KeyOf(f)
    BY <2>7 DEF LockFor
  <2>9. i < n
    <3>1. f # t
      BY <2>3, <2>6 DEF Inside
    <3> QED BY <3>1, <2>4, <2>6
  <2>10. Leads(KeyOf(f), KeyOf(t)) /\ KeyOf(t) \in ClosedKey
    BY <2>1, <2>3, <2>6, <2>9, FrameFacts DEF UnderInv, Under
  <2> QED BY <2>8, <2>10 DEF Acyclic
<1>2. SUFFICES ASSUME Acyclic
               PROVE  Spec => []NoSelfWait
  OBVIOUS
<1>3. IInv => NoSelfWait
  BY <1>1, <1>2
<1> QED BY <1>3, Inductive, PTL

-----------------------------------------------------------------------------
(* The wrappers' caches implement the promise.                             *)

Cell == [w \in Wrapper |-> [k \in CachedKey |-> IF Guarded(k) THEN Lookup(w, k) ELSE 0]]
HandedOut(w, k) == IF Guarded(k) THEN {g.value : g \in {h \in given : h.owner = w /\ h.key = k}} ELSE {}
Handed == [w \in Wrapper |-> [k \in CachedKey |-> HandedOut(w, k)]]

(* One entry of a table of tables changes.                                 *)

LEMMA KeepsEntries ==
    ASSUME NEW Rs, NEW Ss, NEW Ls \in SUBSET Ss, NEW F, F = [q \in Rs |-> [x \in Ss |-> F[q][x]]],
           NEW r \in Rs, NEW s \in Ss, NEW v, NEW G, G = [F EXCEPT ![r][s] = v],
           NEW q \in Rs, NEW x \in Ls
    PROVE  /\ q # r \/ x # s => G[q][x] = F[q][x]
           /\ q = r /\ x = s => G[q][x] = v
<1>1. CASE q = r
  <2>1. G[q] = [F[r] EXCEPT ![s] = v]
    BY <1>1
  <2>2. F[r] = [y \in Ss |-> F[r][y]]
    OBVIOUS
  <2> QED BY <1>1, <2>1, <2>2
<1>2. CASE q # r
  BY <1>2
<1> QED BY <1>1, <1>2

LEMMA EntryExcept ==
    ASSUME NEW Rs, NEW Ls, NEW F, NEW G,
           F = [q \in Rs |-> [x \in Ls |-> F[q][x]]], G = [q \in Rs |-> [x \in Ls |-> G[q][x]]],
           NEW r \in Rs, NEW s \in Ls, NEW v, G[r][s] = v,
           \A q \in Rs, x \in Ls : q # r \/ x # s => G[q][x] = F[q][x]
    PROVE  G = [F EXCEPT ![r][s] = v]
<1> DEFINE H == [F EXCEPT ![r][s] = v]
<1>1. \A q \in Rs, x \in Ls : H[q][x] = G[q][x]
  BY KeepsEntries
<1>2. H = [q \in Rs |-> [x \in Ls |-> H[q][x]]]
  <2>1. \A q \in Rs : H[q] = [x \in Ls |-> H[q][x]]
    <3> SUFFICES ASSUME NEW q \in Rs PROVE H[q] = [x \in Ls |-> H[q][x]]
      OBVIOUS
    <3>0. F[q] = [x \in Ls |-> F[q][x]]
      OBVIOUS
    <3>1. CASE q = r
      <4>1. H[q] = [F[q] EXCEPT ![s] = v]
        BY <3>1
      <4> QED BY <3>0, <4>1
    <3>2. CASE q # r
      <4>1. H[q] = F[q]
        BY <3>2
      <4> QED BY <3>0, <4>1
    <3> QED BY <3>1, <3>2
  <2>2. H = [q \in Rs |-> H[q]]
    OBVIOUS
  <2> HIDE DEF H
  <2>3. [q \in Rs |-> H[q]] = [q \in Rs |-> [x \in Ls |-> H[q][x]]]
    BY <2>1
  <2> QED BY <2>2, <2>3
<1> HIDE DEF H
<1>3. \A q \in Rs : [x \in Ls |-> H[q][x]] = [x \in Ls |-> G[q][x]]
  BY <1>1
<1>4. H = G
  BY <1>2, <1>3
<1> QED BY <1>4 DEF H

LEMMA PromiseInit == Init => Promise!Init
<1> SUFFICES ASSUME Init
             PROVE  Promise!Init
  OBVIOUS
<1>1. \A w \in Wrapper, k \in CachedKey : Lookup(w, k) = 0
  BY DEF Init, Lookup
<1>2. given = {}
  BY DEF Init
<1> QED BY <1>1, <1>2 DEF Promise!Init

LEMMA PromiseStutters ==
    ASSUME UNCHANGED <<deployment, cache, given>>
    PROVE  [Promise!Next]_<<Cell, Handed>>
<1>1. \A w \in Wrapper, k \in CachedKey : Lookup(w, k)' = Lookup(w, k) /\ (Guarded(k)' <=> Guarded(k))
  BY GuardedStays DEF Lookup
<1>2. Cell' = Cell
  BY <1>1 DEF Cell
<1>3. \A w \in Wrapper, k \in CachedKey : HandedOut(w, k)' = HandedOut(w, k)
  BY <1>1 DEF HandedOut
<1>4. Handed' = Handed
  BY <1>3 DEF Handed
<1> QED BY <1>2, <1>4

\* What set_cached writes.
LEMMA StoreFacts ==
    ASSUME IInv, NEW c \in Caller, Store(c)
    PROVE  \E o \in Wrapper, k \in CachedKey, v \in Nat \ {0} :
              /\ \A w \in Wrapper, q \in CachedKey : Lookup(w, q)' = IF w = o /\ q = k THEN v ELSE Lookup(w, q)
              /\ Guarded(k) => Lookup(o, k) = 0
<1>1. stack[c] # <<>>
  BY DEF Store, At
<1>2. PICK t \in FrameType : t = Top(c) /\ Sound(t) /\ Current(t)
  BY <1>1, TopFacts
<1>3. t.at = "store"
  BY <1>2 DEF Store, At
<1>4. Matched(t) /\ ~Mismatch(t) /\ SpecOf(t) \notin Transient
  BY <1>2, <1>3 DEF Sound, Placed
<1>5. OwnerOf(t) \in Wrapper
  BY <1>2, <1>4, PlacedFacts
<1>6. KeyOf(t) \in CachedKey /\ t.value \in Nat
  BY <1>2, <1>4, FrameFacts, MatchedFacts
<1>7. t.value # 0
  BY <1>2, <1>3, <1>6 DEF Current, Holds, Is
<1>8. PICK o \in Wrapper, k \in CachedKey, v \in Nat \ {0} : o = OwnerOf(t) /\ k = KeyOf(t) /\ v = t.value
  BY <1>5, <1>6, <1>7
<1>9. cache' = [cache EXCEPT ![o] = [q \in {k} \cup DOMAIN @ |-> IF q = k THEN v ELSE @[q]]] /\ DOMAIN cache = Wrapper
  BY <1>2, <1>8 DEF Store, IInv, Types
<1>10. /\ \A w \in Wrapper \ {o} : cache'[w] = cache[w]
       /\ DOMAIN cache'[o] = {k} \cup DOMAIN cache[o]
       /\ \A q \in {k} \cup DOMAIN cache[o] : cache'[o][q] = IF q = k THEN v ELSE cache[o][q]
  BY <1>9
<1>11. \A w \in Wrapper, q \in CachedKey : Lookup(w, q)' = IF w = o /\ q = k THEN v ELSE Lookup(w, q)
  BY <1>10 DEF Lookup
<1>12. Guarded(k) => Lookup(o, k) = 0
  BY <1>2, <1>3, <1>4, <1>8 DEF Current, Pending
<1> QED BY <1>8, <1>11, <1>12

LEMMA StorePublishes ==
    ASSUME IInv, NEW c \in Caller, Store(c)
    PROVE  [Promise!Next]_<<Cell, Handed>>
<1>1. PICK o \in Wrapper, k \in CachedKey, v \in Nat \ {0} :
              /\ \A w \in Wrapper, q \in CachedKey : Lookup(w, q)' = IF w = o /\ q = k THEN v ELSE Lookup(w, q)
              /\ Guarded(k) => Lookup(o, k) = 0
  BY StoreFacts
<1>2. UNCHANGED <<deployment, given>>
  BY DEF Store
<1>3. \A q \in CachedKey : Guarded(q)' <=> Guarded(q)
  BY <1>2, GuardedStays
<1>4. \A w \in Wrapper, q \in CachedKey : HandedOut(w, q)' = HandedOut(w, q)
  BY <1>2, <1>3 DEF HandedOut
<1>5. Handed' = Handed
  BY <1>4 DEF Handed
<1>6. CASE ~Guarded(k)
  <2>1. \A w \in Wrapper, q \in CachedKey : Guarded(q) => Lookup(w, q)' = Lookup(w, q)
    BY <1>1, <1>6
  <2>2. Cell' = Cell
    BY <2>1, <1>3 DEF Cell
  <2> QED BY <2>2, <1>5
<1>7. CASE Guarded(k)
  <2>1. Cell[o][k] = 0 /\ Cell'[o][k] = v
    BY <1>1, <1>3, <1>7 DEF Cell
  <2>2. \A w \in Wrapper, q \in CachedKey : w # o \/ q # k => Cell'[w][q] = Cell[w][q]
    BY <1>1, <1>3 DEF Cell
  <2>3. /\ Cell = [w \in Wrapper |-> [q \in CachedKey |-> Cell[w][q]]]
        /\ Cell' = [w \in Wrapper |-> [q \in CachedKey |-> Cell'[w][q]]]
    BY DEF Cell
  <2>4. Cell' = [Cell EXCEPT ![o][k] = v]
    BY <2>1, <2>2, <2>3, EntryExcept
  <2>5. Cell' = [Cell EXCEPT ![o][k] = Cell'[o][k]]
    BY <2>1, <2>4
  <2>6. Promise!Publish(o, k)
    BY <2>1, <2>5, <1>5 DEF Promise!Publish, Cell, Handed, HandedOut
  <2> QED BY <2>6 DEF Promise!Next
<1> QED BY <1>6, <1>7

LEMMA HandStep ==
    ASSUME IInv, UNCHANGED <<deployment, cache>>, NEW f \in FrameType, Sound(f), Current(f), f.at = "done",
           given' = given \cup Hands(f)
    PROVE  [Promise!Next]_<<Cell, Handed>>
<1>1. CASE Hands(f) = {}
  BY <1>1, PromiseStutters
<1>2. CASE Hands(f) # {}
  <2>1. PICK h \in Hands(f) : Hands(f) = {h}
    BY <1>2 DEF Hands
  <2>2. /\ h.owner \in Wrapper /\ h.key \in CachedKey
        /\ Guarded(h.key) => h.value = Lookup(h.owner, h.key) /\ h.value # 0
    BY HandsFacts
  <2>3. PICK o \in Wrapper, k \in CachedKey : o = h.owner /\ k = h.key
    BY <2>2
  <2>10. PICK v : v = h.value
    OBVIOUS
  <2>4. given' = given \cup {h}
    BY <2>1
  <2>5. \A w \in Wrapper, q \in CachedKey : Lookup(w, q)' = Lookup(w, q) /\ (Guarded(q)' <=> Guarded(q))
    BY GuardedStays DEF Lookup
  <2>6. Cell' = Cell
    BY <2>5 DEF Cell
  <2>7. \A w \in Wrapper, q \in CachedKey :
            /\ (w # o \/ q # k) => HandedOut(w, q)' = HandedOut(w, q)
            /\ w = o /\ q = k /\ Guarded(q) => HandedOut(w, q)' = HandedOut(w, q) \cup {v}
            /\ ~Guarded(q) => HandedOut(w, q)' = HandedOut(w, q)
    BY <2>3, <2>4, <2>5, <2>10 DEF HandedOut
  <2>8. CASE ~Guarded(k)
    <3>1. \A w \in Wrapper, q \in CachedKey : HandedOut(w, q)' = HandedOut(w, q)
      BY <2>7, <2>8
    <3>2. Handed' = Handed
      BY <3>1 DEF Handed
    <3> QED BY <3>2, <2>6
  <2>9. CASE Guarded(k)
    <3>1. Cell[o][k] = v /\ v # 0
      BY <2>2, <2>3, <2>9, <2>10 DEF Cell
    <3>2. /\ Handed = [w \in Wrapper |-> [q \in CachedKey |-> Handed[w][q]]]
          /\ Handed' = [w \in Wrapper |-> [q \in CachedKey |-> Handed'[w][q]]]
      BY DEF Handed
    <3>3. Handed'[o][k] = Handed[o][k] \cup {v}
      BY <2>7, <2>9 DEF Handed
    <3>4. \A w \in Wrapper, q \in CachedKey : w # o \/ q # k => Handed'[w][q] = Handed[w][q]
      BY <2>7 DEF Handed
    <3>5. PICK s : s = Handed[o][k] \cup {v}
      OBVIOUS
    <3>6. Handed' = [Handed EXCEPT ![o][k] = s]
      BY <3>2, <3>3, <3>4, <3>5, EntryExcept
    <3>7. Handed' = [Handed EXCEPT ![o][k] = @ \cup {Cell[o][k]}]
      BY <3>1, <3>2, <3>5, <3>6
    <3>8. Promise!Hand(o, k)
      BY <3>1, <3>7, <2>6 DEF Promise!Hand, Cell, Handed, HandedOut
    <3> QED BY <3>8 DEF Promise!Next
  <2> QED BY <2>8, <2>9
<1> QED BY <1>1, <1>2

LEMMA PromiseStep == IInv /\ [Next]_vars => [Promise!Next]_<<Cell, Handed>>
<1> SUFFICES ASSUME IInv, [Next]_vars
             PROVE  [Promise!Next]_<<Cell, Handed>>
  OBVIOUS
<1>1. ASSUME NEW c \in Caller, Store(c)
      PROVE  [Promise!Next]_<<Cell, Handed>>
  BY <1>1, StorePublishes
<1>2. ASSUME NEW c \in Caller, TakeArgument(c)
      PROVE  [Promise!Next]_<<Cell, Handed>>
  <2>1. IsNested(c)
    BY <1>2 DEF TakeArgument
  <2>2. PICK t \in FrameType : t = Top(c) /\ Sound(t) /\ Current(t)
    BY <2>1, WaitingFacts
  <2>3. t.at = "done" /\ given' = given \cup Hands(t) /\ UNCHANGED <<deployment, cache>>
    BY <1>2, <2>2 DEF TakeArgument, At, shared
  <2> QED BY <2>2, <2>3, HandStep
<1>3. ASSUME NEW c \in Caller, Answer(c)
      PROVE  [Promise!Next]_<<Cell, Handed>>
  <2>1. stack[c] # <<>> /\ UNCHANGED <<deployment, cache>>
    BY <1>3 DEF Answer, At, shared
  <2>2. PICK t \in FrameType : t = Top(c) /\ Sound(t) /\ Current(t)
    BY <2>1, TopFacts
  <2>3. given' = IF t.at = "done" THEN given \cup Hands(t) ELSE given
    BY <1>3, <2>2 DEF Answer, At
  <2>4. CASE t.at = "done"
    BY <2>1, <2>2, <2>3, <2>4, HandStep
  <2>5. CASE t.at # "done"
    BY <2>1, <2>3, <2>5, PromiseStutters
  <2> QED BY <2>4, <2>5
<1>4. ASSUME UNCHANGED <<deployment, cache, given>>
      PROVE  [Promise!Next]_<<Cell, Handed>>
  BY <1>4, PromiseStutters
<1>5. ASSUME NEW c \in Caller,
             \/ \E w \in Wrapper, d \in Requests : Ask(c, w, d)
             \/ ResolveBase(c) \/ AwaitBase(c) \/ ResolveMaybe(c) \/ Dispatch(c) \/ AfterBaseMiss(c)
             \/ MaterializeOnce(c) \/ Materialize(c) \/ MaterializeFails(c) \/ OpenMatch(c) \/ Acquire(c)
      PROVE  UNCHANGED <<deployment, cache, given>>
  BY <1>5 DEF Ask, ResolveBase, AwaitBase, ResolveMaybe, Dispatch, AfterBaseMiss, MaterializeOnce, Materialize,
     MaterializeFails, OpenMatch, Acquire, shared
<1>6. ASSUME NEW c \in Caller,
             \/ AwaitLock(c) \/ Relook(c) \/ BindTypeArgument(c) \/ ResolveArgument(c) \/ ArgumentOpen(c)
             \/ ArgumentFailed(c) \/ AwaitProvider(c) \/ Build(c) \/ ProviderFails(c) \/ Release(c)
      PROVE  UNCHANGED <<deployment, cache, given>>
  BY <1>6 DEF AwaitLock, Relook, BindTypeArgument, ResolveArgument, ArgumentOpen, ArgumentFailed, AwaitProvider,
     Build, ProviderFails, Release, shared
<1>7. CASE UNCHANGED vars \/ AllAnswered
  <2>1. UNCHANGED <<deployment, cache, given>>
    BY <1>7 DEF AllAnswered, vars, shared
  <2> QED BY <2>1, <1>4
<1> QED BY <1>1, <1>2, <1>3, <1>4, <1>5, <1>6, <1>7 DEF Next, CallerMoves, CallerStep

(* The double-checked cache of every wrapper (open_generics.py:987-1091),  *)
(* with its locks or, where it takes none, with an event loop that nothing *)
(* below the key gives back, implements ScopedInstances: a cell per scope  *)
(* and guarded key, written once, and nobody is handed anything else.      *)
THEOREM Implements == Spec => ImplementsPromise
<1>1. Init => Promise!Init
  BY PromiseInit
<1>2. IInv /\ [Next]_vars => [Promise!Next]_<<Cell, Handed>>
  BY PromiseStep
<1> QED
  BY <1>1, <1>2, Inductive, PTL DEF Spec, ImplementsPromise, Promise!Spec, Cell, Handed, HandedOut
=============================================================================
