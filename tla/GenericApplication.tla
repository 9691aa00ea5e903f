-------------------------- MODULE GenericApplication --------------------------
(***************************************************************************)
(* An application of open generics: it registers its templates and then    *)
(* serves concurrent callers.  What the resolver of OpenGenerics is given, *)
(* the keys and what is found for them, is computed here with the registry *)
(* (diwire/_internal/open_generics.py).                                    *)
(***************************************************************************)
EXTENDS OpenGenerics, GenericRegistry

CONSTANTS
    Needs,   \* Needs[p]: what the parameters of p's provider ask for
    Served   \* the registrations, in order, of the application that is served

\* The application registers its templates; some other order is only explored.
Register(p) ==
    /\ \/ counter < MaxRegistered
       \/ counter < Len(Served) /\ Served[counter + 1] = p
          /\ \A q \in DOMAIN specs : specs[q].template = Served[specs[q].order]
    /\ \A k \in DOMAIN specs : specs[k].template # p
    /\ \A c \in Caller : calls[c] = 0
    /\ RegisterTemplate(p)

\* The registry once the registrations of the served application are made.
ServedKey(p) == Normalize(TemplateKey[p])
ServedSpecs ==
    [k \in {ServedKey(p) : p \in Range(Served)} |->
        LET i == CHOOSE i \in DOMAIN Served : ServedKey(Served[i]) = k IN TemplateSpec(Served[i], i)]

Serving == specs = ServedSpecs

-----------------------------------------------------------------------------
(* What it finds for a key, and what the parameters of the provider get:   *)
(* a parameter that is a TypeVar or type[TypeVar] the type argument        *)
(* itself, any other one the key it is closed to.                          *)
ServedMatchOf(k) ==
    LET best == FindBestMatch(ServedSpecs, k)
    IN  IF best.kind = "match"
        THEN [kind |-> "match", template |-> ServedSpecs[best.key].template, mapping |-> best.mapping]
        ELSE best

TypeArguments(mapping) ==
    {Var(v) : v \in DOMAIN mapping} \cup {Key("type", <<Var(v)>>) : v \in DOMAIN mapping}

Argument(need, mapping) ==
    LET closed == Substitute(need, mapping)
    IN  IF need \in TypeArguments(mapping) THEN TypeArgument
        ELSE IF ContainsTypeVar(closed) THEN OpenArgument
        ELSE KeyArgument(closed)

ArgumentsOf(m) == [i \in DOMAIN Needs[m.template] |-> Argument(Needs[m.template][i], m.mapping)]

-----------------------------------------------------------------------------
(* The constants of OpenGenerics. *)
AskedFrom(k) ==
    LET m == ServedMatchOf(k)
    IN  {CloseWithDefaults(k)} \cup (IF k.of = "Maybe" THEN {k.args[1]} ELSE {})
        \cup (IF m.kind = "match" THEN {a.key : a \in {b \in Range(ArgumentsOf(m)) : b.is = "key"}} ELSE {})

RECURSIVE Reached(_)
Reached(keys) ==
    LET more == keys \cup UNION {AskedFrom(k) : k \in keys} IN IF more = keys THEN keys ELSE Reached(more)

ServedKeys == Reached(Requests)
ServedClosing == [k \in ServedKeys |-> CloseWithDefaults(k)]
ServedMaybe == [k \in {j \in ServedKeys : j.of = "Maybe"} |-> k.args[1]]
ServedMatch == [k \in Range(ServedClosing) |-> ServedMatchOf(k)]
ServedArguments ==
    [m \in {ServedMatch[k] : k \in {j \in DOMAIN ServedMatch : ServedMatch[j].kind = "match"}} |-> ArgumentsOf(m)]
\* The largest settled set of keys.
RECURSIVE Calm(_)
Calm(keys) ==
    LET kept == {k \in keys : ~Suspends(k) /\ Below[k] \subseteq keys} IN IF kept = keys THEN keys ELSE Calm(kept)

ServedQuiet == Calm(ClosedKey)

ASSUME ServedAssumption ==
    /\ AnyKey = ServedKeys /\ Closing = ServedClosing /\ MaybeOf = ServedMaybe
    /\ BestMatch = ServedMatch /\ Arguments = ServedArguments /\ Quiet = ServedQuiet

-----------------------------------------------------------------------------
AppInit == InitRegistry /\ Init
AppVars == <<registry, vars>>

Registering == \A c \in Caller : calls[c] = 0

(* The callers come when the registrations are made. *)
Moves(c) == Serving /\ CallerMoves(c) /\ UNCHANGED registry

AllRegistered == Registering /\ ~Serving /\ UNCHANGED AppVars
AllServed == Serving /\ AllAnswered /\ UNCHANGED registry

AppNext ==
    \/ \E p \in Template : Register(p) /\ UNCHANGED vars
    \/ \E c \in Caller : Moves(c)
    \/ AllRegistered \/ AllServed

AppSpec == AppInit /\ [][AppNext]_AppVars
FairSpec == AppSpec /\ \A c \in Caller : WF_AppVars(CallerStep(c) /\ UNCHANGED registry)

-----------------------------------------------------------------------------
(* The registry's lookups, at every state the registrations go through.    *)
ExactWhileRegistering == Registering => MatchExact
NarrowestWhileRegistering == Registering => NarrowestServes
RegistryServes == ExactWhileRegistering /\ NarrowestWhileRegistering
=============================================================================
