--------------------------- MODULE GenericRegistry ---------------------------
(***************************************************************************)
(* The registry of open generic templates: registrations, and the choice   *)
(* of the template that serves a closed key                                *)
(* (diwire/_internal/open_generics.py, class _OpenGenericRegistry).        *)
(***************************************************************************)
EXTENDS GenericKeys

CONSTANTS
    Template,       \* the provider registrations the application has
    TemplateKey,    \* TemplateKey[p]: the key registration p provides
    Asked,          \* bound: the keys asked for
    MaxRegistered   \* bound: registrations made in any order

VARIABLES
    specs,   \* specs[k]: the spec registered under the normalised key k
    counter  \* _registration_counter

registry == <<specs, counter>>

InitRegistry == specs = <<>> /\ counter = 0

TemplateSpec(template, order) == [template |-> template, order |-> order]

\* A second registration of a key takes the place of the first.
RegisterTemplate(p) ==
    /\ IsOpenKey(TemplateKey[p])
    /\ counter' = counter + 1
    /\ specs' = (Normalize(TemplateKey[p]) :> TemplateSpec(p, counter + 1)) @@ specs

-----------------------------------------------------------------------------
(* The lookup reads one state of the registry, `known`. *)
Candidates(known, closed) ==
    UNION {{[key |-> k, mapping |-> m] : m \in MatchNode(k, closed, <<>>)} : k \in DOMAIN known}

NoMatch == [kind |-> "none"]
InvalidArgument == [kind |-> "invalid"]
Match(c) == [kind |-> "match", key |-> c.key, mapping |-> c.mapping]

\* Higher specificity first, the later registration among equals.
Preferred(known, c, d) ==
    \/ Specificity(c.key) > Specificity(d.key)
    \/ Specificity(c.key) = Specificity(d.key) /\ known[c.key].order >= known[d.key].order

FindBestMatch(known, dependency) ==
    LET closed == CloseWithDefaults(dependency)
        all    == IF IsClosed(closed) THEN Candidates(known, closed) ELSE {}
        valid  == {c \in all : ValidArguments(c.mapping)}
    IN  IF valid # {} THEN Match(CHOOSE c \in valid : \A d \in valid : Preferred(known, c, d))
        ELSE IF all # {} THEN InvalidArgument
        ELSE NoMatch

-----------------------------------------------------------------------------
(* Reference definitions: what it means for a key to be an instance of a   *)
(* template, by trying every assignment of subterms to its TypeVars.       *)
RECURSIVE Subterms(_)
Subterms(k) == {k} \cup UNION {Subterms(a) : a \in Range(k.args)}

Assignments(template, k) == [TypeVarsIn(template) -> Subterms(k)]

InstanceBy(template, k) == {m \in Assignments(template, k) : Substitute(template, m) = k}
ServesKey(template, k) == \E m \in InstanceBy(template, k) : ValidArguments(m)

\* One template is narrower than another when it is an instance of it and not the reverse.
Narrower(s, t) == InstanceBy(t, s) # {} /\ InstanceBy(s, t) = {}

RECURSIVE Occurrences(_)
Occurrences(k) == IF IsVar(k) THEN <<k.of>> ELSE FlattenSeq([i \in DOMAIN k.args |-> Occurrences(k.args[i])])
Linear(template) == IsInjective(Occurrences(template))

(* A key is served exactly when some registered template has it as an      *)
(* instance with admissible arguments, and the mapping found rebuilds the  *)
(* key asked for; a key that only inadmissible arguments fit is reported.  *)
MatchExact ==
    \A d \in Asked :
        LET k == CloseWithDefaults(d)
            best == FindBestMatch(specs, d)
            fits == {t \in DOMAIN specs : IsClosed(k) /\ InstanceBy(t, k) # {}}
        IN  /\ best.kind = "match" <=> \E t \in fits : ServesKey(t, k)
            /\ best.kind = "match" => best.mapping \in InstanceBy(best.key, k)
            /\ best.kind = "none" <=> fits = {}

(* The template that serves a key is never wider than another one that     *)
(* could serve it: a registration for Box[list[T]] is not shadowed by one  *)
(* for Box[T], whatever the order of the registrations.  Templates that    *)
(* repeat a TypeVar are left out: Pair[T, T] scores as Pair[T, U] does.    *)
NarrowestServes ==
    \A d \in Asked :
        LET best == FindBestMatch(specs, d)
        IN  best.kind = "match" =>
                \A t \in DOMAIN specs :
                    Linear(t) /\ Narrower(t, best.key) => ~ServesKey(t, CloseWithDefaults(d))
=============================================================================
