----------------------------- MODULE GenericKeys -----------------------------
(***************************************************************************)
(* Keys of generic dependencies and the registry of open templates         *)
(* (diwire/_internal/open_generics.py).                                    *)
(*                                                                         *)
(* A key is a type expression: [of |-> name, args |-> keys].  A TypeVar is *)
(* a name of TypeVar without arguments; a generic class without arguments  *)
(* is bare and stands for itself applied to its own parameters.            *)
(* Matching returns a set that holds the one mapping found, or nothing.    *)
(***************************************************************************)
EXTENDS SequencesExt

CONSTANTS
    TypeVar,     \* names of TypeVars
    Parameters,  \* Parameters[c]: the TypeVars of generic class c, in order
    Default,     \* Default[v]: default argument of the TypeVars that have one
    Admitted,    \* Admitted[v]: constraints, or members of the bound, of v; {} = any
    Bases        \* Bases[c]: the classes c is a subclass of, itself included

Key(name, args) == [of |-> name, args |-> args]
Var(v) == Key(v, <<>>)

IsVar(k) == k.of \in TypeVar

\* __parameters__ of a bare generic class.
ParametersOf(k) == IF k.args = <<>> /\ k.of \in DOMAIN Parameters THEN Parameters[k.of] ELSE <<>>
OwnArguments(k) == [i \in DOMAIN ParametersOf(k) |-> Var(ParametersOf(k)[i])]

RECURSIVE TypeVarsIn(_)
TypeVarsIn(k) ==
    IF IsVar(k) THEN {k.of}
    ELSE Range(ParametersOf(k)) \cup UNION {TypeVarsIn(a) : a \in Range(k.args)}

ContainsTypeVar(k) == TypeVarsIn(k) # {}

RECURSIVE Substitute(_, _)
Substitute(k, mapping) ==
    IF k.of \in DOMAIN mapping THEN mapping[k.of]
    ELSE [k EXCEPT !.args = [i \in DOMAIN @ |-> Substitute(@[i], mapping)]]

\* Every bare generic class in the key gets its own parameters.
RECURSIVE Normalize(_)
Normalize(k) ==
    Key(k.of, IF k.args = <<>> THEN OwnArguments(k)
              ELSE [i \in DOMAIN k.args |-> Normalize(k.args[i])])

IsOpenKey(k) == ContainsTypeVar(Normalize(k))

\* A generic class whose TypeVars all have a closed default is closed with them.
CloseWithDefaults(k) ==
    LET parameters == ParametersOf(k)
        closed == Key(k.of, [i \in DOMAIN parameters |-> Default[parameters[i]]])
    IN  IF /\ parameters # <<>> /\ Range(parameters) \subseteq DOMAIN Default
           /\ ~ContainsTypeVar(closed)
        THEN closed ELSE k

IsClosed(k) == k.args # <<>> /\ \A a \in Range(k.args) : ~ContainsTypeVar(a)

RECURSIVE Specificity(_)
Specificity_Shallow(k) ==   \* mutant: only arguments that are plain classes count
    IF k.args = <<>> THEN 2 ELSE 1 + 2 * Cardinality({i \in DOMAIN k.args : k.args[i].args = <<>> /\ ~IsVar(k.args[i])})

Specificity(k) ==
    IF IsVar(k) THEN 0
    ELSE IF k.args = <<>> THEN 2
    ELSE 1 + FoldLeft(LAMBDA sum, a : sum + Specificity(a), 0, k.args)

\* The mapping that extends `known` and makes the template the concrete key.
RECURSIVE MatchNode(_, _, _)
MatchArguments(templates, concretes, known) ==
    IF Len(templates) # Len(concretes) THEN {}
    ELSE FoldLeftDomain(LAMBDA ms, i : UNION {MatchNode(templates[i], concretes[i], m) : m \in ms},
                        {known}, templates)

MatchNode(template, concrete, known) ==
    IF IsVar(template)
    THEN IF template.of \notin DOMAIN known
         THEN {known @@ (template.of :> concrete)}
         ELSE {m \in {known} : m[template.of] = concrete}
    ELSE IF ParametersOf(template) # <<>> THEN MatchNode(Normalize(template), concrete, known)
    ELSE IF template.of = concrete.of THEN MatchArguments(template.args, concrete.args, known)
    ELSE {}

\* A constraint or bound admits its subclasses; Any and a union are sets of classes here.
AdmitsArgument(v, argument) ==
    Admitted[v] = {} \/ \E c \in Admitted[v] : c = "Any" \/ c \in Bases[argument.of]

ValidArguments(mapping) == \A v \in DOMAIN mapping : AdmitsArgument(v, mapping[v])
=============================================================================
