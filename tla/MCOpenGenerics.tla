--------------------------- MODULE MCOpenGenerics ---------------------------
(* A small application for OpenGenerics: an application scope and two      *)
(* requests, templates of several scopes, lifetimes and lock modes.        *)
EXTENDS GenericApplication

T == Var("T")
U == Var("U")
N == Var("N")
TInt == Var("int")
TStr == Var("str")
List(k) == Key("list", <<k>>)
Repo(k) == Key("Repo", <<k>>)
Unit(k) == Key("Unit", <<k>>)
Feed(k) == Key("Feed", <<k>>)
Page(k) == Key("Page", <<k>>)
Tag(k) == Key("Tag", <<k>>)
Pair(j, k) == Key("Pair", <<j, k>>)
Left(k) == Key("Left", <<k>>)
Right(k) == Key("Right", <<k>>)
Maybe(k) == Key("Maybe", <<k>>)

MCTypeVar == {"T", "U", "N"}
MCParameters == "Repo" :> <<"T">> @@ "Unit" :> <<"N">> @@ "Feed" :> <<"T">> @@ "Page" :> <<"T">> @@ "Tag" :> <<"T">>
                @@ "Left" :> <<"T">> @@ "Right" :> <<"T">>
                @@ "Pair" :> <<"T", "U">> @@ "Num" :> <<"N">>
MCDefault == "N" :> TInt
MCAdmitted == "T" :> {} @@ "U" :> {} @@ "N" :> {"int", "list"}
MCBases == "int" :> {"int"} @@ "str" :> {"str"} @@ "bool" :> {"bool", "int"} @@ "list" :> {"list"}
           @@ "Repo" :> {"Repo"} @@ "Unit" :> {"Unit"}

MCTemplateKey ==
    "repo" :> Key("Repo", <<>>)           \* registered by its bare class
    @@ "unit" :> Unit(N)
    @@ "feed" :> Feed(T)
    @@ "page" :> Page(T)
    @@ "listrepo" :> Repo(List(T))
    @@ "tag" :> Tag(T)
    @@ "pair" :> Pair(T, U)
    @@ "twin" :> Pair(T, T)
    @@ "intpair" :> Pair(T, TInt)
    @@ "listpair" :> Pair(List(T), U)
    @@ "num" :> Key("Num", <<N>>)
    @@ "left" :> Left(T)
    @@ "right" :> Right(T)
MCTemplate == DOMAIN MCTemplateKey \ {"left", "right"}

MCNeeds ==
    "repo" :> <<Var("Config"), Key("type", <<T>>)>>
    @@ "unit" :> <<Repo(N), N>>
    @@ "feed" :> <<Unit(T), Var("Db")>>
    @@ "page" :> <<Maybe(Unit(T)), Maybe(Pair(T, T))>>
    @@ "listrepo" :> <<Unit(T)>>
    @@ "tag" :> <<Repo(U)>>               \* no argument of Tag says what U is
    @@ "pair" :> <<>> @@ "twin" :> <<>> @@ "intpair" :> <<>> @@ "listpair" :> <<>>
    @@ "num" :> <<>> @@ "left" :> <<Right(T)>> @@ "right" :> <<Left(T)>>
MCTemplateLevel == [p \in DOMAIN MCTemplateKey |-> IF p \in {"repo", "listrepo"} THEN 1 ELSE 3]
MCTemplateLock == [p \in DOMAIN MCTemplateKey |-> IF p \in {"repo", "unit"} THEN "thread" ELSE "auto"]
MCServed == <<"repo", "unit", "feed", "page", "listrepo", "tag">>

MCAsyncBase == {Var("Db")}

\* Two templates that need each other.
CircularServed == <<"left", "right">>
CircularAsked == {Left(TInt), Right(TInt)}

MCRequests == {Key("Unit", <<>>), Feed(TInt), Page(TInt), Tag(TInt), Repo(List(TInt)), Pair(TInt, TInt)}
MCAsked == MCRequests \cup {Unit(TInt), Repo(TInt), Unit(List(TInt)),
            Pair(List(TInt), TInt), Pair(List(TInt), List(TInt)), Pair(TStr, TInt),
            Key("Num", <<>>), Key("Num", <<Var("bool")>>), Key("Num", <<TStr>>), Key("Pair", <<>>)}

(* What the keys of the served application come to: a unit asked for by    *)
(* its bare class is the unit of int.                                      *)
MatchWith(template, v) == [kind |-> "match", template |-> template, mapping |-> v :> TInt]
MCMaybe == Maybe(Unit(TInt)) :> Unit(TInt) @@ Maybe(Pair(TInt, TInt)) :> Pair(TInt, TInt)
MCBase == Var("Config") :> 1 @@ Var("Db") :> 3
MCServedBy ==
    Repo(TInt) :> MatchWith("repo", "T") @@ Unit(TInt) :> MatchWith("unit", "N")
    @@ Feed(TInt) :> MatchWith("feed", "T") @@ Page(TInt) :> MatchWith("page", "T")
    @@ Tag(TInt) :> MatchWith("tag", "T") @@ Repo(List(TInt)) :> MatchWith("listrepo", "T")
MCArguments ==
    MatchWith("repo", "T") :> <<KeyArgument(Var("Config")), TypeArgument>>
    @@ MatchWith("unit", "N") :> <<KeyArgument(Repo(TInt)), TypeArgument>>
    @@ MatchWith("feed", "T") :> <<KeyArgument(Unit(TInt)), KeyArgument(Var("Db"))>>
    @@ MatchWith("page", "T") :> <<KeyArgument(Maybe(Unit(TInt))), KeyArgument(Maybe(Pair(TInt, TInt)))>>
    @@ MatchWith("listrepo", "T") :> <<KeyArgument(Unit(TInt))>>
    @@ MatchWith("tag", "T") :> <<OpenArgument>>
MCClosed == DOMAIN MCServedBy \cup DOMAIN MCBase \cup DOMAIN MCMaybe \cup Range(MCMaybe)
MCKeys == MCClosed \cup MCRequests
MCClosing == [k \in MCKeys |-> IF k = Key("Unit", <<>>) THEN Unit(TInt) ELSE k]
MCMatch == [k \in MCClosed |-> IF k \in DOMAIN MCServedBy THEN MCServedBy[k] ELSE [kind |-> "none"]]
MCQuiet == MCClosed \ {Feed(TInt), Var("Db")}

CircularMatch == Left(TInt) :> MatchWith("left", "T") @@ Right(TInt) :> MatchWith("right", "T")
CircularArguments ==
    MatchWith("left", "T") :> <<KeyArgument(Right(TInt))>> @@ MatchWith("right", "T") :> <<KeyArgument(Left(TInt))>>
CircularMaybe == <<>>
CircularClosing == [k \in CircularAsked |-> k]

MCWrapper == {"app", "q1", "q2"}
MCParent == [w \in {"q1", "q2"} |-> "app"]
MCLevelOf == [w \in MCWrapper |-> IF w = "app" THEN 1 ELSE 3]
=============================================================================
