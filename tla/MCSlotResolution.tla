-------------------------- MODULE MCSlotResolution --------------------------
(* Small graphs for SlotResolution: an application scope and two requests, *)
(* resolved by OS threads or by the tasks of one event loop.               *)
EXTENDS SlotResolution, TLC

\* enter_scope() went from level 1 to level 3: level 2 was skipped.
MCScope == {"app", "q1", "q2"}
MCLevelOf == [r \in MCScope |-> IF r = "app" THEN 1 ELSE 3]
MCScopeRef ==
    [r \in MCScope |->
        IF r = "app" THEN 1 :> "app"
        ELSE 1 :> "app" @@ 2 :> "none" @@ 3 :> r]

\* A chain shared by everybody, and one unit of work per request.
ChainSlot == {"config", "repo", "work"}
ChainArgs == "config" :> <<>> @@ "repo" :> <<"config">> @@ "work" :> <<"config", "repo">>
ChainLevel == "config" :> 1 @@ "repo" :> 1 @@ "work" :> 3
ChainMode == [s \in ChainSlot |-> "auto"]

(* Slots registered at other levels than the ones they need: a singleton   *)
(* and a transient that ask for the request's work, and a transient that   *)
(* asks for a slot of the level that was skipped.  Work is built by an     *)
(* asynchronous provider, from a config that is not.                       *)
LevelSlot == {"config", "work", "captive", "helper", "page", "session"}
LevelArgs == "config" :> <<>> @@ "work" :> <<"config">> @@ "captive" :> <<"work">>
             @@ "helper" :> <<"work">> @@ "session" :> <<>> @@ "page" :> <<"helper", "session">>
LevelLevel == "config" :> 1 @@ "work" :> 3 @@ "captive" :> 1 @@ "helper" :> 1
              @@ "session" :> 2 @@ "page" :> 3
LevelMode == [s \in LevelSlot |-> "auto"]

OwnThread == [t \in Task |-> t]
SharedLoop == [t \in Task |-> "loop"]
=============================================================================
