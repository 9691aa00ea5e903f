---------------------------- MODULE MCScopeTree ----------------------------
(* Slots for ScopeTree: one service per level, a page that uses the        *)
(* session's, a captive singleton and a transient that need a request.     *)
EXTENDS ScopeTree, TLC

MCSlot == {"config", "session", "work", "page", "helper", "captive"}
MCArgs == "config" :> <<>> @@ "session" :> <<"config">> @@ "work" :> <<"config">>
          @@ "page" :> <<"session", "helper">> @@ "helper" :> <<"work", "session">>
          @@ "captive" :> <<"work">>
MCSlotLevel == "config" :> 1 @@ "session" :> 2 @@ "work" :> 3
               @@ "page" :> 3 @@ "helper" :> 1 @@ "captive" :> 1
=============================================================================
