----------------------------- MODULE MCServices -----------------------------
(* Three services that act beside the connections, each on its own:        *)
(* management of servers with one player, the configured lobby, a server   *)
(* registered at run time and two handlers at a time; hot reload of two    *)
(* plugins, one with another name in its manifest; the throttle with two   *)
(* addresses and room for one.                                             *)
EXTENDS Management, Plugins, Throttle

MCConfigured == <<"lobby">>
MCManifestName == [f \in Files |-> IF f = "maps" THEN "Maps" ELSE f]
MCSubscriptions == [f \in Files |-> IF f = "maps" THEN {"chat"} ELSE {"move"}]

VARIABLE service

serviceVars == <<service, mgmtVars, pluginVars, throttleVars>>

ServicesInit ==
  /\ service \in {"servers", "plugins", "throttle"}
  /\ MgmtInit /\ PluginInit /\ ThrottleInit
  /\ watching = (service = "plugins")
  /\ service # "throttle" => limited

ServicesNext ==
  /\ UNCHANGED service
  /\ \/ service = "servers" /\ MgmtNext /\ UNCHANGED <<pluginVars, throttleVars>>
     \/ service = "plugins" /\ PluginNext /\ UNCHANGED <<mgmtVars, throttleVars>>
     \/ service = "throttle" /\ ThrottleNext /\ UNCHANGED <<mgmtVars, pluginVars>>

ServicesSpec ==
  ServicesInit /\ [][ServicesNext]_serviceVars /\ MgmtFairness /\ PluginFairness
=============================================================================
