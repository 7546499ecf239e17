------------------------------ MODULE MCDaemon ------------------------------
(* The daemon on small instances: one or two relays, two gateways the      *)
(* machine may roam between, and enough filter ids for one tunnel (three)  *)
(* or for a tunnel on top of filters a failed disable left behind.         *)
EXTENDS Daemon, TLC

MCNoKsFaults == {}
MCAllKsFaults == KsFaultKinds
MCSilentKsFaults == {"filterExists", "filterError"}

MCRoam == {"roam"}
MCNoGatewayOrRoam == {"noGateway", "roam"}
MCAllRouteFaults == RouteFaultKinds

MCIdSymmetry == Permutations(FilterIds)
=============================================================================
