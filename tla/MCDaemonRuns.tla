---------------------------- MODULE MCDaemonRuns ----------------------------
(* Two relays and two gateways the machine may roam between, enough filter *)
(* ids for one tunnel, and a second run, which finds what the first left.  *)
(* Ids, relays and gateways are interchangeable.                           *)
EXTENDS DaemonRuns, TLC

MCNoKsFaults == {}
MCAddFaults == {"routeAdd", "noGateway", "roam"}

MCSymmetry ==
  Permutations(FilterIds) \cup Permutations(Guards) \cup Permutations(PhysGateways)
=============================================================================
