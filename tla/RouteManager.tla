---------------------------- MODULE RouteManager ----------------------------
(***************************************************************************)
(* routeManager, src/core/route_manager.cpp: the two routes that cover the *)
(* whole IPv4 space and lead into the Wintun adapter, and the monitor      *)
(* thread that gives every relay Tor talks to a host route around them,    *)
(* through the gateway that was the default one when monitoring started.   *)
(*                                                                         *)
(* routes is the part of the system's routing table that this class edits; *)
(* physical is the gateway of the machine's own default route.  A method   *)
(* is called by one thread at a time and is split where it blocks or where *)
(* it runs a command while the monitor thread runs; Daemon sequences the   *)
(* parts.  The monitor thread is an automaton of its own.                  *)
(***************************************************************************)
EXTENDS FiniteSets

CONSTANTS
  Guards,       (* remote addresses of Tor's connections; the loopback and *)
                (* null addresses, which monitorLoop skips, are not in it  *)
  PhysGateways, (* gateways the machine may have                           *)
  TunGw,        (* 10.0.0.1, the gateway of the TUN routes                 *)
  NoGw,         (* no gateway: the empty string, or 0                      *)
  RouteFaults   (* what may fail or change outside the program             *)

LowHalf == "0.0.0.0/1"     (* holds 8.8.8.8, the probe of getDefaultGateway *)
HighHalf == "128.0.0.0/1"
Halves == {LowHalf, HighHalf}
RouteFaultKinds == {"routeAdd", "routeDelete", "noGateway", "roam"}

ASSUME RmAssumption == /\ TunGw \notin PhysGateways
                       /\ NoGw \notin PhysGateways \cup {TunGw}
                       /\ Guards \cap Halves = {}
                       /\ RouteFaults \subseteq RouteFaultKinds

VARIABLES
  monitoring,   (* monitoring_                                             *)
  monitor,      (* monitor_thread_: "none", "running" or "exited" unjoined *)
  snapshot,     (* rows of GetExtendedTcpTable the loop has yet to handle  *)
  gateway,      (* gateway_ip_                                             *)
  bypassed,     (* bypassed_ips_                                           *)
  tun_gateway,  (* tun_gateway_                                            *)
  routes,       (* the system's routing table, as far as edited here       *)
  physical,     (* the machine's default gateway                           *)
  torConns      (* remote ends of Tor's established connections            *)

rmVars == <<monitoring, monitor, snapshot, gateway, bypassed, tun_gateway,
            routes, physical, torConns>>

Gateways == PhysGateways \cup {TunGw, NoGw}
RouteEntries == [dst : Guards \cup Halves, gw : Gateways]

(* A machine that is offline has no default route.                         *)
Uplinks == PhysGateways \cup (IF "noGateway" \in RouteFaults THEN {NoGw} ELSE {})

RmTypeOK ==
  /\ monitoring \in BOOLEAN
  /\ monitor \in {"none", "running", "exited"}
  /\ snapshot \in SUBSET Guards
  /\ gateway \in Gateways
  /\ bypassed \in SUBSET Guards
  /\ tun_gateway \in {TunGw, NoGw}
  /\ routes \in SUBSET RouteEntries
  /\ physical \in PhysGateways \cup {NoGw}
  /\ torConns \in SUBSET Guards

RmInit ==
  /\ monitoring = FALSE
  /\ monitor = "none"
  /\ snapshot = {}
  /\ gateway = NoGw
  /\ bypassed = {}
  /\ tun_gateway = NoGw
  /\ routes = {}
  /\ physical \in Uplinks
  /\ torConns = {}

-----------------------------------------------------------------------------
(* The commands run through system().                                      *)

To(dst, gw) == [dst |-> dst, gw |-> gw]
HasRoute(dst) == \E r \in routes : r.dst = dst
HasBypass(g) == \E r \in routes : r.dst = g

(* "route add": refuses an entry the table already has.                    *)
CanAdd(r) == r \notin routes
CanFailToAdd(r) == r \in routes \/ "routeAdd" \in RouteFaults

(* getDefaultGateway(): the next hop towards 8.8.8.8, where the more       *)
(* specific lower half wins over the default route.                        *)
NextHops ==
  IF HasRoute(LowHalf)
    THEN {r.gw : r \in {q \in routes : q.dst = LowHalf}}
    ELSE {physical}

-----------------------------------------------------------------------------
(* Methods, called by the IPC thread or the worker.                        *)

StartMonitoring ==
  /\ UNCHANGED <<snapshot, bypassed, tun_gateway, routes, physical, torConns>>
  /\ \/ /\ monitoring
        /\ UNCHANGED <<monitoring, monitor, gateway>>
     \/ /\ ~monitoring
        /\ gateway' \in NextHops
        /\ IF gateway' = NoGw
             THEN UNCHANGED <<monitoring, monitor>>
             ELSE monitoring' = TRUE /\ monitor' = "running"

(* Mutant: the flag the thread polls is not cleared before the join.       *)
StopMonitoringKeepsFlag == UNCHANGED rmVars

(* stop_monitoring() up to the join; the caller returns early, without the *)
(* rest of the method, when nothing is monitored.                          *)
StopMonitoring ==
  /\ monitoring' = FALSE
  /\ UNCHANGED <<monitor, snapshot, gateway, bypassed, tun_gateway, routes,
                 physical, torConns>>

(* Mutant: the thread is told to stop but not waited for.                  *)
JoinMonitorNoWait ==
  /\ bypassed' = {}
  /\ routes' = {r \in routes : r.dst \notin bypassed}
  /\ UNCHANGED <<monitoring, monitor, snapshot, gateway, tun_gateway, physical, torConns>>

(* The join, and the deletes that follow it: the addresses are forgotten   *)
(* whether or not their routes could be deleted.                           *)
JoinMonitor ==
  /\ monitor = "exited"
  /\ monitor' = "none"
  /\ bypassed' = {}
  /\ \E kept \in IF "routeDelete" \in RouteFaults THEN SUBSET bypassed ELSE {{}} :
       routes' = {r \in routes : r.dst \notin bypassed \ kept}
  /\ UNCHANGED <<monitoring, snapshot, gateway, tun_gateway, physical, torConns>>

(* One add_route() of add_default_routes(); its result is dropped.         *)
AddHalf(half) ==
  /\ tun_gateway' = TunGw
  /\ \/ CanAdd(To(half, TunGw)) /\ routes' = routes \cup {To(half, TunGw)}
     \/ CanFailToAdd(To(half, TunGw)) /\ UNCHANGED routes
  /\ UNCHANGED <<monitoring, monitor, snapshot, gateway, bypassed, physical, torConns>>

(* One remove_route() of remove_default_route(); so is this one's.  The    *)
(* gateway is forgotten after the second.                                  *)
RemoveHalf(half) ==
  /\ tun_gateway' = IF half = HighHalf THEN NoGw ELSE tun_gateway
  /\ \/ routes' = routes \ {To(half, tun_gateway)}
     \/ "routeDelete" \in RouteFaults /\ UNCHANGED routes
  /\ UNCHANGED <<monitoring, monitor, snapshot, gateway, bypassed, physical, torConns>>

-----------------------------------------------------------------------------
(* monitorLoop(), one turn: the flag is read, the TCP table is copied, and *)
(* only then are its rows handled, one command at a time; the flag is not  *)
(* read again before the copy is used up.                                  *)
MonitorScan ==
  /\ monitor = "running"
  /\ snapshot = {}
  /\ monitoring
  /\ snapshot' = torConns
  /\ UNCHANGED <<monitoring, monitor, gateway, bypassed, tun_gateway, routes,
                 physical, torConns>>

(* Mutant: a row that needs no route ends the turn.                        *)
MonitorAddStopsAtKnown ==
  \E g \in snapshot :
    /\ monitor = "running"
    /\ snapshot' = IF g \in bypassed THEN {} ELSE snapshot \ {g}
    /\ \/ /\ g \notin bypassed
          /\ CanAdd(To(g, gateway))
          /\ routes' = routes \cup {To(g, gateway)}
          /\ bypassed' = bypassed \cup {g}
       \/ /\ g \in bypassed \/ CanFailToAdd(To(g, gateway))
          /\ UNCHANGED <<routes, bypassed>>
    /\ UNCHANGED <<monitoring, monitor, gateway, tun_gateway, physical, torConns>>

(* addBypassRoute() on the next row.                                       *)
MonitorAdd ==
  \E g \in snapshot :
    /\ monitor = "running"
    /\ snapshot' = snapshot \ {g}
    /\ \/ /\ g \notin bypassed
          /\ CanAdd(To(g, gateway))
          /\ routes' = routes \cup {To(g, gateway)}
          /\ bypassed' = bypassed \cup {g}
       \/ /\ g \in bypassed \/ CanFailToAdd(To(g, gateway))
          /\ UNCHANGED <<routes, bypassed>>
    /\ UNCHANGED <<monitoring, monitor, gateway, tun_gateway, physical, torConns>>

MonitorExit ==
  /\ monitor = "running"
  /\ snapshot = {}
  /\ ~monitoring
  /\ monitor' = "exited"
  /\ UNCHANGED <<monitoring, snapshot, gateway, bypassed, tun_gateway, routes,
                 physical, torConns>>

MonitorLoop == MonitorScan \/ MonitorAdd \/ MonitorExit

(* External: Tor opens and loses connections, the machine changes network. *)

(* Where a host route leads out of the machine, or a half of the address   *)
(* space still does, a relay is reached directly; otherwise through the    *)
(* adapter, that is through Tor, by what connections (conns) it has.       *)
Reachable(g, conns) ==
  HasBypass(g) \/ conns # {} \/ \E half \in Halves : ~HasRoute(half)

TorConnects ==
  /\ \E g \in Guards \ torConns :
       Reachable(g, torConns) /\ torConns' = torConns \cup {g}
  /\ UNCHANGED <<monitoring, monitor, snapshot, gateway, bypassed, tun_gateway,
                 routes, physical>>

TorDrops ==
  /\ \E g \in torConns : torConns' = torConns \ {g}
  /\ UNCHANGED <<monitoring, monitor, snapshot, gateway, bypassed, tun_gateway,
                 routes, physical>>

Roam ==
  /\ "roam" \in RouteFaults
  /\ physical' \in Uplinks \ {physical}
  /\ UNCHANGED <<monitoring, monitor, snapshot, gateway, bypassed, tun_gateway,
                 routes, torConns>>
=============================================================================
