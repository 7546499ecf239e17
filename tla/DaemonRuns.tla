----------------------------- MODULE DaemonRuns -----------------------------
(***************************************************************************)
(* Successive runs of ivpn_daemon.  The process may end at any step, by    *)
(* itself or by a crash, and is started again.  What the system keeps of   *)
(* an ended run decides what the next one finds: filters of a dynamic WFP  *)
(* session and routes of a Wintun adapter go with the process, host routes *)
(* of relays stay, and so does tor.exe, a process of its own group         *)
(* (tor_launcher.cpp:33) that only torLauncher::stop() ends.               *)
(*                                                                         *)
(* A Tor that survives holds the ports and the data directory, so the next *)
(* one cannot work: the daemon's SOCKS and control connections reach the   *)
(* old Tor, while the route monitor watches the pid of the new one         *)
(* (service.cpp:261).                                                      *)
(***************************************************************************)
EXTENDS Daemon

CONSTANT MaxRuns  (* bounds how often the process is started               *)

ASSUME MaxRunsAssumption == MaxRuns \in Nat \ {0}

VARIABLES
  run,          (* runs started so far                                     *)
  oldTor,       (* a Tor of an earlier run is alive                        *)
  oldConns,     (* remote ends of its connections                          *)
  stale         (* host routes found in the table when this run began      *)

runVars == <<run, oldTor, oldConns, stale>>
allVars == <<vars, runVars>>

RunsInit ==
  /\ Init
  /\ run = 1
  /\ oldTor = FALSE
  /\ oldConns = {}
  /\ stale = {}

(* One step of the present run.  Beside an old Tor the new one never gets  *)
(* as far as a connection to a relay.                                      *)
Step ==
  /\ Next
  /\ oldTor => torConns' \subseteq torConns
  /\ UNCHANGED runVars

(* External: the routes that outlive the process.                          *)
Surviving(r) == {q \in r : q.gw # TunGw}

(* The process has ended, wherever it was, and is started again: Init, but *)
(* for what survives.                                                      *)
Restart ==
  /\ run < MaxRuns
  /\ run' = run + 1
  /\ oldTor' = (oldTor \/ torAlive)
  /\ oldConns' = IF oldTor THEN oldConns ELSE torConns
  /\ routes' = Surviving(routes)
  /\ stale' = routes'
  /\ wfp' = CloseSession(wfp)
  /\ pc' = [worker |-> "starting", ipc |-> "off"]
  /\ procLoops' = 0
  /\ recvThread' = "none"
  /\ stopEvent' = FALSE
  /\ running' = FALSE
  /\ wakeup' = FALSE
  /\ connected' = FALSE
  /\ torAlive' = FALSE
  /\ procRunning' = FALSE
  /\ engine' = FALSE
  /\ active' = FALSE
  /\ monitoring' = FALSE
  /\ filter_id' = NoFilter
  /\ filter_id_v6' = NoFilter
  /\ monitor' = "none"
  /\ gateway' = NoGw
  /\ tun_gateway' = NoGw
  /\ torConns' = {}
  /\ snapshot' = {}
  /\ bypassed' = {}
  /\ UNCHANGED physical

(* External: the old Tor opens and loses connections, or ends.             *)
OldTorSteps ==
  /\ oldTor
  /\ \/ /\ oldTor' = TRUE
        /\ \E g \in Guards : Reachable(g, oldConns) /\ oldConns' = oldConns \cup {g}
     \/ oldTor' = TRUE /\ \E g \in Guards : oldConns' = oldConns \ {g}
     \/ oldTor' = FALSE /\ oldConns' = {}
  /\ UNCHANGED <<vars, run, stale>>

RunsNext == Step \/ Restart \/ OldTorSteps
RunsSpec == RunsInit /\ [][RunsNext]_allVars
-----------------------------------------------------------------------------
(* A run answers for the host routes it added and for no others, also when *)
(* the table already has an earlier run's route for the same relay: each   *)
(* route was there before or is remembered, and each relay remembered has  *)
(* a route (route_manager.cpp:70-80).                                      *)
RoutesRemembered ==
  /\ \A r \in routes : r.dst \in Guards => r \in stale \/ r.dst \in bypassed
  /\ \A g \in bypassed : HasBypass(g)

(* Once stop_monitoring() has returned, no relay is left with a host route *)
(* of this run, and none appears later, not even for a row of the table    *)
(* the thread had copied before it was told to stop                        *)
(* (route_manager.cpp:56-68,82-105).                                       *)
NoBypassOnceStopped ==
  ~monitoring /\ (\A t \in DOMAIN pc : pc[t] # "joinMonitor") =>
    \A r \in routes : r.dst \in Guards => r \in stale

(* What a run added to the table it can take away again, and does, beside  *)
(* whatever an earlier run has left there (route_manager.cpp:56-105).      *)
BypassAccounted == RoutesRemembered /\ NoBypassOnceStopped

(* A run that was told to stop leaves nothing it brought: its own Tor, its *)
(* filters, its routes and its threads but the detached one are gone, and  *)
(* the routes that are left were left by a run that crashed                *)
(* (service.cpp:310-317 and the destructors of its locals).                *)
OnlyStaleLeft ==
  pc.worker = "returned" => /\ routes \subseteq stale
                            /\ wfp = {}
                            /\ ~torAlive
                            /\ monitor = "none"
                            /\ recvThread = "none"
=============================================================================
