------------------------------- MODULE Daemon -------------------------------
(***************************************************************************)
(* ivpn_daemon, src/core/service.cpp: one run of ServiceWorkerThread.      *)
(*                                                                         *)
(* Two threads drive the kill switch, the routes and the packet processor: *)
(* the worker, which starts everything, waits for gServiceStopEvent and    *)
(* tears everything down, and the thread of ipcServer, which runs the      *)
(* client's commands (ipc_server.cpp).  Neither takes a lock: what keeps   *)
(* them apart is that the worker joins the other thread first.  They run   *)
(* against the route monitor, the two loops of packetProcessor, Tor and    *)
(* the clients.                                                            *)
(*                                                                         *)
(* pc gives each thread the call it is about to make; After gives the one  *)
(* that follows it.                                                        *)
(***************************************************************************)
EXTENDS KillSwitch, RouteManager, Naturals

CONSTANT MaxLoops  (* bounds process_loop threads alive at once             *)

ASSUME MaxLoopsAssumption == MaxLoops \in Nat \ {0}

VARIABLES
  pc,           (* what the worker and the ipc thread do next              *)
  stopEvent,    (* gServiceStopEvent                                       *)
  running,      (* ipcServer::running_                                     *)
  wakeup,       (* the connection ipcServer::stop() makes to its own pipe  *)
  connected,    (* the atomic the command handlers share                   *)
  torAlive,     (* the tor.exe process                                     *)
  procRunning,  (* packetProcessor::running_                               *)
  procLoops,    (* detached process_loop threads still alive               *)
  recvThread    (* recvThread_: "none", "running" or "exited" unjoined     *)

ctlVars == <<stopEvent, running, wakeup, connected>>
procVars == <<procRunning, procLoops, recvThread>>
vars == <<pc, ctlVars, torAlive, procVars, ksVars, rmVars>>

(* on_connect, on_disconnect and the teardown, as the calls they make.     *)
ConnectCalls == {"ksEnable", "ksPermit", "procStart", "startMonitor", "addLow",
                 "addHigh", "setConnected"}
CloseCalls == {"removeLow", "removeHigh", "procStop", "procJoin", "ksDisable"}
DisconnectCalls == {"stopMonitor", "joinMonitor", "clearConnected"} \cup CloseCalls
DestructorCalls == {"stopMonitor", "joinMonitor", "destroyKs", "closeAdapter"}

(* Where the ipc thread waits for somebody else: for a client to connect,  *)
(* to write, to read the answer, or for Tor's control port to answer.      *)
ClientWaits == {"listen", "read", "reply", "torQuery"}

Labels == [worker : {"starting", "launched", "waiting", "ipcWake", "joinIpc",
                     "stopTor", "returned", "failed"}
                      \cup CloseCalls \cup DestructorCalls,
           ipc : {"off", "loopTop", "createPipe", "exited"}
                   \cup ClientWaits \cup ConnectCalls \cup DisconnectCalls]

TypeOK ==
  /\ KsTypeOK
  /\ RmTypeOK
  /\ pc \in Labels
  /\ <<stopEvent, running, wakeup, connected, torAlive, procRunning>>
       \in BOOLEAN \X BOOLEAN \X BOOLEAN \X BOOLEAN \X BOOLEAN \X BOOLEAN
  /\ procLoops \in 0..MaxLoops
  /\ recvThread \in {"none", "running", "exited"}

Init ==
  /\ KsInit
  /\ RmInit
  /\ pc = [worker |-> "starting", ipc |-> "off"]
  /\ stopEvent = FALSE
  /\ running = FALSE
  /\ wakeup = FALSE
  /\ connected = FALSE
  /\ torAlive = FALSE
  /\ procRunning = FALSE
  /\ procLoops = 0
  /\ recvThread = "none"

-----------------------------------------------------------------------------
(* Control flow.                                                           *)

(* Mutant: the routes are switched before the monitor has looked up the    *)
(* gateway, service.cpp:261-262 swapped.                                   *)
AfterConnectRoutesFirst ==
  [ksEnable |-> "ksPermit", ksPermit |-> "procStart", procStart |-> "addLow",
   addLow |-> "addHigh", addHigh |-> "startMonitor",
   startMonitor |-> "setConnected", setConnected |-> "reply"]

(* on_connect: what follows each call.                                     *)
AfterConnect ==
  [ksEnable |-> "ksPermit", ksPermit |-> "procStart",
   procStart |-> "startMonitor", startMonitor |-> "addLow",
   addLow |-> "addHigh", addHigh |-> "setConnected", setConnected |-> "reply"]

(* Mutant: the kill switch is lifted before the routes are withdrawn.      *)
AfterDisconnectUnsealFirst ==
  [joinMonitor |-> "clearConnected", clearConnected |-> "ksDisable",
   ksDisable |-> "removeLow", removeLow |-> "removeHigh",
   removeHigh |-> "procStop", procStop |-> "procJoin", procJoin |-> "reply"]

(* on_disconnect.                                                          *)
AfterDisconnect ==
  [joinMonitor |-> "clearConnected", clearConnected |-> "removeLow",
   removeLow |-> "removeHigh", removeHigh |-> "procStop",
   procStop |-> "procJoin", procJoin |-> "ksDisable", ksDisable |-> "reply"]

(* The worker's way out, destructors included.                             *)
AfterTeardown ==
  [removeLow |-> "removeHigh", removeHigh |-> "procStop",
   procStop |-> "procJoin", procJoin |-> "ksDisable", ksDisable |-> "stopTor",
   stopTor |-> "stopMonitor", joinMonitor |-> "destroyKs",
   destroyKs |-> "closeAdapter", closeAdapter |-> "returned"]

After(t, call) == IF t = "worker" THEN AfterTeardown[call]
                  ELSE IF call \in ConnectCalls THEN AfterConnect[call]
                  ELSE AfterDisconnect[call]

Go(t, from, to) == pc[t] = from /\ pc' = [pc EXCEPT ![t] = to]
Call(t, call) == Go(t, call, After(t, call))

-----------------------------------------------------------------------------
(* Calls both threads make.                                                *)

StopMonitor(t) ==
  /\ IF monitoring
       THEN Go(t, "stopMonitor", "joinMonitor") /\ StopMonitoring
       ELSE Go(t, "stopMonitor", After(t, "joinMonitor")) /\ UNCHANGED rmVars
  /\ UNCHANGED <<ctlVars, torAlive, procVars, ksVars>>

JoinMonitorThread(t) ==
  /\ Call(t, "joinMonitor")
  /\ JoinMonitor
  /\ UNCHANGED <<ctlVars, torAlive, procVars, ksVars>>

RemoveTunRoutes(t) ==
  /\ \/ Call(t, "removeLow") /\ RemoveHalf(LowHalf)
     \/ Call(t, "removeHigh") /\ RemoveHalf(HighHalf)
  /\ UNCHANGED <<ctlVars, torAlive, procVars, ksVars>>

ProcStop(t) ==
  /\ Call(t, "procStop")
  /\ procRunning' = FALSE
  /\ UNCHANGED <<ctlVars, torAlive, procLoops, recvThread, ksVars, rmVars>>

(* stop() joins recvThread_ only; process_loop was detached.               *)
ProcJoin(t) ==
  /\ Call(t, "procJoin")
  /\ recvThread \in {"none", "exited"}
  /\ recvThread' = "none"
  /\ UNCHANGED <<ctlVars, torAlive, procRunning, procLoops, ksVars, rmVars>>

KsDisable(t) ==
  /\ Call(t, "ksDisable")
  /\ Disable
  /\ UNCHANGED <<ctlVars, torAlive, procVars, rmVars>>

TearDown(t) == \/ StopMonitor(t)
               \/ JoinMonitorThread(t)
               \/ RemoveTunRoutes(t)
               \/ ProcStop(t)
               \/ ProcJoin(t)
               \/ KsDisable(t)

-----------------------------------------------------------------------------
(* The ipc thread: listen_loop() and the handlers it calls.                *)

IpcLoopTop ==
  /\ Go("ipc", "loopTop", IF running THEN "createPipe" ELSE "exited")
  /\ UNCHANGED <<ctlVars, torAlive, procVars, ksVars, rmVars>>

(* A pipe that cannot be created is tried again a second later.            *)
IpcCreatePipe ==
  /\ \/ Go("ipc", "createPipe", "listen")
     \/ Go("ipc", "createPipe", "loopTop")
  /\ UNCHANGED <<ctlVars, torAlive, procVars, ksVars, rmVars>>

(* The connection made by stop() is closed at once, nothing can be read.   *)
IpcWoken ==
  /\ wakeup
  /\ Go("ipc", "listen", "loopTop")
  /\ wakeup' = FALSE
  /\ UNCHANGED <<stopEvent, running, connected, torAlive, procVars, ksVars, rmVars>>

IpcAccept ==
  /\ ~wakeup
  /\ Go("ipc", "listen", "read")
  /\ UNCHANGED <<ctlVars, torAlive, procVars, ksVars, rmVars>>

(* Mutant: on_connect without its test of connected.                       *)
IpcConnectAgain ==
  /\ Go("ipc", "read", "ksEnable")
  /\ procLoops < MaxLoops
  /\ UNCHANGED <<ctlVars, torAlive, procVars, ksVars, rmVars>>

(* "connect"; on a connected daemon the handler does nothing.  The bound   *)
(* on procLoops limits how fast clients toggle the tunnel.                 *)
IpcConnect ==
  /\ Go("ipc", "read", IF connected THEN "reply" ELSE "ksEnable")
  /\ connected \/ procLoops < MaxLoops
  /\ UNCHANGED <<ctlVars, torAlive, procVars, ksVars, rmVars>>

(* "disconnect"; on a daemon that is not connected it does nothing.        *)
IpcDisconnect ==
  /\ Go("ipc", "read", IF connected THEN "stopMonitor" ELSE "reply")
  /\ UNCHANGED <<ctlVars, torAlive, procVars, ksVars, rmVars>>

(* "get_cities" and "change_city" talk to Tor's control port, and leave    *)
(* the tunnel alone (change_city of an unknown country does nothing).      *)
IpcTorQuery ==
  /\ \/ Go("ipc", "read", "torQuery")
     \/ Go("ipc", "torQuery", "reply")
  /\ UNCHANGED <<ctlVars, torAlive, procVars, ksVars, rmVars>>

(* A failed read, a message that does not parse, an unknown command, and   *)
(* the end of every command: the client has read the answer or is gone.    *)
IpcReply ==
  /\ \/ Go("ipc", "read", "reply")
     \/ Go("ipc", "reply", "loopTop")
  /\ UNCHANGED <<ctlVars, torAlive, procVars, ksVars, rmVars>>

KsEnable ==
  /\ \/ Call("ipc", "ksEnable") /\ Enable
     \/ Call("ipc", "ksPermit") /\ AddTorPermitRule
  /\ UNCHANGED <<ctlVars, torAlive, procVars, rmVars>>

ProcStart ==
  /\ Call("ipc", "procStart")
  /\ procRunning' = TRUE
  /\ procLoops' = procLoops + 1
  /\ recvThread' = "running"
  /\ UNCHANGED <<ctlVars, torAlive, ksVars, rmVars>>

StartMonitor ==
  /\ Call("ipc", "startMonitor")
  /\ StartMonitoring
  /\ UNCHANGED <<ctlVars, torAlive, procVars, ksVars>>

AddTunRoutes ==
  /\ \/ Call("ipc", "addLow") /\ AddHalf(LowHalf)
     \/ Call("ipc", "addHigh") /\ AddHalf(HighHalf)
  /\ UNCHANGED <<ctlVars, torAlive, procVars, ksVars>>

(* Mutant: on_disconnect never clears the flag.                            *)
SetConnectedForGood ==
  /\ \/ Call("ipc", "setConnected") /\ connected' = TRUE
     \/ Call("ipc", "clearConnected") /\ UNCHANGED connected
  /\ UNCHANGED <<stopEvent, running, wakeup, torAlive, procVars, ksVars, rmVars>>

SetConnected ==
  /\ \/ Call("ipc", "setConnected") /\ connected' = TRUE
     \/ Call("ipc", "clearConnected") /\ connected' = FALSE
  /\ UNCHANGED <<stopEvent, running, wakeup, torAlive, procVars, ksVars, rmVars>>

(* The steps of the thread that wait for nobody outside the daemon.        *)
IpcOwnStep == \/ IpcLoopTop \/ IpcCreatePipe \/ IpcWoken
              \/ KsEnable \/ ProcStart \/ StartMonitor \/ AddTunRoutes
              \/ SetConnected \/ TearDown("ipc")

IpcClientStep == \/ IpcAccept \/ IpcConnect \/ IpcDisconnect
                 \/ IpcTorQuery \/ IpcReply

-----------------------------------------------------------------------------
(* The worker.                                                             *)

(* A configuration that cannot be read and a Tor that cannot be launched   *)
(* end the daemon.                                                         *)
LaunchTor ==
  /\ \/ Go("worker", "starting", "failed") /\ UNCHANGED torAlive
     \/ Go("worker", "starting", "launched") /\ torAlive' = TRUE
  /\ UNCHANGED <<ctlVars, procVars, ksVars, rmVars>>

(* wintun.load() and start_session() fail without stopping Tor,            *)
(* create_adapter() stops it; otherwise the ipc thread is started.  The    *)
(* results of connect, authenticate and the bootstrap wait are ignored.    *)
SetUpTunnel ==
  /\ \/ /\ Go("worker", "launched", "failed")
        /\ torAlive' \in {torAlive, FALSE}
        /\ torConns' = IF torAlive' THEN torConns ELSE {}
        /\ UNCHANGED running
     \/ /\ pc.worker = "launched"
        /\ pc' = [worker |-> "waiting", ipc |-> "loopTop"]
        /\ running' = TRUE
        /\ UNCHANGED <<torAlive, torConns>>
  /\ UNCHANGED <<stopEvent, wakeup, connected, procVars, ksVars, monitoring,
                 monitor, snapshot, gateway, bypassed, tun_gateway, routes, physical>>

(* Mutant: WaitForSingleObject comes back although nobody set the event.   *)
IpcStopUnasked ==
  /\ Go("worker", "waiting", "ipcWake")
  /\ running' = FALSE
  /\ UNCHANGED <<stopEvent, wakeup, connected, torAlive, procVars, ksVars, rmVars>>

(* ipcServer::stop(): the flag, then a connection to wake the thread if it *)
(* listens, then the join.  A pipe that is not there yet, or is busy with  *)
(* a client, is not connected to.                                          *)
IpcStop ==
  /\ stopEvent
  /\ Go("worker", "waiting", "ipcWake")
  /\ running' = FALSE
  /\ UNCHANGED <<stopEvent, wakeup, connected, torAlive, procVars, ksVars, rmVars>>

IpcWake ==
  /\ Go("worker", "ipcWake", "joinIpc")
  /\ wakeup' = (pc.ipc = "listen")
  /\ UNCHANGED <<stopEvent, running, connected, torAlive, procVars, ksVars, rmVars>>

(* Mutant: stop() returns while a handler may still run.                   *)
JoinIpcSkipped ==
  /\ Go("worker", "joinIpc", IF connected THEN "removeLow" ELSE "stopTor")
  /\ UNCHANGED <<ctlVars, torAlive, procVars, ksVars, rmVars>>

(* Mutant: the teardown forgets the tunnel that is still up.               *)
JoinIpcNoDisconnect ==
  /\ pc.ipc = "exited"
  /\ Go("worker", "joinIpc", "stopTor")
  /\ UNCHANGED <<ctlVars, torAlive, procVars, ksVars, rmVars>>

JoinIpc ==
  /\ pc.ipc = "exited"
  /\ Go("worker", "joinIpc", IF connected THEN "removeLow" ELSE "stopTor")
  /\ UNCHANGED <<ctlVars, torAlive, procVars, ksVars, rmVars>>

(* launcher.stop(), then the destructors in the reverse order of the       *)
(* declarations: ~routeManager, ~killSwitch, ~WintunAdapter.               *)
StopTor ==
  /\ Call("worker", "stopTor")
  /\ torAlive' = FALSE
  /\ torConns' = {}
  /\ UNCHANGED <<ctlVars, procVars, ksVars, monitoring, monitor, snapshot,
                 gateway, bypassed, tun_gateway, routes, physical>>

DestroyKs ==
  /\ Call("worker", "destroyKs")
  /\ Disable
  /\ UNCHANGED <<ctlVars, torAlive, procVars, rmVars>>

(* The routes of the adapter go with it.                                   *)
CloseAdapter ==
  /\ Call("worker", "closeAdapter")
  /\ routes' = {r \in routes : r.gw # TunGw}
  /\ UNCHANGED <<ctlVars, torAlive, procVars, ksVars, monitoring, monitor,
                 snapshot, gateway, bypassed, tun_gateway, physical, torConns>>

WorkerStop == \/ IpcStop \/ IpcWake \/ JoinIpc \/ StopTor
              \/ TearDown("worker") \/ DestroyKs \/ CloseAdapter

-----------------------------------------------------------------------------
(* The other threads, and what happens around the daemon.                  *)

Monitor == MonitorLoop /\ UNCHANGED <<pc, ctlVars, torAlive, procVars, ksVars>>

(* response_loop() and process_loop() leave once they read running_ unset. *)
RecvExit ==
  /\ recvThread = "running"
  /\ ~procRunning
  /\ recvThread' = "exited"
  /\ UNCHANGED <<pc, ctlVars, torAlive, procRunning, procLoops, ksVars, rmVars>>

(* Mutant: a loop that counts itself out while it is still wanted.         *)
LoopExitAnyTime ==
  /\ procLoops' = procLoops - 1
  /\ UNCHANGED <<pc, ctlVars, torAlive, procRunning, recvThread, ksVars, rmVars>>

LoopExit ==
  /\ procLoops > 0
  /\ ~procRunning
  /\ procLoops' = procLoops - 1
  /\ UNCHANGED <<pc, ctlVars, torAlive, procRunning, recvThread, ksVars, rmVars>>

(* ServiceCtrlHandler or ConsoleCtrlHandler.                               *)
RequestStop ==
  /\ ~stopEvent
  /\ stopEvent' = TRUE
  /\ UNCHANGED <<pc, running, wakeup, connected, torAlive, procVars, ksVars, rmVars>>

(* External: tor.exe dies; nothing in the daemon looks at it again.        *)
TorDies ==
  /\ torAlive
  /\ torAlive' = FALSE
  /\ torConns' = {}
  /\ UNCHANGED <<pc, ctlVars, procVars, ksVars, monitoring, monitor, snapshot,
                 gateway, bypassed, tun_gateway, routes, physical>>

(* External: Tor's connections and the machine's network change.           *)
Network ==
  /\ \/ torAlive /\ TorConnects
     \/ TorDrops
     \/ Roam
  /\ UNCHANGED <<pc, ctlVars, torAlive, procVars, ksVars>>

Next == \/ LaunchTor \/ SetUpTunnel \/ WorkerStop
        \/ IpcOwnStep \/ IpcClientStep
        \/ Monitor \/ RecvExit \/ LoopExit
        \/ RequestStop \/ TorDies \/ Network

Spec == Init /\ [][Next]_vars

(* The threads run.  Nothing makes clients, Tor or the network act, and    *)
(* nothing bounds the time start-up takes.                                 *)
Fairness == /\ WF_vars(WorkerStop)
            /\ WF_vars(IpcOwnStep)
            /\ WF_vars(Monitor)
            /\ WF_vars(RecvExit)

FairSpec == Spec /\ Fairness
-----------------------------------------------------------------------------
(* Safety.                                                                 *)

Tunnelled == \E half \in Halves : HasRoute(half)
Sealed == Blocked("blockV4") /\ Blocked("blockV6")

(* No packet is led into the adapter while the machine can also talk past  *)
(* it: the block filters of both families are installed before the first   *)
(* half is added and lifted after the last one is gone, on the handlers'   *)
(* way and on the teardown's (service.cpp:257-262,270-274,311-315).        *)
SealedWhileTunnelled == Tunnelled => Sealed

(* The worker touches the kill switch, the routes and the processor only   *)
(* when no command handler can still be running, although a client's       *)
(* command may be taken up after the stop was requested and no lock is     *)
(* held by either (service.cpp:310-315, ipc_server.cpp:18-29).             *)
HandlersExclusive ==
  pc.worker \in CloseCalls \cup DestructorCalls \cup {"stopTor", "returned"}
    => pc.ipc = "exited"

(* A std::thread is never assigned to, nor destroyed, while it is joinable *)
(* (std::terminate): not recvThread_ by start(), nor monitor_thread_ by    *)
(* start_monitoring(), nor either when its owner goes out of scope         *)
(* (packet_processor.cpp:20, route_manager.cpp:52).                        *)
NoThreadOverwritten ==
  /\ pc.ipc = "procStart" => recvThread = "none"
  /\ pc.ipc = "startMonitor" /\ ~monitoring => monitor = "none"
  /\ pc.worker = "closeAdapter" => recvThread = "none" /\ monitor = "none"

(* Between two commands the parts agree on whether the tunnel is up: the   *)
(* processor runs, with a thread that answers and one that reads, and the  *)
(* machine is sealed, exactly when connected is set                        *)
(* (service.cpp:255-264,268-274).                                          *)
IdleConsistent ==
  pc.worker = "waiting" /\ pc.ipc \in {"loopTop", "createPipe"} \cup ClientWaits
    => /\ connected = procRunning
       /\ recvThread = IF connected THEN "running" ELSE "none"
       /\ connected => procLoops > 0
       /\ connected = Sealed

(* A host route of a relay leads out of the machine, never back into the   *)
(* adapter, whatever the network changed to after the gateway was looked   *)
(* up (route_manager.cpp:46,73; service.cpp:261-262).                      *)
BypassLeadsOut == \A r \in routes : r.dst \in Guards => r.gw \in PhysGateways

-----------------------------------------------------------------------------
(* Why the machine stays sealed: what each place in the code relies on.    *)

Alive == {"waiting", "ipcWake", "joinIpc"}
ConnectedIdle == connected /\ pc.worker \in Alive

(* Where the filters are installed, and where each half may be.            *)
HeldSealed ==
  \/ ConnectedIdle
  \/ pc.ipc \in (ConnectCalls \ {"ksEnable"}) \cup DisconnectCalls
  \/ pc.worker \in CloseCalls

LowMayBe ==
  \/ ConnectedIdle
  \/ pc.ipc \in {"addHigh", "setConnected", "stopMonitor", "joinMonitor",
                 "clearConnected", "removeLow"}
  \/ pc.worker = "removeLow"

HighMayBe ==
  \/ ConnectedIdle
  \/ pc.ipc \in {"setConnected", "stopMonitor", "joinMonitor", "clearConnected",
                 "removeLow", "removeHigh"}
  \/ pc.worker \in {"removeLow", "removeHigh"}

(* Each thread keeps the other's hands off the tunnel while it works on    *)
(* it: not only is the ipc thread gone when the worker tears down, a       *)
(* handler also finds, and leaves, connected as its half of the work       *)
(* requires (service.cpp:255,263,268,271,310-311).                         *)
Handover ==
  /\ HandlersExclusive
  /\ pc.worker \in {"starting", "launched", "failed"} => pc.ipc = "off"
  /\ pc.ipc \in {"off"} \cup ConnectCalls \cup CloseCalls => ~connected

(* The places that may see a half are places that hold the filters and     *)
(* know the gateway the half was added with (service.cpp:257-274,311-315;  *)
(* route_manager.cpp:148,155-157).                                         *)
PlacesAgree ==
  /\ HeldSealed => Sealed
  /\ HasRoute(LowHalf) => LowMayBe
  /\ HasRoute(HighHalf) => HighMayBe
  /\ LowMayBe \/ HighMayBe => tun_gateway = TunGw
  /\ \A r \in routes : r.dst \in Halves => r.gw = TunGw

-----------------------------------------------------------------------------
(* Liveness.                                                               *)

Stopping == stopEvent /\ pc.worker = "waiting"

(* Nothing the daemon does itself keeps it from stopping: the teardown     *)
(* ends unless the ipc thread waits for ever for a client or for Tor's     *)
(* answer (service.cpp:308-317, ipc_server.cpp:26-28).                     *)
StopsUnlessClientWaits ==
  Stopping ~> (pc.worker = "returned" \/ [](pc.ipc \in ClientWaits))

(* Every relay Tor stays connected to gets its host route, whatever order  *)
(* connections come and go in, as long as the monitor is wanted            *)
(* (route_manager.cpp:81-105).                                             *)
GuardBypassed ==
  \A g \in Guards :
    monitoring /\ g \in torConns ~> g \in bypassed \/ g \notin torConns \/ ~monitoring

(* The traffic as Tunnel sees it; a machine in none of its modes would be  *)
(* "exposed".                                                              *)
TunnelMode ==
  IF Tunnelled THEN (IF Sealed THEN "tunnelled" ELSE "exposed")
  ELSE IF Sealed THEN "sealed"
  ELSE IF Blocked("blockV4") \/ Blocked("blockV6") THEN "exposed"
  ELSE "open"

TunnelGoal ==
  IF \/ pc.ipc \in ConnectCalls
     \/ /\ connected
        /\ pc.ipc \notin DisconnectCalls
        /\ pc.worker \in {"waiting", "ipcWake", "joinIpc"}
    THEN "tunnelled" ELSE "open"

T == INSTANCE Tunnel WITH mode <- TunnelMode, goal <- TunnelGoal

(* The daemon implements Tunnel: a handler is one command carried through, *)
(* and so is the teardown of a tunnel that is up                           *)
(* (service.cpp:254-277,310-315).                                          *)
TunnelImplemented == T!TunnelSpec

(* The worker as ServiceMain and main() see it.                            *)
WorkerPhase ==
  CASE pc.worker \in {"starting", "launched"} -> "starting"
    [] pc.worker = "waiting" -> "serving"
    [] pc.worker \in {"returned", "failed"} -> "ended"
    [] OTHER -> "stopping"

W == INSTANCE Worker WITH phase <- WorkerPhase

(* ServiceWorkerThread is the Worker that ServiceControl is built on: it   *)
(* gives the tunnel up only when it was told to, and does not serve again  *)
(* (service.cpp:308-317).                                                  *)
WorkerImplemented == W!WorkerSpec

-----------------------------------------------------------------------------
(* What the repository says and the code does not do.                      *)

(* README.md: the kill switch "blocks all internet traffic if the Tor      *)
(* connection drops".                                                      *)
TorLossIsBlocked == connected /\ ~torAlive => Sealed

(* The stop handlers announce a graceful shutdown (service.cpp:39).  Even  *)
(* when every client that connects also writes and reads, and Tor answers. *)
ClientsTalk == pc.ipc # "listen" /\ IpcClientStep
TalkingSpec == FairSpec /\ WF_vars(ClientsTalk)
StopReturns == Stopping ~> pc.worker = "returned"
=============================================================================
