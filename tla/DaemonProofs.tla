---------------------------- MODULE DaemonProofs ----------------------------
(***************************************************************************)
(* What holds of the daemon for any number of filter ids, relays, gateways *)
(* and process loops: its handlers take turns, and its parts owe each      *)
(* other what they promise: the kill switch knows its filters, no          *)
(* std::thread is overwritten, the parts agree between two commands, and a *)
(* host route leads out of the machine.  With that the daemon implements   *)
(* Worker, and Tunnel as far as safety goes, and stays safe over any       *)
(* number of runs.                                                         *)
(***************************************************************************)
EXTENDS DaemonRuns, TLAPS

USE KsAssumption, RmAssumption, MaxLoopsAssumption

(* A handler that will start the processor has room for a loop.            *)
LoopRoom == pc.ipc \in {"ksEnable", "ksPermit", "procStart"} => procLoops < MaxLoops

TypeInv == TypeOK /\ LoopRoom

-----------------------------------------------------------------------------
(* The platform's side keeps its types.                                    *)

LEMMA AddType ==
  ASSUME NEW w \in SUBSET Filters, NEW a \in AddOutcomes(w), NEW kind \in FilterKinds
  PROVE  /\ Installed(w, a, kind) \in SUBSET Filters
         /\ \A old \in FilterIds \cup {NoFilter} : IdAfter(a, old) \in FilterIds \cup {NoFilter}
  BY DEF AddOutcomes, Installed, IdAfter, Filters

LEMMA EnableType == KsTypeOK /\ Enable => KsTypeOK'
<1> SUFFICES ASSUME KsTypeOK, Enable PROVE KsTypeOK'
  OBVIOUS
<1>1. CASE UNCHANGED ksVars
  BY <1>1 DEF KsTypeOK, ksVars
<1>2. CASE ~UNCHANGED ksVars
  <2>1. PICK a4 \in AddOutcomes(wfp) :
          /\ engine' = TRUE
          /\ filter_id' = IdAfter(a4, filter_id)
          /\ \/ UNCHANGED <<filter_id_v6, active, wfp>>
             \/ /\ active' = TRUE
                /\ \E a6 \in AddOutcomes(Installed(wfp, a4, "blockV4")) :
                     /\ filter_id_v6' = IdAfter(a6, filter_id_v6)
                     /\ wfp' = Installed(Installed(wfp, a4, "blockV4"), a6, "blockV6")
    BY <1>2 DEF Enable
  <2>2. /\ filter_id' \in FilterIds \cup {NoFilter}
        /\ Installed(wfp, a4, "blockV4") \in SUBSET Filters
    BY <2>1, AddType DEF KsTypeOK, FilterKinds
  <2>3. ASSUME NEW a6 \in AddOutcomes(Installed(wfp, a4, "blockV4"))
        PROVE  /\ IdAfter(a6, filter_id_v6) \in FilterIds \cup {NoFilter}
               /\ Installed(Installed(wfp, a4, "blockV4"), a6, "blockV6") \in SUBSET Filters
    BY <2>2, AddType DEF KsTypeOK, FilterKinds
  <2> QED BY <2>1, <2>2, <2>3 DEF KsTypeOK
<1> QED BY <1>1, <1>2

LEMMA PermitType == KsTypeOK /\ AddTorPermitRule => KsTypeOK'
  BY DEF AddTorPermitRule, KsTypeOK, AddOutcomes, Installed, Filters, FilterKinds

LEMMA DisableType == KsTypeOK /\ Disable => KsTypeOK'
  BY DEF Disable, KsTypeOK, CloseSession, Without, ksVars

LEMMA StartType == RmTypeOK /\ StartMonitoring => RmTypeOK'
<1> SUFFICES ASSUME RmTypeOK, StartMonitoring PROVE RmTypeOK'
  OBVIOUS
<1>1. NextHops \subseteq Gateways
  BY DEF NextHops, RmTypeOK, RouteEntries, Gateways
<1> QED BY <1>1 DEF StartMonitoring, RmTypeOK

LEMMA HalfType ==
  ASSUME RmTypeOK, NEW half \in Halves, AddHalf(half) \/ RemoveHalf(half)
  PROVE  RmTypeOK'
  BY DEF AddHalf, RemoveHalf, To, RmTypeOK, RouteEntries, Gateways

LEMMA MonitorType ==
  RmTypeOK /\ (StopMonitoring \/ JoinMonitor \/ MonitorLoop) => RmTypeOK'
<1> SUFFICES ASSUME RmTypeOK PROVE (StopMonitoring \/ JoinMonitor \/ MonitorLoop) => RmTypeOK'
  OBVIOUS
<1>1. StopMonitoring \/ JoinMonitor => RmTypeOK'
  BY DEF StopMonitoring, JoinMonitor, RmTypeOK
<1>2. MonitorAdd => RmTypeOK'
  BY DEF MonitorAdd, To, RmTypeOK, RouteEntries, Gateways
<1>3. MonitorScan \/ MonitorExit => RmTypeOK'
  BY DEF MonitorScan, MonitorExit, RmTypeOK
<1> QED BY <1>1, <1>2, <1>3 DEF MonitorLoop

LEMMA NetworkType == RmTypeOK /\ (TorConnects \/ TorDrops \/ Roam) => RmTypeOK'
  BY DEF TorConnects, TorDrops, Roam, RmTypeOK, Uplinks

-----------------------------------------------------------------------------
(* Type correctness of the whole daemon.                                   *)

Threads == {"worker", "ipc"}

(* The control part alone: what every step owes besides the platform's.    *)
CtlTypeOK ==
  /\ pc \in Labels
  /\ stopEvent \in BOOLEAN
  /\ running \in BOOLEAN
  /\ wakeup \in BOOLEAN
  /\ connected \in BOOLEAN
  /\ torAlive \in BOOLEAN
  /\ procRunning \in BOOLEAN
  /\ procLoops \in 0..MaxLoops
  /\ recvThread \in {"none", "running", "exited"}

LEMMA TypeSplit == TypeOK <=> KsTypeOK /\ RmTypeOK /\ CtlTypeOK
  BY DEF TypeOK, CtlTypeOK

LEMMA TypeSplitPrime == TypeOK' <=> KsTypeOK' /\ RmTypeOK' /\ CtlTypeOK'
  BY DEF TypeOK, CtlTypeOK

LEMMA KsTypeSame == KsTypeOK /\ UNCHANGED ksVars => KsTypeOK'
  BY DEF KsTypeOK, ksVars

LEMMA RmTypeSame == RmTypeOK /\ UNCHANGED rmVars => RmTypeOK'
  BY DEF RmTypeOK, rmVars

LEMMA TypeInit == Init => TypeInv
<1> SUFFICES ASSUME Init PROVE TypeInv
  OBVIOUS
<1>1. KsTypeOK
  BY DEF Init, KsInit, KsTypeOK
<1>2. RmTypeOK
  BY DEF Init, RmInit, RmTypeOK, Uplinks, Gateways
<1>3. pc \in Labels
  BY DEF Init, Labels
<1>4. CtlTypeOK
  <2>1. 0 \in 0..MaxLoops
    OBVIOUS
  <2> QED BY <1>3, <2>1 DEF Init, CtlTypeOK
<1>5. LoopRoom
  BY DEF Init, LoopRoom
<1> QED BY <1>1, <1>2, <1>4, <1>5, TypeSplit DEF TypeInv

(* The steps both threads share.                                           *)
LEMMA TearDownType ==
  ASSUME TypeInv, NEW t \in Threads, TearDown(t)
  PROVE  TypeInv'
<1> USE DEF Threads
<1>1. KsTypeOK /\ RmTypeOK /\ CtlTypeOK /\ LoopRoom
  BY TypeSplit DEF TypeInv
<1>2. CASE StopMonitor(t)
  <2>1. CtlTypeOK' /\ LoopRoom'
    BY <1>1, <1>2 DEF StopMonitor, CtlTypeOK, LoopRoom, Go, After, AfterTeardown,
      AfterDisconnect, ConnectCalls, Labels, CloseCalls, DestructorCalls,
      DisconnectCalls, ClientWaits, ctlVars, procVars
  <2> QED BY <1>1, <1>2, <2>1, KsTypeSame, RmTypeSame, MonitorType, TypeSplitPrime
          DEF StopMonitor, TypeInv
<1>3. CASE JoinMonitorThread(t)
  <2>1. CtlTypeOK' /\ LoopRoom'
    BY <1>1, <1>3 DEF JoinMonitorThread, CtlTypeOK, LoopRoom, Call, Go, After,
      AfterTeardown, AfterDisconnect, ConnectCalls, Labels, CloseCalls,
      DestructorCalls, DisconnectCalls, ClientWaits, ctlVars, procVars
  <2> QED BY <1>1, <1>3, <2>1, KsTypeSame, MonitorType, TypeSplitPrime
          DEF JoinMonitorThread, TypeInv
<1>4. CASE RemoveTunRoutes(t)
  <2>1. CtlTypeOK' /\ LoopRoom'
    BY <1>1, <1>4 DEF RemoveTunRoutes, CtlTypeOK, LoopRoom, Call, Go, After,
      AfterTeardown, AfterDisconnect, ConnectCalls, Labels, CloseCalls,
      DestructorCalls, DisconnectCalls, ClientWaits, ctlVars, procVars
  <2> QED BY <1>1, <1>4, <2>1, KsTypeSame, HalfType, TypeSplitPrime
          DEF RemoveTunRoutes, TypeInv, Halves
<1>5. CASE ProcStop(t)
  <2>1. pc' \in Labels /\ LoopRoom'
    BY <1>1, <1>5 DEF ProcStop, CtlTypeOK, LoopRoom, Call, Go, After,
      AfterTeardown, AfterDisconnect, ConnectCalls, Labels, CloseCalls,
      DestructorCalls, DisconnectCalls, ClientWaits
  <2>2. CtlTypeOK' /\ LoopRoom'
    BY <1>1, <1>5, <2>1 DEF ProcStop, CtlTypeOK, ctlVars
  <2> QED BY <1>1, <1>5, <2>2, KsTypeSame, RmTypeSame, TypeSplitPrime
          DEF ProcStop, TypeInv
<1>6. CASE ProcJoin(t)
  <2>1. pc' \in Labels /\ LoopRoom'
    BY <1>1, <1>6 DEF ProcJoin, CtlTypeOK, LoopRoom, Call, Go, After,
      AfterTeardown, AfterDisconnect, ConnectCalls, Labels, CloseCalls,
      DestructorCalls, DisconnectCalls, ClientWaits
  <2>2. CtlTypeOK' /\ LoopRoom'
    BY <1>1, <1>6, <2>1 DEF ProcJoin, CtlTypeOK, ctlVars
  <2> QED BY <1>1, <1>6, <2>2, KsTypeSame, RmTypeSame, TypeSplitPrime
          DEF ProcJoin, TypeInv
<1>7. CASE KsDisable(t)
  <2>1. CtlTypeOK' /\ LoopRoom'
    BY <1>1, <1>7 DEF KsDisable, CtlTypeOK, LoopRoom, Call, Go, After,
      AfterTeardown, AfterDisconnect, ConnectCalls, Labels, CloseCalls,
      DestructorCalls, DisconnectCalls, ClientWaits, ctlVars, procVars
  <2> QED BY <1>1, <1>7, <2>1, DisableType, RmTypeSame, TypeSplitPrime
          DEF KsDisable, TypeInv
<1> QED BY <1>2, <1>3, <1>4, <1>5, <1>6, <1>7 DEF TearDown

(* The ipc thread between a client and a handler: only labels move.        *)
LEMMA ListenType ==
  ASSUME TypeInv,
         IpcLoopTop \/ IpcCreatePipe \/ IpcWoken \/ IpcClientStep
  PROVE  TypeInv'
<1>1. KsTypeOK /\ RmTypeOK /\ CtlTypeOK /\ LoopRoom
  BY TypeSplit DEF TypeInv
<1>2. UNCHANGED ksVars /\ UNCHANGED rmVars
  BY DEF IpcLoopTop, IpcCreatePipe, IpcWoken, IpcClientStep, IpcAccept, IpcConnect,
         IpcDisconnect, IpcTorQuery, IpcReply
<1>3. CtlTypeOK' /\ LoopRoom'
  <2> USE <1>1 DEF CtlTypeOK, LoopRoom, Go, Labels, ConnectCalls, DisconnectCalls,
        CloseCalls, ClientWaits, ctlVars, procVars
  <2>1. CASE IpcLoopTop
    BY <2>1 DEF IpcLoopTop
  <2>2. CASE IpcCreatePipe
    BY <2>2 DEF IpcCreatePipe
  <2>3. CASE IpcWoken
    BY <2>3 DEF IpcWoken
  <2>4. CASE IpcAccept
    BY <2>4 DEF IpcAccept
  <2>5. CASE IpcConnect
    BY <2>5 DEF IpcConnect
  <2>6. CASE IpcDisconnect
    BY <2>6 DEF IpcDisconnect
  <2>7. CASE IpcTorQuery \/ IpcReply
    BY <2>7 DEF IpcTorQuery, IpcReply
  <2> QED BY <2>1, <2>2, <2>3, <2>4, <2>5, <2>6, <2>7 DEF IpcClientStep
<1> QED BY <1>1, <1>2, <1>3, KsTypeSame, RmTypeSame, TypeSplitPrime DEF TypeInv

(* on_connect, and the flag both handlers set.                             *)
LEMMA ConnectType ==
  ASSUME TypeInv,
         KsEnable \/ ProcStart \/ StartMonitor \/ AddTunRoutes \/ SetConnected
  PROVE  TypeInv'
<1>1. KsTypeOK /\ RmTypeOK /\ CtlTypeOK /\ LoopRoom
  BY TypeSplit DEF TypeInv
<1>2. KsTypeOK'
  BY <1>1, EnableType, PermitType, KsTypeSame
     DEF KsEnable, ProcStart, StartMonitor, AddTunRoutes, SetConnected
<1>3. RmTypeOK'
  BY <1>1, StartType, HalfType, RmTypeSame
     DEF KsEnable, ProcStart, StartMonitor, AddTunRoutes, SetConnected, Halves
<1>4. CtlTypeOK' /\ LoopRoom'
  <2> USE <1>1 DEF CtlTypeOK, LoopRoom, Go, Call, After, AfterConnect, AfterDisconnect,
        Labels, ConnectCalls, DisconnectCalls, CloseCalls, ClientWaits
  <2>1. CASE KsEnable
    BY <2>1 DEF KsEnable, ctlVars, procVars
  <2>2. CASE ProcStart
    BY <2>2 DEF ProcStart, ctlVars
  <2>3. CASE StartMonitor
    BY <2>3 DEF StartMonitor, ctlVars, procVars
  <2>4. CASE AddTunRoutes
    BY <2>4 DEF AddTunRoutes, ctlVars, procVars
  <2>5. CASE SetConnected
    <3>1. pc' \in Labels
      BY <2>5 DEF SetConnected
    <3>2. LoopRoom'
      BY <2>5 DEF SetConnected, procVars
    <3> HIDE DEF Labels, Go, Call, After, AfterConnect, AfterDisconnect
    <3> QED BY <2>5, <3>1, <3>2 DEF SetConnected, procVars
  <2> QED BY <2>1, <2>2, <2>3, <2>4, <2>5
<1> QED BY <1>1, <1>2, <1>3, <1>4, TypeSplitPrime DEF TypeInv

(* The worker, other than the calls it shares with the handlers.           *)
LEMMA WorkerType ==
  ASSUME TypeInv,
         \/ LaunchTor \/ SetUpTunnel \/ IpcStop \/ IpcWake \/ JoinIpc
         \/ StopTor \/ DestroyKs \/ CloseAdapter
  PROVE  TypeInv'
<1>1. KsTypeOK /\ RmTypeOK /\ CtlTypeOK /\ LoopRoom
  BY TypeSplit DEF TypeInv
<1>2. KsTypeOK'
  BY <1>1, DisableType, KsTypeSame
     DEF LaunchTor, SetUpTunnel, IpcStop, IpcWake, JoinIpc, StopTor, DestroyKs,
         CloseAdapter
<1>3. RmTypeOK'
  <2>1. CASE LaunchTor \/ IpcStop \/ IpcWake \/ JoinIpc \/ DestroyKs
    BY <1>1, <2>1, RmTypeSame DEF LaunchTor, IpcStop, IpcWake, JoinIpc, DestroyKs
  <2>2. CASE SetUpTunnel \/ StopTor \/ CloseAdapter
    BY <1>1, <2>2 DEF SetUpTunnel, StopTor, CloseAdapter, RmTypeOK, rmVars
  <2> QED BY <2>1, <2>2
<1>4. CtlTypeOK' /\ LoopRoom'
  <2> USE <1>1 DEF CtlTypeOK, LoopRoom, Go, Call, After, AfterTeardown, Labels,
        CloseCalls, DestructorCalls
  <2>1. CASE LaunchTor
    <3>1. pc' \in Labels /\ LoopRoom'
      BY <2>1 DEF LaunchTor, procVars
    <3> QED BY <2>1, <3>1 DEF LaunchTor, ctlVars, procVars
  <2>2. CASE SetUpTunnel
    <3>1. pc' \in Labels /\ LoopRoom'
      <4>1. CASE Go("worker", "launched", "failed") /\ UNCHANGED procLoops
        BY <4>1
      <4>2. CASE /\ pc' = [worker |-> "waiting", ipc |-> "loopTop"]
                 /\ UNCHANGED procLoops
        BY <4>2
      <4> QED BY <2>2, <4>1, <4>2 DEF SetUpTunnel, procVars
    <3> QED BY <2>2, <3>1 DEF SetUpTunnel, procVars
  <2>3. CASE IpcStop
    BY <2>3 DEF IpcStop, procVars
  <2>4. CASE IpcWake
    <3>1. pc' \in Labels /\ LoopRoom'
      BY <2>4 DEF IpcWake, procVars
    <3> QED BY <2>4, <3>1 DEF IpcWake, procVars
  <2>5. CASE JoinIpc
    BY <2>5 DEF JoinIpc, ctlVars, procVars
  <2>6. CASE StopTor
    BY <2>6 DEF StopTor, ctlVars, procVars
  <2>7. CASE DestroyKs \/ CloseAdapter
    BY <2>7 DEF DestroyKs, CloseAdapter, ctlVars, procVars
  <2> QED BY <2>1, <2>2, <2>3, <2>4, <2>5, <2>6, <2>7
<1> QED BY <1>1, <1>2, <1>3, <1>4, TypeSplitPrime DEF TypeInv

(* The other threads, and what happens around the daemon.                  *)
LEMMA AroundType ==
  ASSUME TypeInv,
         Monitor \/ RecvExit \/ LoopExit \/ RequestStop \/ TorDies \/ Network
  PROVE  TypeInv'
<1>1. KsTypeOK /\ RmTypeOK /\ CtlTypeOK /\ LoopRoom
  BY TypeSplit DEF TypeInv
<1>2. KsTypeOK'
  BY <1>1, KsTypeSame DEF Monitor, RecvExit, LoopExit, RequestStop, TorDies, Network
<1>3. RmTypeOK'
  <2>1. CASE Monitor \/ Network
    BY <1>1, <2>1, MonitorType, NetworkType DEF Monitor, Network
  <2>2. CASE RecvExit \/ LoopExit \/ RequestStop
    BY <1>1, <2>2, RmTypeSame DEF RecvExit, LoopExit, RequestStop
  <2>3. CASE TorDies
    BY <1>1, <2>3 DEF TorDies, RmTypeOK
  <2> QED BY <2>1, <2>2, <2>3
<1>4. CtlTypeOK' /\ LoopRoom'
  <2>1. CASE Monitor \/ TorDies \/ Network
    <3>1. pc' = pc /\ torAlive' \in {torAlive, FALSE}
      BY <2>1 DEF Monitor, TorDies, Network
    <3>2. UNCHANGED ctlVars /\ UNCHANGED procVars
      BY <2>1 DEF Monitor, TorDies, Network
    <3> QED BY <1>1, <3>1, <3>2 DEF CtlTypeOK, LoopRoom, ctlVars, procVars
  <2>2. CASE RecvExit
    BY <1>1, <2>2 DEF CtlTypeOK, LoopRoom, RecvExit, ctlVars
  <2>3. CASE RequestStop
    BY <1>1, <2>3 DEF CtlTypeOK, LoopRoom, RequestStop, procVars
  <2>4. CASE LoopExit
    <3>1. procLoops' \in 0..MaxLoops /\ LoopRoom'
      BY <1>1, <2>4 DEF LoopExit, CtlTypeOK, LoopRoom
    <3> QED BY <1>1, <2>4, <3>1 DEF LoopExit, CtlTypeOK, ctlVars
  <2> QED BY <2>1, <2>2, <2>3, <2>4
<1> QED BY <1>1, <1>2, <1>3, <1>4, TypeSplitPrime DEF TypeInv

LEMMA TypeStep == TypeInv /\ [Next]_vars => TypeInv'
<1> SUFFICES ASSUME TypeInv, [Next]_vars PROVE TypeInv'
  OBVIOUS
<1>1. CASE Next
  BY <1>1, TearDownType, ListenType, ConnectType, WorkerType, AroundType
     DEF Next, WorkerStop, IpcOwnStep, Threads
<1>2. CASE UNCHANGED vars
  <2>1. KsTypeOK' /\ RmTypeOK'
    BY <1>2, KsTypeSame, RmTypeSame, TypeSplit DEF TypeInv, vars
  <2>2. CtlTypeOK' /\ LoopRoom'
    BY <1>2, TypeSplit DEF TypeInv, vars, ctlVars, procVars, CtlTypeOK, LoopRoom
  <2> QED BY <2>1, <2>2, TypeSplitPrime DEF TypeInv
<1> QED BY <1>1, <1>2

(* Every value the daemon keeps has its type, and the bound on process     *)
(* loops is one IpcConnect can honour (service.cpp:254-264).               *)
THEOREM TypeCorrect == Spec => []TypeOK
<1>1. TypeInv => TypeOK
  BY DEF TypeInv
<1> QED BY <1>1, TypeInit, TypeStep, PTL DEF Spec
-----------------------------------------------------------------------------
(* The two threads keep out of each other's way, whatever fails.           *)

LEMMA HandoverInit == Init => Handover
  BY DEF Init, Handover, HandlersExclusive, CloseCalls, DestructorCalls

LEMMA HandoverListen ==
  ASSUME pc \in Labels, Handover,
         IpcLoopTop \/ IpcCreatePipe \/ IpcWoken \/ IpcClientStep
  PROVE  Handover'
<1> USE DEF Labels, Go, Handover, HandlersExclusive, ConnectCalls, CloseCalls,
      DisconnectCalls, DestructorCalls, ClientWaits, ctlVars
<1>1. CASE IpcLoopTop
  BY <1>1 DEF IpcLoopTop
<1>2. CASE IpcCreatePipe
  BY <1>2 DEF IpcCreatePipe
<1>3. CASE IpcWoken
  BY <1>3 DEF IpcWoken
<1>4. CASE IpcAccept
  BY <1>4 DEF IpcAccept
<1>5. CASE IpcConnect
  BY <1>5 DEF IpcConnect
<1>6. CASE IpcDisconnect
  BY <1>6 DEF IpcDisconnect
<1>7. CASE IpcTorQuery
  BY <1>7 DEF IpcTorQuery
<1>8. CASE IpcReply
  BY <1>8 DEF IpcReply
<1> QED BY <1>1, <1>2, <1>3, <1>4, <1>5, <1>6, <1>7, <1>8 DEF IpcClientStep

(* A handler's call, or the worker's: the caller's label moves along its   *)
(* table, and connected changes only under setConnected, clearConnected.   *)
LEMMA HandoverCall ==
  ASSUME pc \in Labels, Handover, UNCHANGED connected, NEW t \in Threads,
         NEW call \in (ConnectCalls \ {"setConnected"}) \cup CloseCalls
                       \cup DestructorCalls \cup {"stopTor"},
         t = "ipc" => call \notin {"stopTor", "destroyKs", "closeAdapter"},
         t = "worker" => call \notin ConnectCalls,
         \/ Call(t, call) /\ call # "stopMonitor"
         \/ call = "stopMonitor" /\ Go(t, "stopMonitor", "joinMonitor")
         \/ call = "stopMonitor" /\ Go(t, "stopMonitor", After(t, "joinMonitor"))
  PROVE  Handover'
<1> USE DEF Labels, Go, Call, After, Handover, HandlersExclusive, ConnectCalls,
      CloseCalls, DisconnectCalls, DestructorCalls, ClientWaits, Threads
<1>1. CASE t = "worker"
  BY <1>1 DEF AfterTeardown
<1>2. CASE t = "ipc" /\ call \in ConnectCalls
  BY <1>2 DEF AfterConnect
<1>3. CASE t = "ipc" /\ call \notin ConnectCalls
  BY <1>3 DEF AfterDisconnect
<1> QED BY <1>1, <1>2, <1>3

LEMMA HandoverTearDown ==
  ASSUME pc \in Labels, Handover, NEW t \in Threads, TearDown(t)
  PROVE  Handover'
<1> UNCHANGED connected
  BY DEF TearDown, StopMonitor, JoinMonitorThread, RemoveTunRoutes, ProcStop,
         ProcJoin, KsDisable, ctlVars
<1>1. PICK call \in CloseCalls \cup {"stopMonitor", "joinMonitor"} :
        \/ Call(t, call) /\ call # "stopMonitor"
        \/ call = "stopMonitor" /\ Go(t, "stopMonitor", "joinMonitor")
        \/ call = "stopMonitor" /\ Go(t, "stopMonitor", After(t, "joinMonitor"))
  BY DEF TearDown, StopMonitor, JoinMonitorThread, RemoveTunRoutes, ProcStop,
         ProcJoin, KsDisable, CloseCalls
<1> QED BY <1>1, HandoverCall DEF CloseCalls, DestructorCalls, ConnectCalls

LEMMA HandoverStep == TypeInv /\ Handover /\ [Next]_vars => Handover'
<1> SUFFICES ASSUME TypeInv, Handover, [Next]_vars PROVE Handover'
  OBVIOUS
<1>1. pc \in Labels
  BY DEF TypeInv, TypeOK
<1>2. CASE KsEnable \/ ProcStart \/ StartMonitor \/ AddTunRoutes
  <2>1. PICK call \in ConnectCalls \ {"setConnected"} : Call("ipc", call)
    BY <1>2 DEF KsEnable, ProcStart, StartMonitor, AddTunRoutes, ConnectCalls
  <2>2. UNCHANGED connected
    BY <1>2 DEF KsEnable, ProcStart, StartMonitor, AddTunRoutes, ctlVars
  <2> QED BY <1>1, <2>1, <2>2, HandoverCall DEF ConnectCalls, Threads
<1>3. CASE SetConnected
  BY <1>1, <1>3 DEF SetConnected, Labels, Go, Call, After, AfterConnect,
     AfterDisconnect, Handover, HandlersExclusive, ConnectCalls, CloseCalls,
     DestructorCalls
<1>4. CASE StopTor \/ DestroyKs \/ CloseAdapter
  <2>1. PICK call \in {"stopTor", "destroyKs", "closeAdapter"} : Call("worker", call)
    BY <1>4 DEF StopTor, DestroyKs, CloseAdapter
  <2>2. UNCHANGED connected
    BY <1>4 DEF StopTor, DestroyKs, CloseAdapter, ctlVars
  <2> QED BY <1>1, <2>1, <2>2, HandoverCall DEF DestructorCalls, ConnectCalls, Threads
<1>5. CASE LaunchTor \/ SetUpTunnel \/ IpcStop \/ IpcWake \/ JoinIpc
  <2> USE <1>1 DEF Labels, Go, Handover, HandlersExclusive, ConnectCalls, CloseCalls,
        DestructorCalls, ctlVars
  <2>1. CASE LaunchTor
    BY <2>1 DEF LaunchTor
  <2>2. CASE SetUpTunnel
    <3>1. CASE Go("worker", "launched", "failed") /\ UNCHANGED connected
      BY <3>1
    <3>2. CASE /\ pc.worker = "launched"
               /\ pc' = [worker |-> "waiting", ipc |-> "loopTop"]
               /\ UNCHANGED connected
      BY <3>2
    <3> QED BY <2>2, <3>1, <3>2 DEF SetUpTunnel
  <2>3. CASE IpcStop
    BY <2>3 DEF IpcStop
  <2>4. CASE IpcWake
    BY <2>4 DEF IpcWake
  <2>5. CASE JoinIpc
    BY <2>5 DEF JoinIpc
  <2> QED BY <1>5, <2>1, <2>2, <2>3, <2>4, <2>5
<1>6. CASE \/ Monitor \/ RecvExit \/ LoopExit \/ RequestStop \/ TorDies \/ Network
           \/ UNCHANGED vars
  <2>1. UNCHANGED <<pc, connected>>
    BY <1>6 DEF Monitor, RecvExit, LoopExit, RequestStop, TorDies, Network, vars, ctlVars
  <2> QED BY <2>1 DEF Handover, HandlersExclusive
<1> QED
  BY <1>1, <1>2, <1>3, <1>4, <1>5, <1>6, HandoverListen, HandoverTearDown
     DEF Next, WorkerStop, IpcOwnStep, Threads

(* The worker and the command handlers never work on the tunnel at the     *)
(* same time, and each finds connected as its half of the work needs it,   *)
(* whichever calls fail and whenever the stop is requested                 *)
(* (service.cpp:254-277,308-317; ipc_server.cpp:18-29).                    *)
THEOREM HandoverHolds == Spec => []Handover
<1> QED BY TypeInit, HandoverInit, TypeStep, HandoverStep, PTL DEF Spec
-----------------------------------------------------------------------------
(* The machine is sealed while a route leads into the tunnel, as long as   *)
(* WFP does what it is asked and routes can be deleted; routes may still   *)
(* be refused, the gateway be missing and the machine roam.                *)

Cooperative == KsFaults = {} /\ "routeDelete" \notin RouteFaults

SealInv == TypeInv /\ Handover /\ PlacesAgree

LEMMA PlacesInit == Init => PlacesAgree
  BY DEF Init, RmInit, KsInit, PlacesAgree, HeldSealed, LowMayBe, HighMayBe,
         ConnectedIdle, Sealed, Blocked, HasRoute, Alive, ConnectCalls,
         DisconnectCalls, CloseCalls

(* enable() that nothing refuses installs a filter for each family, and no *)
(* step but disable() takes one away.                                      *)
LEMMA EnableSeals == KsFaults = {} /\ Enable => Sealed'
<1> SUFFICES ASSUME KsFaults = {}, Enable PROVE Sealed'
  OBVIOUS
<1>1. \A w : \A a \in AddOutcomes(w) : a.status = "ok"
  BY DEF AddOutcomes
<1>2. PICK a4 \in AddOutcomes(wfp) :
        \E a6 \in AddOutcomes(Installed(wfp, a4, "blockV4")) :
          wfp' = Installed(Installed(wfp, a4, "blockV4"), a6, "blockV6")
  BY <1>1 DEF Enable
<1>3. PICK a6 \in AddOutcomes(Installed(wfp, a4, "blockV4")) :
        wfp' = Installed(Installed(wfp, a4, "blockV4"), a6, "blockV6")
  BY <1>2
<1>4. wfp' = wfp \cup {[id |-> a4.id, kind |-> "blockV4"]}
                 \cup {[id |-> a6.id, kind |-> "blockV6"]}
  BY <1>1, <1>3 DEF Installed
<1>5. Blocked("blockV4")'
  <2>1. [id |-> a4.id, kind |-> "blockV4"] \in wfp'
    BY <1>4
  <2> QED BY <2>1 DEF Blocked
<1>6. Blocked("blockV6")'
  <2>1. [id |-> a6.id, kind |-> "blockV6"] \in wfp'
    BY <1>4
  <2> QED BY <2>1 DEF Blocked
<1> QED BY <1>5, <1>6 DEF Sealed

LEMMA PermitKeepsSeal == AddTorPermitRule /\ Sealed => Sealed'
  BY DEF AddTorPermitRule, Sealed, Blocked, Installed

(* What the routes' methods do to the halves.                              *)
OnlyTunHalves == \A r \in routes : r.dst \in Halves => r.gw = TunGw

LEMMA AddHalfEffect ==
  ASSUME NEW half \in Halves, OnlyTunHalves, AddHalf(half)
  PROVE  /\ OnlyTunHalves'
         /\ tun_gateway' = TunGw
         /\ \A other \in Halves \ {half} : HasRoute(other)' => HasRoute(other)
  BY DEF AddHalf, To, OnlyTunHalves, HasRoute

LEMMA RemoveHalfEffect ==
  ASSUME "routeDelete" \notin RouteFaults, NEW half \in Halves, routes \in SUBSET RouteEntries,
         OnlyTunHalves, RemoveHalf(half)
  PROVE  /\ OnlyTunHalves'
         /\ half = LowHalf => tun_gateway' = tun_gateway
         /\ tun_gateway = TunGw => ~HasRoute(half)'
         /\ \A other \in Halves : HasRoute(other)' => HasRoute(other)
<1>1. routes' = routes \ {To(half, tun_gateway)}
  BY DEF RemoveHalf
<1>2. ASSUME tun_gateway = TunGw, HasRoute(half)' PROVE FALSE
  <2>1. PICK r \in routes' : r.dst = half
    BY <1>2 DEF HasRoute
  <2>2. r = To(half, TunGw)
    BY <1>1, <2>1 DEF OnlyTunHalves, RouteEntries, To
  <2> QED BY <1>1, <1>2, <2>1, <2>2
<1> QED BY <1>1, <1>2 DEF RemoveHalf, OnlyTunHalves, HasRoute, LowHalf, HighHalf

(* The monitor edits host routes only.                                     *)
LEMMA MonitorKeepsHalves ==
  ASSUME RmTypeOK, MonitorLoop \/ JoinMonitor
  PROVE  /\ OnlyTunHalves => OnlyTunHalves'
         /\ \A half \in Halves : HasRoute(half)' => HasRoute(half)
         /\ tun_gateway' = tun_gateway
<1>1. CASE MonitorAdd
  BY <1>1 DEF MonitorAdd, RmTypeOK, To, OnlyTunHalves, HasRoute
<1>2. CASE MonitorScan \/ MonitorExit
  BY <1>2 DEF MonitorScan, MonitorExit, OnlyTunHalves, HasRoute
<1>3. CASE JoinMonitor
  BY <1>3 DEF JoinMonitor, OnlyTunHalves, HasRoute
<1> QED BY <1>1, <1>2, <1>3 DEF MonitorLoop
(* A step that adds no half and changes no place a half may be at needs to *)
(* look after the filters only.                                            *)
LEMMA PlacesMove ==
  ASSUME PlacesAgree,
         OnlyTunHalves',
         \A half \in Halves : HasRoute(half)' => HasRoute(half),
         tun_gateway' = tun_gateway,
         HeldSealed' => Sealed',
         LowMayBe' <=> LowMayBe,
         HighMayBe' <=> HighMayBe
  PROVE  PlacesAgree'
  BY DEF PlacesAgree, OnlyTunHalves, Halves

Still == UNCHANGED <<wfp, routes, tun_gateway>>

LEMMA PlacesStill ==
  ASSUME PlacesAgree, Still,
         HeldSealed' => HeldSealed,
         LowMayBe' <=> LowMayBe,
         HighMayBe' <=> HighMayBe
  PROVE  PlacesAgree'
<1>1. OnlyTunHalves' /\ \A half \in Halves : HasRoute(half)' => HasRoute(half)
  BY DEF Still, PlacesAgree, OnlyTunHalves, HasRoute
<1>2. HeldSealed' => Sealed'
  BY DEF Still, PlacesAgree, Sealed, Blocked
<1> QED BY <1>1, <1>2, PlacesMove DEF Still

(* Steps that move labels, and nothing the invariant speaks about.         *)
LEMMA PlacesListen ==
  ASSUME pc \in Labels, Handover, PlacesAgree,
         IpcLoopTop \/ IpcCreatePipe \/ IpcWoken \/ IpcClientStep
  PROVE  PlacesAgree'
<1>1. Still
  BY DEF Still, IpcLoopTop, IpcCreatePipe, IpcWoken, IpcClientStep, IpcAccept,
         IpcConnect, IpcDisconnect, IpcTorQuery, IpcReply, ksVars, rmVars
<1>2. /\ HeldSealed' => HeldSealed
      /\ LowMayBe' <=> LowMayBe
      /\ HighMayBe' <=> HighMayBe
  <2> USE DEF Labels, Go, Handover, HandlersExclusive, HeldSealed, LowMayBe, HighMayBe,
        ConnectedIdle, Alive, ConnectCalls, CloseCalls, DisconnectCalls,
        DestructorCalls, ClientWaits, ctlVars
  <2>1. CASE IpcLoopTop
    BY <2>1 DEF IpcLoopTop
  <2>2. CASE IpcCreatePipe
    BY <2>2 DEF IpcCreatePipe
  <2>3. CASE IpcWoken
    BY <2>3 DEF IpcWoken
  <2>4. CASE IpcAccept
    BY <2>4 DEF IpcAccept
  <2>5. CASE IpcConnect
    BY <2>5 DEF IpcConnect
  <2>6. CASE IpcDisconnect
    BY <2>6 DEF IpcDisconnect
  <2>7. CASE IpcTorQuery
    BY <2>7 DEF IpcTorQuery
  <2>8. CASE IpcReply
    BY <2>8 DEF IpcReply
  <2> QED BY <2>1, <2>2, <2>3, <2>4, <2>5, <2>6, <2>7, <2>8 DEF IpcClientStep
<1> QED BY <1>1, <1>2, PlacesStill

LEMMA PlacesWorker ==
  ASSUME pc \in Labels, Handover, PlacesAgree,
         \/ LaunchTor \/ SetUpTunnel \/ IpcStop \/ IpcWake \/ JoinIpc \/ StopTor
  PROVE  PlacesAgree'
<1>1. Still
  BY DEF Still, LaunchTor, SetUpTunnel, IpcStop, IpcWake, JoinIpc, StopTor, ksVars, rmVars
<1>2. /\ HeldSealed' => HeldSealed
      /\ LowMayBe' <=> LowMayBe
      /\ HighMayBe' <=> HighMayBe
  <2> USE DEF Labels, Go, Handover, HandlersExclusive, HeldSealed, LowMayBe, HighMayBe,
        ConnectedIdle, Alive, ConnectCalls, CloseCalls, DisconnectCalls,
        DestructorCalls, ctlVars
  <2>1. CASE LaunchTor
    BY <2>1 DEF LaunchTor
  <2>2. CASE SetUpTunnel
    <3>1. CASE Go("worker", "launched", "failed") /\ UNCHANGED connected
      BY <3>1
    <3>2. CASE /\ pc.worker = "launched"
               /\ pc' = [worker |-> "waiting", ipc |-> "loopTop"]
               /\ UNCHANGED connected
      BY <3>2
    <3> QED BY <2>2, <3>1, <3>2 DEF SetUpTunnel
  <2>3. CASE IpcStop
    BY <2>3 DEF IpcStop
  <2>4. CASE IpcWake
    BY <2>4 DEF IpcWake
  <2>5. CASE JoinIpc
    BY <2>5 DEF JoinIpc
  <2>6. CASE StopTor
    BY <2>6 DEF StopTor, Call, After, AfterTeardown
  <2> QED BY <2>1, <2>2, <2>3, <2>4, <2>5, <2>6
<1> QED BY <1>1, <1>2, PlacesStill
(* on_connect: the filters come before the first half.                     *)
LEMMA PlacesConnect ==
  ASSUME Cooperative, pc \in Labels, Handover, PlacesAgree,
         KsEnable \/ ProcStart \/ StartMonitor \/ AddTunRoutes \/ SetConnected
  PROVE  PlacesAgree'
<1> USE DEF Labels, Go, Call, After, AfterConnect, AfterDisconnect, Handover,
      HandlersExclusive, HeldSealed, LowMayBe, HighMayBe, ConnectedIdle, Alive,
      ConnectCalls, CloseCalls, DisconnectCalls, DestructorCalls, ctlVars
<1>1. CASE KsEnable
  <2>1. /\ LowMayBe' <=> LowMayBe
        /\ HighMayBe' <=> HighMayBe
        /\ Call("ipc", "ksPermit") => HeldSealed
    BY <1>1 DEF KsEnable
  <2>2. Sealed'
    BY <1>1, <2>1, EnableSeals, PermitKeepsSeal DEF KsEnable, PlacesAgree, Cooperative
  <2>3. /\ OnlyTunHalves'
        /\ \A half \in Halves : HasRoute(half)' => HasRoute(half)
        /\ tun_gateway' = tun_gateway
    BY <1>1 DEF KsEnable, PlacesAgree, OnlyTunHalves, HasRoute, rmVars
  <2> QED BY <2>1, <2>2, <2>3, PlacesMove
<1>2. CASE ProcStart
  <2>1. Still
    BY <1>2 DEF ProcStart, Still, ksVars, rmVars
  <2>2. /\ HeldSealed' => HeldSealed
        /\ LowMayBe' <=> LowMayBe
        /\ HighMayBe' <=> HighMayBe
    BY <1>2 DEF ProcStart
  <2> QED BY <2>1, <2>2, PlacesStill
<1>3. CASE StartMonitor
  <2>1. Still
    BY <1>3 DEF StartMonitor, StartMonitoring, Still, ksVars
  <2>2. /\ HeldSealed' => HeldSealed
        /\ LowMayBe' <=> LowMayBe
        /\ HighMayBe' <=> HighMayBe
    BY <1>3 DEF StartMonitor
  <2> QED BY <2>1, <2>2, PlacesStill
<1>4. CASE SetConnected
  <2>1. Still
    BY <1>4 DEF SetConnected, Still, ksVars, rmVars
  <2>2. /\ HeldSealed' => HeldSealed
        /\ LowMayBe' <=> LowMayBe
        /\ HighMayBe' <=> HighMayBe
    BY <1>4 DEF SetConnected
  <2> QED BY <2>1, <2>2, PlacesStill
<1>5. CASE AddTunRoutes
  <2>1. PICK half \in Halves :
          /\ AddHalf(half)
          /\ Call("ipc", IF half = LowHalf THEN "addLow" ELSE "addHigh")
    BY <1>5 DEF AddTunRoutes, Halves, LowHalf, HighHalf
  <2>2. /\ OnlyTunHalves'
        /\ tun_gateway' = TunGw
        /\ \A other \in Halves \ {half} : HasRoute(other)' => HasRoute(other)
    BY <2>1, AddHalfEffect DEF PlacesAgree, OnlyTunHalves
  <2>3. /\ HeldSealed' => HeldSealed
        /\ LowMayBe' /\ (HighMayBe => HighMayBe')
        /\ half = HighHalf => HighMayBe'
    BY <1>5, <2>1 DEF AddTunRoutes, LowHalf, HighHalf
  <2>4. HeldSealed' => Sealed'
    BY <1>5, <2>3 DEF AddTunRoutes, PlacesAgree, Sealed, Blocked, ksVars
  <2> QED BY <2>2, <2>3, <2>4 DEF PlacesAgree, OnlyTunHalves, Halves, LowHalf, HighHalf
<1> QED BY <1>1, <1>2, <1>3, <1>4, <1>5

(* The way down: each half is withdrawn where nobody expects it any more,  *)
(* and the filters are lifted where nobody holds them.                     *)
LEMMA PlacesTearDown ==
  ASSUME Cooperative, TypeInv, Handover, PlacesAgree, NEW t \in Threads, TearDown(t)
  PROVE  PlacesAgree'
<1> USE DEF Labels, Go, Call, After, AfterTeardown, AfterDisconnect, Handover,
      HandlersExclusive, HeldSealed, LowMayBe, HighMayBe, ConnectedIdle, Alive,
      ConnectCalls, CloseCalls, DisconnectCalls, DestructorCalls, ctlVars, Threads
<1>1. pc \in Labels /\ RmTypeOK
  BY DEF TypeInv, TypeOK
<1>2. CASE StopMonitor(t)
  <2>1. Still
    BY <1>2 DEF StopMonitor, StopMonitoring, Still, ksVars, rmVars
  <2>2. /\ HeldSealed' => HeldSealed
        /\ LowMayBe' <=> LowMayBe
        /\ HighMayBe' <=> HighMayBe
    BY <1>1, <1>2 DEF StopMonitor
  <2> QED BY <2>1, <2>2, PlacesStill
<1>3. CASE JoinMonitorThread(t)
  <2>1. /\ HeldSealed' => HeldSealed
        /\ LowMayBe' <=> LowMayBe
        /\ HighMayBe' <=> HighMayBe
    BY <1>1, <1>3 DEF JoinMonitorThread
  <2>2. HeldSealed' => Sealed'
    BY <1>3, <2>1 DEF JoinMonitorThread, PlacesAgree, Sealed, Blocked, ksVars
  <2>3. /\ OnlyTunHalves'
        /\ \A half \in Halves : HasRoute(half)' => HasRoute(half)
        /\ tun_gateway' = tun_gateway
    BY <1>1, <1>3, MonitorKeepsHalves DEF JoinMonitorThread, PlacesAgree, OnlyTunHalves
  <2> QED BY <2>1, <2>2, <2>3, PlacesMove
<1>4. CASE RemoveTunRoutes(t)
  <2>1. PICK half \in Halves :
          /\ RemoveHalf(half)
          /\ Call(t, IF half = LowHalf THEN "removeLow" ELSE "removeHigh")
          /\ UNCHANGED connected
    BY <1>4 DEF RemoveTunRoutes, Halves, LowHalf, HighHalf
  <2>2. /\ HeldSealed' => HeldSealed
        /\ half = LowHalf => LowMayBe /\ HighMayBe /\ HighMayBe' /\ ~LowMayBe'
        /\ half = HighHalf => HighMayBe /\ ~LowMayBe /\ ~HighMayBe' /\ ~LowMayBe'
    <3>1. CASE half = LowHalf
      BY <1>1, <2>1, <3>1 DEF LowHalf, HighHalf
    <3>2. CASE half = HighHalf
      BY <1>1, <2>1, <3>2 DEF LowHalf, HighHalf
    <3> QED BY <3>1, <3>2 DEF Halves
  <2>3. HeldSealed' => Sealed'
    BY <1>4, <2>2 DEF RemoveTunRoutes, PlacesAgree, Sealed, Blocked, ksVars
  <2>4. tun_gateway = TunGw
    BY <2>2 DEF PlacesAgree, Halves
  <2>5. /\ OnlyTunHalves'
        /\ half = LowHalf => tun_gateway' = TunGw
        /\ ~HasRoute(half)'
        /\ \A other \in Halves : HasRoute(other)' => HasRoute(other)
    BY <1>1, <2>1, <2>4, RemoveHalfEffect
       DEF Cooperative, PlacesAgree, OnlyTunHalves, RmTypeOK
  <2> QED BY <2>2, <2>3, <2>5 DEF PlacesAgree, OnlyTunHalves, Halves
<1>5. CASE ProcStop(t) \/ ProcJoin(t)
  <2>1. Still
    BY <1>5 DEF ProcStop, ProcJoin, Still, ksVars, rmVars
  <2>2. /\ HeldSealed' => HeldSealed
        /\ LowMayBe' <=> LowMayBe
        /\ HighMayBe' <=> HighMayBe
    <3>1. CASE ProcStop(t)
      BY <1>1, <3>1 DEF ProcStop
    <3>2. CASE ProcJoin(t)
      BY <1>1, <3>2 DEF ProcJoin
    <3> QED BY <1>5, <3>1, <3>2
  <2> QED BY <2>1, <2>2, PlacesStill
<1>6. CASE KsDisable(t)
  <2>1. /\ ~HeldSealed'
        /\ LowMayBe' <=> LowMayBe
        /\ HighMayBe' <=> HighMayBe
    BY <1>1, <1>6 DEF KsDisable
  <2>2. /\ OnlyTunHalves'
        /\ \A half \in Halves : HasRoute(half)' => HasRoute(half)
        /\ tun_gateway' = tun_gateway
    BY <1>6 DEF KsDisable, PlacesAgree, OnlyTunHalves, HasRoute, rmVars
  <2> QED BY <2>1, <2>2, PlacesMove
<1> QED BY <1>2, <1>3, <1>4, <1>5, <1>6 DEF TearDown
LEMMA PlacesDestroy ==
  ASSUME pc \in Labels, Handover, PlacesAgree, DestroyKs \/ CloseAdapter
  PROVE  PlacesAgree'
<1>1. /\ ~HeldSealed'
      /\ LowMayBe' <=> LowMayBe
      /\ HighMayBe' <=> HighMayBe
  <2> USE DEF Labels, Go, Call, After, AfterTeardown, Handover, HandlersExclusive,
        HeldSealed, LowMayBe, HighMayBe, ConnectedIdle, Alive, ConnectCalls,
        CloseCalls, DisconnectCalls, DestructorCalls, ctlVars
  <2>1. CASE DestroyKs
    BY <2>1 DEF DestroyKs
  <2>2. CASE CloseAdapter
    BY <2>2 DEF CloseAdapter
  <2> QED BY <2>1, <2>2
<1>2. /\ OnlyTunHalves'
      /\ \A half \in Halves : HasRoute(half)' => HasRoute(half)
      /\ tun_gateway' = tun_gateway
  BY DEF DestroyKs, CloseAdapter, PlacesAgree, OnlyTunHalves, HasRoute, rmVars
<1> QED BY <1>1, <1>2, PlacesMove

LEMMA PlacesAround ==
  ASSUME RmTypeOK, PlacesAgree,
         \/ Monitor \/ RecvExit \/ LoopExit \/ RequestStop \/ TorDies \/ Network
         \/ UNCHANGED vars
  PROVE  PlacesAgree'
<1>1. UNCHANGED <<pc, connected, wfp>>
  BY DEF Monitor, RecvExit, LoopExit, RequestStop, TorDies, Network, vars, ctlVars, ksVars
<1>2. /\ HeldSealed' => HeldSealed
      /\ LowMayBe' <=> LowMayBe
      /\ HighMayBe' <=> HighMayBe
  BY <1>1 DEF HeldSealed, LowMayBe, HighMayBe, ConnectedIdle
<1>3. HeldSealed' => Sealed'
  BY <1>1, <1>2 DEF PlacesAgree, Sealed, Blocked
<1>4. CASE Monitor
  BY <1>2, <1>3, <1>4, MonitorKeepsHalves, PlacesMove
     DEF Monitor, PlacesAgree, OnlyTunHalves
<1>5. CASE ~Monitor
  <2>1. Still
    BY <1>1, <1>5 DEF Still, RecvExit, LoopExit, RequestStop, TorDies, Network,
       TorConnects, TorDrops, Roam, vars, rmVars
  <2> QED BY <1>2, <2>1, PlacesStill
<1> QED BY <1>4, <1>5

LEMMA SealStep == Cooperative /\ SealInv /\ [Next]_vars => SealInv'
<1> SUFFICES ASSUME Cooperative, SealInv, [Next]_vars PROVE SealInv'
  OBVIOUS
<1>1. /\ TypeInv /\ Handover /\ PlacesAgree
      /\ pc \in Labels /\ RmTypeOK
  BY DEF SealInv, TypeInv, TypeOK
<1>2. TypeInv' /\ Handover'
  BY <1>1, TypeStep, HandoverStep
<1>3. PlacesAgree'
  BY <1>1, PlacesListen, PlacesWorker, PlacesConnect, PlacesTearDown, PlacesDestroy,
     PlacesAround
     DEF Next, WorkerStop, IpcOwnStep, Threads
<1> QED BY <1>2, <1>3 DEF SealInv

(* Every place that may see a half is a place that holds the filters.      *)
LEMMA PlacesSeal == PlacesAgree => SealedWhileTunnelled
  BY DEF PlacesAgree, SealedWhileTunnelled, Tunnelled, HeldSealed, LowMayBe, HighMayBe,
         ConnectCalls, CloseCalls, DisconnectCalls, Halves

(* No route leads into the adapter unless the block filters of both        *)
(* families are installed, on the handlers' way and on the teardown's,     *)
(* whatever the clients, the stop request, Tor and the network do, as long *)
(* as WFP does what it is asked and routes can be deleted                  *)
(* (service.cpp:254-277,308-317; route_manager.cpp:119-160).               *)
THEOREM SealedHolds ==
  ASSUME Cooperative
  PROVE  Spec => []SealedWhileTunnelled
<1>1. Init => SealInv
  BY TypeInit, HandoverInit, PlacesInit DEF SealInv
<1>2. SealInv /\ [Next]_vars => SealInv'
  BY SealStep
<1>3. SealInv => SealedWhileTunnelled
  BY PlacesSeal DEF SealInv
<1> QED BY <1>1, <1>2, <1>3, PTL DEF Spec

(* And the invariant itself, which the runs check too.                     *)
THEOREM PlacesHold ==
  ASSUME Cooperative
  PROVE  Spec => []PlacesAgree
<1>1. Init => SealInv
  BY TypeInit, HandoverInit, PlacesInit DEF SealInv
<1>2. SealInv /\ [Next]_vars => SealInv'
  BY SealStep
<1>3. SealInv => PlacesAgree
  BY DEF SealInv
<1> QED BY <1>1, <1>2, <1>3, PTL DEF Spec

-----------------------------------------------------------------------------
(* The kill switch, whatever WFP refuses.                                  *)

LEMMA FiltersInit == KsInit => FiltersTracked
  BY DEF KsInit, FiltersTracked, KsIdsLive, KsClosedIsClean

LEMMA FiltersStep == FiltersTracked /\ [KsNext]_ksVars => FiltersTracked'
<1> SUFFICES ASSUME FiltersTracked, [KsNext]_ksVars PROVE FiltersTracked'
  OBVIOUS
<1> USE DEF FiltersTracked, KsIdsLive, KsClosedIsClean
<1>1. CASE UNCHANGED ksVars
  BY <1>1 DEF ksVars
<1>2. CASE Enable /\ ~UNCHANGED ksVars
  <2>1. PICK a4 \in AddOutcomes(wfp) :
          /\ engine' = TRUE
          /\ filter_id' = IdAfter(a4, filter_id)
          /\ \/ a4.status = "filterError" /\ UNCHANGED <<filter_id_v6, active, wfp>>
             \/ \E a6 \in AddOutcomes(Installed(wfp, a4, "blockV4")) :
                  /\ filter_id_v6' = IdAfter(a6, filter_id_v6)
                  /\ wfp' = Installed(Installed(wfp, a4, "blockV4"), a6, "blockV6")
    BY <1>2 DEF Enable
  <2>2. CASE a4.status = "filterError" /\ UNCHANGED <<filter_id_v6, active, wfp>>
    BY <2>1, <2>2 DEF IdAfter
  <2>3. CASE ~(a4.status = "filterError" /\ UNCHANGED <<filter_id_v6, active, wfp>>)
    <3>1. PICK a6 \in AddOutcomes(Installed(wfp, a4, "blockV4")) :
            /\ filter_id_v6' = IdAfter(a6, filter_id_v6)
            /\ wfp' = Installed(Installed(wfp, a4, "blockV4"), a6, "blockV6")
      BY <2>1, <2>3
    <3>2. /\ wfp \subseteq wfp'
          /\ a4.status = "ok" => [id |-> a4.id, kind |-> "blockV4"] \in wfp'
          /\ a6.status = "ok" => [id |-> a6.id, kind |-> "blockV6"] \in wfp'
      BY <3>1 DEF Installed
    <3> QED BY <2>1, <3>1, <3>2 DEF IdAfter
  <2> QED BY <2>2, <2>3
<1>3. CASE AddTorPermitRule
  BY <1>3 DEF AddTorPermitRule, Installed
<1>4. CASE Disable /\ ~UNCHANGED ksVars
  BY <1>4 DEF Disable, CloseSession
<1> QED BY <1>1, <1>2, <1>3, <1>4 DEF KsNext

(* The kill switch alone, its methods called in any order: an id it holds  *)
(* names the filter it means, and a closed session has left nothing in WFP *)
(* (killswitch.cpp:17-108).                                                *)
THEOREM KillSwitchTracksFilters == KsSpec => []FiltersTracked
<1> QED BY FiltersInit, FiltersStep, PTL DEF KsSpec

(* The daemon touches WFP through those methods only.                      *)
LEMMA OnlyKsMethods == [Next]_vars => [KsNext]_ksVars
<1> SUFFICES ASSUME [Next]_vars PROVE [KsNext]_ksVars
  OBVIOUS
<1> USE DEF KsNext
<1>1. CASE WorkerStop \/ LaunchTor \/ SetUpTunnel
  BY <1>1 DEF WorkerStop, LaunchTor, SetUpTunnel, IpcStop, IpcWake, JoinIpc, StopTor,
     DestroyKs, CloseAdapter, TearDown, StopMonitor, JoinMonitorThread,
     RemoveTunRoutes, ProcStop, ProcJoin, KsDisable
<1>2. CASE IpcOwnStep
  BY <1>2 DEF IpcOwnStep, IpcLoopTop, IpcCreatePipe, IpcWoken, KsEnable, ProcStart,
     StartMonitor, AddTunRoutes, SetConnected, TearDown, StopMonitor,
     JoinMonitorThread, RemoveTunRoutes, ProcStop, ProcJoin, KsDisable
<1>3. CASE IpcClientStep
  BY <1>3 DEF IpcClientStep, IpcAccept, IpcConnect, IpcDisconnect, IpcTorQuery, IpcReply
<1>4. CASE \/ Monitor \/ RecvExit \/ LoopExit \/ RequestStop \/ TorDies \/ Network
           \/ UNCHANGED vars
  BY <1>4 DEF Monitor, RecvExit, LoopExit, RequestStop, TorDies, Network, vars
<1> QED BY <1>1, <1>2, <1>3, <1>4 DEF Next

(* So it holds of the daemon, whatever fails and whoever calls.            *)
THEOREM FiltersTrackedHolds == Spec => []FiltersTracked
<1>1. Init => FiltersTracked
  BY FiltersInit DEF Init
<1>2. FiltersTracked /\ [Next]_vars => FiltersTracked'
  BY FiltersStep, OnlyKsMethods
<1> QED BY <1>1, <1>2, PTL DEF Spec
-----------------------------------------------------------------------------
(* The monitor thread, whatever fails: it runs while monitoring_ is set,   *)
(* and once it is unset only a thread that joins it may still find it.     *)

Joins(t) == pc[t] = "joinMonitor"
MonitorGone == {"destroyKs", "closeAdapter", "returned"}

MonitorInv ==
  /\ monitoring => monitor = "running"
  /\ monitor # "none" => monitoring \/ \E t \in Threads : Joins(t)
  /\ \A t \in Threads : Joins(t) => ~monitoring
  /\ pc.worker \in MonitorGone => ~monitoring
  /\ bypassed # {} => monitor # "none"

LEMMA MonitorInit == Init => MonitorInv
  BY DEF Init, RmInit, MonitorInv, Joins, MonitorGone, Threads

(* Steps that neither touch the monitor nor come to a join, nor past it.   *)
LEMMA MonitorLeftAlone ==
  ASSUME MonitorInv,
         UNCHANGED <<monitoring, monitor, bypassed>>,
         \A t \in Threads : Joins(t)' <=> Joins(t),
         pc'.worker \in MonitorGone => pc.worker \in MonitorGone
  PROVE  MonitorInv'
  BY DEF MonitorInv, Joins

LEMMA MonitorListen ==
  ASSUME pc \in Labels, MonitorInv,
         IpcLoopTop \/ IpcCreatePipe \/ IpcWoken \/ IpcClientStep
  PROVE  MonitorInv'
<1>1. UNCHANGED <<monitoring, monitor, bypassed>>
  BY DEF IpcLoopTop, IpcCreatePipe, IpcWoken, IpcClientStep, IpcAccept, IpcConnect,
         IpcDisconnect, IpcTorQuery, IpcReply, rmVars
<1>2. /\ \A t \in Threads : Joins(t)' <=> Joins(t)
      /\ pc'.worker = pc.worker
  BY DEF IpcLoopTop, IpcCreatePipe, IpcWoken, IpcClientStep, IpcAccept, IpcConnect,
         IpcDisconnect, IpcTorQuery, IpcReply, Go, Joins, Threads, Labels
<1> QED BY <1>1, <1>2, MonitorLeftAlone

LEMMA MonitorWorker ==
  ASSUME pc \in Labels, Handover, MonitorInv,
         \/ LaunchTor \/ SetUpTunnel \/ IpcStop \/ IpcWake \/ JoinIpc
         \/ StopTor \/ DestroyKs \/ CloseAdapter
  PROVE  MonitorInv'
<1>1. UNCHANGED <<monitoring, monitor, bypassed>>
  BY DEF LaunchTor, SetUpTunnel, IpcStop, IpcWake, JoinIpc, StopTor, DestroyKs,
         CloseAdapter, rmVars
<1>2. /\ \A t \in Threads : Joins(t)' <=> Joins(t)
      /\ pc'.worker \in MonitorGone => pc.worker \in MonitorGone
  <2> USE DEF Go, Call, After, AfterTeardown, Joins, Threads, Labels, MonitorGone,
        Handover
  <2>1. CASE LaunchTor \/ IpcStop \/ IpcWake \/ JoinIpc
    BY <2>1 DEF LaunchTor, IpcStop, IpcWake, JoinIpc
  <2>2. CASE SetUpTunnel
    <3>1. CASE Go("worker", "launched", "failed")
      BY <3>1
    <3>2. CASE pc.worker = "launched" /\ pc' = [worker |-> "waiting", ipc |-> "loopTop"]
      BY <3>2
    <3> QED BY <2>2, <3>1, <3>2 DEF SetUpTunnel
  <2>3. CASE StopTor \/ DestroyKs \/ CloseAdapter
    BY <2>3 DEF StopTor, DestroyKs, CloseAdapter
  <2> QED BY <2>1, <2>2, <2>3
<1> QED BY <1>1, <1>2, MonitorLeftAlone

(* start_monitoring() is never called while a join is under way: a handler *)
(* makes both, and the worker joins when no handler runs.                  *)
LEMMA MonitorConnect ==
  ASSUME TypeInv, Handover, MonitorInv,
         KsEnable \/ ProcStart \/ StartMonitor \/ AddTunRoutes \/ SetConnected
  PROVE  MonitorInv'
<1>1. pc \in Labels /\ pc.worker \notin MonitorGone
  BY DEF TypeInv, TypeOK, KsEnable, ProcStart, StartMonitor, AddTunRoutes, SetConnected,
     Go, Call, Handover, HandlersExclusive, MonitorGone, DestructorCalls
<1>2. /\ \A t \in Threads : Joins(t)' <=> Joins(t)
      /\ pc'.worker = pc.worker
      /\ StartMonitor => \A t \in Threads : ~Joins(t)
  <2> USE <1>1 DEF Go, Call, After, AfterConnect, AfterDisconnect, ConnectCalls, Joins,
        Threads, Labels
  <2>1. CASE KsEnable \/ ProcStart
    BY <2>1 DEF KsEnable, ProcStart, StartMonitor
  <2>2. CASE AddTunRoutes \/ SetConnected
    BY <2>2 DEF AddTunRoutes, SetConnected, StartMonitor
  <2>3. CASE StartMonitor
    BY <2>3 DEF StartMonitor, Handover, HandlersExclusive, DestructorCalls
  <2> QED BY <2>1, <2>2, <2>3
<1>3. CASE StartMonitor
  BY <1>1, <1>2, <1>3 DEF StartMonitor, StartMonitoring, MonitorInv, Joins
<1>4. CASE ~StartMonitor
  <2>1. UNCHANGED <<monitoring, monitor, bypassed>>
    BY <1>4 DEF KsEnable, ProcStart, AddTunRoutes, AddHalf, SetConnected, rmVars
  <2> QED BY <1>2, <2>1, MonitorLeftAlone
<1> QED BY <1>3, <1>4

(* The way down: the flag is cleared on the way to the join, the thread is *)
(* gone behind it.                                                         *)
LEMMA MonitorTearDown ==
  ASSUME pc \in Labels, Handover, MonitorInv, NEW t \in Threads, TearDown(t)
  PROVE  MonitorInv'
<1> USE DEF Go, Call, After, AfterTeardown, AfterDisconnect, ConnectCalls, Threads, Labels
<1>1. CASE StopMonitor(t)
  <2>1. CASE monitoring
    <3>1. Go(t, "stopMonitor", "joinMonitor") /\ StopMonitoring
      BY <1>1, <2>1 DEF StopMonitor
    <3>2. Joins(t)'
      BY <3>1 DEF Joins
    <3> QED BY <2>1, <3>1, <3>2 DEF StopMonitoring, MonitorInv
  <2>2. CASE ~monitoring
    <3>1. /\ UNCHANGED <<monitoring, monitor, bypassed>>
          /\ Go(t, "stopMonitor", After(t, "joinMonitor"))
      BY <1>1, <2>2 DEF StopMonitor, rmVars
    <3>2. \A u \in Threads : Joins(u)' <=> Joins(u)
      BY <3>1 DEF Joins
    <3> QED BY <2>2, <3>1, <3>2 DEF MonitorInv
  <2> QED BY <2>1, <2>2
<1>2. CASE JoinMonitorThread(t)
  <2>1. /\ monitor' = "none" /\ bypassed' = {} /\ monitoring' = monitoring
        /\ Joins(t)
    BY <1>2 DEF JoinMonitorThread, JoinMonitor, Joins
  <2> QED BY <2>1 DEF MonitorInv
<1>3. CASE RemoveTunRoutes(t) \/ ProcStop(t) \/ ProcJoin(t) \/ KsDisable(t)
  <2>1. UNCHANGED <<monitoring, monitor, bypassed>>
    BY <1>3 DEF RemoveTunRoutes, RemoveHalf, ProcStop, ProcJoin, KsDisable, rmVars
  <2>2. /\ \A u \in Threads : Joins(u)' <=> Joins(u)
        /\ pc'.worker \in MonitorGone => pc.worker \in MonitorGone
    <3> USE DEF Joins, MonitorGone
    <3>1. CASE RemoveTunRoutes(t)
      BY <3>1 DEF RemoveTunRoutes
    <3>2. CASE ProcStop(t)
      BY <3>2 DEF ProcStop
    <3>3. CASE ProcJoin(t)
      BY <3>3 DEF ProcJoin
    <3>4. CASE KsDisable(t)
      BY <3>4 DEF KsDisable
    <3> QED BY <1>3, <3>1, <3>2, <3>3, <3>4
  <2> QED BY <2>1, <2>2, MonitorLeftAlone
<1> QED BY <1>1, <1>2, <1>3 DEF TearDown

LEMMA MonitorAround ==
  ASSUME MonitorInv,
         \/ Monitor \/ RecvExit \/ LoopExit \/ RequestStop \/ TorDies \/ Network
         \/ UNCHANGED vars
  PROVE  MonitorInv'
<1>1. UNCHANGED pc
  BY DEF Monitor, RecvExit, LoopExit, RequestStop, TorDies, Network, vars
<1>2. CASE Monitor
  BY <1>1, <1>2 DEF Monitor, MonitorLoop, MonitorScan, MonitorAdd, MonitorExit, MonitorInv,
     Joins
<1>3. CASE ~Monitor
  <2>1. UNCHANGED <<monitoring, monitor, bypassed>>
    BY <1>3 DEF RecvExit, LoopExit, RequestStop, TorDies, Network, TorConnects, TorDrops,
       Roam, vars, rmVars
  <2> QED BY <1>1, <2>1 DEF MonitorInv, Joins
<1> QED BY <1>2, <1>3

LEMMA MonitorStep == TypeInv /\ Handover /\ MonitorInv /\ [Next]_vars => MonitorInv'
<1> SUFFICES ASSUME TypeInv, Handover, MonitorInv, [Next]_vars PROVE MonitorInv'
  OBVIOUS
<1>1. pc \in Labels
  BY DEF TypeInv, TypeOK
<1> QED
  BY <1>1, MonitorListen, MonitorWorker, MonitorConnect, MonitorTearDown, MonitorAround
     DEF Next, WorkerStop, IpcOwnStep, Threads
-----------------------------------------------------------------------------
(* The processor, whatever fails: where running_ is set, and where the     *)
(* thread that answers may still be there.                                 *)

RunPlaces == {"startMonitor", "addLow", "addHigh", "setConnected", "stopMonitor",
              "joinMonitor", "clearConnected", "removeLow", "removeHigh", "procStop"}

ProcOn ==
  \/ ConnectedIdle
  \/ pc.ipc \in RunPlaces
  \/ pc.worker \in {"removeLow", "removeHigh", "procStop"}

ProcJoining == pc.ipc = "procJoin" \/ pc.worker = "procJoin"

ProcInv ==
  /\ procRunning <=> ProcOn
  /\ procRunning => recvThread = "running" /\ procLoops > 0
  /\ recvThread # "none" => ProcOn \/ ProcJoining

LEMMA ProcInit == Init => ProcInv
  BY DEF Init, ProcInv, ProcOn, ProcJoining, RunPlaces, ConnectedIdle

LEMMA ProcLeftAlone ==
  ASSUME ProcInv, UNCHANGED procVars,
         ProcOn' <=> ProcOn,
         ProcJoining' <=> ProcJoining
  PROVE  ProcInv'
  BY DEF ProcInv, procVars

LEMMA ProcListen ==
  ASSUME pc \in Labels, Handover, ProcInv,
         IpcLoopTop \/ IpcCreatePipe \/ IpcWoken \/ IpcClientStep
  PROVE  ProcInv'
<1>1. UNCHANGED procVars
  BY DEF IpcLoopTop, IpcCreatePipe, IpcWoken, IpcClientStep, IpcAccept, IpcConnect,
         IpcDisconnect, IpcTorQuery, IpcReply, procVars
<1>2. /\ ProcOn' <=> ProcOn
      /\ ProcJoining' <=> ProcJoining
  <2> USE DEF Labels, Go, Handover, HandlersExclusive, ProcOn, ProcJoining, RunPlaces,
        ConnectedIdle, Alive, ConnectCalls, CloseCalls, DisconnectCalls,
        DestructorCalls, ClientWaits, ctlVars
  <2>1. CASE IpcLoopTop \/ IpcCreatePipe \/ IpcWoken
    BY <2>1 DEF IpcLoopTop, IpcCreatePipe, IpcWoken
  <2>2. CASE IpcAccept \/ IpcConnect
    BY <2>2 DEF IpcAccept, IpcConnect
  <2>3. CASE IpcDisconnect
    BY <2>3 DEF IpcDisconnect
  <2>4. CASE IpcTorQuery \/ IpcReply
    BY <2>4 DEF IpcTorQuery, IpcReply
  <2> QED BY <2>1, <2>2, <2>3, <2>4 DEF IpcClientStep
<1> QED BY <1>1, <1>2, ProcLeftAlone

LEMMA ProcWorker ==
  ASSUME pc \in Labels, Handover, ProcInv,
         \/ LaunchTor \/ SetUpTunnel \/ IpcStop \/ IpcWake \/ JoinIpc
         \/ StopTor \/ DestroyKs \/ CloseAdapter
  PROVE  ProcInv'
<1>1. UNCHANGED procVars
  BY DEF LaunchTor, SetUpTunnel, IpcStop, IpcWake, JoinIpc, StopTor, DestroyKs,
         CloseAdapter, procVars
<1>2. /\ ProcOn' <=> ProcOn
      /\ ProcJoining' <=> ProcJoining
  <2> USE DEF Labels, Go, Call, After, AfterTeardown, Handover, HandlersExclusive,
        ProcOn, ProcJoining, RunPlaces, ConnectedIdle, Alive, ConnectCalls,
        CloseCalls, DestructorCalls, ctlVars
  <2>1. CASE LaunchTor
    BY <2>1 DEF LaunchTor
  <2>2. CASE SetUpTunnel
    <3>1. CASE Go("worker", "launched", "failed") /\ UNCHANGED connected
      BY <3>1
    <3>2. CASE /\ pc.worker = "launched"
               /\ pc' = [worker |-> "waiting", ipc |-> "loopTop"]
               /\ UNCHANGED connected
      BY <3>2
    <3> QED BY <2>2, <3>1, <3>2 DEF SetUpTunnel
  <2>3. CASE IpcStop \/ IpcWake
    BY <2>3 DEF IpcStop, IpcWake
  <2>4. CASE JoinIpc
    BY <2>4 DEF JoinIpc
  <2>5. CASE StopTor \/ DestroyKs \/ CloseAdapter
    BY <2>5 DEF StopTor, DestroyKs, CloseAdapter
  <2> QED BY <2>1, <2>2, <2>3, <2>4, <2>5
<1> QED BY <1>1, <1>2, ProcLeftAlone

LEMMA ProcConnect ==
  ASSUME TypeInv, Handover, ProcInv,
         KsEnable \/ ProcStart \/ StartMonitor \/ AddTunRoutes \/ SetConnected
  PROVE  ProcInv'
<1> USE DEF Labels, Go, Call, After, AfterConnect, AfterDisconnect, Handover,
      HandlersExclusive, ProcOn, ProcJoining, RunPlaces, ConnectedIdle, Alive,
      ConnectCalls, CloseCalls, DisconnectCalls, DestructorCalls, ctlVars
<1>1. pc \in Labels /\ procLoops \in Nat
  BY DEF TypeInv, TypeOK
<1>2. CASE ProcStart
  <2>1. ProcOn'
    BY <1>1, <1>2 DEF ProcStart
  <2>2. procRunning' = TRUE /\ recvThread' = "running" /\ procLoops' > 0
    BY <1>1, <1>2 DEF ProcStart
  <2> QED BY <2>1, <2>2 DEF ProcInv
<1>3. CASE KsEnable
  <2>1. /\ ProcOn' <=> ProcOn
        /\ ProcJoining' <=> ProcJoining
    BY <1>1, <1>3 DEF KsEnable
  <2> QED BY <1>3, <2>1, ProcLeftAlone DEF KsEnable, procVars
<1>4. CASE StartMonitor
  <2>1. /\ ProcOn' <=> ProcOn
        /\ ProcJoining' <=> ProcJoining
    BY <1>1, <1>4 DEF StartMonitor
  <2> QED BY <1>4, <2>1, ProcLeftAlone DEF StartMonitor, procVars
<1>5. CASE AddTunRoutes
  <2>1. /\ ProcOn' <=> ProcOn
        /\ ProcJoining' <=> ProcJoining
    BY <1>1, <1>5 DEF AddTunRoutes
  <2> QED BY <1>5, <2>1, ProcLeftAlone DEF AddTunRoutes, procVars
<1>6. CASE SetConnected
  <2>1. /\ ProcOn' <=> ProcOn
        /\ ProcJoining' <=> ProcJoining
    BY <1>1, <1>6 DEF SetConnected
  <2> QED BY <1>6, <2>1, ProcLeftAlone DEF SetConnected, procVars
<1> QED BY <1>2, <1>3, <1>4, <1>5, <1>6

LEMMA ProcTearDown ==
  ASSUME pc \in Labels, Handover, ProcInv, NEW t \in Threads, TearDown(t)
  PROVE  ProcInv'
<1> USE DEF Labels, Go, Call, After, AfterTeardown, AfterDisconnect, Handover,
      HandlersExclusive, ProcOn, ProcJoining, RunPlaces, ConnectedIdle, Alive,
      ConnectCalls, CloseCalls, DisconnectCalls, DestructorCalls, ctlVars, Threads
<1>1. CASE StopMonitor(t)
  <2>1. /\ ProcOn' <=> ProcOn
        /\ ProcJoining' <=> ProcJoining
    BY <1>1 DEF StopMonitor
  <2> QED BY <1>1, <2>1, ProcLeftAlone DEF StopMonitor, procVars
<1>2. CASE JoinMonitorThread(t)
  <2>1. /\ ProcOn' <=> ProcOn
        /\ ProcJoining' <=> ProcJoining
    BY <1>2 DEF JoinMonitorThread
  <2> QED BY <1>2, <2>1, ProcLeftAlone DEF JoinMonitorThread, procVars
<1>3. CASE RemoveTunRoutes(t)
  <2>1. /\ ProcOn' <=> ProcOn
        /\ ProcJoining' <=> ProcJoining
    BY <1>3 DEF RemoveTunRoutes
  <2> QED BY <1>3, <2>1, ProcLeftAlone DEF RemoveTunRoutes, procVars
<1>4. CASE ProcStop(t)
  <2>1. ~ProcOn' /\ ProcJoining'
    BY <1>4 DEF ProcStop
  <2> QED BY <1>4, <2>1 DEF ProcStop, ProcInv
<1>5. CASE ProcJoin(t)
  <2>1. ~ProcOn /\ ~ProcOn'
    BY <1>5 DEF ProcJoin
  <2> QED BY <1>5, <2>1 DEF ProcJoin, ProcInv
<1>6. CASE KsDisable(t)
  <2>1. /\ ProcOn' <=> ProcOn
        /\ ProcJoining' <=> ProcJoining
    BY <1>6 DEF KsDisable
  <2> QED BY <1>6, <2>1, ProcLeftAlone DEF KsDisable, procVars
<1> QED BY <1>1, <1>2, <1>3, <1>4, <1>5, <1>6 DEF TearDown

LEMMA ProcAround ==
  ASSUME ProcInv,
         \/ Monitor \/ RecvExit \/ LoopExit \/ RequestStop \/ TorDies \/ Network
         \/ UNCHANGED vars
  PROVE  ProcInv'
<1>1. UNCHANGED <<pc, connected>>
  BY DEF Monitor, RecvExit, LoopExit, RequestStop, TorDies, Network, vars, ctlVars
<1>2. /\ ProcOn' <=> ProcOn
      /\ ProcJoining' <=> ProcJoining
  BY <1>1 DEF ProcOn, ProcJoining, ConnectedIdle
<1>3. CASE RecvExit
  BY <1>2, <1>3 DEF RecvExit, ProcInv
<1>4. CASE LoopExit
  BY <1>2, <1>4 DEF LoopExit, ProcInv
<1>5. CASE Monitor \/ RequestStop \/ TorDies \/ Network \/ UNCHANGED vars
  <2>1. UNCHANGED procVars
    BY <1>5 DEF Monitor, RequestStop, TorDies, Network, vars, procVars
  <2> QED BY <1>2, <2>1, ProcLeftAlone
<1> QED BY <1>3, <1>4, <1>5

LEMMA ProcStep == TypeInv /\ Handover /\ ProcInv /\ [Next]_vars => ProcInv'
<1> SUFFICES ASSUME TypeInv, Handover, ProcInv, [Next]_vars PROVE ProcInv'
  OBVIOUS
<1>1. pc \in Labels
  BY DEF TypeInv, TypeOK
<1> QED
  BY <1>1, ProcListen, ProcWorker, ProcConnect, ProcTearDown, ProcAround
     DEF Next, WorkerStop, IpcOwnStep, Threads

(* What holds of the threads whatever fails.                               *)
ThreadsInv == TypeInv /\ Handover /\ MonitorInv /\ ProcInv

LEMMA ThreadsInit == Init => ThreadsInv
  BY TypeInit, HandoverInit, MonitorInit, ProcInit DEF ThreadsInv

LEMMA ThreadsStep == ThreadsInv /\ [Next]_vars => ThreadsInv'
  BY TypeStep, HandoverStep, MonitorStep, ProcStep DEF ThreadsInv

LEMMA ThreadsKept == ThreadsInv => NoThreadOverwritten
<1> SUFFICES ASSUME ThreadsInv PROVE NoThreadOverwritten
  OBVIOUS
<1>1. TypeInv /\ Handover /\ MonitorInv /\ ProcInv /\ pc \in Labels
  BY DEF ThreadsInv, TypeInv, TypeOK
<1> USE DEF Handover, HandlersExclusive, ConnectCalls, CloseCalls, DestructorCalls
<1>2. pc.ipc = "procStart" \/ pc.worker = "closeAdapter" => recvThread = "none"
  BY <1>1 DEF ProcInv, ProcOn, ProcJoining, RunPlaces, ConnectedIdle, Alive
<1>3. pc.ipc = "startMonitor" /\ ~monitoring => monitor = "none"
  BY <1>1 DEF MonitorInv, Joins, Threads
<1>4. pc.worker = "closeAdapter" => monitor = "none"
  BY <1>1 DEF MonitorInv, Joins, Threads, MonitorGone
<1> QED BY <1>2, <1>3, <1>4 DEF NoThreadOverwritten

(* No std::thread object is assigned to or destroyed while its thread has  *)
(* not been joined, whatever fails and however commands, stop requests and *)
(* the threads' own ends interleave (packet_processor.cpp:17-28,           *)
(* route_manager.cpp:41-68).                                               *)
THEOREM NoThreadOverwrittenHolds == Spec => []NoThreadOverwritten
<1> QED BY ThreadsInit, ThreadsStep, ThreadsKept, PTL DEF Spec
-----------------------------------------------------------------------------
(* What else holds when the platform cooperates: the filters are installed *)
(* only where the code means to hold them.                                 *)

FiltersHeld == wfp # {} => HeldSealed

LEMMA FiltersHeldInit == Init => FiltersHeld
  BY DEF Init, KsInit, FiltersHeld

(* disable() that nothing refuses leaves no filter.                        *)
LEMMA DisableLifts == KsFaults = {} /\ FiltersTracked /\ Disable => wfp' = {}
  BY DEF Disable, FiltersTracked, KsClosedIsClean, CloseSession, ksVars

LEMMA HeldListen ==
  ASSUME pc \in Labels, Handover, FiltersHeld,
         IpcLoopTop \/ IpcCreatePipe \/ IpcWoken \/ IpcClientStep
  PROVE  FiltersHeld'
<1>1. UNCHANGED wfp
  BY DEF IpcLoopTop, IpcCreatePipe, IpcWoken, IpcClientStep, IpcAccept, IpcConnect,
         IpcDisconnect, IpcTorQuery, IpcReply, ksVars
<1>2. HeldSealed => HeldSealed'
  <2> USE DEF Labels, Go, Handover, HandlersExclusive, HeldSealed, ConnectedIdle, Alive,
        ConnectCalls, CloseCalls, DisconnectCalls, DestructorCalls, ClientWaits, ctlVars
  <2>1. CASE IpcLoopTop \/ IpcCreatePipe \/ IpcWoken
    BY <2>1 DEF IpcLoopTop, IpcCreatePipe, IpcWoken
  <2>2. CASE IpcAccept \/ IpcConnect
    BY <2>2 DEF IpcAccept, IpcConnect
  <2>3. CASE IpcDisconnect
    BY <2>3 DEF IpcDisconnect
  <2>4. CASE IpcTorQuery \/ IpcReply
    BY <2>4 DEF IpcTorQuery, IpcReply
  <2> QED BY <2>1, <2>2, <2>3, <2>4 DEF IpcClientStep
<1> QED BY <1>1, <1>2 DEF FiltersHeld

LEMMA HeldWorker ==
  ASSUME KsFaults = {}, FiltersTracked, pc \in Labels, Handover, FiltersHeld,
         \/ LaunchTor \/ SetUpTunnel \/ IpcStop \/ IpcWake \/ JoinIpc
         \/ StopTor \/ DestroyKs \/ CloseAdapter
  PROVE  FiltersHeld'
<1>1. CASE DestroyKs
  BY <1>1, DisableLifts DEF DestroyKs, FiltersHeld
<1>2. CASE ~DestroyKs
  <2>1. UNCHANGED wfp
    BY <1>2 DEF LaunchTor, SetUpTunnel, IpcStop, IpcWake, JoinIpc, StopTor, CloseAdapter,
       ksVars
  <2>2. HeldSealed => HeldSealed'
    <3> USE DEF Labels, Go, Call, After, AfterTeardown, Handover, HandlersExclusive,
          HeldSealed, ConnectedIdle, Alive, ConnectCalls, CloseCalls, DisconnectCalls,
          DestructorCalls, ctlVars
    <3>1. CASE LaunchTor
      BY <3>1 DEF LaunchTor
    <3>2. CASE SetUpTunnel
      <4>1. CASE Go("worker", "launched", "failed") /\ UNCHANGED connected
        BY <4>1
      <4>2. CASE /\ pc.worker = "launched"
                 /\ pc' = [worker |-> "waiting", ipc |-> "loopTop"]
                 /\ UNCHANGED connected
        BY <4>2
      <4> QED BY <3>2, <4>1, <4>2 DEF SetUpTunnel
    <3>3. CASE IpcStop \/ IpcWake
      BY <3>3 DEF IpcStop, IpcWake
    <3>4. CASE JoinIpc
      BY <3>4 DEF JoinIpc
    <3>5. CASE StopTor \/ CloseAdapter
      BY <3>5 DEF StopTor, CloseAdapter
    <3> QED BY <1>2, <3>1, <3>2, <3>3, <3>4, <3>5
  <2> QED BY <2>1, <2>2 DEF FiltersHeld
<1> QED BY <1>1, <1>2

LEMMA HeldConnect ==
  ASSUME pc \in Labels, Handover, FiltersHeld,
         KsEnable \/ ProcStart \/ StartMonitor \/ AddTunRoutes \/ SetConnected
  PROVE  FiltersHeld'
<1> USE DEF Labels, Go, Call, After, AfterConnect, AfterDisconnect, Handover,
      HandlersExclusive, HeldSealed, ConnectedIdle, Alive, ConnectCalls, CloseCalls,
      DisconnectCalls, DestructorCalls
<1>1. CASE KsEnable \/ ProcStart
  BY <1>1 DEF KsEnable, ProcStart, FiltersHeld
<1>2. CASE StartMonitor \/ AddTunRoutes
  BY <1>2 DEF StartMonitor, AddTunRoutes, FiltersHeld
<1>3. CASE SetConnected
  BY <1>3 DEF SetConnected, FiltersHeld
<1> QED BY <1>1, <1>2, <1>3

LEMMA HeldTearDown ==
  ASSUME KsFaults = {}, FiltersTracked, pc \in Labels, Handover, FiltersHeld,
         NEW t \in Threads, TearDown(t)
  PROVE  FiltersHeld'
<1>1. CASE KsDisable(t)
  BY <1>1, DisableLifts DEF KsDisable, FiltersHeld
<1>2. CASE ~KsDisable(t)
  <2>1. UNCHANGED wfp
    BY <1>2 DEF TearDown, StopMonitor, JoinMonitorThread, RemoveTunRoutes, ProcStop,
       ProcJoin, ksVars
  <2>2. HeldSealed => HeldSealed'
    <3> USE DEF Labels, Go, Call, After, AfterTeardown, AfterDisconnect, Handover,
          HandlersExclusive, HeldSealed, ConnectedIdle, Alive, ConnectCalls, CloseCalls,
          DisconnectCalls, DestructorCalls, ctlVars, Threads
    <3>1. CASE StopMonitor(t)
      BY <3>1 DEF StopMonitor
    <3>2. CASE JoinMonitorThread(t)
      BY <3>2 DEF JoinMonitorThread
    <3>3. CASE RemoveTunRoutes(t)
      BY <3>3 DEF RemoveTunRoutes
    <3>4. CASE ProcStop(t)
      BY <3>4 DEF ProcStop
    <3>5. CASE ProcJoin(t)
      BY <3>5 DEF ProcJoin
    <3> QED BY <1>2, <3>1, <3>2, <3>3, <3>4, <3>5 DEF TearDown
  <2> QED BY <2>1, <2>2 DEF FiltersHeld
<1> QED BY <1>1, <1>2

LEMMA HeldStep ==
  KsFaults = {} /\ TypeInv /\ Handover /\ FiltersTracked /\ FiltersHeld /\ [Next]_vars
    => FiltersHeld'
<1> SUFFICES ASSUME KsFaults = {}, TypeInv, Handover, FiltersTracked, FiltersHeld,
                    [Next]_vars
             PROVE  FiltersHeld'
  OBVIOUS
<1>1. pc \in Labels
  BY DEF TypeInv, TypeOK
<1>2. CASE \/ Monitor \/ RecvExit \/ LoopExit \/ RequestStop \/ TorDies \/ Network
           \/ UNCHANGED vars
  BY <1>2 DEF Monitor, RecvExit, LoopExit, RequestStop, TorDies, Network, vars, ctlVars,
     ksVars, FiltersHeld, HeldSealed, ConnectedIdle
<1> QED
  BY <1>1, <1>2, HeldListen, HeldWorker, HeldConnect, HeldTearDown
     DEF Next, WorkerStop, IpcOwnStep, Threads

-----------------------------------------------------------------------------
(* The routes around the tunnel: the gateway the monitor adds them through *)
(* was looked up while no half led into the adapter.                       *)

GatewayInv == BypassLeadsOut /\ (monitor = "running" => gateway \in PhysGateways)

LEMMA GatewayInit == Init => GatewayInv
  BY DEF Init, RmInit, GatewayInv, BypassLeadsOut

(* Steps that start no monitor and add no host route.                      *)
LEMMA GatewayLeftAlone ==
  ASSUME GatewayInv,
         gateway' = gateway,
         monitor' = "running" => monitor = "running",
         \A r \in routes' : r \in routes \/ r.dst \in Halves
  PROVE  GatewayInv'
  BY DEF GatewayInv, BypassLeadsOut

LEMMA GatewayStart ==
  ASSUME TypeInv, Handover, MonitorInv, PlacesAgree, GatewayInv, StartMonitor
  PROVE  GatewayInv'
<1>1. /\ pc \in Labels
      /\ physical \in PhysGateways \cup {NoGw}
  BY DEF TypeInv, TypeOK, RmTypeOK
<1>2. pc.ipc = "startMonitor" /\ StartMonitoring
  BY DEF StartMonitor, Call, Go
<1>3. ~LowMayBe
  BY <1>1, <1>2 DEF LowMayBe, ConnectedIdle, Handover, HandlersExclusive, ConnectCalls,
     CloseCalls
<1>4. NextHops = {physical}
  BY <1>3 DEF NextHops, PlacesAgree
<1>5. routes' = routes
  BY <1>2 DEF StartMonitoring
<1>6. CASE monitoring
  BY <1>2, <1>5, <1>6, GatewayLeftAlone DEF StartMonitoring
<1>7. CASE ~monitoring
  <2>1. monitor = "none"
    BY <1>1, <1>2, <1>7
       DEF MonitorInv, Joins, Threads, Handover, HandlersExclusive, DestructorCalls
  <2>2. gateway' \in PhysGateways \cup {NoGw}
    BY <1>1, <1>2, <1>4, <1>7 DEF StartMonitoring
  <2>3. gateway' = NoGw => monitor' = "none"
    BY <1>2, <1>7, <2>1 DEF StartMonitoring
  <2> QED BY <1>5, <2>2, <2>3 DEF GatewayInv, BypassLeadsOut
<1> QED BY <1>6, <1>7

LEMMA GatewayMonitor == ASSUME GatewayInv, MonitorLoop PROVE GatewayInv'
<1>1. CASE MonitorScan \/ MonitorExit
  BY <1>1, GatewayLeftAlone DEF MonitorScan, MonitorExit
<1>2. CASE MonitorAdd
  <2>1. PICK g \in snapshot :
          /\ monitor = "running"
          /\ routes' \in {routes, routes \cup {To(g, gateway)}}
          /\ UNCHANGED <<monitor, gateway>>
    BY <1>2 DEF MonitorAdd
  <2> QED BY <2>1 DEF GatewayInv, BypassLeadsOut, To
<1> QED BY <1>1, <1>2 DEF MonitorLoop

LEMMA GatewayStep ==
  TypeInv /\ Handover /\ MonitorInv /\ PlacesAgree /\ GatewayInv /\ [Next]_vars
    => GatewayInv'
<1> SUFFICES ASSUME TypeInv, Handover, MonitorInv, PlacesAgree, GatewayInv, [Next]_vars
             PROVE  GatewayInv'
  OBVIOUS
<1>1. CASE StartMonitor
  BY <1>1, GatewayStart
<1>2. CASE Monitor
  BY <1>2, GatewayMonitor DEF Monitor
<1>3. CASE AddTunRoutes
  BY <1>3, GatewayLeftAlone DEF AddTunRoutes, AddHalf, To, Halves
<1>4. CASE \E t \in Threads : TearDown(t)
  <2>1. PICK t \in Threads : TearDown(t)
    BY <1>4
  <2>2. CASE StopMonitor(t)
    BY <2>2, GatewayLeftAlone DEF StopMonitor, StopMonitoring, rmVars
  <2>3. CASE JoinMonitorThread(t)
    BY <2>3, GatewayLeftAlone DEF JoinMonitorThread, JoinMonitor
  <2>4. CASE RemoveTunRoutes(t)
    BY <2>4, GatewayLeftAlone DEF RemoveTunRoutes, RemoveHalf
  <2>5. CASE ProcStop(t) \/ ProcJoin(t) \/ KsDisable(t)
    BY <2>5, GatewayLeftAlone DEF ProcStop, ProcJoin, KsDisable, rmVars
  <2> QED BY <2>1, <2>2, <2>3, <2>4, <2>5 DEF TearDown
<1>5. CASE CloseAdapter
  BY <1>5, GatewayLeftAlone DEF CloseAdapter
<1>6. CASE \/ LaunchTor \/ SetUpTunnel \/ IpcStop \/ IpcWake \/ JoinIpc \/ StopTor
           \/ DestroyKs \/ RecvExit \/ LoopExit \/ RequestStop \/ TorDies \/ Network
           \/ UNCHANGED vars
  <2>1. UNCHANGED <<gateway, monitor, routes>>
    BY <1>6 DEF LaunchTor, SetUpTunnel, IpcStop, IpcWake, JoinIpc, StopTor, DestroyKs,
       RecvExit, LoopExit, RequestStop, TorDies, Network, TorConnects, TorDrops, Roam,
       vars, rmVars
  <2> QED BY <2>1, GatewayLeftAlone
<1>7. CASE \/ IpcLoopTop \/ IpcCreatePipe \/ IpcWoken \/ IpcClientStep
           \/ KsEnable \/ ProcStart \/ SetConnected
  <2>1. UNCHANGED <<gateway, monitor, routes>>
    BY <1>7 DEF IpcLoopTop, IpcCreatePipe, IpcWoken, IpcClientStep, IpcAccept,
       IpcConnect, IpcDisconnect, IpcTorQuery, IpcReply, KsEnable, ProcStart,
       SetConnected, rmVars
  <2> QED BY <2>1, GatewayLeftAlone
<1> QED
  BY <1>1, <1>2, <1>3, <1>4, <1>5, <1>6, <1>7 DEF Next, WorkerStop, IpcOwnStep, Threads

-----------------------------------------------------------------------------
(* The invariant of one run on a platform that cooperates.                 *)

RunInv ==
  ThreadsInv /\ PlacesAgree /\ FiltersTracked /\ FiltersHeld /\ GatewayInv

LEMMA RunInit == Init => RunInv
<1>1. Init => FiltersTracked
  BY FiltersInit DEF Init
<1> QED BY <1>1, ThreadsInit, PlacesInit, FiltersHeldInit, GatewayInit DEF RunInv

LEMMA RunStep == Cooperative /\ RunInv /\ [Next]_vars => RunInv'
<1> SUFFICES ASSUME Cooperative, RunInv, [Next]_vars PROVE RunInv'
  OBVIOUS
<1>1. /\ TypeInv /\ Handover /\ MonitorInv /\ ThreadsInv
      /\ SealInv /\ PlacesAgree /\ FiltersTracked /\ FiltersHeld /\ GatewayInv
  BY DEF RunInv, ThreadsInv, SealInv
<1>2. ThreadsInv' /\ FiltersTracked'
  BY <1>1, ThreadsStep, FiltersStep, OnlyKsMethods
<1>3. PlacesAgree'
  BY <1>1, SealStep DEF SealInv
<1>4. FiltersHeld' /\ GatewayInv'
  BY <1>1, HeldStep, GatewayStep DEF Cooperative
<1> QED BY <1>2, <1>3, <1>4 DEF RunInv

LEMMA RunIdle == RunInv => IdleConsistent
<1> SUFFICES ASSUME RunInv,
                    pc.worker = "waiting",
                    pc.ipc \in {"loopTop", "createPipe"} \cup ClientWaits
             PROVE  /\ connected = procRunning
                    /\ recvThread = IF connected THEN "running" ELSE "none"
                    /\ connected => procLoops > 0
                    /\ connected = Sealed
  BY DEF IdleConsistent
<1>1. /\ connected \in BOOLEAN /\ procRunning \in BOOLEAN
      /\ ProcInv /\ PlacesAgree /\ FiltersHeld
  BY DEF RunInv, ThreadsInv, TypeInv, TypeOK
<1>2. /\ connected <=> ProcOn
      /\ connected <=> HeldSealed
      /\ ~ProcJoining
  BY DEF ProcOn, HeldSealed, ProcJoining, ConnectedIdle, Alive, RunPlaces, ClientWaits,
         ConnectCalls, DisconnectCalls, CloseCalls
<1>3. HeldSealed <=> Sealed
  BY <1>1 DEF PlacesAgree, FiltersHeld, Sealed, Blocked
<1>4. Sealed \in BOOLEAN
  BY DEF Sealed, Blocked
<1>5. connected = procRunning /\ connected = Sealed
  BY <1>1, <1>2, <1>3, <1>4 DEF ProcInv
<1> QED BY <1>1, <1>2, <1>5 DEF ProcInv

(* Between two commands the flag the handlers share, the processor and its *)
(* threads and the filters all say the same of the tunnel, also when       *)
(* routes are refused or the machine roams (service.cpp:254-277).          *)
THEOREM IdleConsistentHolds ==
  ASSUME Cooperative
  PROVE  Spec => []IdleConsistent
<1>1. RunInv /\ [Next]_vars => RunInv'
  BY RunStep
<1> QED BY <1>1, RunInit, RunIdle, PTL DEF Spec

(* No host route ever leads back into the adapter: the gateway is looked   *)
(* up while no half of the address space does, and is kept                 *)
(* (route_manager.cpp:32-54,70-80; service.cpp:261-262).                   *)
THEOREM BypassLeadsOutHolds ==
  ASSUME Cooperative
  PROVE  Spec => []BypassLeadsOut
<1>1. RunInv /\ [Next]_vars => RunInv'
  BY RunStep
<1>2. RunInv => BypassLeadsOut
  BY DEF RunInv, GatewayInv
<1> QED BY <1>1, <1>2, RunInit, PTL DEF Spec
-----------------------------------------------------------------------------
(* The daemon implements the two specifications it is seen through: Worker *)
(* for whoever starts and stops it, whatever fails, and Tunnel, as far as  *)
(* safety goes, for the machine's traffic when the platform does what it   *)
(* is asked.                                                               *)

-----------------------------------------------------------------------------
(* Worker.                                                                 *)

LEMMA WorkerInitially == Init => W!WorkerInit
  BY DEF Init, W!WorkerInit, WorkerPhase

(* A step of another thread, unless it sets the stop event, is none of     *)
(* Worker's.                                                               *)
LEMMA WorkerStutters ==
  ASSUME UNCHANGED <<pc.worker, stopEvent>>
  PROVE  UNCHANGED W!workerVars
  BY DEF W!workerVars, WorkerPhase

LEMMA WorkerStepSimulated ==
  ASSUME pc \in Labels, Next
  PROVE  [W!WorkerNext]_W!workerVars
<1> USE DEF Labels, Go, Call, W!WorkerNext, W!workerVars, WorkerPhase
<1>1. CASE LaunchTor
  BY <1>1 DEF LaunchTor, ctlVars, W!StartUp
<1>2. CASE SetUpTunnel
  <2>1. CASE Go("worker", "launched", "failed")
    BY <1>2, <2>1 DEF SetUpTunnel, W!StartUp
  <2>2. CASE pc.worker = "launched" /\ pc' = [worker |-> "waiting", ipc |-> "loopTop"]
    BY <1>2, <2>2 DEF SetUpTunnel, W!StartUp
  <2> QED BY <1>2, <2>1, <2>2 DEF SetUpTunnel
<1>3. CASE IpcStop
  BY <1>3 DEF IpcStop, W!SeeStop
<1>4. CASE IpcWake \/ JoinIpc
  BY <1>4 DEF IpcWake, JoinIpc, ctlVars
<1>5. CASE StopTor \/ DestroyKs
  BY <1>5 DEF StopTor, DestroyKs, ctlVars, After, AfterTeardown
<1>6. CASE CloseAdapter
  BY <1>6 DEF CloseAdapter, ctlVars, After, AfterTeardown, W!End
<1>7. CASE TearDown("worker")
  <2> USE DEF After, AfterTeardown, ctlVars
  <2>1. CASE StopMonitor("worker")
    BY <2>1 DEF StopMonitor
  <2>2. CASE JoinMonitorThread("worker") \/ RemoveTunRoutes("worker")
    BY <2>2 DEF JoinMonitorThread, RemoveTunRoutes
  <2>3. CASE ProcStop("worker") \/ ProcJoin("worker") \/ KsDisable("worker")
    BY <2>3 DEF ProcStop, ProcJoin, KsDisable
  <2> QED BY <1>7, <2>1, <2>2, <2>3 DEF TearDown
<1>8. CASE RequestStop
  BY <1>8 DEF RequestStop, W!SetStop
<1>9. CASE IpcOwnStep \/ IpcClientStep
  <2>1. stopEvent' = stopEvent
    BY <1>9 DEF IpcOwnStep, IpcLoopTop, IpcCreatePipe, IpcWoken, KsEnable, ProcStart,
       StartMonitor, AddTunRoutes, SetConnected, TearDown, StopMonitor,
       JoinMonitorThread, RemoveTunRoutes, ProcStop, ProcJoin, KsDisable,
       IpcClientStep, IpcAccept, IpcConnect, IpcDisconnect, IpcTorQuery, IpcReply,
       ctlVars
  <2>2. \E label : pc' = [pc EXCEPT !["ipc"] = label]
    BY <1>9 DEF IpcOwnStep, IpcLoopTop, IpcCreatePipe, IpcWoken, KsEnable, ProcStart,
       StartMonitor, AddTunRoutes, SetConnected, TearDown, StopMonitor,
       JoinMonitorThread, RemoveTunRoutes, ProcStop, ProcJoin, KsDisable,
       IpcClientStep, IpcAccept, IpcConnect, IpcDisconnect, IpcTorQuery, IpcReply
  <2>3. pc'.worker = pc.worker
    BY <2>2
  <2> QED BY <2>1, <2>3, WorkerStutters
<1>10. CASE Monitor \/ RecvExit \/ LoopExit \/ TorDies \/ Network
  <2>1. UNCHANGED <<pc, stopEvent>>
    BY <1>10 DEF Monitor, RecvExit, LoopExit, TorDies, Network, ctlVars
  <2> QED BY <2>1, WorkerStutters
<1> QED
  BY <1>1, <1>2, <1>3, <1>4, <1>5, <1>6, <1>7, <1>8, <1>9, <1>10 DEF Next, WorkerStop

(* ServiceWorkerThread serves until gServiceStopEvent is set, tears down   *)
(* only then, and ends once, whatever fails on the way                     *)
(* (service.cpp:204-319).                                                  *)
THEOREM WorkerImplementedHolds == Spec => WorkerImplemented
<1>1. TypeInv /\ [Next]_vars => [W!WorkerNext]_W!workerVars
  <2> SUFFICES ASSUME TypeInv, [Next]_vars PROVE [W!WorkerNext]_W!workerVars
    OBVIOUS
  <2>1. pc \in Labels
    BY DEF TypeInv, TypeOK
  <2>2. CASE Next
    BY <2>1, <2>2, WorkerStepSimulated
  <2>3. CASE UNCHANGED vars
    <3>1. UNCHANGED <<pc.worker, stopEvent>>
      BY <2>3 DEF vars, ctlVars
    <3> QED BY <3>1, WorkerStutters
  <2> QED BY <2>2, <2>3
<1> QED BY <1>1, TypeInit, TypeStep, WorkerInitially, PTL
        DEF Spec, WorkerImplemented, W!WorkerSpec
-----------------------------------------------------------------------------
(* Tunnel, on a platform that refuses nothing it is asked: the machine may *)
(* still roam or be offline.                                               *)

Unhindered == Cooperative /\ "routeAdd" \notin RouteFaults

(* A half is there wherever it may be.                                     *)
RoutesUp == /\ LowMayBe => HasRoute(LowHalf)
            /\ HighMayBe => HasRoute(HighHalf)

ViewInv == RunInv /\ RoutesUp

(* So the mode is a matter of where the two threads are.                   *)
PlaceMode ==
  IF LowMayBe \/ HighMayBe THEN "tunnelled" ELSE IF HeldSealed THEN "sealed" ELSE "open"

LEMMA ModeIsPlace == ViewInv => TunnelMode = PlaceMode
<1> SUFFICES ASSUME ViewInv PROVE TunnelMode = PlaceMode
  OBVIOUS
<1>1. PlacesAgree /\ FiltersHeld /\ RoutesUp
  BY DEF ViewInv, RunInv
<1>2. Tunnelled <=> LowMayBe \/ HighMayBe
  BY <1>1 DEF Tunnelled, RoutesUp, PlacesAgree, Halves
<1>3. /\ Sealed <=> HeldSealed
      /\ Blocked("blockV4") \/ Blocked("blockV6") => HeldSealed
  BY <1>1 DEF PlacesAgree, FiltersHeld, Sealed, Blocked
<1>4. LowMayBe \/ HighMayBe => HeldSealed
  BY DEF HeldSealed, LowMayBe, HighMayBe, ConnectCalls, DisconnectCalls, CloseCalls
<1> QED BY <1>2, <1>3, <1>4 DEF TunnelMode, PlaceMode

(* Where the threads go.  Most steps change nothing that Tunnel sees.      *)
Unseen == UNCHANGED <<PlaceMode, TunnelGoal>>

HalvesStay == (LowMayBe' <=> LowMayBe) /\ (HighMayBe' <=> HighMayBe)

Raises(from, to) == /\ PlaceMode = from /\ PlaceMode' = to
                    /\ TunnelGoal = "tunnelled" /\ TunnelGoal' = "tunnelled"

Lowers(from, to) == /\ PlaceMode = from /\ PlaceMode' = to
                    /\ TunnelGoal = "open" /\ TunnelGoal' = "open"

Commands(from, to) == /\ PlaceMode = from /\ PlaceMode' = from
                      /\ TunnelGoal = from /\ TunnelGoal' = to

Seen == \/ Unseen
        \/ Raises("open", "sealed") \/ Raises("sealed", "tunnelled")
        \/ Lowers("tunnelled", "sealed") \/ Lowers("sealed", "open")
        \/ Commands("open", "tunnelled") \/ Commands("tunnelled", "open")

LEMMA SeenListen ==
  ASSUME pc \in Labels, Handover,
         IpcLoopTop \/ IpcCreatePipe \/ IpcWoken \/ IpcClientStep
  PROVE  HalvesStay /\ Seen
<1> USE DEF Labels, Go, Handover, HandlersExclusive, HeldSealed, LowMayBe, HighMayBe,
      ConnectedIdle, Alive, PlaceMode, TunnelGoal, HalvesStay, Seen, Unseen, Commands,
      ConnectCalls, CloseCalls, DisconnectCalls, DestructorCalls, ClientWaits, ctlVars
<1>1. CASE IpcLoopTop \/ IpcCreatePipe
  BY <1>1 DEF IpcLoopTop, IpcCreatePipe
<1>2. CASE IpcWoken \/ IpcAccept
  BY <1>2 DEF IpcWoken, IpcAccept
<1>3. CASE IpcConnect
  BY <1>3 DEF IpcConnect
<1>4. CASE IpcDisconnect
  BY <1>4 DEF IpcDisconnect
<1>5. CASE IpcTorQuery \/ IpcReply
  BY <1>5 DEF IpcTorQuery, IpcReply
<1> QED BY <1>1, <1>2, <1>3, <1>4, <1>5 DEF IpcClientStep

LEMMA SeenWorker ==
  ASSUME pc \in Labels, Handover,
         \/ LaunchTor \/ SetUpTunnel \/ IpcStop \/ IpcWake \/ JoinIpc
         \/ StopTor \/ DestroyKs \/ CloseAdapter
  PROVE  HalvesStay /\ Seen
<1> USE DEF Labels, Go, Call, After, AfterTeardown, Handover, HandlersExclusive,
      HeldSealed, LowMayBe, HighMayBe, ConnectedIdle, Alive, PlaceMode, TunnelGoal,
      HalvesStay, Seen, Unseen, Commands, ConnectCalls, CloseCalls, DisconnectCalls,
      DestructorCalls, ctlVars
<1>1. CASE LaunchTor
  BY <1>1 DEF LaunchTor
<1>2. CASE SetUpTunnel
  <2>1. CASE Go("worker", "launched", "failed") /\ UNCHANGED connected
    BY <2>1
  <2>2. CASE /\ pc.worker = "launched"
             /\ pc' = [worker |-> "waiting", ipc |-> "loopTop"]
             /\ UNCHANGED connected
    BY <2>2
  <2> QED BY <1>2, <2>1, <2>2 DEF SetUpTunnel
<1>3. CASE IpcStop \/ IpcWake
  BY <1>3 DEF IpcStop, IpcWake
<1>4. CASE JoinIpc
  BY <1>4 DEF JoinIpc
<1>5. CASE StopTor \/ DestroyKs \/ CloseAdapter
  BY <1>5 DEF StopTor, DestroyKs, CloseAdapter
<1> QED BY <1>1, <1>2, <1>3, <1>4, <1>5

LEMMA SeenConnect ==
  ASSUME pc \in Labels, Handover,
         KsEnable \/ ProcStart \/ StartMonitor \/ AddTunRoutes \/ SetConnected
  PROVE  Seen /\ (~AddTunRoutes => HalvesStay)
<1> USE DEF Labels, Go, Call, After, AfterConnect, AfterDisconnect, Handover,
      HandlersExclusive, HeldSealed, LowMayBe, HighMayBe, ConnectedIdle, Alive,
      PlaceMode, TunnelGoal, HalvesStay, Seen, Unseen, Raises, ConnectCalls, CloseCalls,
      DisconnectCalls, DestructorCalls, ctlVars
<1>1. CASE KsEnable
  BY <1>1 DEF KsEnable
<1>2. CASE ProcStart \/ StartMonitor
  BY <1>2 DEF ProcStart, StartMonitor
<1>3. CASE AddTunRoutes
  BY <1>3 DEF AddTunRoutes
<1>4. CASE SetConnected
  BY <1>4 DEF SetConnected
<1> QED BY <1>1, <1>2, <1>3, <1>4

LEMMA SeenTearDown ==
  ASSUME pc \in Labels, Handover, NEW t \in Threads, TearDown(t)
  PROVE  Seen /\ (~RemoveTunRoutes(t) => HalvesStay)
<1> USE DEF Labels, Go, Call, After, AfterTeardown, AfterDisconnect, Handover,
      HandlersExclusive, HeldSealed, LowMayBe, HighMayBe, ConnectedIdle, Alive,
      PlaceMode, TunnelGoal, HalvesStay, Seen, Unseen, Lowers, ConnectCalls, CloseCalls,
      DisconnectCalls, DestructorCalls, ctlVars, Threads
<1>1. CASE StopMonitor(t)
  BY <1>1 DEF StopMonitor
<1>2. CASE JoinMonitorThread(t)
  BY <1>2 DEF JoinMonitorThread
<1>3. CASE RemoveTunRoutes(t)
  BY <1>3 DEF RemoveTunRoutes
<1>4. CASE ProcStop(t)
  BY <1>4 DEF ProcStop
<1>5. CASE ProcJoin(t)
  BY <1>5 DEF ProcJoin
<1>6. CASE KsDisable(t)
  BY <1>6 DEF KsDisable
<1> QED BY <1>1, <1>2, <1>3, <1>4, <1>5, <1>6 DEF TearDown

LEMMA SeenAround ==
  ASSUME \/ Monitor \/ RecvExit \/ LoopExit \/ RequestStop \/ TorDies \/ Network
         \/ UNCHANGED vars
  PROVE  HalvesStay /\ Seen
<1>1. UNCHANGED <<pc, connected>>
  BY DEF Monitor, RecvExit, LoopExit, RequestStop, TorDies, Network, vars, ctlVars
<1> QED BY <1>1 DEF HalvesStay, Seen, Unseen, PlaceMode, TunnelGoal, HeldSealed,
        LowMayBe, HighMayBe, ConnectedIdle

LEMMA EveryStepSeen == TypeInv /\ Handover /\ [Next]_vars => Seen
<1> SUFFICES ASSUME TypeInv, Handover, [Next]_vars PROVE Seen
  OBVIOUS
<1>1. pc \in Labels
  BY DEF TypeInv, TypeOK
<1> QED
  BY <1>1, SeenListen, SeenWorker, SeenConnect, SeenTearDown, SeenAround
     DEF Next, WorkerStop, IpcOwnStep, Threads

(* The halves are where the places say.                                    *)
LEMMA RoutesUpInit == Init => RoutesUp
  BY DEF Init, RoutesUp, LowMayBe, HighMayBe, ConnectedIdle

LEMMA RoutesStayUp ==
  ASSUME RoutesUp, HalvesStay, \A half \in Halves : HasRoute(half) => HasRoute(half)'
  PROVE  RoutesUp'
  BY DEF RoutesUp, HalvesStay, Halves

LEMMA RoutesUpAdd ==
  ASSUME "routeAdd" \notin RouteFaults, pc \in Labels, Handover, RoutesUp, AddTunRoutes
  PROVE  RoutesUp'
<1>1. PICK half \in Halves :
        /\ AddHalf(half)
        /\ Call("ipc", IF half = LowHalf THEN "addLow" ELSE "addHigh")
  BY DEF AddTunRoutes, Halves, LowHalf, HighHalf
<1>2. /\ HasRoute(half)'
      /\ \A other \in Halves : HasRoute(other) => HasRoute(other)'
  <2>1. To(half, TunGw) \in routes' /\ routes \subseteq routes'
    BY <1>1 DEF AddHalf, CanAdd, CanFailToAdd
  <2>2. To(half, TunGw).dst = half
    BY DEF To
  <2> QED BY <2>1, <2>2 DEF HasRoute
<1>3. /\ half = LowHalf => ~HighMayBe'
      /\ half = HighHalf => LowMayBe
  BY <1>1 DEF AddTunRoutes, LowHalf, HighHalf, Labels, Go, Call, After, AfterConnect,
     Handover, HandlersExclusive, LowMayBe, HighMayBe, ConnectedIdle, ConnectCalls,
     CloseCalls, ctlVars
<1> QED BY <1>2, <1>3 DEF RoutesUp, Halves

LEMMA RoutesUpRemove ==
  ASSUME pc \in Labels, Handover, RoutesUp, NEW t \in Threads, RemoveTunRoutes(t)
  PROVE  RoutesUp'
<1> USE DEF Labels, Go, Call, After, AfterTeardown, AfterDisconnect, Handover,
      HandlersExclusive, LowMayBe, HighMayBe, ConnectedIdle, Alive, ConnectCalls,
      CloseCalls, DestructorCalls, ctlVars, Threads
<1>1. UNCHANGED connected
  BY DEF RemoveTunRoutes
<1>2. CASE Call(t, "removeLow") /\ RemoveHalf(LowHalf)
  <2>1. ~LowMayBe' /\ HighMayBe
    BY <1>1, <1>2
  <2>2. HasRoute(HighHalf) => HasRoute(HighHalf)'
    BY <1>2 DEF RemoveHalf, HasRoute, To, LowHalf, HighHalf
  <2> QED BY <2>1, <2>2 DEF RoutesUp
<1>3. CASE Call(t, "removeHigh") /\ RemoveHalf(HighHalf)
  <2>1. ~LowMayBe' /\ ~HighMayBe'
    BY <1>1, <1>3
  <2> QED BY <2>1 DEF RoutesUp
<1> QED BY <1>2, <1>3 DEF RemoveTunRoutes

LEMMA RoutesUpStep ==
  ASSUME "routeAdd" \notin RouteFaults, TypeInv, Handover, RoutesUp, [Next]_vars
  PROVE  RoutesUp'
<1>1. pc \in Labels /\ bypassed \subseteq Guards
  BY DEF TypeInv, TypeOK, RmTypeOK
<1>2. CASE AddTunRoutes
  BY <1>1, <1>2, RoutesUpAdd
<1>3. CASE \E t \in Threads : TearDown(t)
  <2>1. PICK t \in Threads : TearDown(t)
    BY <1>3
  <2>2. CASE RemoveTunRoutes(t)
    BY <1>1, <2>2, RoutesUpRemove
  <2>3. CASE JoinMonitorThread(t)
    <3>1. \A half \in Halves : HasRoute(half) => HasRoute(half)'
      BY <1>1, <2>3 DEF JoinMonitorThread, JoinMonitor, HasRoute
    <3>2. ~RemoveTunRoutes(t)
      BY <2>3 DEF RemoveTunRoutes, JoinMonitorThread, Call, Go
    <3> QED BY <1>1, <2>1, <3>1, <3>2, SeenTearDown, RoutesStayUp
  <2>4. CASE StopMonitor(t) \/ ProcStop(t) \/ ProcJoin(t) \/ KsDisable(t)
    <3>1. UNCHANGED routes
      BY <2>4 DEF StopMonitor, StopMonitoring, ProcStop, ProcJoin, KsDisable, rmVars
    <3>2. ~RemoveTunRoutes(t)
      BY <2>4 DEF RemoveTunRoutes, StopMonitor, ProcStop, ProcJoin, KsDisable, Call, Go
    <3> QED BY <1>1, <2>1, <3>1, <3>2, SeenTearDown, RoutesStayUp DEF HasRoute
  <2> QED BY <2>1, <2>2, <2>3, <2>4 DEF TearDown
<1>4. CASE CloseAdapter
  <2>1. ~LowMayBe /\ ~HighMayBe
    BY <1>1, <1>4 DEF CloseAdapter, Call, Go, Labels, Handover, HandlersExclusive, LowMayBe,
       HighMayBe, ConnectedIdle, Alive, DestructorCalls
  <2> QED BY <1>1, <1>4, <2>1, SeenWorker DEF HalvesStay, RoutesUp
<1>5. CASE Monitor
  <2>1. \A half \in Halves : HasRoute(half) => HasRoute(half)'
    BY <1>5 DEF Monitor, MonitorLoop, MonitorScan, MonitorAdd, MonitorExit, HasRoute
  <2> QED BY <1>5, <2>1, SeenAround, RoutesStayUp
<1>6. CASE \/ LaunchTor \/ SetUpTunnel \/ IpcStop \/ IpcWake \/ JoinIpc \/ StopTor
           \/ DestroyKs
  <2>1. UNCHANGED routes
    BY <1>6 DEF LaunchTor, SetUpTunnel, IpcStop, IpcWake, JoinIpc, StopTor, DestroyKs, rmVars
  <2> QED BY <1>1, <1>6, <2>1, SeenWorker, RoutesStayUp DEF HasRoute
<1>7. CASE IpcLoopTop \/ IpcCreatePipe \/ IpcWoken \/ IpcClientStep
  <2>1. UNCHANGED routes
    BY <1>7 DEF IpcLoopTop, IpcCreatePipe, IpcWoken, IpcClientStep, IpcAccept,
       IpcConnect, IpcDisconnect, IpcTorQuery, IpcReply, rmVars
  <2> QED BY <1>1, <1>7, <2>1, SeenListen, RoutesStayUp DEF HasRoute
<1>8. CASE (KsEnable \/ ProcStart \/ StartMonitor \/ SetConnected) /\ ~AddTunRoutes
  <2>1. UNCHANGED routes
    BY <1>8 DEF KsEnable, ProcStart, StartMonitor, StartMonitoring, SetConnected, rmVars
  <2> QED BY <1>1, <1>8, <2>1, SeenConnect, RoutesStayUp DEF HasRoute
<1>9. CASE RecvExit \/ LoopExit \/ RequestStop \/ TorDies \/ Network \/ UNCHANGED vars
  <2>1. UNCHANGED routes
    BY <1>9 DEF RecvExit, LoopExit, RequestStop, TorDies, Network, TorConnects, TorDrops,
       Roam, vars, rmVars
  <2> QED BY <1>9, <2>1, SeenAround, RoutesStayUp DEF HasRoute
<1> QED
  BY <1>2, <1>3, <1>4, <1>5, <1>6, <1>7, <1>8, <1>9
     DEF Next, WorkerStop, IpcOwnStep, Threads

LEMMA ModeIsPlaceNext == ViewInv' => (TunnelMode = PlaceMode)'
  BY ModeIsPlace, PTL

LEMMA ViewStep == Unhindered /\ ViewInv /\ [Next]_vars => ViewInv'
  BY RunStep, RoutesUpStep DEF Unhindered, ViewInv, RunInv, ThreadsInv

(* What the machine's traffic sees of a run is a behaviour of Tunnel: a    *)
(* command is carried through before the next one is taken up, and between *)
(* an open machine and a tunnelled one there is always a sealed one, on    *)
(* the handlers' way and on the teardown's (service.cpp:254-277,308-317).  *)
(* This is TunnelImplemented without its fairness, which TLC checks.       *)
THEOREM TunnelSafetyImplemented ==
  ASSUME Unhindered
  PROVE  Spec => T!TunnelInit /\ [][T!TunnelNext]_T!tunnelVars
<1>1. Init => ViewInv
  BY RunInit, RoutesUpInit DEF ViewInv
<1>2. ViewInv /\ [Next]_vars => ViewInv'
  BY ViewStep
<1>3. Init => T!TunnelInit
  <2> SUFFICES ASSUME Init PROVE T!TunnelInit
    OBVIOUS
  <2>1. PlaceMode = "open" /\ TunnelGoal = "open"
    BY DEF Init, PlaceMode, LowMayBe, HighMayBe, HeldSealed, ConnectedIdle, TunnelGoal,
       ConnectCalls, CloseCalls, DisconnectCalls
  <2> QED BY <1>1, <2>1, ModeIsPlace DEF T!TunnelInit
<1>4. ViewInv /\ ViewInv' /\ [Next]_vars => [T!TunnelNext]_T!tunnelVars
  <2> SUFFICES ASSUME ViewInv, ViewInv', [Next]_vars PROVE [T!TunnelNext]_T!tunnelVars
    OBVIOUS
  <2>1. TunnelMode = PlaceMode
    BY ModeIsPlace
  <2>2. TunnelMode' = PlaceMode'
    BY ModeIsPlaceNext
  <2>3. Seen
    BY EveryStepSeen DEF ViewInv, RunInv, ThreadsInv
  <2> HIDE DEF PlaceMode, TunnelMode, TunnelGoal
  <2> QED BY <2>1, <2>2, <2>3 DEF Seen, Unseen, Raises, Lowers, Commands, T!TunnelNext,
          T!Command, T!Advance, T!Raised, T!Lowered, T!tunnelVars
<1> QED BY <1>1, <1>2, <1>3, <1>4, PTL DEF Spec
-----------------------------------------------------------------------------
(* What holds over any number of runs of the daemon, each of which may     *)
(* crash at any step and leave its host routes and its Tor to the next, on *)
(* a platform that cooperates (DaemonRuns).                                *)


(* Behind launcher.stop() this run's Tor is gone.                          *)
TorGone == pc.worker \in {"stopMonitor", "joinMonitor"} \cup MonitorGone => ~torAlive

(* The invariant of a run holds of each, and each knows its host routes.   *)
RunsInv == RunInv /\ TorGone /\ RoutesRemembered

LEMMA RunsInitially == RunsInit => RunsInv
<1> SUFFICES ASSUME RunsInit PROVE RunsInv
  OBVIOUS
<1>1. Init
  BY DEF RunsInit
<1>2. TorGone /\ RoutesRemembered
  BY <1>1 DEF Init, RmInit, TorGone, MonitorGone, RoutesRemembered
<1> QED BY <1>1, <1>2, RunInit DEF RunsInv

-----------------------------------------------------------------------------
(* A step of the present run.                                              *)

LEMMA TorGoneStep == pc \in Labels /\ TorGone /\ [Next]_vars => TorGone'
<1> SUFFICES ASSUME pc \in Labels, TorGone, [Next]_vars PROVE TorGone'
  OBVIOUS
<1> USE DEF TorGone, MonitorGone, Labels, Go, Call, After, AfterTeardown, Threads
<1>1. CASE LaunchTor \/ IpcStop \/ IpcWake \/ JoinIpc
  BY <1>1 DEF LaunchTor, IpcStop, IpcWake, JoinIpc
<1>2. CASE SetUpTunnel
  <2>1. CASE Go("worker", "launched", "failed")
    BY <2>1
  <2>2. CASE pc' = [worker |-> "waiting", ipc |-> "loopTop"]
    BY <2>2
  <2> QED BY <1>2, <2>1, <2>2 DEF SetUpTunnel
<1>3. CASE StopTor \/ DestroyKs \/ CloseAdapter
  BY <1>3 DEF StopTor, DestroyKs, CloseAdapter
<1>4. CASE TearDown("worker")
  <2>1. torAlive' = torAlive
    BY <1>4 DEF TearDown, StopMonitor, JoinMonitorThread, RemoveTunRoutes, ProcStop,
       ProcJoin, KsDisable
  <2>2. CASE StopMonitor("worker")
    BY <2>1, <2>2 DEF StopMonitor
  <2>3. CASE JoinMonitorThread("worker") \/ RemoveTunRoutes("worker")
    BY <2>1, <2>3 DEF JoinMonitorThread, RemoveTunRoutes
  <2>4. CASE ProcStop("worker") \/ ProcJoin("worker") \/ KsDisable("worker")
    BY <2>1, <2>4 DEF ProcStop, ProcJoin, KsDisable
  <2> QED BY <1>4, <2>2, <2>3, <2>4 DEF TearDown
<1>5. CASE IpcOwnStep \/ IpcClientStep
  <2>1. torAlive' = torAlive
    BY <1>5 DEF IpcOwnStep, IpcLoopTop, IpcCreatePipe, IpcWoken, KsEnable, ProcStart,
       StartMonitor, AddTunRoutes, SetConnected, TearDown, StopMonitor,
       JoinMonitorThread, RemoveTunRoutes, ProcStop, ProcJoin, KsDisable,
       IpcClientStep, IpcAccept, IpcConnect, IpcDisconnect, IpcTorQuery, IpcReply
  <2>2. \E label : pc' = [pc EXCEPT !["ipc"] = label]
    BY <1>5 DEF IpcOwnStep, IpcLoopTop, IpcCreatePipe, IpcWoken, KsEnable, ProcStart,
       StartMonitor, AddTunRoutes, SetConnected, TearDown, StopMonitor,
       JoinMonitorThread, RemoveTunRoutes, ProcStop, ProcJoin, KsDisable,
       IpcClientStep, IpcAccept, IpcConnect, IpcDisconnect, IpcTorQuery, IpcReply
  <2>3. pc'.worker = pc.worker
    BY <2>2
  <2> QED BY <2>1, <2>3
<1>6. CASE \/ Monitor \/ RecvExit \/ LoopExit \/ RequestStop \/ TorDies \/ Network
           \/ UNCHANGED vars
  BY <1>6 DEF Monitor, RecvExit, LoopExit, RequestStop, TorDies, Network, vars
<1> QED BY <1>1, <1>2, <1>3, <1>4, <1>5, <1>6 DEF Next, WorkerStop

(* Routes of relays are added by the monitor and withdrawn by the join;    *)
(* nothing else that edits the table touches them.                         *)
LEMMA RememberedByMonitor ==
  ASSUME RoutesRemembered, stale' = stale, MonitorLoop
  PROVE  RoutesRemembered'
<1> USE DEF RoutesRemembered, HasBypass
<1>1. CASE MonitorScan \/ MonitorExit
  BY <1>1 DEF MonitorScan, MonitorExit
<1>2. CASE MonitorAdd
  <2>1. PICK g \in snapshot :
          \/ routes' = routes \cup {To(g, gateway)} /\ bypassed' = bypassed \cup {g}
          \/ UNCHANGED <<routes, bypassed>>
    BY <1>2 DEF MonitorAdd
  <2>2. CASE routes' = routes \cup {To(g, gateway)} /\ bypassed' = bypassed \cup {g}
    <3>1. To(g, gateway) \in routes' /\ To(g, gateway).dst = g
      BY <2>2 DEF To
    <3>2. \A r \in routes' : r.dst \in Guards => r \in stale' \/ r.dst \in bypassed'
      BY <2>2, <3>1
    <3>3. ASSUME NEW b \in bypassed' PROVE \E r \in routes' : r.dst = b
      BY <2>2, <3>1, <3>3
    <3> QED BY <3>2, <3>3
  <2> QED BY <2>1, <2>2
<1> QED BY <1>1, <1>2 DEF MonitorLoop

LEMMA RememberedByJoin ==
  ASSUME "routeDelete" \notin RouteFaults, RoutesRemembered, stale' = stale, JoinMonitor
  PROVE  RoutesRemembered'
  BY DEF JoinMonitor, RoutesRemembered, HasBypass

(* A step that edits no relay's route.                                     *)
LEMMA RememberedOtherwise ==
  ASSUME RoutesRemembered, UNCHANGED <<stale, bypassed>>, bypassed \subseteq Guards,
         \A r : r \in routes' /\ r.dst \in Guards => r \in routes,
         \A r \in routes : r.dst \in bypassed => r \in routes'
  PROVE  RoutesRemembered'
  BY DEF RoutesRemembered, HasBypass

LEMMA RememberedStep ==
  ASSUME Cooperative, RunInv, RoutesRemembered, Next, stale' = stale
  PROVE  RoutesRemembered'
<1>1. /\ pc \in Labels /\ bypassed \subseteq Guards
      /\ Handover /\ MonitorInv
  BY DEF RunInv, ThreadsInv, TypeInv, TypeOK, RmTypeOK
<1>2. CASE Monitor
  BY <1>2, RememberedByMonitor DEF Monitor
<1>3. CASE AddTunRoutes
  BY <1>1, <1>3, RememberedOtherwise DEF AddTunRoutes, AddHalf, To, Halves
<1>4. CASE \E t \in Threads : TearDown(t)
  <2>1. PICK t \in Threads : TearDown(t)
    BY <1>4
  <2>2. CASE JoinMonitorThread(t)
    BY <2>2, RememberedByJoin DEF JoinMonitorThread, Cooperative
  <2>3. CASE RemoveTunRoutes(t)
    BY <1>1, <2>3, RememberedOtherwise DEF RemoveTunRoutes, RemoveHalf, To, Halves
  <2>4. CASE StopMonitor(t) \/ ProcStop(t) \/ ProcJoin(t) \/ KsDisable(t)
    <3>1. UNCHANGED <<bypassed, routes>>
      BY <2>4 DEF StopMonitor, StopMonitoring, ProcStop, ProcJoin, KsDisable, rmVars
    <3> QED BY <1>1, <3>1, RememberedOtherwise
  <2> QED BY <2>1, <2>2, <2>3, <2>4 DEF TearDown
<1>5. CASE CloseAdapter
  <2>1. monitor = "none"
    BY <1>1, <1>5 DEF CloseAdapter, Call, Go, MonitorInv, MonitorGone, Joins, Threads,
       Handover, HandlersExclusive, DestructorCalls
  <2>2. bypassed = {}
    BY <1>1, <2>1 DEF MonitorInv
  <2> QED BY <1>5, <2>2, RememberedOtherwise DEF CloseAdapter
<1>6. CASE \/ LaunchTor \/ SetUpTunnel \/ IpcStop \/ IpcWake \/ JoinIpc \/ StopTor
           \/ DestroyKs \/ RecvExit \/ LoopExit \/ RequestStop \/ TorDies \/ Network
  <2>1. UNCHANGED <<bypassed, routes>>
    BY <1>6 DEF LaunchTor, SetUpTunnel, IpcStop, IpcWake, JoinIpc, StopTor, DestroyKs,
       RecvExit, LoopExit, RequestStop, TorDies, Network, TorConnects, TorDrops, Roam,
       rmVars
  <2> QED BY <1>1, <2>1, RememberedOtherwise
<1>7. CASE \/ IpcLoopTop \/ IpcCreatePipe \/ IpcWoken \/ IpcClientStep
           \/ KsEnable \/ ProcStart \/ StartMonitor \/ SetConnected
  <2>1. UNCHANGED <<bypassed, routes>>
    BY <1>7 DEF IpcLoopTop, IpcCreatePipe, IpcWoken, IpcClientStep, IpcAccept,
       IpcConnect, IpcDisconnect, IpcTorQuery, IpcReply, KsEnable, ProcStart,
       StartMonitor, StartMonitoring, SetConnected, rmVars
  <2> QED BY <1>1, <2>1, RememberedOtherwise
<1> QED
  BY <1>2, <1>3, <1>4, <1>5, <1>6, <1>7 DEF Next, WorkerStop, IpcOwnStep, Threads
-----------------------------------------------------------------------------
(* A new run finds the state Init asks for, but for the table.             *)

LEMMA RestartType == TypeInv /\ Restart => TypeInv'
<1> SUFFICES ASSUME TypeInv, Restart PROVE TypeInv'
  OBVIOUS
<1>1. KsTypeOK'
  BY DEF Restart, KsTypeOK, CloseSession
<1>2. RmTypeOK'
  <2>1. routes' \subseteq routes
    BY DEF Restart, Surviving
  <2> QED BY <2>1 DEF Restart, TypeInv, TypeOK, RmTypeOK, Gateways
<1>3. CtlTypeOK' /\ LoopRoom'
  <2>1. pc' \in Labels
    BY DEF Restart, Labels
  <2>2. 0 \in 0..MaxLoops
    OBVIOUS
  <2> QED BY <2>1, <2>2 DEF Restart, CtlTypeOK, LoopRoom
<1> QED BY <1>1, <1>2, <1>3, TypeSplitPrime DEF TypeInv

LEMMA RestartThreads == Restart => Handover' /\ MonitorInv' /\ ProcInv'
<1> SUFFICES ASSUME Restart PROVE Handover' /\ MonitorInv' /\ ProcInv'
  OBVIOUS
<1>1. /\ pc' = [worker |-> "starting", ipc |-> "off"]
      /\ connected' = FALSE /\ procRunning' = FALSE /\ recvThread' = "none"
      /\ monitoring' = FALSE /\ monitor' = "none" /\ bypassed' = {}
  BY DEF Restart
<1>2. Handover'
  BY <1>1 DEF Handover, HandlersExclusive, CloseCalls, DestructorCalls
<1>3. MonitorInv'
  BY <1>1 DEF MonitorInv, Joins, MonitorGone, Threads
<1>4. ProcInv'
  BY <1>1 DEF ProcInv, ProcOn, ProcJoining, RunPlaces, ConnectedIdle
<1> QED BY <1>2, <1>3, <1>4

(* The routes that lead into the adapter have gone with it.                *)
LEMMA RestartPlaces == PlacesAgree /\ Restart => PlacesAgree' /\ FiltersHeld'
<1> SUFFICES ASSUME PlacesAgree, Restart PROVE PlacesAgree' /\ FiltersHeld'
  OBVIOUS
<1>1. pc' = [worker |-> "starting", ipc |-> "off"] /\ connected' = FALSE /\ wfp' = {}
  BY DEF Restart, CloseSession
<1>2. ~HeldSealed' /\ ~LowMayBe' /\ ~HighMayBe'
  BY <1>1 DEF HeldSealed, LowMayBe, HighMayBe, ConnectedIdle, ConnectCalls, CloseCalls,
     DisconnectCalls
<1>3. \A r \in routes' : r.dst \notin Halves
  BY DEF Restart, Surviving, PlacesAgree
<1> QED BY <1>1, <1>2, <1>3 DEF PlacesAgree, FiltersHeld, HasRoute, Halves

LEMMA RestartParts == GatewayInv /\ Restart => GatewayInv' /\ FiltersTracked'
<1> SUFFICES ASSUME GatewayInv, Restart PROVE GatewayInv' /\ FiltersTracked'
  OBVIOUS
<1>1. FiltersTracked'
  BY DEF Restart, CloseSession, FiltersTracked, KsIdsLive, KsClosedIsClean
<1>2. GatewayInv'
  BY DEF Restart, Surviving, GatewayInv, BypassLeadsOut
<1> QED BY <1>1, <1>2

LEMMA RestartRuns == RunsInv /\ Restart => RunsInv'
<1> SUFFICES ASSUME RunsInv, Restart PROVE RunsInv'
  OBVIOUS
<1>1. RunInv'
  BY RestartType, RestartThreads, RestartPlaces, RestartParts
     DEF RunsInv, RunInv, ThreadsInv
<1>2. TorGone' /\ RoutesRemembered'
  BY DEF Restart, TorGone, MonitorGone, RoutesRemembered
<1> QED BY <1>1, <1>2 DEF RunsInv

LEMMA RunsStep == Cooperative /\ RunsInv /\ [RunsNext]_allVars => RunsInv'
<1> SUFFICES ASSUME Cooperative, RunsInv, [RunsNext]_allVars PROVE RunsInv'
  OBVIOUS
<1>1. RunInv /\ TorGone /\ RoutesRemembered /\ pc \in Labels
  BY DEF RunsInv, RunInv, ThreadsInv, TypeInv, TypeOK
<1>2. CASE Step
  BY <1>1, <1>2, RunStep, TorGoneStep, RememberedStep DEF Step, RunsInv, runVars
<1>3. CASE Restart
  BY <1>3, RestartRuns
<1>4. CASE OldTorSteps \/ UNCHANGED allVars
  <2>1. UNCHANGED vars /\ UNCHANGED stale
    BY <1>4 DEF OldTorSteps, allVars, runVars
  <2>2. RoutesRemembered'
    BY <1>1, <2>1 DEF RoutesRemembered, HasBypass, vars, rmVars
  <2> QED BY <1>1, <2>1, <2>2, RunStep, TorGoneStep DEF RunsInv
<1> QED BY <1>2, <1>3, <1>4 DEF RunsNext

-----------------------------------------------------------------------------

(* A crash at any step, and what it leaves to the next run, does not       *)
(* unseal a tunnel, confuse the parts between two commands or lead a host  *)
(* route into the adapter (service.cpp:204-319).                           *)
THEOREM RunsStaySafe ==
  ASSUME Cooperative
  PROVE  RunsSpec => []SealedWhileTunnelled /\ []IdleConsistent /\ []BypassLeadsOut
<1>1. RunsInv /\ [RunsNext]_allVars => RunsInv'
  BY RunsStep
<1>2. RunsInv => SealedWhileTunnelled /\ IdleConsistent /\ BypassLeadsOut
  BY PlacesSeal, RunIdle DEF RunsInv, RunInv, GatewayInv
<1> QED BY <1>1, <1>2, RunsInitially, PTL DEF RunsSpec

LEMMA RunsAccount == RunsInv => BypassAccounted
<1> SUFFICES ASSUME RunsInv PROVE BypassAccounted
  OBVIOUS
<1>1. RoutesRemembered /\ MonitorInv /\ pc \in Labels
  BY DEF RunsInv, RunInv, ThreadsInv, TypeInv, TypeOK
<1>2. DOMAIN pc = Threads
  BY <1>1 DEF Labels, Threads
<1>3. ~monitoring /\ (\A t \in DOMAIN pc : pc[t] # "joinMonitor") => bypassed = {}
  BY <1>1, <1>2 DEF MonitorInv, Joins
<1>4. NoBypassOnceStopped
  BY <1>1, <1>3 DEF NoBypassOnceStopped, RoutesRemembered
<1> QED BY <1>1, <1>4 DEF BypassAccounted

(* Each host route of a relay was there when the run began or is one the   *)
(* monitor remembers, and behind stop_monitoring() the run has none left,  *)
(* not even for a connection copied before the flag was cleared            *)
(* (route_manager.cpp:56-105).                                             *)
THEOREM BypassAccountedHolds ==
  ASSUME Cooperative
  PROVE  RunsSpec => []BypassAccounted
<1>1. RunsInv /\ [RunsNext]_allVars => RunsInv'
  BY RunsStep
<1> QED BY <1>1, RunsAccount, RunsInitially, PTL DEF RunsSpec

LEMMA RunsLeave == RunsInv => OnlyStaleLeft
<1> SUFFICES ASSUME RunsInv, pc.worker = "returned"
             PROVE  /\ routes \subseteq stale /\ wfp = {} /\ ~torAlive
                    /\ monitor = "none" /\ recvThread = "none"
  BY DEF OnlyStaleLeft
<1>1. /\ pc \in Labels /\ routes \subseteq RouteEntries
      /\ Handover /\ MonitorInv /\ ProcInv /\ PlacesAgree /\ FiltersHeld
      /\ TorGone /\ RoutesRemembered
  BY DEF RunsInv, RunInv, ThreadsInv, TypeInv, TypeOK, RmTypeOK
<1>2. pc.ipc = "exited"
  BY <1>1 DEF Handover, HandlersExclusive
<1>3. ~HeldSealed /\ ~LowMayBe /\ ~HighMayBe /\ ~ProcOn /\ ~ProcJoining
  BY <1>2 DEF HeldSealed, LowMayBe, HighMayBe, ProcOn, ProcJoining, RunPlaces,
     ConnectedIdle, Alive, ConnectCalls, CloseCalls, DisconnectCalls
<1>4. monitor = "none" /\ bypassed = {}
  BY <1>1, <1>2 DEF MonitorInv, MonitorGone, Joins, Threads
<1>5. ASSUME NEW r \in routes PROVE r \in stale
  <2>1. r.dst \in Guards \cup Halves
    BY <1>1 DEF RouteEntries
  <2>2. r.dst \notin Halves
    BY <1>1, <1>3 DEF PlacesAgree, HasRoute, Halves
  <2> QED BY <1>1, <1>4, <2>1, <2>2 DEF RoutesRemembered
<1>6. wfp = {} /\ recvThread = "none"
  BY <1>1, <1>3 DEF FiltersHeld, ProcInv
<1>7. ~torAlive
  BY <1>1 DEF TorGone, MonitorGone
<1> QED BY <1>4, <1>5, <1>6, <1>7

(* A run that was told to stop leaves nothing of its own behind: what is   *)
(* in the routing table afterwards an earlier, crashed run has left        *)
(* (service.cpp:308-319; route_manager.cpp:29-31; killswitch.cpp:13-15).   *)
THEOREM OnlyStaleLeftHolds ==
  ASSUME Cooperative
  PROVE  RunsSpec => []OnlyStaleLeft
<1>1. RunsInv /\ [RunsNext]_allVars => RunsInv'
  BY RunsStep
<1> QED BY <1>1, RunsLeave, RunsInitially, PTL DEF RunsSpec
=============================================================================
