---------------------------- MODULE FrontProofs ----------------------------
(***************************************************************************)
(* What runs and uses the daemon: the service reports its states in order  *)
(* and never says it stopped before the worker has (ServiceControl), a     *)
(* client that says "secure" is right (Client), and so is the menu of      *)
(* countries (ExitSelector).                                               *)
(*                                                                         *)
(* The first two are one inductive invariant each.  ServiceInv says for    *)
(* every step of ServiceMain what the manager was told and what the        *)
(* handler may be doing; ClientInv who may hold the pipe, and that whoever *)
(* claims or is about to claim a tunnel has one that nobody is taking      *)
(* down.                                                                   *)
(*                                                                         *)
(* The menu is a function of the consensus.  The lines of Tor's answer lie *)
(* relay by relay, so what a fold over the lines computes is read off      *)
(* relay by relay (ByRelay), and what each scan knows of the first k       *)
(* relays follows by induction on k.                                       *)
(***************************************************************************)
EXTENDS MCFront, Induction, SequenceTheorems, TLAPS

-----------------------------------------------------------------------------
(* The service.                                                            *)

(* While it serves, the status is what the manager was told, and the event *)
(* is set only by a handler that has reported STOP_PENDING before.         *)
Accepting ==
  /\ status = reported
  /\ \/ reported = "running" /\ handler \in {"idle", "called"} /\ ~stopEvent
     \/ /\ reported = "stopPending" /\ handler \in {"idle", "setEvent"}
        /\ stopEvent => handler = "idle"

ServiceInv ==
  /\ main \in {"off"} \cup ConsoleSteps => reported = "stopped" /\ handler = "idle"
  /\ main \in {"register", "announce"} => reported = "startPending" /\ handler = "idle"
  /\ main \in {"register", "announce", "createEvent"} => ~stopEvent
  /\ main \in {"createEvent", "createThread", "waitEvent"} => Accepting
  /\ main \in {"waitWorker", "closeEvent", "reportStopped"} =>
       reported = "stopPending" /\ handler = "idle"
  /\ main \in {"closeEvent", "reportStopped", "consoleClose"} => phase = "ended"
  /\ main = "gone" => /\ handler = "idle"
                      /\ \/ reported = "stopped" /\ phase = "ended"
                         \/ reported = "startPending"

ScInv == ScTypeOK /\ ServiceInv

LEMMA ScInitInv == ScInit => ScInv
<1> SUFFICES ASSUME ScInit PROVE ScInv
  OBVIOUS
<1>1. ScTypeOK
  <2>1. runs \in 0..MaxRuns
    BY MaxRunsAssumption DEF ScInit
  <2>2. (event = "open") <=> main \in EventHeld
    BY DEF ScInit, EventHeld
  <2> QED
    BY <2>1, <2>2 DEF ScInit, WorkerInit, ScTypeOK, Phases
<1>2. ServiceInv
  BY DEF ScInit, ServiceInv, ServiceSteps, ConsoleSteps
<1> QED
  BY <1>1, <1>2 DEF ScInv

(* The allowed changes of what the manager was told, as a state predicate  *)
(* of the step.                                                            *)
InOrder ==
  \/ UNCHANGED reported
  \/ Reported("stopped", "startPending") \/ Reported("startPending", "running")
  \/ Reported("running", "stopPending") \/ Reported("stopPending", "stopped")
  \/ Reported("startPending", "stopped")

LEMMA ScStep == ScInv /\ [ScNext]_scVars => ScInv' /\ InOrder
<1> SUFFICES ASSUME ScInv, [ScNext]_scVars
             PROVE  ScInv' /\ InOrder
  OBVIOUS
<1> USE DEF ScInv, ScTypeOK, ServiceInv, Accepting, InOrder, Reported, Phases,
            ServiceSteps, ConsoleSteps, EventHeld, scmVars, workerVars
<1>1. CASE Launch
  <2>1. ScTypeOK'
    <3>1. runs' \in 0..MaxRuns
      BY <1>1, MaxRunsAssumption DEF Launch
    <3> QED
      BY <1>1, <3>1 DEF Launch
  <2>2. ServiceInv' /\ InOrder
    BY <1>1 DEF Launch
  <2> QED
    BY <2>1, <2>2
<1>2. CASE ProcessEnds
  BY <1>2 DEF ProcessEnds, Step
<1>3. CASE Forget
  BY <1>3 DEF Forget
<1>4. CASE StopService
  BY <1>4 DEF StopService, SendStop
<1>5. CASE MainStep
  <2>1. CASE Register
    BY <2>1 DEF Register, Step
  <2>2. CASE Announce
    BY <2>2 DEF Announce, Step, Report
  <2>3. CASE CreateStopEvent
    BY <2>3 DEF CreateStopEvent, Step
  <2>4. CASE Wait
    BY <2>4 DEF Wait, Step
  <2>5. CASE CloseEvent
    BY <2>5 DEF CloseEvent, Step
  <2>6. CASE ReportStopped
    BY <2>6 DEF ReportStopped, Step, Report
  <2> QED
    BY <1>5, <2>1, <2>2, <2>3, <2>4, <2>5, <2>6 DEF MainStep
<1>6. CASE CtrlHandler
  <2>1. CASE handler = "called"
    BY <1>6, <2>1 DEF CtrlHandler, Report
  <2>2. CASE handler = "setEvent"
    BY <1>6, <2>2 DEF CtrlHandler, SignalStop, SetStop
  <2> QED
    BY <1>6, <2>1, <2>2 DEF CtrlHandler
<1>7. CASE ConsoleCtrl
  BY <1>7 DEF ConsoleCtrl, SignalStop, SetStop
<1>8. CASE Install
  BY <1>8 DEF Install
<1>9. CASE Uninstall
  BY <1>9 DEF Uninstall, UninstallStops, UninstallReturns, UninstallDeletes, SendStop
<1>10. CASE WorkerStep(StartUp) \/ WorkerStep(SeeStop) \/ WorkerStep(End)
  BY <1>10 DEF WorkerStep, WorkerRuns, StartUp, SeeStop, End
<1>11. CASE UNCHANGED scVars
  BY <1>11 DEF scVars
<1> QED
  BY <1>1, <1>2, <1>3, <1>4, <1>5, <1>6, <1>7, <1>8, <1>9, <1>10, <1>11 DEF ScNext

LEMMA ScInvHolds == ScSpec => []ScInv
BY ScInitInv, ScStep, PTL DEF ScSpec

(* The service's variables keep their types, and the event's handle is     *)
(* open exactly while ServiceMain or main() holds it.                      *)
THEOREM ScTypeCorrect == ScSpec => []ScTypeOK
<1>1. ScInv => ScTypeOK
  BY DEF ScInv
<1> QED
  BY <1>1, ScInvHolds, PTL

(* For any number of starts, stops and uninstalls, and for a process that  *)
(* ends without a report: a service reported stopped has no worker left.   *)
(* (service.cpp:174-180)                                                   *)
THEOREM StoppedMeansEndedHolds == ScSpec => []StoppedMeansEnded
<1>1. ScInv => StoppedMeansEnded
  BY DEF ScInv, ScTypeOK, ServiceInv, Accepting, StoppedMeansEnded, ServiceSteps,
         ConsoleSteps
<1> QED
  BY <1>1, ScInvHolds, PTL

(* The manager is told the states of each run in order, although two       *)
(* threads report them (service.cpp:168-170,178-180,188-193).              *)
THEOREM StatusOrderHolds == ScSpec => StatusOrder
<1>1. ScInv /\ [ScNext]_scVars =>
        [\/ Reported("stopped", "startPending") \/ Reported("startPending", "running")
         \/ Reported("running", "stopPending") \/ Reported("stopPending", "stopped")
         \/ Reported("startPending", "stopped")]_reported
  BY ScStep DEF InOrder
<1> QED
  BY <1>1, ScInvHolds, PTL DEF ScSpec, StatusOrder

-----------------------------------------------------------------------------
(* The client.                                                             *)

Asking == {"open", "called"}

(* The jobs a thread can be at; only the UI's disconnects.                 *)
Proper(t, j) ==
  \/ j = Idle
  \/ j.at = "verify" /\ j.cmd = "none" /\ j.does \in {"connect", "changeCity"}
  \/ /\ j.at \in Asking
     /\ \/ j.does = "start" /\ j.cmd = "get_cities"
        \/ j.does = "connect" /\ j.cmd \in {"connect", "get_cities"}
        \/ j.does = "changeCity" /\ j.cmd = "change_city"
        \/ t = 0 /\ j.does \in {"disconnect", "quit"} /\ j.cmd = "disconnect"

Leaving == job[0].cmd = "disconnect"

(* A job that may end in the claim of a tunnel.                            *)
Proving(j) == j.at = "verify" \/ (j.does = "connect" /\ j.cmd = "get_cities")
Claimed == is_connected_ \/ connected \/ \E t \in Threads : Proving(job[t])

InPipe(cmd) == pipe.at \in {"asked", "taken"} /\ pipe.cmd = cmd

Served == \A t \in Threads : job[t].at = "called" => InPipe(job[t].cmd) /\ pipe.by = t
NothingBehind ==
  ~alive => ~is_connected_ /\ ~connected /\ \A t \in Threads : job[t] = Idle
TakenUp == pipe.at = "taken" /\ pipe.cmd = "connect" => goal = "tunnelled"

(* As long as the user is patient and alone with the daemon, only the UI   *)
(* disconnects, only while the other threads rest, and whoever claims a    *)
(* tunnel has one.                                                         *)
Settled == mode = "tunnelled" /\ goal = "tunnelled"
CalmInv ==
  calm => /\ InPipe("disconnect") => job[0].at = "called" /\ Leaving
          /\ Claimed => Leaving \/ Settled
          /\ job[0].does = "disconnect" => Quiet

ClientInv ==
  /\ ClientTypeOK
  /\ \A t \in Threads : Proper(t, job[t])
  /\ Served /\ NothingBehind /\ TakenUp /\ CalmInv

LEMMA ThreadFacts == /\ 0 \in Threads /\ Detached \subseteq Threads /\ 0 \notin Detached
                     /\ NoOne \notin Threads /\ Other \notin Threads
                     /\ Threads = {0} \cup Detached
BY MaxThreadsAssumption DEF Threads, Detached, NoOne, Other

LEMMA IdleIsJob == Idle \in Jobs
BY MaxTriesAssumption DEF Idle, Jobs

(* The jobs a thread takes up next are jobs.                               *)
LEMMA CallingIsJob ==
  ASSUME NEW does \in {"start", "connect", "disconnect", "changeCity", "quit"},
         NEW cmd \in {"connect", "disconnect", "change_city", "get_cities"},
         NEW tries \in 0..(MaxTries - 1)
  PROVE  Calling(does, cmd, tries) \in Jobs
BY DEF Calling, Jobs

LEMMA VerifyingIsJob ==
  ASSUME NEW does \in {"connect", "changeCity"}, NEW tries \in 0..(MaxTries - 1)
  PROVE  Verifying(does, tries) \in Jobs
BY DEF Verifying, Jobs

LEMMA NextTryIsJob ==
  ASSUME NEW j \in Jobs, j.does \in {"connect", "changeCity"}
  PROVE  /\ NextTry(j) \in Jobs
         /\ NextTry(j) \in {Idle, Verifying(j.does, j.tries + 1)}
<1>1. j.tries \in 0..(MaxTries - 1)
  BY DEF Jobs
<1>2. j.tries + 1 < MaxTries => j.tries + 1 \in 0..(MaxTries - 1)
  BY <1>1, MaxTriesAssumption
<1> QED
  BY <1>2, IdleIsJob, VerifyingIsJob DEF NextTry

LEMMA ClientInitInv == ClientInit => ClientInv
<1> SUFFICES ASSUME ClientInit PROVE ClientInv
  OBVIOUS
<1> USE DEF ClientInit, TunnelInit
<1>1. job \in [Threads -> Jobs] /\ \A t \in Threads : job[t] = Idle
  BY IdleIsJob
<1>2. pipe = [at |-> "absent", cmd |-> "none", by |-> NoOne]
  BY DEF NoPipe
<1>3. ClientTypeOK
  <2>1. pipe \in [at : {"absent", "listening", "asked", "taken"},
                  cmd : {"none", "connect", "disconnect", "change_city", "get_cities"},
                  by : Threads \cup {NoOne, Other}]
    BY <1>2
  <2> QED
    BY <1>1, <2>1 DEF ClientTypeOK
<1>4. \A t \in Threads : Proper(t, job[t])
  BY <1>1 DEF Proper
<1>5. Served /\ NothingBehind /\ TakenUp
  BY <1>1, <1>2 DEF Served, NothingBehind, TakenUp, Idle
<1>6. CalmInv
  BY <1>1, <1>2, ThreadFacts DEF CalmInv, InPipe, Claimed, Proving, Idle
<1> QED
  BY <1>3, <1>4, <1>5, <1>6 DEF ClientInv

LEMMA BecomesDo ==
  ASSUME ClientTypeOK, NEW t \in Threads, NEW j \in Jobs, Becomes(t, j)
  PROVE  /\ job' \in [Threads -> Jobs]
         /\ job'[t] = j
         /\ \A s \in Threads : s # t => job'[s] = job[s]
BY DEF ClientTypeOK, Becomes

(* What a thread has done when its call returns: either the process ends,  *)
(* or the thread goes on to a job that holds no pipe and disconnects       *)
(* nothing, and claims no more than before unless it has just connected.   *)
Onward(t, result, j) ==
  /\ Becomes(t, j) /\ alive' = alive
  /\ connected' \in BOOLEAN /\ is_connected_' \in BOOLEAN
  /\ Proper(t, j) /\ j.at # "called" /\ j.cmd # "disconnect"
  /\ j.does \notin {"disconnect", "quit"}
  /\ IF job[t].cmd = "disconnect"
       THEN /\ t = 0 /\ job[t].does = "disconnect" /\ j = Idle
            /\ ~connected' /\ ~is_connected_'
       ELSE /\ connected' => connected
            /\ is_connected_' => is_connected_
            /\ Proving(j) => Claimed \/ (job[t].cmd = "connect" /\ result # "refused")

LEMMA ReturnsDo ==
  ASSUME ClientInv, NEW t \in Threads, NEW result, job[t].at \in Asking,
         Returns(t, result)
  PROVE  \/ Exit /\ job[t].does = "quit"
         \/ \E j \in Jobs : Onward(t, result, j)
<1>1. /\ job[t] \in Jobs /\ Proper(t, job[t])
      /\ connected \in BOOLEAN /\ is_connected_ \in BOOLEAN
  BY DEF ClientInv, ClientTypeOK
<1>2. job[t].tries \in 0..(MaxTries - 1) /\ 0 \in 0..(MaxTries - 1)
  BY <1>1, MaxTriesAssumption DEF Jobs
<1>3. CASE job[t].does = "quit"
  BY <1>3 DEF Returns
<1>4. CASE job[t].does # "quit" /\ job[t].cmd = "connect" /\ ConnectReturns(t, result)
  <2>1. CASE result = "refused"
    <3>1. Onward(t, result, Idle)
      BY <1>1, <1>4, <2>1 DEF ConnectReturns, Onward, Proper, Idle, Proving
    <3> QED
      BY <3>1, IdleIsJob
  <2>2. CASE result # "refused"
    <3> DEFINE j == Verifying("connect", 0)
    <3>1. j \in Jobs
      BY <1>2, VerifyingIsJob
    <3>2. Onward(t, result, j)
      BY <1>1, <1>4, <2>2 DEF ConnectReturns, Onward, Proper, Verifying
    <3> QED
      BY <3>1, <3>2
  <2> QED
    BY <2>1, <2>2
<1>5. CASE job[t].does # "quit" /\ job[t].cmd = "get_cities" /\ CitiesReturn(t, result)
  <2>1. CASE job[t].does = "start"
    <3>1. Onward(t, result, Idle)
      BY <1>1, <1>5, <2>1 DEF CitiesReturn, Onward, Proper, Idle, Proving
    <3> QED
      BY <3>1, IdleIsJob
  <2>2. CASE job[t].does # "start"
    <3>1. job[t].does = "connect" /\ Claimed
      BY <1>1, <1>5, <2>2 DEF Proper, Asking, Claimed, Proving, Idle
    <3>2. CASE result = "ok"
      <4> DEFINE j == NextTry(job[t])
      <4>1. j \in Jobs /\ j \in {Idle, Verifying("connect", job[t].tries + 1)}
        BY <1>1, <3>1, NextTryIsJob
      <4>2. Becomes(t, j)
        BY <1>5, <2>2, <3>2 DEF CitiesReturn
      <4>3. /\ j.at # "called" /\ j.cmd # "disconnect"
            /\ j.does \notin {"disconnect", "quit"} /\ Proper(t, j)
        BY <4>1 DEF Proper, Idle, Verifying
      <4>4. Onward(t, result, j)
        BY <1>1, <1>5, <3>1, <4>2, <4>3 DEF CitiesReturn, Onward
      <4> QED
        BY <4>1, <4>4
    <3>3. CASE result # "ok"
      <4> DEFINE j == Calling("connect", "get_cities", job[t].tries)
      <4>1. j \in Jobs
        BY <1>2, CallingIsJob
      <4>2. Onward(t, result, j)
        BY <1>1, <1>5, <2>2, <3>1, <3>3
           DEF CitiesReturn, Onward, Proper, Calling, Asking
      <4> QED
        BY <4>1, <4>2
    <3> QED
      BY <3>2, <3>3
  <2> QED
    BY <2>1, <2>2
<1>6. CASE job[t].does # "quit" /\ job[t].cmd = "disconnect" /\ DisconnectReturns(t)
  <2>1. t = 0 /\ job[t].does = "disconnect"
    BY <1>1, <1>6 DEF Proper, Idle
  <2>2. Onward(t, result, Idle)
    BY <1>6, <2>1 DEF DisconnectReturns, Onward, Proper, Idle
  <2> QED
    BY <2>2, IdleIsJob
<1>7. CASE job[t].does # "quit" /\ job[t].cmd = "change_city" /\ ChangeCityReturns(t)
  <2> DEFINE j == IF connected THEN Verifying("changeCity", 0) ELSE Idle
  <2>1. j \in Jobs
    BY <1>2, VerifyingIsJob, IdleIsJob
  <2>2. Becomes(t, j)
    BY <1>7 DEF ChangeCityReturns
  <2>3. /\ j.at # "called" /\ j.cmd # "disconnect"
        /\ j.does \notin {"disconnect", "quit"} /\ Proper(t, j)
        /\ Proving(j) => Claimed
    BY DEF Proper, Idle, Verifying, Proving, Claimed
  <2>4. is_connected_' \in BOOLEAN /\ (is_connected_' => is_connected_)
    BY <1>7 DEF ChangeCityReturns
  <2>5. Onward(t, result, j)
    BY <1>1, <1>7, <2>2, <2>3, <2>4 DEF ChangeCityReturns, Onward
  <2> QED
    BY <2>1, <2>5
<1> QED
  BY <1>3, <1>4, <1>5, <1>6, <1>7 DEF Returns

(* The variables of the daemon and its pipe keep their types.              *)
DaemonTyped ==
  /\ mode \in {"open", "sealed", "tunnelled"} /\ goal \in {"open", "tunnelled"}
  /\ pipe \in [at : {"absent", "listening", "asked", "taken"},
               cmd : {"none", "connect", "disconnect", "change_city", "get_cities"},
               by : Threads \cup {NoOne, Other}]
  /\ calm \in BOOLEAN

LEMMA NoPipeFacts == /\ NoPipe.at = "absent" /\ NoPipe.cmd = "none"
                     /\ NoPipe \in [at : {"absent", "listening", "asked", "taken"},
                          cmd : {"none", "connect", "disconnect", "change_city",
                                 "get_cities"},
                          by : Threads \cup {NoOne, Other}]
BY DEF NoPipe

(* A call may return refused, the pipe untouched, or with the pipe gone.   *)
LEMMA ReturnKeeps ==
  ASSUME ClientInv, NEW t \in Threads, NEW result, job[t].at \in Asking,
         Returns(t, result), DaemonTyped', calm' => calm /\ UNCHANGED tunnelVars,
         \/ pipe' = pipe /\ UNCHANGED tunnelVars /\ job[t].at = "open"
         \/ pipe' = NoPipe /\ job[t].at = "called",
         calm' /\ job[t].cmd = "connect" /\ result # "refused" => Settled
  PROVE  ClientInv'
<1> USE DEF ClientInv, ClientTypeOK, DaemonTyped, InPipe
<1>1. CASE Exit /\ job[t].does = "quit"
  <2>1. \A s \in Threads : job'[s] = Idle
    BY <1>1 DEF Exit
  <2>2. job' \in [Threads -> Jobs]
    BY <1>1, IdleIsJob DEF Exit
  <2>3. ~alive' /\ ~connected' /\ ~is_connected_'
    BY <1>1 DEF Exit
  <2>4. ClientTypeOK'
    BY <1>1, <2>2 DEF Exit
  <2>5. \A s \in Threads : Proper(s, job[s])'
    BY <2>1 DEF Proper
  <2>6. Served' /\ NothingBehind'
    BY <2>1, <2>3 DEF Served, NothingBehind, Idle
  <2>7. TakenUp'
    BY NoPipeFacts DEF TakenUp, tunnelVars
  <2>8. t = 0 /\ job[t].cmd = "disconnect"
    BY <1>1 DEF Proper, Idle
  <2>9. CalmInv'
    <3>1. ~Claimed' /\ job'[0].does # "disconnect"
      BY <2>1, <2>3, ThreadFacts DEF Claimed, Proving, Idle
    <3>2. calm' => ~InPipe("disconnect")'
      BY <2>8, NoPipeFacts, ThreadFacts DEF CalmInv
    <3> QED
      BY <3>1, <3>2 DEF CalmInv
  <2> QED
    BY <2>4, <2>5, <2>6, <2>7, <2>9
<1>2. ASSUME NEW j \in Jobs, Onward(t, result, j)
      PROVE  ClientInv'
  <2> USE <1>2 DEF Onward
  <2>1. /\ job' \in [Threads -> Jobs] /\ job'[t] = j
        /\ \A s \in Threads : s # t => job'[s] = job[s]
    BY BecomesDo
  <2>2. ClientTypeOK'
    BY <2>1
  <2>3. \A s \in Threads : Proper(s, job[s])'
    BY <2>1 DEF Proper
  <2>4. Served'
    <3>1. ASSUME NEW s \in Threads, job'[s].at = "called", s # t, pipe' = NoPipe
          PROVE  FALSE
      BY <2>1, <3>1, NoPipeFacts DEF Served
    <3>2. ASSUME pipe' = pipe
          PROVE  Served'
      BY <2>1, <3>2 DEF Served
    <3> QED
      BY <2>1, <3>1, <3>2 DEF Served
  <2>5. NothingBehind'
    BY DEF NothingBehind, Asking, Idle
  <2>6. TakenUp'
    BY NoPipeFacts DEF TakenUp, tunnelVars
  <2>7. ASSUME calm' PROVE InPipe("disconnect")' => job'[0].at = "called" /\ Leaving'
    <3>1. ASSUME InPipe("disconnect")'
          PROVE  job[0].at = "called" /\ Leaving /\ t # 0
      BY <2>7, <3>1, NoPipeFacts DEF CalmInv
    <3> QED
      BY <3>1, <2>1, ThreadFacts DEF Leaving
  <2>8. ASSUME calm' PROVE Claimed' => (Leaving \/ Settled)'
    <3>1. CASE job[t].cmd = "disconnect"
      <4>1. t = 0 /\ Quiet /\ ~connected' /\ ~is_connected_' /\ j = Idle
        BY <2>8, <3>1 DEF CalmInv
      <4>2. \A s \in Threads : job'[s] = Idle
        BY <2>1, <4>1, ThreadFacts DEF Quiet
      <4> QED
        BY <4>1, <4>2 DEF Claimed, Proving, Idle
    <3>2. CASE job[t].cmd # "disconnect"
      <4>1. ASSUME Claimed' PROVE Claimed \/ Settled
        BY <2>1, <2>8, <3>2, <4>1 DEF Claimed
      <4>2. Claimed' => Leaving \/ Settled
        BY <4>1, <2>8 DEF CalmInv
      <4>3. Leaving => Leaving'
        BY <2>1, <3>2, ThreadFacts DEF Leaving
      <4>4. Settled => Settled'
        BY <2>8 DEF Settled, tunnelVars
      <4> QED
        BY <4>2, <4>3, <4>4
    <3> QED
      BY <3>1, <3>2
  <2>9. ASSUME calm' PROVE job'[0].does = "disconnect" => Quiet'
    <3>1. ASSUME job'[0].does = "disconnect"
          PROVE  FALSE
      <4>1. t # 0 /\ job[0].does = "disconnect"
        BY <2>1, <3>1, ThreadFacts
      <4>2. Quiet
        BY <4>1, <2>9 DEF CalmInv
      <4> QED
        BY <4>1, <4>2, ThreadFacts DEF Quiet, Idle, Asking
    <3> QED
      BY <3>1
  <2>10. CalmInv'
    BY <2>7, <2>8, <2>9 DEF CalmInv
  <2> QED
    BY <2>2, <2>3, <2>4, <2>5, <2>6, <2>10
<1> QED
  BY <1>1, <1>2, ReturnsDo

(* The calls of a thread.                                                  *)
LEMMA OpenKeeps ==
  ASSUME ClientInv, NEW t \in Threads, Open(t), UNCHANGED calm
  PROVE  ClientInv'
<1> USE DEF Open
<1>1. CASE pipe.at # "listening"
  <2>1. Returns(t, "refused") /\ pipe' = pipe /\ UNCHANGED tunnelVars
    BY <1>1
  <2>2. DaemonTyped'
    BY <2>1 DEF ClientInv, ClientTypeOK, DaemonTyped, tunnelVars
  <2> QED
    BY <2>1, <2>2, ReturnKeeps DEF Asking
<1>2. CASE pipe.at = "listening"
  <2> USE DEF ClientInv, ClientTypeOK, InPipe
  <2> DEFINE j == [job[t] EXCEPT !.at = "called"]
  <2>1. /\ j \in Jobs /\ j.at = "called" /\ j.does = job[t].does /\ j.cmd = job[t].cmd
    BY DEF Jobs
  <2>2. /\ job' \in [Threads -> Jobs] /\ job'[t] = j
        /\ \A s \in Threads : s # t => job'[s] = job[s]
    BY <1>2, <2>1, BecomesDo
  <2>3. /\ pipe' = [at |-> "asked", cmd |-> job[t].cmd, by |-> t]
        /\ UNCHANGED <<alive, connected, is_connected_, mode, goal, calm>>
    BY <1>2 DEF tunnelVars
  <2>4. pipe' \in [at : {"absent", "listening", "asked", "taken"},
                   cmd : {"none", "connect", "disconnect", "change_city", "get_cities"},
                   by : Threads \cup {NoOne, Other}]
    BY <2>3 DEF Jobs
  <2>5. ClientTypeOK'
    BY <2>2, <2>3, <2>4
  <2>6. \A s \in Threads : Proper(s, job[s])'
    <3> HIDE DEF j
    <3>1. job[t] # Idle /\ job[t].at # "verify" /\ Proper(t, job[t])
      BY DEF Idle
    <3>2. Proper(t, j)
      BY <2>1, <3>1 DEF Proper, Asking
    <3> QED
      BY <2>2, <3>2 DEF Proper
  <2>7. Served'
    BY <1>2, <2>1, <2>2, <2>3 DEF Served
  <2>8. NothingBehind' /\ TakenUp'
    BY <2>2, <2>3 DEF NothingBehind, TakenUp, Idle
  <2>9. CalmInv'
    <3>1. InPipe("disconnect")' => job'[0].at = "called" /\ Leaving'
      <4>1. job[t].cmd = "disconnect" => t = 0
        BY DEF Proper, Idle
      <4>2. InPipe("disconnect")' => job[t].cmd = "disconnect"
        BY <2>3
      <4> QED
        BY <2>1, <2>2, <4>1, <4>2 DEF Leaving
    <3>2. \A s \in Threads : /\ Proving(job'[s]) => Proving(job[s])
                             /\ job'[s].cmd = job[s].cmd /\ job'[s].does = job[s].does
      BY <2>1, <2>2 DEF Proving
    <3>3. (Claimed' => Claimed) /\ (Leaving => Leaving') /\ (Settled => Settled')
      BY <2>3, <3>2, ThreadFacts DEF Claimed, Leaving, Settled
    <3>4. ASSUME calm, job'[0].does = "disconnect" PROVE Quiet'
      <4>1. Quiet
        BY <3>2, <3>4, ThreadFacts DEF CalmInv
      <4>2. t \notin Detached
        BY <4>1 DEF Quiet, Idle
      <4> QED
        BY <2>2, <4>1, <4>2, ThreadFacts DEF Quiet
    <3> QED
      BY <2>3, <3>1, <3>3, <3>4 DEF CalmInv
  <2> QED
    BY <2>5, <2>6, <2>7, <2>8, <2>9
<1> QED
  BY <1>1, <1>2

LEMMA AnswerKeeps ==
  ASSUME ClientInv, NEW t \in Threads, Answer(t), UNCHANGED calm
  PROVE  ClientInv'
<1>1. PICK result \in {"ok"} \cup (IF pipe.cmd = "get_cities" THEN {"empty"} ELSE {}) :
        Returns(t, result)
  BY DEF Answer
<1>2. job[t].at = "called" /\ pipe' = NoPipe /\ UNCHANGED tunnelVars
  BY DEF Answer, Answered
<1>3. DaemonTyped'
  BY <1>2, NoPipeFacts DEF ClientInv, ClientTypeOK, DaemonTyped, tunnelVars
<1>4. job[t].cmd = "connect" => Settled
  BY DEF Answer, Answered, ClientInv, ClientTypeOK, Served, InPipe, TakenUp, Settled
<1> QED
  BY <1>1, <1>2, <1>3, <1>4, ReturnKeeps DEF Asking

LEMMA DaemonDiesKeeps ==
  ASSUME ClientInv, DaemonDies
  PROVE  ClientInv'
<1>1. DaemonTyped' /\ ~calm' /\ pipe' = NoPipe
  BY NoPipeFacts DEF DaemonDies, DaemonTyped
<1>2. CASE pipe.by \in Threads /\ job[pipe.by].at = "called"
  <2>1. PICK result \in {"refused", IF pipe.cmd = "get_cities" THEN "empty" ELSE "ok"} :
          Returns(pipe.by, result)
    BY <1>2 DEF DaemonDies
  <2> QED
    BY <1>1, <1>2, <2>1, ReturnKeeps DEF Asking
<1>3. CASE ~(pipe.by \in Threads /\ job[pipe.by].at = "called")
  <2>1. UNCHANGED clientVars
    BY <1>3 DEF DaemonDies
  <2>2. \A t \in Threads : job[t].at # "called"
    BY <1>3 DEF ClientInv, Served
  <2> QED
    BY <1>1, <2>1, <2>2, NoPipeFacts
       DEF ClientInv, ClientTypeOK, DaemonTyped, clientVars, Served, NothingBehind,
           TakenUp, CalmInv
<1> QED
  BY <1>2, <1>3

LEMMA VerifyKeeps ==
  ASSUME ClientInv, NEW t \in Threads, Verify(t), UNCHANGED calm
  PROVE  ClientInv'
<1> USE DEF ClientInv, ClientTypeOK, InPipe
<1>1. /\ job[t].at = "verify" /\ UNCHANGED <<alive, mode, goal, pipe, calm>>
      /\ job[t].cmd = "none" /\ job[t].does \in {"connect", "changeCity"}
      /\ job[t] \in Jobs /\ job[t] # Idle
  BY DEF Verify, Proper, Asking, Idle, tunnelVars
<1>2. PICK j \in Jobs :
        /\ Becomes(t, j) /\ Proper(t, j) /\ j.at # "called"
        /\ j.does \notin {"disconnect", "quit"} /\ j.cmd # "disconnect"
  <2>1. CASE Becomes(t, Idle)
    BY <2>1, IdleIsJob DEF Proper, Idle
  <2>2. CASE Becomes(t, NextTry(job[t]))
    <3>1. /\ NextTry(job[t]) \in Jobs
          /\ NextTry(job[t]) \in {Idle, Verifying(job[t].does, job[t].tries + 1)}
      BY <1>1, NextTryIsJob
    <3> QED
      BY <1>1, <2>2, <3>1 DEF Proper, Idle, Verifying
  <2>3. CASE job[t].does = "connect"
             /\ Becomes(t, Calling("connect", "get_cities", job[t].tries))
    <3>1. Calling("connect", "get_cities", job[t].tries) \in Jobs
      BY <1>1, CallingIsJob DEF Jobs
    <3> QED
      BY <2>3, <3>1 DEF Proper, Calling, Asking
  <2> QED
    BY <2>1, <2>2, <2>3 DEF Verify
<1>3. /\ job' \in [Threads -> Jobs] /\ job'[t] = j
      /\ \A s \in Threads : s # t => job'[s] = job[s]
  BY <1>2, BecomesDo
<1>4. connected' \in BOOLEAN /\ is_connected_' \in BOOLEAN
  BY DEF Verify
<1>5. ClientTypeOK'
  BY <1>1, <1>3, <1>4
<1>6. \A s \in Threads : Proper(s, job[s])'
  BY <1>2, <1>3 DEF Proper
<1>7. Served' /\ NothingBehind' /\ TakenUp'
  BY <1>1, <1>2, <1>3 DEF Served, NothingBehind, TakenUp
<1>8. ASSUME calm PROVE CalmInv'
  <2>1. Claimed
    BY <1>1 DEF Claimed, Proving
  <2>2. InPipe("disconnect")' => job'[0].at = "called" /\ Leaving'
    BY <1>1, <1>3, <1>8, ThreadFacts DEF CalmInv, Leaving
  <2>3. Leaving' \/ Settled'
    BY <1>1, <1>3, <1>8, <2>1, ThreadFacts DEF CalmInv, Leaving, Settled
  <2>4. job'[0].does # "disconnect"
    <3>1. ASSUME job'[0].does = "disconnect" PROVE FALSE
      <4>1. t \in Detached /\ job[0].does = "disconnect"
        BY <1>2, <1>3, <3>1, ThreadFacts
      <4> QED
        BY <1>1, <1>8, <4>1 DEF CalmInv, Quiet
    <3> QED
      BY <3>1
  <2> QED
    BY <2>2, <2>3, <2>4 DEF CalmInv
<1> QED
  BY <1>1, <1>5, <1>6, <1>7, <1>8 DEF CalmInv

(* A thread that rested takes up a job of the user's.                      *)
LEMMA TakesUpKeeps ==
  ASSUME ClientInv, NEW t \in Threads, NEW j \in Jobs, Becomes(t, j),
         job[t] = Idle, job[0] = Idle, Proper(t, j), j.at = "open",
         ~(j.does = "connect" /\ j.cmd = "get_cities"),
         alive', UNCHANGED <<connected, is_connected_, tunnelVars, pipe>>,
         alive' \in BOOLEAN, calm' \in BOOLEAN, calm' => calm,
         calm' /\ j.does = "disconnect" => t = 0 /\ Quiet
  PROVE  ClientInv'
<1> USE DEF ClientInv, ClientTypeOK, InPipe, tunnelVars
<1>1. /\ job' \in [Threads -> Jobs] /\ job'[t] = j
      /\ \A s \in Threads : s # t => job'[s] = job[s]
  BY BecomesDo
<1>2. ClientTypeOK'
  BY <1>1
<1>3. \A s \in Threads : Proper(s, job[s])'
  BY <1>1 DEF Proper
<1>4. Served' /\ NothingBehind' /\ TakenUp'
  BY <1>1 DEF Served, NothingBehind, TakenUp
<1>5. ASSUME calm' PROVE CalmInv'
  <2>1. ~InPipe("disconnect")'
    BY <1>5 DEF CalmInv, Idle
  <2>2. Claimed' => Claimed
    BY <1>1 DEF Claimed, Proving
  <2>3. ~Leaving
    BY DEF Leaving, Idle
  <2>4. Claimed' => (Leaving \/ Settled)'
    BY <1>5, <2>2, <2>3 DEF CalmInv, Settled
  <2>5. job'[0].does = "disconnect" => Quiet'
    <3>1. ASSUME job'[0].does = "disconnect" PROVE t = 0 /\ Quiet
      BY <1>1, <1>5, <3>1, ThreadFacts DEF Idle
    <3> QED
      BY <1>1, <3>1, ThreadFacts DEF Quiet
  <2> QED
    BY <2>1, <2>4, <2>5 DEF CalmInv
<1> QED
  BY <1>2, <1>3, <1>4, <1>5 DEF CalmInv

LEMMA ExitKeeps ==
  ASSUME ClientInv, Exit, job[0] = Idle, UNCHANGED <<tunnelVars, pipe, calm>>
  PROVE  ClientInv'
<1> USE DEF ClientInv, ClientTypeOK, InPipe, tunnelVars
<1>1. /\ job' \in [Threads -> Jobs] /\ \A s \in Threads : job'[s] = Idle
      /\ ~alive' /\ ~connected' /\ ~is_connected_'
  BY IdleIsJob DEF Exit
<1>2. ClientTypeOK'
  BY <1>1 DEF Exit
<1>3. (\A s \in Threads : Proper(s, job[s]))' /\ TakenUp'
  BY <1>1 DEF Proper, TakenUp
<1>4. Served' /\ NothingBehind'
  BY <1>1 DEF Served, NothingBehind, Idle
<1>5. CalmInv'
  BY <1>1, ThreadFacts DEF CalmInv, Claimed, Proving, Idle
<1> QED
  BY <1>2, <1>3, <1>4, <1>5

LEMMA UserKeeps == ClientInv /\ User => ClientInv'
<1> SUFFICES ASSUME ClientInv, User PROVE ClientInv'
  OBVIOUS
<1> USE ThreadFacts
<1>1. 0 \in 0..(MaxTries - 1)
  BY MaxTriesAssumption
<1>2. ASSUME NEW does \in {"start", "connect", "disconnect", "changeCity", "quit"},
             NEW cmd \in {"connect", "disconnect", "change_city", "get_cities"}
      PROVE  /\ Calling(does, cmd, 0) \in Jobs /\ Calling(does, cmd, 0).at = "open"
             /\ Calling(does, cmd, 0).does = does /\ Calling(does, cmd, 0).cmd = cmd
  BY <1>1, CallingIsJob DEF Calling
<1>3. CASE Toggle
  <2>1. alive /\ alive' = alive /\ job[0] = Idle /\ calm' \in BOOLEAN /\ (calm' => calm)
    BY <1>3 DEF Toggle, UserActs, ClientInv, ClientTypeOK
  <2>2. CASE is_connected_
    <3> DEFINE j == Calling("disconnect", "disconnect", 0)
    <3>1. /\ j \in Jobs /\ j.at = "open" /\ j.does = "disconnect" /\ j.cmd = "disconnect"
      BY <1>2
    <3>2. Becomes(0, j) /\ (calm' => Quiet)
      BY <1>3, <2>2 DEF Toggle
    <3> HIDE DEF j
    <3>3. Proper(0, j)
      BY <3>1 DEF Proper, Asking
    <3> QED
      BY <1>3, <2>1, <3>1, <3>2, <3>3, TakesUpKeeps DEF Toggle, ClientInv, ClientTypeOK
  <2>3. CASE ~is_connected_
    <3> DEFINE j == Calling("connect", "connect", 0)
    <3>1. j \in Jobs /\ j.at = "open" /\ j.does = "connect" /\ j.cmd = "connect"
      BY <1>2
    <3>2. PICK t \in Detached : job[t] = Idle /\ Becomes(t, j)
      BY <1>3, <2>3 DEF Toggle, Detach
    <3> HIDE DEF j
    <3>3. Proper(t, j)
      BY <3>1 DEF Proper, Asking
    <3> QED
      BY <1>3, <2>1, <3>1, <3>2, <3>3, TakesUpKeeps DEF Toggle, ClientInv, ClientTypeOK
  <2> QED
    BY <2>2, <2>3
<1>4. CASE ChangeCity /\ UNCHANGED calm
  <2> DEFINE j == Calling("changeCity", "change_city", 0)
  <2>1. j \in Jobs /\ j.at = "open" /\ j.does = "changeCity" /\ j.cmd = "change_city"
    BY <1>2
  <2>2. PICK t \in Detached : job[t] = Idle /\ Becomes(t, j)
    BY <1>4 DEF ChangeCity, Detach
  <2> HIDE DEF j
  <2>3. Proper(t, j)
    BY <2>1 DEF Proper, Asking
  <2> QED
    BY <1>4, <2>1, <2>2, <2>3, TakesUpKeeps
       DEF ChangeCity, UserActs, ClientInv, ClientTypeOK
<1>5. CASE Quit /\ UNCHANGED calm
  <2>1. CASE connected
    <3> DEFINE j == Calling("quit", "disconnect", 0)
    <3>1. j \in Jobs /\ j.at = "open" /\ j.does = "quit" /\ j.cmd = "disconnect"
      BY <1>2
    <3>2. Becomes(0, j) /\ job[0] = Idle
      BY <1>5, <2>1 DEF Quit, UserActs
    <3> HIDE DEF j
    <3>3. Proper(0, j)
      BY <3>1 DEF Proper, Asking
    <3> QED
      BY <1>5, <2>1, <3>1, <3>2, <3>3, TakesUpKeeps
         DEF Quit, UserActs, ClientInv, ClientTypeOK
  <2>2. CASE ~connected
    BY <1>5, <2>2, ExitKeeps DEF Quit, UserActs
  <2> QED
    BY <2>1, <2>2
<1>6. CASE Start /\ UNCHANGED calm
  <2> DEFINE j == Calling("start", "get_cities", 0)
  <2>1. j \in Jobs /\ j.at = "open" /\ j.does = "start" /\ j.cmd = "get_cities"
    BY <1>2
  <2>2. job[0] = Idle /\ Becomes(0, j)
    BY <1>6 DEF Start, ClientInv, NothingBehind
  <2> HIDE DEF j
  <2>3. Proper(0, j)
    BY <2>1 DEF Proper, Asking
  <2> QED
    BY <1>6, <2>1, <2>2, <2>3, TakesUpKeeps DEF Start, ClientInv, ClientTypeOK
<1> QED
  BY <1>3, <1>4, <1>5, <1>6 DEF User

(* The daemon and the other client: only a disconnect that was taken up    *)
(* moves the goal of a settled tunnel, and only the UI asks for one.       *)
LEMMA DaemonKeeps == ClientInv /\ DaemonStep => ClientInv'
<1> SUFFICES ASSUME ClientInv, DaemonStep PROVE ClientInv'
  OBVIOUS
<1> USE NoPipeFacts DEF InPipe, clientVars
<1>1. UNCHANGED <<alive, connected, is_connected_, job, calm>>
  BY DEF DaemonStep, Listen, TakeUp, MoveTunnel, AnswerNobody
<1>2. /\ (\A t \in Threads : Proper(t, job[t]))' /\ NothingBehind'
      /\ (Claimed' => Claimed) /\ (Leaving => Leaving') /\ (Quiet => Quiet')
  BY <1>1 DEF ClientInv, NothingBehind, Claimed, Leaving, Quiet
<1>3. ASSUME DaemonTyped', Served', TakenUp',
             calm => (InPipe("disconnect")' => InPipe("disconnect")),
             calm /\ Claimed => Leaving \/ Settled'
      PROVE  ClientInv'
  <2>1. ClientTypeOK'
    BY <1>1, <1>3 DEF ClientInv, ClientTypeOK, DaemonTyped
  <2>2. CalmInv'
    BY <1>1, <1>2, <1>3 DEF ClientInv, CalmInv, Leaving, Settled
  <2> QED
    BY <1>2, <1>3, <2>1, <2>2 DEF ClientInv
<1>4. CASE Listen
  <2>1. pipe' = [NoPipe EXCEPT !.at = "listening"] /\ UNCHANGED tunnelVars
        /\ pipe.at = "absent"
    BY <1>4 DEF Listen
  <2>2. pipe'.at = "listening" /\ DaemonTyped'
    BY <1>1, <2>1 DEF ClientInv, ClientTypeOK, DaemonTyped, tunnelVars
  <2>3. Served' /\ TakenUp'
    BY <1>1, <2>1, <2>2 DEF ClientInv, Served, TakenUp
  <2> QED
    BY <1>3, <2>1, <2>2, <2>3 DEF ClientInv, CalmInv, Settled, tunnelVars
<1>5. CASE TakeUp
  <2>1. /\ pipe.at = "asked" /\ pipe' = [pipe EXCEPT !.at = "taken"]
        /\ pipe'.at = "taken" /\ pipe'.cmd = pipe.cmd /\ pipe'.by = pipe.by
    BY <1>5 DEF TakeUp, ClientInv, ClientTypeOK
  <2>2. \/ UNCHANGED tunnelVars /\ ~(pipe.cmd = "connect" /\ goal = "open")
        \/ Command /\ pipe.cmd = "connect" /\ goal = "open"
        \/ Command /\ pipe.cmd = "disconnect" /\ goal = "tunnelled"
    BY <1>5 DEF TakeUp
  <2>3. /\ mode' = mode /\ goal' \in {"open", "tunnelled"}
        /\ pipe.cmd = "connect" => goal' = "tunnelled"
        /\ Settled /\ ~Settled' => pipe.cmd = "disconnect"
    BY <2>2 DEF Command, tunnelVars, Settled, ClientInv, ClientTypeOK
  <2>4. DaemonTyped'
    BY <1>1, <2>1, <2>3 DEF ClientInv, ClientTypeOK, DaemonTyped
  <2>5. Served' /\ TakenUp'
    BY <1>1, <2>1, <2>3 DEF ClientInv, Served, TakenUp
  <2>6. calm => (InPipe("disconnect")' => InPipe("disconnect"))
    BY <2>1
  <2>7. calm /\ Claimed => Leaving \/ Settled'
    BY <2>1, <2>3 DEF ClientInv, CalmInv
  <2> QED
    BY <1>3, <2>4, <2>5, <2>6, <2>7
<1>6. CASE MoveTunnel
  <2>1. /\ pipe' = pipe /\ goal' = goal /\ mode # goal
        /\ mode' \in {"open", "sealed", "tunnelled"}
    BY <1>6 DEF MoveTunnel, Advance, Raised, Lowered, ClientInv, ClientTypeOK
  <2>2. DaemonTyped' /\ Served' /\ TakenUp' /\ ~Settled
    BY <1>1, <2>1
       DEF ClientInv, ClientTypeOK, DaemonTyped, Served, TakenUp, Settled
  <2> QED
    BY <1>3, <2>1, <2>2 DEF ClientInv, CalmInv
<1>7. CASE AnswerNobody
  <2>1. pipe' = NoPipe /\ UNCHANGED tunnelVars
    BY <1>7 DEF AnswerNobody, Answered
  <2>2. \A t \in Threads : job[t].at # "called"
    BY <1>7 DEF AnswerNobody, ClientInv, Served
  <2>3. DaemonTyped' /\ Served' /\ TakenUp'
    BY <1>1, <2>1, <2>2
       DEF ClientInv, ClientTypeOK, DaemonTyped, Served, TakenUp, tunnelVars
  <2> QED
    BY <1>3, <2>1, <2>3 DEF ClientInv, CalmInv, Settled, tunnelVars
<1> QED
  BY <1>4, <1>5, <1>6, <1>7 DEF DaemonStep

LEMMA OtherClientKeeps == ClientInv /\ OtherClient => ClientInv'
<1> SUFFICES ASSUME ClientInv, OtherClient PROVE ClientInv'
  OBVIOUS
<1>1. PICK cmd \in {"connect", "disconnect"} :
        pipe' = [at |-> "asked", cmd |-> cmd, by |-> Other]
  BY DEF OtherClient
<1>2. /\ UNCHANGED <<alive, connected, is_connected_, job, mode, goal>>
      /\ ~calm' /\ calm' \in BOOLEAN /\ pipe.at = "listening"
  BY DEF OtherClient, tunnelVars, clientVars
<1>3. ClientTypeOK'
  BY <1>1, <1>2 DEF ClientInv, ClientTypeOK
<1>4. Served' /\ TakenUp'
  BY <1>1, <1>2 DEF ClientInv, Served, InPipe, TakenUp
<1> QED
  BY <1>2, <1>3, <1>4 DEF ClientInv, NothingBehind, CalmInv

LEMMA ClientStep == ClientInv /\ [ClientNext]_allVars => ClientInv'
<1> SUFFICES ASSUME ClientInv, [ClientNext]_allVars PROVE ClientInv'
  OBVIOUS
<1>1. CASE \E t \in Threads : ThreadStep(t)
  BY <1>1, OpenKeeps, AnswerKeeps, VerifyKeeps DEF ThreadStep
<1>2. CASE UNCHANGED allVars
  BY <1>2 DEF allVars, tunnelVars, clientVars, ClientInv, ClientTypeOK, Served, InPipe,
              NothingBehind, TakenUp, CalmInv, Claimed, Leaving, Settled, Quiet
<1> QED
  BY <1>1, <1>2, DaemonKeeps, UserKeeps, OtherClientKeeps, DaemonDiesKeeps
     DEF ClientNext

LEMMA ClientInvHolds == ClientSpec => []ClientInv
BY ClientInitInv, ClientStep, PTL DEF ClientSpec

(* Every job, flag and pipe of the client stays what it is declared as,    *)
(* for any number of threads and attempts and with all faults.             *)
THEOREM ClientTypeCorrect == ClientSpec => []ClientTypeOK
<1>1. ClientInv => ClientTypeOK
  BY DEF ClientInv
<1> QED
  BY <1>1, ClientInvHolds, PTL

(* "STATUS: SECURE & ENCRYPTED" (tui.cpp:43) and the flag behind the       *)
(* buttons are true for one patient user, whatever his threads overlap and *)
(* whichever commands get lost (main.cpp:64-119).                          *)
THEOREM SecureMeansTunnelledHolds == ClientSpec => []SecureMeansTunnelled
<1>1. ClientInv => SecureMeansTunnelled
  BY DEF ClientInv, CalmInv, Claimed, Leaving, Settled, SecureMeansTunnelled
<1> QED
  BY <1>1, ClientInvHolds, PTL

-----------------------------------------------------------------------------
(* Both side by side, as the runs have them: each part's steps are steps   *)
(* of its own specification, and the other's leave it alone.               *)
LEMMA ServicePart == Spec => ScSpec
<1>1. Init => ScInit
  BY DEF Init
<1>2. [Next]_frontVars => [ScNext]_scVars
  BY DEF Next, frontVars, Service, AtClient, Menu
<1> QED
  BY <1>1, <1>2, PTL DEF Spec, ScSpec

LEMMA ClientPart == Spec => ClientSpec
<1>1. Init => ClientInit
  BY DEF Init
<1>2. [Next]_frontVars => [ClientNext]_allVars
  BY DEF Next, frontVars, Service, AtClient, Menu
<1> QED
  BY <1>1, <1>2, PTL DEF Spec, ClientSpec

(* The types of the service (service.cpp) and of the client (main.cpp,     *)
(* ipc_client.cpp, tui.cpp), as the runs check them.                       *)
THEOREM FrontTypeCorrect == Spec => []FrontTypeOK
<1>1. ScTypeOK /\ ClientTypeOK => FrontTypeOK
  BY DEF FrontTypeOK
<1> QED
  BY <1>1, ScTypeCorrect, ClientTypeCorrect, ServicePart, ClientPart, PTL

-----------------------------------------------------------------------------
(* The menu.                                                               *)

(* What FoldLeft computes: a function on sets of places, which takes the   *)
(* last place of each set off.                                             *)
Folding(f, N, base, step) ==
  f = [s \in SUBSET (1..N) |-> IF s = {} THEN base ELSE step[Max(s), f[s \ {Max(s)}]]]

(* The last place of a set that has n + 1 is n + 1.                        *)
LEMMA MaxIsLast ==
  ASSUME NEW n \in Nat, NEW s \in SUBSET (1..(n + 1)), n + 1 \in s
  PROVE  Max(s) = n + 1
<1>1. \A y \in s : y \in Int /\ y <= n + 1
  OBVIOUS
<1> DEFINE m == Max(s)
<1>2. m \in s /\ \A y \in s : m >= y
  <2>1. \E x \in s : \A y \in s : x >= y
    BY <1>1
  <2> QED BY <2>1 DEF Max
<1> HIDE DEF m
<1>3. m = n + 1
  BY <1>1, <1>2
<1> QED BY <1>3 DEF m

(* There is such a function: it is extended by a place at a time.          *)
LEMMA FoldingExists ==
  ASSUME NEW T, NEW base \in T, NEW N \in Nat, NEW step \in [(1..N) \X T -> T]
  PROVE  \E f \in [SUBSET (1..N) -> T] : Folding(f, N, base, step)
<1> DEFINE Good(n) == \E f \in [SUBSET (1..n) -> T] : Folding(f, n, base, step)
           S == {n \in Nat : n <= N => Good(n)}
<1>1. 0 \in S
  <2> DEFINE f == [s \in SUBSET (1..0) |-> base]
  <2>1. \A s \in SUBSET (1..0) : s = {}
    OBVIOUS
  <2>2. f \in [SUBSET (1..0) -> T]
    OBVIOUS
  <2>3. f = [s \in SUBSET (1..0) |-> IF s = {} THEN base ELSE step[Max(s), f[s \ {Max(s)}]]]
    BY <2>1
  <2> QED BY <2>2, <2>3 DEF Folding
<1> HIDE DEF Good
<1>2. ASSUME NEW n \in Nat, n \in S PROVE n + 1 \in S
  <2> SUFFICES ASSUME n + 1 <= N PROVE Good(n + 1)
    OBVIOUS
  <2>0. Good(n)
    BY <1>2
  <2>1. PICK f \in [SUBSET (1..n) -> T] : Folding(f, n, base, step)
    BY <2>0 DEF Good
  <2> DEFINE m == n + 1
             v(s) == IF m \in s THEN step[m, f[s \ {m}]] ELSE f[s]
             g == [s \in SUBSET (1..m) |-> v(s)]
  <2>2. /\ m \in 1..N /\ m \notin 1..n /\ m \in Nat
        /\ \A s \in SUBSET (1..m) : s \ {m} \in SUBSET (1..n) /\ (m \notin s => s \in SUBSET (1..n))
        /\ \A s \in SUBSET (1..n) : s \in SUBSET (1..m) /\ m \notin s
    OBVIOUS
  <2>3. \A s \in SUBSET (1..m) : m \in s => Max(s) = m
    BY MaxIsLast
  <2> HIDE DEF m
  <2>4. \A s \in SUBSET (1..m) : v(s) \in T
    <3> TAKE s \in SUBSET (1..m)
    <3>1. CASE m \in s
      <4>1. <<m, f[s \ {m}]>> \in (1..N) \X T
        BY <2>2
      <4> QED BY <3>1, <4>1
    <3>2. CASE m \notin s
      BY <2>2, <3>2
    <3> QED BY <3>1, <3>2
  <2>5. g \in [SUBSET (1..m) -> T] /\ \A s \in SUBSET (1..m) : g[s] = v(s)
    BY <2>4
  <2> HIDE DEF g
  <2>6. ASSUME NEW s \in SUBSET (1..m)
        PROVE  g[s] = IF s = {} THEN base ELSE step[Max(s), g[s \ {Max(s)}]]
    <3>1. CASE m \in s
      <4>1. Max(s) = m /\ s # {} /\ s \ {m} \in SUBSET (1..m) /\ m \notin s \ {m}
        BY <2>2, <2>3, <3>1
      <4>2. g[s \ {m}] = f[s \ {m}] /\ g[s] = step[m, f[s \ {m}]]
        BY <2>5, <3>1, <4>1
      <4> QED BY <4>1, <4>2
    <3>2. CASE m \notin s
      <4>1. s \in SUBSET (1..n) /\ g[s] = f[s]
        BY <2>2, <2>5, <3>2
      <4>2. s \ {Max(s)} \in SUBSET (1..n) /\ s \ {Max(s)} \in SUBSET (1..m)
        BY <2>2, <4>1
      <4>3. g[s \ {Max(s)}] = f[s \ {Max(s)}]
        BY <2>2, <2>5, <4>2
      <4>4. f[s] = IF s = {} THEN base ELSE step[Max(s), f[s \ {Max(s)}]]
        BY <2>1, <4>1 DEF Folding
      <4> QED BY <4>1, <4>3, <4>4
    <3> QED BY <3>1, <3>2
  <2>7. Folding(g, m, base, step)
    BY <2>5, <2>6 DEF Folding
  <2> QED BY <2>5, <2>7 DEF m, Good
<1>3. Nat \subseteq S
  <2> HIDE DEF S
  <2> QED BY <1>1, <1>2, ByInduction
<1>4. Good(N)
  BY <1>3
<1> QED BY <1>4 DEF Good

-----------------------------------------------------------------------------
(* The lines of the answer, one relay's behind the other's.                *)
Behind(p, o, a) ==
  /\ o \in Nat /\ o + Len(a) <= Len(p) /\ \A i \in 1..Len(a) : p[o + i] = a[i]

(* Two sequences joined lie behind one another.                            *)
LEMMA JoinedBehind ==
  ASSUME NEW S, NEW a \in Seq(S), NEW b \in Seq(S)
  PROVE  /\ a \o b \in Seq(S) /\ Len(a \o b) = Len(a) + Len(b)
         /\ Behind(a \o b, 0, a) /\ Behind(a \o b, Len(a), b)
<1> DEFINE m == Len(a)
           n == Len(b)
           c == a \o b
<1>1. /\ c \in Seq(S) /\ Len(c) = m + n /\ m \in Nat /\ n \in Nat
      /\ \A i \in 1..(m + n) : c[i] = IF i <= m THEN a[i] ELSE b[i - m]
  BY ConcatProperties
<1> HIDE DEF c, m, n
<1>2. \A i \in 1..m : c[0 + i] = a[i]
  BY <1>1
<1>3. \A i \in 1..n : c[m + i] = b[i]
  <2> TAKE i \in 1..n
  <2>1. m + i \in 1..(m + n) /\ ~(m + i <= m) /\ (m + i) - m = i
    BY <1>1
  <2> QED BY <1>1, <2>1
<1>4. 0 + m <= Len(c) /\ m + n <= Len(c)
  BY <1>1
<1> QED BY <1>1, <1>2, <1>3, <1>4 DEF Behind, c, m, n

LEMMA BehindWithin ==
  ASSUME NEW p, NEW a, NEW b, NEW k, NEW i, Len(a) \in Nat, Len(b) \in Nat, Len(p) \in Nat,
         Behind(p, k, a), Behind(a, i, b)
  PROVE  Behind(p, k + i, b)
<1> DEFINE l == Len(a)
           m == Len(b)
           n == Len(p)
<1>2. /\ k \in Nat /\ k + l <= n /\ \A h \in 1..l : p[k + h] = a[h]
      /\ i \in Nat /\ i + m <= l /\ \A h \in 1..m : a[i + h] = b[h]
      /\ l \in Nat /\ m \in Nat /\ n \in Nat
  BY DEF Behind
<1> HIDE DEF l, m, n
<1>3. ASSUME NEW h \in 1..m PROVE p[(k + i) + h] = b[h]
  <2>1. i + h \in 1..l /\ k + (i + h) = (k + i) + h
    BY <1>2
  <2> QED BY <1>2, <2>1
<1>4. k + i \in Nat /\ (k + i) + m <= n
  BY <1>2
<1> QED BY <1>3, <1>4 DEF Behind, m, n

(* FlattenSeq joins one more sequence at a time.                           *)
Joining(F, q, S) ==
  /\ F \in [0..Len(q) -> Seq(S)] /\ F[0] = <<>>
  /\ \A i \in 1..Len(q) : F[i] = F[i - 1] \o q[i]

(* The recursion that FlattenSeq chooses a solution of has one.            *)
LEMMA FlattenJoins ==
  ASSUME NEW S, NEW q \in Seq(Seq(S))
  PROVE  \E F : Joining(F, q, S) /\ FlattenSeq(q) = F[Len(q)]
<1> DEFINE n == Len(q)
           T == Seq(S)
           step == [x \in (1..n) \X T |-> x[2] \o q[x[1]]]
           Flat(f) == f = [i \in 1..n |-> IF i = 1 THEN q[i] ELSE f[i - 1] \o q[i]]
<1>1. n \in Nat /\ \A i \in 1..n : q[i] \in T
  <2>1. n \in Nat
    OBVIOUS
  <2> QED BY <2>1, ElementOfSeq
<1>2. <<>> \in T /\ \A x \in T, y \in T : x \o y \in T
  <2>1. \A x \in T, y \in T : x \o y \in T
    BY ConcatProperties
  <2> QED BY <2>1
<1>3. FlattenSeq(q) = IF n = 0 THEN q ELSE (CHOOSE f : Flat(f))[n]
  BY DEF FlattenSeq
<1>4. n = 0 => q = <<>>
  BY EmptySeq
<1>5. \A x \in T : <<>> \o x = x
  BY ConcatEmptySeq
<1> HIDE DEF n, T
<1>6. step \in [(1..n) \X T -> T]
  <2>1. ASSUME NEW x \in (1..n) \X T PROVE x[2] \o q[x[1]] \in T
    <3>1. x[1] \in 1..n /\ x[2] \in T
      OBVIOUS
    <3> QED BY <1>1, <1>2, <3>1
  <2> QED BY <2>1
<1>7. PICK F \in [0..n -> T] : Recursive(F, n, <<>>, step)
  <2> HIDE DEF step
  <2> QED BY <1>1, <1>2, <1>6, RecursionExists
<1>8. F[0] = <<>> /\ \A i \in 1..n : F[i - 1] \in T /\ F[i] = F[i - 1] \o q[i]
  <2>1. F[0] = <<>>
    <3>1. 0 \in 0..n
      BY <1>1
    <3> QED BY <1>7, <3>1 DEF Recursive
  <2>2. ASSUME NEW i \in 1..n PROVE F[i - 1] \in T /\ F[i] = F[i - 1] \o q[i]
    <3>1. i \in 0..n /\ i - 1 \in 0..n /\ i # 0
      BY <1>1
    <3>2. <<i, F[i - 1]>> \in (1..n) \X T
      BY <3>1
    <3>3. F[i] = step[i, F[i - 1]]
      BY <1>7, <3>1 DEF Recursive
    <3> QED BY <3>1, <3>2, <3>3
  <2> QED BY <2>1, <2>2
<1> HIDE DEF step
<1>12. ASSUME NEW i \in 1..n, i = 1 PROVE F[i] = q[i]
  <2>1. i - 1 = 0 /\ q[i] \in T
    BY <1>1, <1>12
  <2>2. F[i] = F[0] \o q[i]
    BY <1>8, <2>1
  <2>3. F[i] = <<>> \o q[i]
    BY <1>8, <2>2
  <2> QED BY <1>5, <2>1, <2>3
<1>9. n # 0 => (CHOOSE f : Flat(f))[n] = F[n]
  <2> SUFFICES ASSUME n # 0 PROVE (CHOOSE f : Flat(f))[n] = F[n]
    OBVIOUS
  <2> DEFINE G == [i \in 1..n |-> F[i]]
             c == CHOOSE f : Flat(f)
  <2>1. Flat(G)
    <3>1. ASSUME NEW i \in 1..n
          PROVE  F[i] = IF i = 1 THEN q[i] ELSE G[i - 1] \o q[i]
      <4>1. CASE i = 1
        BY <1>12, <4>1
      <4>2. CASE i # 1
        <5>1. i - 1 \in 1..n
          BY <1>1, <4>2
        <5> QED BY <1>8, <4>2, <5>1
      <4> QED BY <4>1, <4>2
    <3> QED BY <3>1
  <2>2. Flat(c)
    <3> HIDE DEF G
    <3> QED BY <2>1
  <2> HIDE DEF c
  <2> DEFINE P == {i \in 0..n : i # 0 => c[i] = F[i]}
  <2>3. 0 \in P
    BY <1>1
  <2>4. ASSUME NEW i \in 1..n, i - 1 \in P PROVE i \in P
    <3>1. c[i] = IF i = 1 THEN q[i] ELSE c[i - 1] \o q[i]
      BY <2>2
    <3>2. CASE i = 1
      <4>1. F[i] = q[i] /\ i \in 0..n
        BY <1>1, <1>12, <3>2
      <4> QED BY <3>1, <3>2, <4>1
    <3>3. CASE i # 1
      <4>1. i \in 0..n /\ i - 1 # 0 /\ c[i - 1] = F[i - 1]
        BY <1>1, <2>4, <3>3
      <4> QED BY <1>8, <3>1, <3>3, <4>1
    <3> QED BY <3>2, <3>3
  <2>5. \A i \in 0..n : i \in P
    <3> HIDE DEF P
    <3> QED BY <1>1, <2>3, <2>4, UpTo
  <2>6. n \in 0..n
    BY <1>1
  <2> QED BY <2>5, <2>6 DEF c
<1>10. FlattenSeq(q) = F[n]
  <2>1. CASE n = 0
    BY <1>3, <1>4, <1>8, <2>1
  <2>2. CASE n # 0
    BY <1>3, <1>9, <2>2
  <2> QED BY <2>1, <2>2
<1>11. Joining(F, q, S)
  BY <1>7, <1>8 DEF Joining, n, T
<1> QED BY <1>10, <1>11 DEF n

(* Each of the joined sequences lies behind all before it.                 *)
LEMMA JoinedInOrder ==
  ASSUME NEW S, NEW q \in Seq(Seq(S)), NEW F, Joining(F, q, S), NEW k \in 1..Len(q)
  PROVE  /\ Behind(F[Len(q)], Len(F[k - 1]), q[k])
         /\ Len(F[k]) = Len(F[k - 1]) + Len(q[k])
<1> DEFINE n == Len(q)
           P == {m \in 0..n : \A j \in 1..m : Behind(F[m], Len(F[j - 1]), q[j])}
<1>1. n \in Nat /\ \A i \in 1..n : q[i] \in Seq(S) /\ Len(q[i]) \in Nat
  <2>1. n \in Nat
    OBVIOUS
  <2>2. ASSUME NEW i \in 1..n PROVE q[i] \in Seq(S) /\ Len(q[i]) \in Nat
    <3>1. q[i] \in Seq(S)
      BY ElementOfSeq
    <3> QED BY <3>1
  <2> QED BY <2>1, <2>2
<1> HIDE DEF n
<1>2. ASSUME NEW i \in 1..n
      PROVE  /\ F[i - 1] \in Seq(S) /\ F[i] = F[i - 1] \o q[i] /\ i - 1 \in 0..n /\ i \in 0..n
             /\ Len(F[i]) \in Nat /\ Len(F[i - 1]) \in Nat
  <2>1. i - 1 \in 0..n /\ i \in 0..n
    BY <1>1
  <2>2. F[i] \in Seq(S) /\ F[i - 1] \in Seq(S)
    BY <2>1 DEF Joining, n
  <2>3. F[i] = F[i - 1] \o q[i]
    BY DEF Joining, n
  <2>4. Len(F[i]) \in Nat /\ Len(F[i - 1]) \in Nat
    BY <2>2, LenProperties
  <2> QED BY <2>1, <2>2, <2>3, <2>4, Zenon
<1>3. ASSUME NEW i \in 1..n
      PROVE  /\ Len(F[i]) = Len(F[i - 1]) + Len(q[i])
             /\ Behind(F[i], 0, F[i - 1]) /\ Behind(F[i], Len(F[i - 1]), q[i])
  <2>1. q[i] \in Seq(S) /\ F[i - 1] \in Seq(S) /\ F[i] = F[i - 1] \o q[i]
    BY <1>1, <1>2
  <2> QED BY <2>1, JoinedBehind
<1>4. 0 \in P
  BY <1>1
<1>5. ASSUME NEW m \in 1..n, m - 1 \in P PROVE m \in P
  <2>1. ASSUME NEW j \in 1..m PROVE Behind(F[m], Len(F[j - 1]), q[j])
    <3>1. CASE j = m
      BY <1>3, <3>1
    <3>2. CASE j # m
      <4>1. j \in 1..(m - 1) /\ j \in 1..n
        BY <1>1, <3>2
      <4>2. Behind(F[m - 1], Len(F[j - 1]), q[j])
        BY <1>5, <4>1
      <4>3. Behind(F[m], 0, F[m - 1])
        BY <1>3
      <4>4. Behind(F[m], 0 + Len(F[j - 1]), q[j])
        <5>1. Len(q[j]) \in Nat /\ Len(F[m - 1]) \in Nat /\ Len(F[m]) \in Nat
          BY <1>1, <1>2, <4>1
        <5> HIDE DEF P
        <5> QED BY <4>2, <4>3, <5>1, BehindWithin
      <4>5. 0 + Len(F[j - 1]) = Len(F[j - 1])
        BY <1>2, <4>1
      <4> QED BY <4>4, <4>5
    <3> QED BY <3>1, <3>2
  <2> QED BY <1>2, <2>1
<1>6. \A i \in 0..n : i \in P
  <2> HIDE DEF P
  <2> QED BY <1>1, <1>4, <1>5, UpTo
<1>7. n \in 0..n
  BY <1>1
<1>8. Behind(F[n], Len(F[k - 1]), q[k])
  BY <1>6, <1>7 DEF n
<1> QED BY <1>3, <1>8 DEF n

RelayKinds == {"r", "a", "s", "w", "p"}

Lines == {l \in [kind : RelayKinds \cup {"250+", ".", "250"}, of : 0..Len(relays)] :
            l.kind \in RelayKinds => l.of \in 1..Len(relays)}

(* The lines of relay k, behind the first o of p and up to e.              *)
RelayAt(p, o, e, k) ==
  \E s \in {o + 1, o + 2} :
    /\ s = IF relays[k].ipv6 THEN o + 2 ELSE o + 1
    /\ e = s + 3
    /\ p[o + 1] = Line("r", k) /\ (relays[k].ipv6 => p[o + 2] = Line("a", k))
    /\ p[s + 1] = Line("s", k) /\ p[s + 2] = Line("w", k) /\ p[s + 3] = Line("p", k)

RelaysKnown == relays \in Seq(Relays)

LEMMA LineKinds ==
  ASSUME RelaysKnown
  PROVE  /\ \A kind \in RelayKinds, k \in 1..Len(relays) : Line(kind, k) \in Lines
         /\ \A kind \in {"250+", ".", "250"} : Line(kind, 0) \in Lines
         /\ \A kind, k : Line(kind, k).kind = kind /\ Line(kind, k).of = k
<1>1. Len(relays) \in Nat
  BY DEF RelaysKnown
<1> QED BY <1>1 DEF Line, Lines, RelayKinds

LEMMA LinesPut ==
  ASSUME NEW S, NEW a \in S, NEW b \in S, NEW c \in S, NEW d \in S, NEW e \in S
  PROVE  /\ LET v == <<a>> \o <<b>> \o <<c, d, e>>
            IN  /\ v \in Seq(S) /\ Len(v) = 5
                /\ v[1] = a /\ v[2] = b /\ v[3] = c /\ v[4] = d /\ v[5] = e
         /\ LET u == <<a>> \o <<>> \o <<c, d, e>>
            IN  /\ u \in Seq(S) /\ Len(u) = 4
                /\ u[1] = a /\ u[2] = c /\ u[3] = d /\ u[4] = e
<1> DEFINE x == <<a>>
           y == <<b>>
           z == <<c, d, e>>
           none == <<>>
<1>1. /\ x \in Seq(S) /\ Len(x) = 1 /\ x[1] = a
      /\ y \in Seq(S) /\ Len(y) = 1 /\ y[1] = b
  OBVIOUS
<1>2. z \in Seq(S) /\ Len(z) = 3 /\ z[1] = c /\ z[2] = d /\ z[3] = e
  OBVIOUS
<1>3. none \in Seq(S)
  OBVIOUS
<1>4. x \o none = x
  BY <1>1, ConcatEmptySeq
<1> HIDE DEF x, y, z
<1>5. /\ x \o y \in Seq(S) /\ Len(x \o y) = 2 /\ (x \o y)[1] = a /\ (x \o y)[2] = b
  <2>1. /\ x \o y \in Seq(S) /\ Len(x \o y) = Len(x) + Len(y)
        /\ \A i \in 1..(Len(x) + Len(y)) : (x \o y)[i] = IF i <= Len(x) THEN x[i] ELSE y[i - Len(x)]
    BY <1>1, ConcatProperties
  <2> QED BY <1>1, <2>1
<1> DEFINE w == x \o y
           v == w \o z
           u == x \o z
<1> HIDE DEF w
<1>6. /\ v \in Seq(S) /\ Len(v) = 5 /\ v[1] = a /\ v[2] = b /\ v[3] = c /\ v[4] = d /\ v[5] = e
  <2>1. w \in Seq(S) /\ Len(w) = 2 /\ w[1] = a /\ w[2] = b
    BY <1>5 DEF w
  <2>2. /\ v \in Seq(S) /\ Len(v) = Len(w) + Len(z)
        /\ \A i \in 1..(Len(w) + Len(z)) : v[i] = IF i <= Len(w) THEN w[i] ELSE z[i - Len(w)]
    BY <1>2, <2>1, ConcatProperties
  <2> HIDE DEF v
  <2> QED BY <1>2, <2>1, <2>2
<1>7. /\ u \in Seq(S) /\ Len(u) = 4 /\ u[1] = a /\ u[2] = c /\ u[3] = d /\ u[4] = e
  <2>1. /\ u \in Seq(S) /\ Len(u) = Len(x) + Len(z)
        /\ \A i \in 1..(Len(x) + Len(z)) : u[i] = IF i <= Len(x) THEN x[i] ELSE z[i - Len(x)]
    BY <1>1, <1>2, ConcatProperties
  <2> HIDE DEF u
  <2> QED BY <1>1, <1>2, <2>1
<1> QED BY <1>4, <1>6, <1>7 DEF x, y, z, w, v, u

(* A relay has four lines, or five with an IPv6 address.                   *)
LEMMA LinesOfRelay ==
  ASSUME RelaysKnown, NEW k \in 1..Len(relays)
  PROVE  /\ LinesOf(k) \in Seq(Lines) /\ Len(LinesOf(k)) \in Nat
         /\ RelayAt(LinesOf(k), 0, Len(LinesOf(k)), k)
<1> DEFINE r == Line("r", k)
           a == Line("a", k)
           s == Line("s", k)
           w == Line("w", k)
           p == Line("p", k)
           l == LinesOf(k)
<1>1. r \in Lines /\ a \in Lines /\ s \in Lines /\ w \in Lines /\ p \in Lines
  BY LineKinds DEF RelayKinds
<1>2. l = <<r>> \o (IF relays[k].ipv6 THEN <<a>> ELSE <<>>) \o <<s, w, p>>
  BY DEF LinesOf
<1> HIDE DEF r, a, s, w, p, l
<1>3. CASE relays[k].ipv6
  <2>0. l = <<r>> \o <<a>> \o <<s, w, p>>
    BY <1>2, <1>3, Zenon
  <2>1. l \in Seq(Lines)
    BY <1>1, <2>0, LinesPut
  <2>2. Len(l) = 5 /\ l[1] = r /\ l[2] = a /\ l[3] = s /\ l[4] = w /\ l[5] = p
    BY <1>1, <2>0, LinesPut
  <2>3. RelayAt(l, 0, 5, k)
    BY <1>3, <2>2 DEF RelayAt, r, a, s, w, p
  <2> QED BY <2>1, <2>2, <2>3 DEF l
<1>4. CASE ~relays[k].ipv6
  <2>0. l = <<r>> \o <<>> \o <<s, w, p>>
    BY <1>2, <1>4, Zenon
  <2>1. l \in Seq(Lines)
    BY <1>1, <2>0, LinesPut
  <2>2. Len(l) = 4 /\ l[1] = r /\ l[2] = s /\ l[3] = w /\ l[4] = p
    BY <1>1, <2>0, LinesPut
  <2>3. RelayAt(l, 0, 4, k)
    BY <1>4, <2>2 DEF RelayAt, r, s, w, p
  <2> QED BY <2>1, <2>2, <2>3 DEF l
<1> QED BY <1>3, <1>4

(* A relay's lines stay in order wherever they lie.                        *)
LEMMA RelayBehind ==
  ASSUME NEW p, NEW o \in Nat, NEW l, NEW k, Len(l) \in Nat,
         RelayAt(l, 0, Len(l), k), Behind(p, o, l)
  PROVE  RelayAt(p, o, o + Len(l), k)
<1> DEFINE n == Len(l)
<1>1. PICK s \in {0 + 1, 0 + 2} :
        /\ s = IF relays[k].ipv6 THEN 0 + 2 ELSE 0 + 1
        /\ n = s + 3
        /\ l[0 + 1] = Line("r", k) /\ (relays[k].ipv6 => l[0 + 2] = Line("a", k))
        /\ l[s + 1] = Line("s", k) /\ l[s + 2] = Line("w", k) /\ l[s + 3] = Line("p", k)
  BY DEF RelayAt
<1>2. \A i \in 1..n : p[o + i] = l[i]
  BY DEF Behind
<1> HIDE DEF n
<1>3. /\ {1, 2, s + 1, s + 2, s + 3} \subseteq 1..n
      /\ (o + s) + 1 = o + (s + 1) /\ (o + s) + 2 = o + (s + 2) /\ (o + s) + 3 = o + (s + 3)
      /\ o + n = (o + s) + 3
  BY <1>1
<1>4. /\ p[o + 1] = l[1] /\ p[o + 2] = l[2]
      /\ p[(o + s) + 1] = l[s + 1] /\ p[(o + s) + 2] = l[s + 2] /\ p[(o + s) + 3] = l[s + 3]
  <2>1. 1 \in 1..n /\ 2 \in 1..n /\ s + 1 \in 1..n /\ s + 2 \in 1..n /\ s + 3 \in 1..n
    BY <1>3
  <2>2. p[o + 1] = l[1] /\ p[o + 2] = l[2]
    BY <1>2, <2>1
  <2>3. p[o + (s + 1)] = l[s + 1] /\ p[o + (s + 2)] = l[s + 2] /\ p[o + (s + 3)] = l[s + 3]
    BY <1>2, <2>1, Zenon
  <2> QED BY <1>3, <2>2, <2>3, Zenon
<1>5. /\ o + s \in {o + 1, o + 2} /\ o + s = IF relays[k].ipv6 THEN o + 2 ELSE o + 1
      /\ o + n = (o + s) + 3
  BY <1>1, <1>3
<1>6. RelayAt(p, o, o + n, k)
  BY <1>1, <1>4, <1>5 DEF RelayAt
<1> QED BY <1>6 DEF n

(* Where the lines of each relay end in the answer.                        *)
Laid(off) ==
  /\ off \in [0..Len(relays) -> Nat] /\ off[0] = 1
  /\ ConsensusLines \in Seq(Lines) /\ Len(ConsensusLines) = off[Len(relays)] + 2
  /\ ConsensusLines[1] = Line("250+", 0)
  /\ ConsensusLines[off[Len(relays)] + 1] = Line(".", 0)
  /\ ConsensusLines[off[Len(relays)] + 2] = Line("250", 0)
  /\ \A k \in 1..Len(relays) : RelayAt(ConsensusLines, off[k - 1], off[k], k)

(* The answer is laid out relay by relay.                                  *)
LEMMA AnswerLaid ==
  ASSUME RelaysKnown
  PROVE  \E off : Laid(off)
<1> DEFINE R == Len(relays)
           q == [i \in 1..R |-> LinesOf(i)]
           x == <<Line("250+", 0)>>
           y == <<Line(".", 0), Line("250", 0)>>
<1>1. R \in Nat /\ \A i \in 1..R : LinesOf(i) \in Seq(Lines) /\ Len(LinesOf(i)) \in Nat
  BY LinesOfRelay DEF RelaysKnown
<1>2. q \in Seq(Seq(Lines)) /\ Len(q) = R /\ \A i \in 1..R : q[i] = LinesOf(i)
  <2> DEFINE D == Seq(Lines)
  <2>1. \A i \in 1..R : LinesOf(i) \in D
    BY <1>1
  <2> HIDE DEF D, R
  <2>2. q \in [1..R -> D]
    BY <2>1
  <2>3. q \in Seq(D) /\ Len(q) = R
    BY <1>1, <2>2
  <2> QED BY <2>3 DEF D
<1>3. /\ x \in Seq(Lines) /\ Len(x) = 1 /\ x[1] = Line("250+", 0)
      /\ y \in Seq(Lines) /\ Len(y) = 2 /\ y[1] = Line(".", 0) /\ y[2] = Line("250", 0)
  <2>1. Line("250+", 0) \in Lines /\ Line(".", 0) \in Lines /\ Line("250", 0) \in Lines
    BY LineKinds
  <2> QED BY <2>1
<1>4. ConsensusLines = x \o FlattenSeq(q) \o y
  BY DEF ConsensusLines
<1> HIDE DEF R, q, x, y
<1>5. PICK F : Joining(F, q, Lines) /\ FlattenSeq(q) = F[R]
  <2>1. \E F : Joining(F, q, Lines) /\ FlattenSeq(q) = F[Len(q)]
    BY <1>2, FlattenJoins
  <2> QED BY <1>2, <2>1
<1> DEFINE L == F[R]
           h == x \o L
           C == ConsensusLines
           off == [k \in 0..R |-> 1 + Len(F[k])]
<1>6. /\ F \in [0..R -> Seq(Lines)] /\ F[0] = <<>>
      /\ \A k \in 0..R : F[k] \in Seq(Lines) /\ Len(F[k]) \in Nat
  <2>1. F \in [0..R -> Seq(Lines)] /\ F[0] = <<>>
    BY <1>2, <1>5 DEF Joining
  <2>2. ASSUME NEW k \in 0..R PROVE F[k] \in Seq(Lines) /\ Len(F[k]) \in Nat
    <3>1. F[k] \in Seq(Lines)
      BY <2>1
    <3> QED BY <3>1
  <2> QED BY <2>1, <2>2
<1>7. L \in Seq(Lines) /\ Len(L) \in Nat
  <2>1. R \in 0..R
    BY <1>1
  <2> QED BY <1>6, <2>1
<1> HIDE DEF L
<1>8. h \in Seq(Lines) /\ Len(h) = 1 + Len(L) /\ Behind(h, 0, x) /\ Behind(h, 1, L)
  <2>1. /\ h \in Seq(Lines) /\ Len(h) = Len(x) + Len(L)
        /\ Behind(h, 0, x) /\ Behind(h, Len(x), L)
    BY <1>3, <1>7, JoinedBehind
  <2> QED BY <1>3, <2>1
<1> HIDE DEF h
<1>9. C = h \o y
  BY <1>4, <1>5 DEF h, L
<1>10. C \in Seq(Lines) /\ Len(C) = Len(h) + 2 /\ Behind(C, 0, h) /\ Behind(C, Len(h), y)
  <2>1. /\ h \o y \in Seq(Lines) /\ Len(h \o y) = Len(h) + Len(y)
        /\ Behind(h \o y, 0, h) /\ Behind(h \o y, Len(h), y)
    BY <1>3, <1>8, JoinedBehind
  <2> QED BY <1>3, <1>9, <2>1
<1> HIDE DEF C
<1>11. Behind(C, 0 + 1, L) /\ Behind(C, 0 + 0, x) /\ Len(C) \in Nat /\ Len(h) \in Nat
  <2>1. Len(C) \in Nat /\ Len(h) \in Nat /\ Len(x) \in Nat
    BY <1>3, <1>7, <1>8, <1>10
  <2> QED BY <1>7, <1>8, <1>10, <2>1, BehindWithin
<1>12. /\ off \in [0..R -> Nat] /\ \A k \in 0..R : off[k] = 1 + Len(F[k])
  <2>1. \A k \in 0..R : 1 + Len(F[k]) \in Nat
    BY <1>6
  <2> QED BY <2>1
<1> HIDE DEF off
<1>13. off[0] = 1
  <2>1. 0 \in 0..R /\ Len(F[0]) = 0
    BY <1>1, <1>6, EmptySeq
  <2> QED BY <1>12, <2>1
<1>14. off[R] = Len(h)
  <2>1. R \in 0..R
    BY <1>1
  <2> QED BY <1>8, <1>12, <2>1 DEF L
<1>15. C[1] = Line("250+", 0) /\ C[off[R] + 1] = Line(".", 0) /\ C[off[R] + 2] = Line("250", 0)
  <2>1. C[0 + 1] = x[1]
    BY <1>3, <1>11 DEF Behind
  <2>2. C[Len(h) + 1] = y[1] /\ C[Len(h) + 2] = y[2]
    BY <1>3, <1>10 DEF Behind
  <2> QED BY <1>3, <1>14, <2>1, <2>2
<1>16. ASSUME NEW k \in 1..R PROVE RelayAt(C, off[k - 1], off[k], k)
  <2> DEFINE l == LinesOf(k)
             n == Len(F[k - 1])
  <2>1. Behind(L, n, l) /\ Len(F[k]) = n + Len(l)
    <3>1. k \in 1..Len(q) /\ q[k] = l
      BY <1>2
    <3>2. /\ Behind(F[Len(q)], Len(F[k - 1]), q[k])
          /\ Len(F[k]) = Len(F[k - 1]) + Len(q[k])
      <4>1. q \in Seq(Seq(Lines)) /\ Joining(F, q, Lines) /\ k \in 1..Len(q)
        BY <1>2, <1>5, <3>1
      <4> HIDE DEF l, n
      <4> QED BY <4>1, JoinedInOrder, Zenon
    <3> QED BY <1>2, <3>1, <3>2 DEF L
  <2>2. Len(l) \in Nat /\ RelayAt(l, 0, Len(l), k)
    BY LinesOfRelay DEF R
  <2>3. n \in Nat /\ k - 1 \in 0..R /\ k \in 0..R
    BY <1>1, <1>6
  <2> HIDE DEF l, n
  <2>4. Behind(C, (0 + 1) + n, l)
    BY <1>7, <1>11, <2>1, <2>2, BehindWithin
  <2>5. (0 + 1) + n \in Nat /\ off[k - 1] = (0 + 1) + n /\ off[k] = ((0 + 1) + n) + Len(l)
    <3>1. off[k - 1] = 1 + n
      BY <1>12, <2>3 DEF n
    <3>2. off[k] = 1 + Len(F[k])
      BY <1>12, <2>3
    <3> QED BY <2>1, <2>2, <2>3, <3>1, <3>2
  <2>6. RelayAt(C, (0 + 1) + n, ((0 + 1) + n) + Len(l), k)
    BY <2>2, <2>4, <2>5, RelayBehind
  <2> QED BY <2>5, <2>6
<1>17. Laid(off)
  <2>1. Len(C) = off[R] + 2
    BY <1>10, <1>14
  <2> QED BY <1>10, <1>12, <1>13, <1>15, <1>16, <2>1 DEF Laid, C, R
<1> QED BY <1>17

LEMMA MaxWithin ==
  ASSUME NEW M \in Nat, NEW s \in SUBSET (1..M), s # {}
  PROVE  Max(s) \in s
<1> DEFINE B == {b \in Nat : \A x \in s : x <= b}
<1>1. B \in SUBSET Nat /\ M \in B
  OBVIOUS
<1>2. PICK b \in B : \A k \in B : b <= k
  <2> HIDE DEF B
  <2> QED BY <1>1, LeastExists
<1>3. b \in s
  <2> SUFFICES ASSUME b \notin s PROVE FALSE
    OBVIOUS
  <2>1. \A x \in s : x \in Nat /\ x >= 1 /\ x <= b - 1
    BY <1>2
  <2>2. b - 1 \in Nat
    <3>1. PICK x \in s : TRUE
      OBVIOUS
    <3>2. b \in Nat /\ x \in Nat /\ x >= 1 /\ x <= b - 1
      BY <1>2, <2>1
    <3> QED BY <3>2
  <2>3. b - 1 \in B
    BY <2>1, <2>2
  <2> QED BY <1>2, <2>3
<1>4. \A x \in s : b >= x
  BY <1>2
<1> QED BY <1>3, <1>4 DEF Max

(* What a reader makes of the lines of one relay, and of the whole answer. *)
PastRelay(rd, x, k) ==
  LET r == rd[Line("r", k), x]
      a == IF relays[k].ipv6 THEN rd[Line("a", k), r] ELSE r
  IN  rd[Line("p", k), rd[Line("w", k), rd[Line("s", k), a]]]

ByRelay(h, rd, base, T) ==
  /\ h \in [0..Len(relays) -> T]
  /\ h[0] = rd[Line("250+", 0), base]
  /\ \A k \in 1..Len(relays) : h[k] = PastRelay(rd, h[k - 1], k)

AtLast(h, rd) == rd[Line("250", 0), rd[Line(".", 0), h[Len(relays)]]]

ByLine(g, rd, base, T) ==
  /\ g \in [0..Len(ConsensusLines) -> T] /\ g[0] = base
  /\ \A n \in 1..Len(ConsensusLines) : g[n] = rd[ConsensusLines[n], g[n - 1]]

(* Reading every line is reading every relay's lines in turn.              *)
LEMMA ReadByRelay ==
  ASSUME RelaysKnown, NEW T, NEW base, NEW rd, NEW g, ByLine(g, rd, base, T)
  PROVE  \E h : ByRelay(h, rd, base, T) /\ g[Len(ConsensusLines)] = AtLast(h, rd)
<1> DEFINE R == Len(relays)
           C == ConsensusLines
           M == Len(C)
<1>1. PICK off : Laid(off)
  BY AnswerLaid
<1>2. /\ R \in Nat /\ off \in [0..R -> Nat] /\ off[0] = 1 /\ M \in Nat /\ M = off[R] + 2
      /\ C[1] = Line("250+", 0) /\ C[off[R] + 1] = Line(".", 0) /\ C[off[R] + 2] = Line("250", 0)
  <2>1. R \in Nat
    BY DEF RelaysKnown
  <2>2. off \in [0..R -> Nat] /\ off[R] \in Nat
    BY <1>1, <2>1 DEF Laid
  <2> QED BY <1>1, <2>1, <2>2 DEF Laid
<1>3. \A k \in 1..R : RelayAt(C, off[k - 1], off[k], k)
  BY <1>1 DEF Laid
<1>4. g \in [0..M -> T] /\ g[0] = base /\ \A n \in 1..M : g[n] = rd[C[n], g[n - 1]]
  BY DEF ByLine
<1> HIDE DEF R, C, M
<1>5. ASSUME NEW n \in Nat, n + 1 <= M PROVE g[n + 1] = rd[C[n + 1], g[n]]
  <2>1. n + 1 \in 1..M /\ (n + 1) - 1 = n
    BY <1>2, <1>5
  <2> QED BY <1>4, <2>1
(* The lines of a relay lie ahead of those of the next, and of the end.    *)
<1>6. \A k \in 0..R : off[k] \in Nat /\ off[k] + 2 <= M
  <2> DEFINE P == {i \in 0..R : off[R - i] + 2 <= M}
  <2>1. 0 \in P
    BY <1>2
  <2>2. ASSUME NEW i \in 1..R, i - 1 \in P PROVE i \in P
    <3> DEFINE k == R - (i - 1)
    <3>1. k \in 1..R /\ k - 1 = R - i /\ k \in 0..R /\ k - 1 \in 0..R /\ i \in 0..R
      BY <1>2
    <3>2. off[k] + 2 <= M /\ off[k] \in Nat /\ off[k - 1] \in Nat
      BY <1>2, <2>2, <3>1
    <3> HIDE DEF k
    <3>3. RelayAt(C, off[k - 1], off[k], k)
      BY <1>3, <3>1
    <3>4. off[k - 1] <= off[k]
      BY <3>2, <3>3 DEF RelayAt
    <3>5. off[R - i] + 2 <= M
      <4>1. off[k - 1] + 2 <= M
        BY <1>2, <3>2, <3>4
      <4> QED BY <3>1, <4>1
    <3> QED BY <3>1, <3>5
  <2>3. \A i \in 0..R : i \in P
    <3> HIDE DEF P
    <3> QED BY <1>2, <2>1, <2>2, UpTo
  <2>4. ASSUME NEW k \in 0..R PROVE off[k] \in Nat /\ off[k] + 2 <= M
    <3>1. R - k \in 0..R /\ R - (R - k) = k
      BY <1>2
    <3>2. off[R - (R - k)] + 2 <= M
      BY <2>3, <3>1
    <3> QED BY <1>2, <3>1, <3>2
  <2> QED BY <2>4
<1> DEFINE h == [k \in 0..R |-> g[off[k]]]
<1>7. h \in [0..R -> T] /\ \A k \in 0..R : h[k] = g[off[k]]
  <2>1. \A k \in 0..R : off[k] \in 0..M
    BY <1>2, <1>6
  <2> QED BY <1>4, <2>1
<1> HIDE DEF h
<1>8. h[0] = rd[Line("250+", 0), base]
  <2>1. 0 \in 0..R /\ 0 + 1 <= M /\ 0 + 1 = 1
    BY <1>2, <1>6
  <2>2. g[0 + 1] = rd[C[0 + 1], g[0]]
    BY <1>5, <2>1
  <2> QED BY <1>2, <1>4, <1>7, <2>1, <2>2
<1>9. ASSUME NEW k \in 1..R PROVE h[k] = PastRelay(rd, h[k - 1], k)
  <2> DEFINE o == off[k - 1]
             e == off[k]
  <2>1. k \in 0..R /\ k - 1 \in 0..R
    BY <1>2
  <2>2. o \in Nat /\ e \in Nat /\ e <= M /\ h[k - 1] = g[o] /\ h[k] = g[e] /\ RelayAt(C, o, e, k)
    <3>1. o \in Nat /\ e \in Nat
      BY <1>2, <2>1
    <3>2. e <= M
      <4>1. off[k] \in Nat /\ off[k] + 2 <= M /\ M \in Nat
        BY <1>2, <1>6, <2>1
      <4> QED BY <4>1
    <3>3. h[k - 1] = g[o] /\ h[k] = g[e]
      BY <1>7, <2>1
    <3>4. RelayAt(C, o, e, k)
      BY <1>3
    <3> QED BY <3>1, <3>2, <3>3, <3>4
  <2> HIDE DEF o, e
  <2>3. PICK s \in {o + 1, o + 2} :
          /\ s = IF relays[k].ipv6 THEN o + 2 ELSE o + 1
          /\ e = s + 3
          /\ C[o + 1] = Line("r", k) /\ (relays[k].ipv6 => C[o + 2] = Line("a", k))
          /\ C[s + 1] = Line("s", k) /\ C[s + 2] = Line("w", k) /\ C[s + 3] = Line("p", k)
    BY <2>2 DEF RelayAt
  <2>4. s \in {o + 1, o + 2} /\ o \in Nat /\ M \in Nat /\ s + 3 <= M
    BY <1>2, <2>2, <2>3
  <2>5. o + 1 <= M /\ o + 2 <= M
    BY <2>4
  <2> DEFINE r == rd[Line("r", k), g[o]]
  <2>6. g[o + 1] = r
    <3>1. g[o + 1] = rd[C[o + 1], g[o]]
      BY <1>5, <2>4, <2>5
    <3> QED BY <2>3, <3>1
  <2> HIDE DEF r
  <2>7. g[s] = IF relays[k].ipv6 THEN rd[Line("a", k), r] ELSE r
    <3>1. CASE relays[k].ipv6
      <4>1. s = o + 2 /\ o + 1 \in Nat /\ (o + 1) + 1 = o + 2 /\ o + 2 <= M
        BY <2>3, <2>4, <2>5, <3>1
      <4>2. g[(o + 1) + 1] = rd[C[(o + 1) + 1], g[o + 1]]
        BY <1>5, <4>1
      <4> QED BY <2>3, <2>6, <3>1, <4>1, <4>2
    <3>2. CASE ~relays[k].ipv6
      BY <2>3, <2>6, <3>2
    <3> QED BY <3>1, <3>2
  <2> DEFINE a == IF relays[k].ipv6 THEN rd[Line("a", k), r] ELSE r
  <2> HIDE DEF a
  <2>8. /\ s \in Nat /\ s + 1 \in Nat /\ s + 2 \in Nat /\ (s + 1) + 1 = s + 2 /\ (s + 2) + 1 = s + 3
        /\ s + 1 <= M /\ (s + 1) + 1 <= M /\ (s + 2) + 1 <= M
    BY <2>4
  <2>9. g[s + 1] = rd[C[s + 1], g[s]]
    BY <1>5, <2>8
  <2>10. g[s + 2] = rd[C[s + 2], g[s + 1]]
    <3>1. g[(s + 1) + 1] = rd[C[(s + 1) + 1], g[s + 1]]
      BY <1>5, <2>8
    <3> QED BY <2>8, <3>1
  <2>11. g[s + 3] = rd[C[s + 3], g[s + 2]]
    <3>1. g[(s + 2) + 1] = rd[C[(s + 2) + 1], g[s + 2]]
      BY <1>5, <2>8
    <3> QED BY <2>8, <3>1
  <2>12. g[e] = rd[Line("p", k), rd[Line("w", k), rd[Line("s", k), a]]]
    BY <2>3, <2>7, <2>9, <2>10, <2>11 DEF a
  <2> QED BY <2>2, <2>12 DEF PastRelay, a, r
<1>10. g[M] = rd[Line("250", 0), rd[Line(".", 0), h[R]]]
  <2> DEFINE o == off[R]
  <2>1. R \in 0..R
    BY <1>2
  <2>2. o \in Nat /\ o + 1 \in Nat /\ o + 1 <= M /\ (o + 1) + 1 <= M /\ (o + 1) + 1 = o + 2 /\ M = o + 2
    BY <1>2, <1>6, <2>1
  <2>3. g[o + 1] = rd[C[o + 1], g[o]]
    BY <1>5, <2>2
  <2>4. g[(o + 1) + 1] = rd[C[(o + 1) + 1], g[o + 1]]
    BY <1>5, <2>2
  <2>5. h[R] = g[o]
    BY <1>7, <2>1
  <2> QED BY <1>2, <2>2, <2>3, <2>4, <2>5
<1>11. ByRelay(h, rd, base, T)
  BY <1>7, <1>8, <1>9 DEF ByRelay, R
<1> QED BY <1>10, <1>11 DEF AtLast, R, M, C

(* The answer is a sequence of lines.                                      *)
LEMMA AnswerIsLines ==
  ASSUME RelaysKnown
  PROVE  /\ Len(ConsensusLines) \in Nat
         /\ DOMAIN ConsensusLines = 1..Len(ConsensusLines)
         /\ \A n \in 1..Len(ConsensusLines) : ConsensusLines[n] \in Lines
<1>1. ConsensusLines \in Seq(Lines)
  BY AnswerLaid DEF Laid
<1> HIDE DEF ConsensusLines
<1>2. Len(ConsensusLines) \in Nat /\ DOMAIN ConsensusLines = 1..Len(ConsensusLines)
  BY <1>1, LenProperties
<1>3. ASSUME NEW n \in 1..Len(ConsensusLines) PROVE ConsensusLines[n] \in Lines
  BY <1>1, ElementOfSeq
<1> QED BY <1>2, <1>3

(* A fold over the answer reads it line by line.                           *)
LineFold(c, rd, base) ==
  c = [s \in SUBSET (DOMAIN ConsensusLines) |->
         IF s = {} THEN base ELSE rd[ConsensusLines[Max(s)], c[s \ {Max(s)}]]]

LEMMA LineFoldExists ==
  ASSUME RelaysKnown, NEW T, NEW base \in T, NEW rd \in [Lines \X T -> T]
  PROVE  \E c \in [SUBSET (DOMAIN ConsensusLines) -> T] : LineFold(c, rd, base)
<1> DEFINE C == ConsensusLines
           M == Len(C)
           step == [x \in (1..M) \X T |-> rd[C[x[1]], x[2]]]
<1>1. M \in Nat /\ DOMAIN C = 1..M /\ \A n \in 1..M : C[n] \in Lines
  BY AnswerIsLines
<1> HIDE DEF C, M
<1>2. step \in [(1..M) \X T -> T]
  <2>1. ASSUME NEW x \in (1..M) \X T PROVE rd[C[x[1]], x[2]] \in T
    <3>1. C[x[1]] \in Lines /\ x[2] \in T
      BY <1>1
    <3>2. <<C[x[1]], x[2]>> \in Lines \X T
      BY <3>1
    <3> QED BY <3>2
  <2> QED BY <2>1
<1>3. PICK c \in [SUBSET (1..M) -> T] : Folding(c, M, base, step)
  <2> HIDE DEF step
  <2> QED BY <1>1, <1>2, FoldingExists
<1>4. ASSUME NEW s \in SUBSET (1..M)
      PROVE  c[s] = IF s = {} THEN base ELSE rd[C[Max(s)], c[s \ {Max(s)}]]
  <2>1. CASE s = {}
    BY <1>3, <2>1 DEF Folding
  <2>2. CASE s # {}
    <3>1. Max(s) \in 1..M /\ s \ {Max(s)} \in SUBSET (1..M)
      BY <1>1, <2>2, MaxWithin
    <3>2. <<Max(s), c[s \ {Max(s)}]>> \in (1..M) \X T
      BY <3>1
    <3>3. c[s] = step[Max(s), c[s \ {Max(s)}]]
      <4> HIDE DEF step
      <4> QED BY <1>3, <2>2 DEF Folding
    <3> QED BY <2>2, <3>2, <3>3
  <2> QED BY <2>1, <2>2
<1>5. c = [s \in SUBSET (1..M) |-> IF s = {} THEN base ELSE rd[C[Max(s)], c[s \ {Max(s)}]]]
  BY <1>4
<1>6. LineFold(c, rd, base)
  BY <1>1, <1>5 DEF C, LineFold
<1>7. c \in [SUBSET (DOMAIN ConsensusLines) -> T]
  BY <1>1, <1>3 DEF C
<1> QED BY <1>6, <1>7

(* What c makes of the first n lines, for every n.                         *)
ReadInOrder(c, rd, base, T) ==
  /\ c[{}] = base
  /\ \A n \in 1..Len(ConsensusLines) :
       c[1..(n - 1)] \in T => c[1..n] = rd[ConsensusLines[n], c[1..(n - 1)]]

(* What the last of them makes of the whole answer.                        *)
LEMMA PrefixesFold ==
  ASSUME RelaysKnown, NEW T, NEW base \in T, NEW rd \in [Lines \X T -> T], NEW c,
         ReadInOrder(c, rd, base, T)
  PROVE  \E h : /\ ByRelay(h, rd, base, T)
                /\ c[DOMAIN ConsensusLines] = AtLast(h, rd)
<1> DEFINE C == ConsensusLines
           M == Len(C)
<1>1. 1..0 = {} /\ \A m \in Nat : m \in 0..m
  OBVIOUS
<1>2. M \in Nat /\ DOMAIN C = 1..M /\ \A n \in 1..M : C[n] \in Lines
  BY AnswerIsLines
<1>3. /\ c[{}] = base
      /\ \A n \in 1..M : c[1..(n - 1)] \in T => c[1..n] = rd[C[n], c[1..(n - 1)]]
  BY DEF ReadInOrder
<1> HIDE DEF C, M
<1>4. 0 \in 0..M /\ M \in 0..M /\ \A n \in 1..M : n \in 0..M /\ n - 1 \in 0..M
  BY <1>2
<1> DEFINE P == {n \in 0..M : c[1..n] \in T}
<1>5. 0 \in P
  BY <1>1, <1>3, <1>4
<1>6. ASSUME NEW n \in 1..M, n - 1 \in P PROVE n \in P
  <2>1. n \in 0..M /\ c[1..(n - 1)] \in T
    BY <1>4, <1>6
  <2>2. <<C[n], c[1..(n - 1)]>> \in Lines \X T
    BY <1>2, <2>1
  <2>3. rd[C[n], c[1..(n - 1)]] \in T
    BY <2>2
  <2>4. c[1..n] \in T
    BY <1>3, <2>1, <2>3
  <2> QED BY <2>1, <2>4
<1>7. \A n \in 0..M : n \in P
  <2> HIDE DEF P
  <2> QED BY <1>2, <1>5, <1>6, UpTo
<1>8. \A n \in 0..M : c[1..n] \in T
  BY <1>7
<1> HIDE DEF P
<1> DEFINE g == [n \in 0..M |-> c[1..n]]
<1>9. g \in [0..M -> T] /\ \A n \in 0..M : g[n] = c[1..n]
  BY <1>8
<1> HIDE DEF g
<1>10. g[0] = base
  BY <1>1, <1>3, <1>9, <1>4
<1>11. ASSUME NEW n \in 1..M PROVE g[n] = rd[C[n], g[n - 1]]
  <2>1. n \in 0..M /\ n - 1 \in 0..M
    BY <1>4
  <2>2. c[1..n] = rd[C[n], c[1..(n - 1)]]
    BY <1>3, <1>8, <2>1
  <2>3. g[n] = c[1..n] /\ g[n - 1] = c[1..(n - 1)]
    BY <1>9, <2>1
  <2> QED BY <2>2, <2>3
<1>12. ByLine(g, rd, base, T)
  BY <1>9, <1>10, <1>11 DEF ByLine, M, C
<1>13. g[M] = c[DOMAIN C]
  BY <1>2, <1>9, <1>4
<1>14. PICK h : ByRelay(h, rd, base, T) /\ g[Len(ConsensusLines)] = AtLast(h, rd)
  BY <1>12, ReadByRelay
<1> QED BY <1>13, <1>14 DEF M, C

(* The last of the first n.                                                *)
LEMMA LastOfPrefix ==
  ASSUME NEW n \in Nat, n # 0
  PROVE  Max(1..n) = n /\ (1..n) \ {n} = 1..(n - 1) /\ 1..n # {}
<1>1. n - 1 \in Nat /\ (n - 1) + 1 = n
  OBVIOUS
<1>2. 1..n \in SUBSET (1..((n - 1) + 1)) /\ (n - 1) + 1 \in 1..n
  BY <1>1
<1>3. Max(1..n) = (n - 1) + 1
  BY <1>1, <1>2, MaxIsLast
<1>4. (1..n) \ {n} = 1..(n - 1)
  OBVIOUS
<1> QED BY <1>1, <1>2, <1>3, <1>4

-----------------------------------------------------------------------------
(* The two scans, with what they remember as a function.                   *)
Placed == {i \in 1..Len(relays) : Found(i)}

ScanAcc(Results) == [current : 0..Len(relays), result : Results]

ScanNext(add, C, acc, line) ==
  CASE line.kind = "r" -> [acc EXCEPT !.current = line.of]
    [] /\ line.kind = "s" /\ acc.current # 0
       /\ relays[line.of].exit /\ acc.current \in C
         -> [current |-> 0, result |-> add[acc.result, acc.current]]
    [] OTHER -> acc

Scanner(add, C, Results) == [x \in Lines \X ScanAcc(Results) |-> ScanNext(add, C, x[2], x[1])]

Blank(nothing) == [current |-> 0, result |-> nothing]

Adds(add, C, Results) == add \in [Results \X C -> Results]

(* Whatever add remembers, a scan keeps to it.                             *)
LEMMA ScannerTyped ==
  ASSUME RelaysKnown, NEW Results, NEW nothing \in Results,
         NEW C, NEW add, Adds(add, C, Results)
  PROVE  /\ Scanner(add, C, Results) \in [Lines \X ScanAcc(Results) -> ScanAcc(Results)]
         /\ Blank(nothing) \in ScanAcc(Results)
<1>1. Len(relays) \in Nat
  BY DEF RelaysKnown
<1>2. ASSUME NEW acc \in ScanAcc(Results), NEW line \in Lines
      PROVE  ScanNext(add, C, acc, line) \in ScanAcc(Results)
  <2>1. acc.current \in 0..Len(relays) /\ acc.result \in Results
        /\ acc = [current |-> acc.current, result |-> acc.result]
    BY DEF ScanAcc
  <2>2. line.of \in 0..Len(relays)
    BY DEF Lines
  <2>3. CASE line.kind = "r"
    <3>1. ScanNext(add, C, acc, line) = [acc EXCEPT !.current = line.of]
      BY <2>3 DEF ScanNext
    <3>2. [acc EXCEPT !.current = line.of] = [current |-> line.of, result |-> acc.result]
      BY <2>1
    <3> QED BY <2>1, <2>2, <3>1, <3>2 DEF ScanAcc
  <2>4. CASE /\ line.kind = "s" /\ acc.current # 0
             /\ relays[line.of].exit /\ acc.current \in C
    <3>1. ScanNext(add, C, acc, line) = [current |-> 0, result |-> add[acc.result, acc.current]]
      BY <2>4 DEF ScanNext
    <3>2. <<acc.result, acc.current>> \in Results \X C
      BY <2>1, <2>4
    <3>3. add[acc.result, acc.current] \in Results
      BY <3>2 DEF Adds
    <3>4. 0 \in 0..Len(relays)
      BY <1>1
    <3>5. [current |-> 0, result |-> add[acc.result, acc.current]] \in ScanAcc(Results)
      BY <3>3, <3>4 DEF ScanAcc
    <3> QED BY <3>1, <3>5, Zenon
  <2>5. CASE line.kind # "r" /\ ~(/\ line.kind = "s" /\ acc.current # 0
                                  /\ relays[line.of].exit /\ acc.current \in C)
    BY <2>5, Zenon DEF ScanNext
  <2> QED BY <2>3, <2>4, <2>5
<1>3. Scanner(add, C, Results) \in [Lines \X ScanAcc(Results) -> ScanAcc(Results)]
  BY <1>2 DEF Scanner
<1>4. Blank(nothing) \in ScanAcc(Results)
  BY <1>1 DEF Blank, ScanAcc
<1> QED BY <1>3, <1>4

(* What a scan makes of the lines of relay k.                              *)
Passed(add, C, x, k) ==
  IF relays[k].exit /\ k \in C THEN [current |-> 0, result |-> add[x.result, k]]
  ELSE [current |-> k, result |-> x.result]

LEMMA ScannedPast ==
  ASSUME RelaysKnown, NEW Results, NEW C, NEW add, Adds(add, C, Results),
         NEW x \in ScanAcc(Results), NEW k \in 1..Len(relays)
  PROVE  PastRelay(Scanner(add, C, Results), x, k) = Passed(add, C, x, k)
<1> DEFINE rd == Scanner(add, C, Results)
           T == ScanAcc(Results)
           r == [current |-> k, result |-> x.result]
           s == IF relays[k].exit /\ k \in C
                THEN [current |-> 0, result |-> add[x.result, k]] ELSE r
<1>1. Len(relays) \in Nat /\ k # 0 /\ k \in 0..Len(relays)
  BY DEF RelaysKnown
<1>2. x = [current |-> x.current, result |-> x.result] /\ x.result \in Results
  BY DEF ScanAcc
<1>3. r \in T /\ r.current = k /\ r.result = x.result
  BY <1>1, <1>2 DEF ScanAcc
<1>4. [x EXCEPT !.current = k] = r
  BY <1>2
<1>5. \A kind \in RelayKinds : /\ Line(kind, k) \in Lines
                               /\ Line(kind, k).kind = kind /\ Line(kind, k).of = k
  BY LineKinds
<1>6. "r" \in RelayKinds /\ "a" \in RelayKinds /\ "s" \in RelayKinds /\ "w" \in RelayKinds
      /\ "p" \in RelayKinds
  BY DEF RelayKinds
<1>7. \A kind \in RelayKinds, y \in T : rd[Line(kind, k), y] = ScanNext(add, C, y, Line(kind, k))
  BY <1>5 DEF Scanner
<1>8. s \in T
  <2>1. CASE relays[k].exit /\ k \in C
    <3>1. <<x.result, k>> \in Results \X C
      BY <1>2, <2>1
    <3>2. add[x.result, k] \in Results
      BY <3>1 DEF Adds
    <3>3. 0 \in 0..Len(relays)
      BY <1>1
    <3> QED BY <2>1, <3>2, <3>3 DEF ScanAcc
  <2> QED BY <1>3, <2>1
<1> HIDE DEF rd, T, r
<1>9. rd[Line("r", k), x] = r
  <2>1. x \in T
    BY DEF T
  <2>2. ScanNext(add, C, x, Line("r", k)) = [x EXCEPT !.current = k]
    BY <1>5, <1>6 DEF ScanNext
  <2> QED BY <1>4, <1>6, <1>7, <2>1, <2>2
<1>10. ASSUME NEW y \in T, NEW kind \in {"a", "w", "p"} PROVE rd[Line(kind, k), y] = y
  <2>1. kind \in RelayKinds /\ kind # "r" /\ kind # "s"
    BY <1>6
  <2>2. ScanNext(add, C, y, Line(kind, k)) = y
    BY <1>5, <2>1 DEF ScanNext
  <2> QED BY <1>7, <2>1, <2>2
<1>11. rd[Line("s", k), r] = s
  <2>1. ScanNext(add, C, r, Line("s", k)) = s
    <3>1. Line("s", k).kind = "s" /\ Line("s", k).of = k
      BY <1>5, <1>6
    <3>2. CASE relays[k].exit /\ k \in C
      BY <1>1, <1>3, <3>1, <3>2 DEF ScanNext
    <3>3. CASE ~(relays[k].exit /\ k \in C)
      BY <1>1, <1>3, <3>1, <3>3 DEF ScanNext
    <3> QED BY <3>2, <3>3
  <2> QED BY <1>3, <1>6, <1>7, <2>1
<1> HIDE DEF s
<1>12. (IF relays[k].ipv6 THEN rd[Line("a", k), r] ELSE r) = r
  BY <1>3, <1>10
<1>13. PastRelay(rd, x, k) = s
  <2>1. PastRelay(rd, x, k) = rd[Line("p", k), rd[Line("w", k), rd[Line("s", k), r]]]
    BY <1>9, <1>12 DEF PastRelay
  <2> QED BY <1>8, <1>10, <1>11, <2>1
<1> QED BY <1>13 DEF s, rd, r, Passed

(* What is remembered after each relay.                                    *)
Remembered(r, add, C, nothing, Results) ==
  /\ r \in [0..Len(relays) -> Results] /\ r[0] = nothing
  /\ \A k \in 1..Len(relays) :
       r[k] = IF relays[k].exit /\ k \in C THEN add[r[k - 1], k] ELSE r[k - 1]

LEMMA Scanned ==
  ASSUME RelaysKnown, NEW Results, NEW nothing \in Results,
         NEW C, NEW add, Adds(add, C, Results), NEW h,
         ByRelay(h, Scanner(add, C, Results), Blank(nothing), ScanAcc(Results))
  PROVE  \E r : /\ Remembered(r, add, C, nothing, Results)
                /\ AtLast(h, Scanner(add, C, Results)).result = r[Len(relays)]
<1> DEFINE R == Len(relays)
           T == ScanAcc(Results)
           rd == Scanner(add, C, Results)
           r == [k \in 0..R |-> h[k].result]
<1>1. \A a, b : [current |-> a, result |-> b].result = b
  OBVIOUS
<1>2. R \in Nat /\ 0 \in 0..R /\ R \in 0..R
  BY DEF RelaysKnown
<1>3. h \in [0..R -> T] /\ h[0] = rd[Line("250+", 0), Blank(nothing)]
      /\ \A k \in 1..R : h[k] = PastRelay(rd, h[k - 1], k)
  BY DEF ByRelay
<1>4. Blank(nothing) \in T
  BY ScannerTyped
<1>5. ASSUME NEW kind \in {"250+", ".", "250"}, NEW y \in T PROVE rd[Line(kind, 0), y] = y
  <2>1. Line(kind, 0) \in Lines /\ Line(kind, 0).kind = kind
    BY LineKinds
  <2>2. rd[Line(kind, 0), y] = ScanNext(add, C, y, Line(kind, 0))
    BY <2>1 DEF Scanner
  <2>3. kind # "r" /\ kind # "s"
    OBVIOUS
  <2>4. ScanNext(add, C, y, Line(kind, 0)) = y
    BY <2>1, <2>3 DEF ScanNext
  <2> QED BY <2>2, <2>4
<1>6. h[0] = Blank(nothing) /\ AtLast(h, rd) = h[R]
  <2> HIDE DEF rd, T
  <2>1. h[R] \in T
    BY <1>2, <1>3
  <2>2. rd[Line(".", 0), h[R]] = h[R] /\ rd[Line("250", 0), h[R]] = h[R]
    BY <1>5, <2>1
  <2>3. AtLast(h, rd) = h[R]
    BY <2>2 DEF AtLast
  <2> QED BY <1>3, <1>4, <1>5, <2>3
<1>7. r \in [0..R -> Results] /\ \A k \in 0..R : r[k] = h[k].result
  BY <1>3 DEF ScanAcc
<1>8. ASSUME NEW k \in 1..R
      PROVE  r[k] = IF relays[k].exit /\ k \in C THEN add[r[k - 1], k] ELSE r[k - 1]
  <2>1. k \in 0..R /\ k - 1 \in 0..R
    BY <1>2
  <2>2. h[k - 1] \in T
    BY <1>3, <2>1
  <2>3. h[k] = PastRelay(rd, h[k - 1], k)
    <3> HIDE DEF rd, T, r
    <3> QED BY <1>3
  <2>4. PastRelay(rd, h[k - 1], k) =
          IF relays[k].exit /\ k \in C
          THEN [current |-> 0, result |-> add[h[k - 1].result, k]]
          ELSE [current |-> k, result |-> h[k - 1].result]
    <3> HIDE DEF r
    <3>1. PastRelay(rd, h[k - 1], k) = Passed(add, C, h[k - 1], k)
      BY <2>2, ScannedPast
    <3> QED BY <3>1 DEF Passed
  <2>5. h[k].result = IF relays[k].exit /\ k \in C THEN add[h[k - 1].result, k]
                      ELSE h[k - 1].result
    <3> HIDE DEF rd, T, r
    <3>1. CASE relays[k].exit /\ k \in C
      <4>1. h[k] = [current |-> 0, result |-> add[h[k - 1].result, k]]
        BY <2>3, <2>4, <3>1, Zenon
      <4>2. h[k].result = add[h[k - 1].result, k]
        BY <4>1, <1>1, Zenon
      <4> QED BY <3>1, <4>2, Zenon
    <3>2. CASE ~(relays[k].exit /\ k \in C)
      <4>1. h[k] = [current |-> k, result |-> h[k - 1].result]
        BY <2>3, <2>4, <3>2, Zenon
      <4>2. h[k].result = h[k - 1].result
        BY <4>1
      <4> QED BY <3>2, <4>2, Zenon
    <3> QED BY <3>1, <3>2
  <2>6. r[k] = h[k].result /\ r[k - 1] = h[k - 1].result
    BY <1>7, <2>1
  <2> HIDE DEF r
  <2> QED BY <2>5, <2>6, Zenon
<1>9. r[0] = nothing /\ r[R] = h[R].result
  <2>1. Blank(nothing).result = nothing
    BY DEF Blank
  <2> HIDE DEF r
  <2> QED BY <1>2, <1>6, <1>7, <2>1
<1>10. Remembered(r, add, C, nothing, Results)
  <2> HIDE DEF r
  <2> QED BY <1>7, <1>8, <1>9 DEF Remembered
<1>11. AtLast(h, rd).result = r[R]
  <2> HIDE DEF r, rd
  <2> QED BY <1>6, <1>9
<1> QED BY <1>10, <1>11

-----------------------------------------------------------------------------
(* The countries of the menu.                                              *)
Countries == [x \in Seq(Named) \X Placed |-> AddCountry(x[1], x[2])]

PlacedIn(k) == {Lookup(i) : i \in {j \in 1..k : relays[j].exit /\ Found(j)}}

LEMMA CountryAdded ==
  ASSUME RelaysKnown, NEW s \in Seq(Named), NEW k \in Placed
  PROVE  AddCountry(s, k) \in Seq(Named)
<1>1. Lookup(k) \in Named
  <2>1. relays[k] \in Relays
    BY DEF RelaysKnown, Placed
  <2> QED BY <2>1 DEF Relays, Lookup, Placed, Found
<1> QED BY <1>1 DEF AddCountry

CountryNext(acc, line) ==
  CASE line.kind = "r" -> [acc EXCEPT !.current = line.of]
    [] /\ line.kind = "s" /\ acc.current # 0
       /\ relays[line.of].exit /\ Found(acc.current)
         -> [current |-> 0, result |-> AddCountry(acc.result, acc.current)]
    [] OTHER -> acc

CountryRead(f) ==
  f = [s \in SUBSET (DOMAIN ConsensusLines) |->
         IF s = {} THEN Blank(<<>>)
         ELSE CountryNext(f[s \ {Max(s)}], ConsensusLines[Max(s)])]

(* The fold of get_available_countries, expanded.                          *)
LEMMA CountriesFold ==
  get_available_countries = (CHOOSE f : CountryRead(f))[DOMAIN ConsensusLines].result
  BY DEF get_available_countries, Scan, FoldLeft, MapThenFoldSet, CountryRead, CountryNext, Blank

(* How the countries are read: line by line, so relay by relay.            *)
LEMMA CountriesNext ==
  ASSUME RelaysKnown, NEW acc \in ScanAcc(Seq(Named)), NEW line \in Lines
  PROVE  Scanner(Countries, Placed, Seq(Named))[line, acc] = CountryNext(acc, line)
<1>1. ScanNext(Countries, Placed, acc, line) = CountryNext(acc, line)
  <2>1. CASE acc.current # 0 /\ Found(acc.current)
    <3>1. acc.current \in Placed /\ acc.result \in Seq(Named)
      <4>1. acc.current \in 0..Len(relays) /\ acc.result \in Seq(Named) /\ Len(relays) \in Nat
        BY DEF ScanAcc, RelaysKnown
      <4>2. acc.current \in 1..Len(relays)
        BY <2>1, <4>1
      <4> QED BY <2>1, <4>1, <4>2 DEF Placed
    <3>2. Countries[acc.result, acc.current] = AddCountry(acc.result, acc.current)
      BY <3>1 DEF Countries
    <3> QED BY <2>1, <3>1, <3>2, Zenon DEF ScanNext, CountryNext
  <2>2. CASE ~(acc.current # 0 /\ Found(acc.current))
    <3>1. ~(acc.current # 0 /\ acc.current \in Placed)
      BY <2>2 DEF Placed
    <3> QED BY <2>2, <3>1, Zenon DEF ScanNext, CountryNext
  <2> QED BY <2>1, <2>2
<1>2. Scanner(Countries, Placed, Seq(Named))[line, acc] = ScanNext(Countries, Placed, acc, line)
  BY DEF Scanner
<1> QED BY <1>1, <1>2

LEMMA CountriesScanned ==
  ASSUME RelaysKnown
  PROVE  \E r : /\ Remembered(r, Countries, Placed, <<>>, Seq(Named))
                /\ get_available_countries = r[Len(relays)]
<1> DEFINE T == ScanAcc(Seq(Named))
           rd == Scanner(Countries, Placed, Seq(Named))
           f == CHOOSE g : CountryRead(g)
<1>1. Adds(Countries, Placed, Seq(Named)) /\ <<>> \in Seq(Named)
  BY CountryAdded DEF Countries, Adds
<1>2. rd \in [Lines \X T -> T] /\ Blank(<<>>) \in T
  BY <1>1, ScannerTyped
<1>3. \A line \in Lines, acc \in T : rd[line, acc] = CountryNext(acc, line)
  BY CountriesNext
<1>4. /\ Len(ConsensusLines) \in Nat /\ DOMAIN ConsensusLines = 1..Len(ConsensusLines)
      /\ \A n \in 1..Len(ConsensusLines) : ConsensusLines[n] \in Lines
  BY AnswerIsLines
<1> HIDE DEF rd, T, f
<1>5. \E g : CountryRead(g)
  <2>1. PICK c \in [SUBSET (DOMAIN ConsensusLines) -> T] :
          LineFold(c, rd, Blank(<<>>))
    BY <1>2, LineFoldExists
  <2>2. ASSUME NEW s \in SUBSET (DOMAIN ConsensusLines), s # {}
        PROVE  rd[ConsensusLines[Max(s)], c[s \ {Max(s)}]] =
                 CountryNext(c[s \ {Max(s)}], ConsensusLines[Max(s)])
    <3>1. Max(s) \in s
      BY <1>4, <2>2, MaxWithin
    <3>2. Max(s) \in 1..Len(ConsensusLines) /\ s \ {Max(s)} \in SUBSET (DOMAIN ConsensusLines)
      BY <1>4, <3>1
    <3>3. c[s \ {Max(s)}] \in T
      BY <2>1, <3>2
    <3> QED BY <1>3, <1>4, <3>2, <3>3
  <2>3. c = [s \in SUBSET (DOMAIN ConsensusLines) |->
               IF s = {} THEN Blank(<<>>)
               ELSE CountryNext(c[s \ {Max(s)}], ConsensusLines[Max(s)])]
    BY <2>1, <2>2 DEF LineFold
  <2> QED BY <2>3 DEF CountryRead
<1>6. CountryRead(f)
  BY <1>5 DEF f
<1>7. ReadInOrder(f, rd, Blank(<<>>), T)
  <2>1. \A s \in SUBSET (DOMAIN ConsensusLines) :
          f[s] = IF s = {} THEN Blank(<<>>)
                 ELSE CountryNext(f[s \ {Max(s)}], ConsensusLines[Max(s)])
    BY <1>6 DEF CountryRead
  <2>2. f[{}] = Blank(<<>>)
    BY <2>1
  <2>3. ASSUME NEW n \in 1..Len(ConsensusLines), f[1..(n - 1)] \in T
        PROVE  f[1..n] = rd[ConsensusLines[n], f[1..(n - 1)]]
    <3>1. Max(1..n) = n /\ (1..n) \ {n} = 1..(n - 1) /\ 1..n # {}
      BY LastOfPrefix
    <3>2. 1..n \in SUBSET (DOMAIN ConsensusLines) /\ ConsensusLines[n] \in Lines
      BY <1>4
    <3>3. f[1..n] = CountryNext(f[1..(n - 1)], ConsensusLines[n])
      BY <2>1, <3>1, <3>2
    <3> QED BY <1>3, <2>3, <3>2, <3>3
  <2> QED BY <2>2, <2>3 DEF ReadInOrder
<1>8. PICK h : ByRelay(h, rd, Blank(<<>>), T) /\ f[DOMAIN ConsensusLines] = AtLast(h, rd)
  BY <1>2, <1>7, PrefixesFold
<1>9. PICK r : /\ Remembered(r, Countries, Placed, <<>>, Seq(Named))
              /\ AtLast(h, rd).result = r[Len(relays)]
  <2> DEFINE Results == Seq(Named)
             none == <<>>
  <2>1. ByRelay(h, Scanner(Countries, Placed, Results), Blank(none), ScanAcc(Results))
    BY <1>8 DEF rd, T
  <2>2. Adds(Countries, Placed, Results) /\ none \in Results
    BY <1>1
  <2> HIDE DEF Results, none
  <2>3. \E r : /\ Remembered(r, Countries, Placed, none, Results)
               /\ AtLast(h, Scanner(Countries, Placed, Results)).result = r[Len(relays)]
    BY <2>1, <2>2, Scanned
  <2> QED BY <2>3 DEF rd, Results, none
<1>10. get_available_countries = f[DOMAIN ConsensusLines].result
  BY CountriesFold DEF f
<1> QED BY <1>8, <1>9, <1>10

-----------------------------------------------------------------------------
(* The codes of the countries.                                             *)
CodeMaps == UNION {[D -> {CodeOf[c] : c \in Named}] : D \in SUBSET Named}

(* The relays that get_country_codes counts.                               *)
CodedOnes == {i \in Placed : CodeOf[Lookup(i)] # NoCode}

Codes == [x \in CodeMaps \X CodedOnes |-> AddCode(x[1], x[2])]

LEMMA NoCodes == <<>> \in CodeMaps /\ DOMAIN <<>> = {}
<1>1. <<>> \in [{} -> {CodeOf[c] : c \in Named}] /\ DOMAIN <<>> = {}
  OBVIOUS
<1> QED BY <1>1 DEF CodeMaps

(* A relay that counts adds its country, and nothing else.                 *)
LEMMA CodeAdded ==
  ASSUME RelaysKnown, NEW m \in CodeMaps, NEW k \in CodedOnes
  PROVE  /\ AddCode(m, k) \in CodeMaps
         /\ DOMAIN AddCode(m, k) = DOMAIN m \cup {Lookup(k)}
         /\ AddCode(m, k)[Lookup(k)] = CodeOf[Lookup(k)]
         /\ \A c \in DOMAIN m : c # Lookup(k) => AddCode(m, k)[c] = m[c]
<1> DEFINE V == {CodeOf[c] : c \in Named}
           l == Lookup(k)
           g == [c \in DOMAIN m \cup {l} |-> IF c = l THEN CodeOf[c] ELSE m[c]]
<1>1. l \in Named
  <2>1. relays[k] \in Relays
    BY DEF RelaysKnown, CodedOnes, Placed
  <2> QED BY <2>1 DEF Relays, Lookup, CodedOnes, Placed, Found
<1>2. DOMAIN m \in SUBSET Named /\ \A c \in DOMAIN m : m[c] \in V
  <2>1. PICK D \in SUBSET Named : m \in [D -> V]
    BY DEF CodeMaps
  <2> QED BY <2>1
<1>3. AddCode(m, k) = g
  BY DEF AddCode
<1> HIDE DEF l
<1>4. g \in [DOMAIN m \cup {l} -> V] /\ DOMAIN m \cup {l} \in SUBSET Named
  <2>1. ASSUME NEW c \in DOMAIN m \cup {l} PROVE (IF c = l THEN CodeOf[c] ELSE m[c]) \in V
    BY <1>1, <1>2
  <2> HIDE DEF V
  <2>2. g \in [DOMAIN m \cup {l} -> V]
    BY <2>1
  <2> QED BY <1>1, <1>2, <2>2
<1>5. g \in CodeMaps
  BY <1>4 DEF CodeMaps
<1>6. DOMAIN g = DOMAIN m \cup {l} /\ g[l] = CodeOf[l] /\ \A c \in DOMAIN m : c # l => g[c] = m[c]
  OBVIOUS
<1> HIDE DEF g
<1> QED BY <1>3, <1>5, <1>6 DEF l

CodeNext(acc, line) ==
  CASE line.kind = "r" -> [acc EXCEPT !.current = line.of]
    [] /\ line.kind = "s" /\ acc.current # 0
       /\ relays[line.of].exit /\ Coded(acc.current)
         -> [current |-> 0, result |-> AddCode(acc.result, acc.current)]
    [] OTHER -> acc

CodeRead(f) ==
  f = [s \in SUBSET (DOMAIN ConsensusLines) |->
         IF s = {} THEN Blank(<<>>)
         ELSE CodeNext(f[s \ {Max(s)}], ConsensusLines[Max(s)])]

(* The fold of get_country_codes, expanded.                                *)
LEMMA CodesFold ==
  get_country_codes = (CHOOSE f : CodeRead(f))[DOMAIN ConsensusLines].result
  BY DEF get_country_codes, Scan, FoldLeft, MapThenFoldSet, CodeRead, CodeNext, Coded, Blank

(* How the codes are read.                                                 *)
LEMMA CodesNext ==
  ASSUME RelaysKnown, NEW acc \in ScanAcc(CodeMaps), NEW line \in Lines
  PROVE  Scanner(Codes, CodedOnes, CodeMaps)[line, acc] = CodeNext(acc, line)
<1>1. ScanNext(Codes, CodedOnes, acc, line) = CodeNext(acc, line)
  <2>1. CASE acc.current # 0 /\ Coded(acc.current)
    <3>1. acc.current \in CodedOnes /\ acc.result \in CodeMaps
      <4>1. acc.current \in 0..Len(relays) /\ acc.result \in CodeMaps /\ Len(relays) \in Nat
        BY DEF ScanAcc, RelaysKnown
      <4>2. acc.current \in 1..Len(relays)
        BY <2>1, <4>1
      <4> QED BY <2>1, <4>1, <4>2 DEF CodedOnes, Placed, Coded
    <3>2. Codes[acc.result, acc.current] = AddCode(acc.result, acc.current)
      BY <3>1 DEF Codes
    <3> QED BY <2>1, <3>1, <3>2, Zenon DEF ScanNext, CodeNext
  <2>2. CASE ~(acc.current # 0 /\ Coded(acc.current))
    <3>1. ~(acc.current # 0 /\ acc.current \in CodedOnes)
      BY <2>2 DEF CodedOnes, Placed, Coded
    <3> QED BY <2>2, <3>1, Zenon DEF ScanNext, CodeNext
  <2> QED BY <2>1, <2>2
<1>2. Scanner(Codes, CodedOnes, CodeMaps)[line, acc] = ScanNext(Codes, CodedOnes, acc, line)
  BY DEF Scanner
<1> QED BY <1>1, <1>2

LEMMA CodesScanned ==
  ASSUME RelaysKnown
  PROVE  \E r : /\ Remembered(r, Codes, CodedOnes, <<>>, CodeMaps)
                /\ get_country_codes = r[Len(relays)]
<1> DEFINE T == ScanAcc(CodeMaps)
           rd == Scanner(Codes, CodedOnes, CodeMaps)
           f == CHOOSE g : CodeRead(g)
<1>1. Adds(Codes, CodedOnes, CodeMaps) /\ <<>> \in CodeMaps
  BY CodeAdded, NoCodes DEF Codes, Adds
<1>2. rd \in [Lines \X T -> T] /\ Blank(<<>>) \in T
  BY <1>1, ScannerTyped
<1>3. \A line \in Lines, acc \in T : rd[line, acc] = CodeNext(acc, line)
  BY CodesNext
<1>4. /\ Len(ConsensusLines) \in Nat /\ DOMAIN ConsensusLines = 1..Len(ConsensusLines)
      /\ \A n \in 1..Len(ConsensusLines) : ConsensusLines[n] \in Lines
  BY AnswerIsLines
<1> HIDE DEF rd, T, f
<1>5. \E g : CodeRead(g)
  <2>1. PICK c \in [SUBSET (DOMAIN ConsensusLines) -> T] :
          LineFold(c, rd, Blank(<<>>))
    BY <1>2, LineFoldExists
  <2>2. ASSUME NEW s \in SUBSET (DOMAIN ConsensusLines), s # {}
        PROVE  rd[ConsensusLines[Max(s)], c[s \ {Max(s)}]] =
                 CodeNext(c[s \ {Max(s)}], ConsensusLines[Max(s)])
    <3>1. Max(s) \in s
      BY <1>4, <2>2, MaxWithin
    <3>2. Max(s) \in 1..Len(ConsensusLines) /\ s \ {Max(s)} \in SUBSET (DOMAIN ConsensusLines)
      BY <1>4, <3>1
    <3>3. c[s \ {Max(s)}] \in T
      BY <2>1, <3>2
    <3> QED BY <1>3, <1>4, <3>2, <3>3
  <2>3. c = [s \in SUBSET (DOMAIN ConsensusLines) |->
               IF s = {} THEN Blank(<<>>)
               ELSE CodeNext(c[s \ {Max(s)}], ConsensusLines[Max(s)])]
    BY <2>1, <2>2 DEF LineFold
  <2> QED BY <2>3 DEF CodeRead
<1>6. CodeRead(f)
  BY <1>5 DEF f
<1>7. ReadInOrder(f, rd, Blank(<<>>), T)
  <2>1. \A s \in SUBSET (DOMAIN ConsensusLines) :
          f[s] = IF s = {} THEN Blank(<<>>)
                 ELSE CodeNext(f[s \ {Max(s)}], ConsensusLines[Max(s)])
    BY <1>6 DEF CodeRead
  <2>2. f[{}] = Blank(<<>>)
    BY <2>1
  <2>3. ASSUME NEW n \in 1..Len(ConsensusLines), f[1..(n - 1)] \in T
        PROVE  f[1..n] = rd[ConsensusLines[n], f[1..(n - 1)]]
    <3>1. Max(1..n) = n /\ (1..n) \ {n} = 1..(n - 1) /\ 1..n # {}
      BY LastOfPrefix
    <3>2. 1..n \in SUBSET (DOMAIN ConsensusLines) /\ ConsensusLines[n] \in Lines
      BY <1>4
    <3>3. f[1..n] = CodeNext(f[1..(n - 1)], ConsensusLines[n])
      BY <2>1, <3>1, <3>2
    <3> QED BY <1>3, <2>3, <3>2, <3>3
  <2> QED BY <2>2, <2>3 DEF ReadInOrder
<1>8. PICK h : ByRelay(h, rd, Blank(<<>>), T) /\ f[DOMAIN ConsensusLines] = AtLast(h, rd)
  BY <1>2, <1>7, PrefixesFold
<1>9. PICK r : /\ Remembered(r, Codes, CodedOnes, <<>>, CodeMaps)
              /\ AtLast(h, rd).result = r[Len(relays)]
  <2> DEFINE Results == CodeMaps
             none == <<>>
  <2>1. ByRelay(h, Scanner(Codes, CodedOnes, Results), Blank(none), ScanAcc(Results))
    BY <1>8 DEF rd, T
  <2>2. Adds(Codes, CodedOnes, Results) /\ none \in Results
    BY <1>1
  <2> HIDE DEF Results, none
  <2>3. \E r : /\ Remembered(r, Codes, CodedOnes, none, Results)
               /\ AtLast(h, Scanner(Codes, CodedOnes, Results)).result = r[Len(relays)]
    BY <2>1, <2>2, Scanned
  <2> QED BY <2>3 DEF rd, Results, none
<1>10. get_country_codes = f[DOMAIN ConsensusLines].result
  BY CodesFold DEF f
<1> QED BY <1>8, <1>9, <1>10

-----------------------------------------------------------------------------
(* What the scans remember of the first k relays.                          *)
LEMMA PlacedGrows ==
  ASSUME RelaysKnown, NEW k \in 1..Len(relays)
  PROVE  PlacedIn(k) = IF relays[k].exit /\ Found(k) THEN PlacedIn(k - 1) \cup {Lookup(k)}
                       ELSE PlacedIn(k - 1)
<1>1. \A j : j \in 1..k <=> j \in 1..(k - 1) \/ j = k
  BY DEF RelaysKnown
<1>2. CASE relays[k].exit /\ Found(k)
  <2>1. {j \in 1..k : relays[j].exit /\ Found(j)} =
          {j \in 1..(k - 1) : relays[j].exit /\ Found(j)} \cup {k}
    BY <1>1, <1>2, Zenon
  <2> QED BY <1>2, <2>1, Zenon DEF PlacedIn
<1>3. CASE ~(relays[k].exit /\ Found(k))
  <2>1. {j \in 1..k : relays[j].exit /\ Found(j)} =
          {j \in 1..(k - 1) : relays[j].exit /\ Found(j)}
    BY <1>1, <1>3, Zenon
  <2> QED BY <1>3, <2>1, Zenon DEF PlacedIn
<1> QED BY <1>2, <1>3

LEMMA NonePlaced == PlacedIn(0) = {}
<1>1. 1..0 = {}
  OBVIOUS
<1> QED BY <1>1 DEF PlacedIn

(* The countries with an exit are those of the relays a scan remembers.    *)
LEMMA PlacedAreExits ==
  ASSUME RelaysKnown
  PROVE  PlacedIn(Len(relays)) = WithExits
<1> DEFINE R == Len(relays)
<1>1. ASSUME NEW c PROVE c \in PlacedIn(R) <=> c \in WithExits
  <2>1. ASSUME c \in PlacedIn(R) PROVE c \in WithExits
    <3>1. PICK i \in 1..R : relays[i].exit /\ Found(i) /\ c = Lookup(i)
      BY <2>1 DEF PlacedIn
    <3>2. relays[i] \in Relays
      BY DEF RelaysKnown
    <3>3. c \in Named
      BY <3>1, <3>2 DEF Relays, Found, Lookup
    <3>4. i \in ExitsIn(c)
      BY <3>1 DEF ExitsIn
    <3> QED BY <3>3, <3>4 DEF WithExits
  <2>2. ASSUME c \in WithExits PROVE c \in PlacedIn(R)
    <3>1. c \in Named /\ ExitsIn(c) # {}
      BY <2>2 DEF WithExits
    <3>2. PICK i \in 1..R : relays[i].exit /\ Lookup(i) = c
      BY <3>1 DEF ExitsIn
    <3>3. Found(i)
      BY <3>1, <3>2, NamedAssumption DEF Found
    <3> QED BY <3>2, <3>3 DEF PlacedIn
  <2> QED BY <2>1, <2>2
<1> QED BY <1>1

(* The menu lists every country with an exit, once, and no other, however  *)
(* the relays' lines follow one another (exit_selector.cpp:22-51).         *)
CountriesOf(s, k) ==
  /\ s \in Seq(Named)
  /\ {s[n] : n \in DOMAIN s} = PlacedIn(k)
  /\ \A m, n \in DOMAIN s : s[m] = s[n] => m = n

LEMMA CountryCounted ==
  ASSUME RelaysKnown, NEW k \in 1..Len(relays), k \in Placed, relays[k].exit,
         NEW s, CountriesOf(s, k - 1)
  PROVE  CountriesOf(AddCountry(s, k), k)
<1> DEFINE l == Lookup(k)
<1>1. PlacedIn(k) = PlacedIn(k - 1) \cup {l}
  BY PlacedGrows DEF Placed
<1>2. s \in Seq(Named) /\ {s[n] : n \in DOMAIN s} = PlacedIn(k - 1)
      /\ \A m, n \in DOMAIN s : s[m] = s[n] => m = n
  BY DEF CountriesOf
<1>3. AddCountry(s, k) \in Seq(Named)
  BY <1>2, CountryAdded
<1>4. CASE l \in PlacedIn(k - 1)
  <2>1. AddCountry(s, k) = s
    BY <1>2, <1>4 DEF AddCountry
  <2>2. PlacedIn(k) = PlacedIn(k - 1)
    BY <1>1, <1>4
  <2> QED BY <1>2, <2>1, <2>2 DEF CountriesOf
<1>5. CASE l \notin PlacedIn(k - 1)
  <2> DEFINE t == Append(s, l)
             N == Len(s)
  <2>1. AddCountry(s, k) = t
    BY <1>2, <1>5 DEF AddCountry
  <2>2. N \in Nat /\ DOMAIN s = 1..N
    BY <1>2, LenProperties
  <2>3. l \in Named
    <3>1. relays[k] \in Relays
      BY DEF RelaysKnown
    <3> QED BY <3>1 DEF Relays, Lookup, Placed, Found
  <2>4. Len(t) = N + 1 /\ DOMAIN t = 1..(N + 1) /\ t[N + 1] = l /\ \A n \in 1..N : t[n] = s[n]
    BY <1>2, <2>3, AppendProperties
  <2> HIDE DEF t, N, l
  <2>5. \A n \in DOMAIN t : n \in DOMAIN s \/ n = N + 1
    BY <2>2, <2>4
  <2>6. N + 1 \in DOMAIN t /\ DOMAIN s \subseteq DOMAIN t /\ N + 1 \notin DOMAIN s
    BY <2>2, <2>4
  <2>7. \A n \in DOMAIN s : t[n] = s[n] /\ s[n] # l
    BY <1>2, <1>5, <2>2, <2>4
  <2>8. {t[n] : n \in DOMAIN t} = {s[n] : n \in DOMAIN s} \cup {l}
    BY <2>4, <2>5, <2>6, <2>7
  <2>9. \A m, n \in DOMAIN t : t[m] = t[n] => m = n
    BY <1>2, <2>4, <2>5, <2>7
  <2>10. t \in Seq(Named) /\ {t[n] : n \in DOMAIN t} = PlacedIn(k)
    BY <1>1, <1>2, <1>3, <2>1, <2>8
  <2>11. CountriesOf(t, k)
    BY <2>9, <2>10 DEF CountriesOf
  <2> QED BY <2>1, <2>11
<1> QED BY <1>4, <1>5

LEMMA MenuRight ==
  ASSUME RelaysKnown
  PROVE  MenuIsRight
<1> DEFINE R == Len(relays)
<1>1. PICK r : Remembered(r, Countries, Placed, <<>>, Seq(Named)) /\ get_available_countries = r[R]
  BY CountriesScanned
<1>2. r[0] = <<>> /\ \A k \in 1..R :
        r[k] = IF relays[k].exit /\ k \in Placed THEN Countries[r[k - 1], k] ELSE r[k - 1]
  BY <1>1 DEF Remembered
<1>3. R \in Nat
  BY DEF RelaysKnown
<1> DEFINE P == {k \in 0..R : CountriesOf(r[k], k)}
<1>4. 0 \in P
  <2>1. CountriesOf(<<>>, 0)
    BY NonePlaced DEF CountriesOf
  <2>2. r[0] = <<>>
    BY <1>2
  <2>3. CountriesOf(r[0], 0)
    BY <2>1, <2>2
  <2>4. 0 \in 0..R
    BY <1>3
  <2> QED BY <2>3, <2>4
<1>5. ASSUME NEW k \in 1..R, k - 1 \in P PROVE k \in P
  <2>1. CountriesOf(r[k - 1], k - 1) /\ k \in 0..R
    BY <1>5
  <2>2. CASE relays[k].exit /\ Found(k)
    <3>1. k \in Placed /\ r[k - 1] \in Seq(Named)
      BY <2>1, <2>2 DEF Placed, CountriesOf
    <3>2. r[k] = AddCountry(r[k - 1], k)
      BY <1>2, <2>2, <3>1 DEF Countries
    <3>3. CountriesOf(r[k], k)
      BY <2>1, <2>2, <3>1, <3>2, CountryCounted
    <3> QED BY <2>1, <3>3
  <2>3. CASE ~(relays[k].exit /\ Found(k))
    <3>1. r[k] = r[k - 1] /\ PlacedIn(k) = PlacedIn(k - 1)
      <4>1. ~(relays[k].exit /\ k \in Placed)
        BY <2>3 DEF Placed
      <4> QED BY <1>2, <2>3, <4>1, PlacedGrows
    <3> QED BY <2>1, <3>1 DEF CountriesOf
  <2> QED BY <2>2, <2>3
<1>6. R \in P
  <2> HIDE DEF P
  <2>1. \A k \in 0..R : k \in P
    BY <1>3, <1>4, <1>5, UpTo
  <2> QED BY <1>3, <2>1
<1>7. CountriesOf(get_available_countries, R)
  BY <1>1, <1>6
<1>8. PlacedIn(R) = WithExits
  BY PlacedAreExits
<1> QED BY <1>7, <1>8 DEF CountriesOf, MenuIsRight, IsInjective

(* Of one consensus, change_city knows the code of every country of the    *)
(* menu that has one (exit_selector.cpp:54-83, service.cpp:281-291).       *)
CodesIn(m, k) ==
  /\ m \in CodeMaps
  /\ DOMAIN m = {c \in PlacedIn(k) : CodeOf[c] # NoCode}
  /\ \A c \in DOMAIN m : m[c] = CodeOf[c]

LEMMA CodeCounted ==
  ASSUME RelaysKnown, NEW k \in 1..Len(relays), k \in CodedOnes, relays[k].exit,
         NEW m, CodesIn(m, k - 1)
  PROVE  CodesIn(AddCode(m, k), k)
<1> DEFINE l == Lookup(k)
           g == AddCode(m, k)
<1>1. PlacedIn(k) = PlacedIn(k - 1) \cup {l} /\ CodeOf[l] # NoCode
  BY PlacedGrows DEF CodedOnes, Placed
<1>2. m \in CodeMaps /\ DOMAIN m = {c \in PlacedIn(k - 1) : CodeOf[c] # NoCode}
      /\ \A c \in DOMAIN m : m[c] = CodeOf[c]
  BY DEF CodesIn
<1>3. /\ g \in CodeMaps
      /\ DOMAIN g = DOMAIN m \cup {l} /\ g[l] = CodeOf[l]
      /\ \A c \in DOMAIN m : c # l => g[c] = m[c]
  BY <1>2, CodeAdded
<1> HIDE DEF g, l
<1>4. {c \in PlacedIn(k) : CodeOf[c] # NoCode} =
        {c \in PlacedIn(k - 1) : CodeOf[c] # NoCode} \cup {l}
  BY <1>1
<1>5. DOMAIN g = {c \in PlacedIn(k) : CodeOf[c] # NoCode}
  BY <1>2, <1>3, <1>4
<1>6. \A c \in DOMAIN g : g[c] = CodeOf[c]
  BY <1>2, <1>3
<1>7. CodesIn(g, k)
  BY <1>3, <1>5, <1>6 DEF CodesIn
<1> QED BY <1>7 DEF g

(* The others leave the codes as they are.                                 *)
LEMMA NotCounted ==
  ASSUME RelaysKnown, NEW k \in 1..Len(relays), ~(relays[k].exit /\ k \in CodedOnes),
         NEW m, CodesIn(m, k - 1)
  PROVE  CodesIn(m, k)
<1>1. CASE relays[k].exit /\ Found(k)
  <2>1. CodeOf[Lookup(k)] = NoCode
    BY <1>1 DEF CodedOnes, Placed
  <2>2. PlacedIn(k) = PlacedIn(k - 1) \cup {Lookup(k)}
    BY <1>1, PlacedGrows
  <2>3. {c \in PlacedIn(k) : CodeOf[c] # NoCode} = {c \in PlacedIn(k - 1) : CodeOf[c] # NoCode}
    BY <2>1, <2>2
  <2> QED BY <2>3 DEF CodesIn
<1>2. CASE ~(relays[k].exit /\ Found(k))
  <2>1. PlacedIn(k) = PlacedIn(k - 1)
    BY <1>2, PlacedGrows
  <2> QED BY <2>1 DEF CodesIn
<1> QED BY <1>1, <1>2

LEMMA MenuKnown ==
  ASSUME RelaysKnown
  PROVE  MenuIsKnown
<1> DEFINE R == Len(relays)
<1>1. PICK r : Remembered(r, Codes, CodedOnes, <<>>, CodeMaps) /\ get_country_codes = r[R]
  BY CodesScanned
<1>2. r[0] = <<>> /\ \A k \in 1..R :
        r[k] = IF relays[k].exit /\ k \in CodedOnes THEN Codes[r[k - 1], k] ELSE r[k - 1]
  BY <1>1 DEF Remembered
<1>3. R \in Nat
  BY DEF RelaysKnown
<1> DEFINE P == {k \in 0..R : CodesIn(r[k], k)}
<1>4. 0 \in P
  <2>1. CodesIn(<<>>, 0)
    <3>1. {c \in PlacedIn(0) : CodeOf[c] # NoCode} = {}
      BY NonePlaced
    <3>2. <<>> \in CodeMaps /\ DOMAIN <<>> = {}
      BY NoCodes
    <3> QED BY <3>1, <3>2, Zenon DEF CodesIn
  <2>2. r[0] = <<>>
    BY <1>2
  <2>3. CodesIn(r[0], 0)
    BY <2>1, <2>2
  <2>4. 0 \in 0..R
    BY <1>3
  <2> QED BY <2>3, <2>4
<1>5. ASSUME NEW k \in 1..R, k - 1 \in P PROVE k \in P
  <2>1. CodesIn(r[k - 1], k - 1) /\ k \in 0..R
    BY <1>5
  <2>2. CASE relays[k].exit /\ k \in CodedOnes
    <3>1. r[k - 1] \in CodeMaps
      BY <2>1 DEF CodesIn
    <3>2. r[k] = AddCode(r[k - 1], k)
      BY <1>2, <2>2, <3>1 DEF Codes
    <3>3. CodesIn(r[k], k)
      BY <2>1, <2>2, <3>1, <3>2, CodeCounted
    <3> QED BY <2>1, <3>3
  <2>3. CASE ~(relays[k].exit /\ k \in CodedOnes)
    <3>1. r[k] = r[k - 1]
      BY <1>2, <2>3
    <3> QED BY <2>1, <2>3, <3>1, NotCounted
  <2> QED BY <2>2, <2>3
<1>6. R \in P
  <2> HIDE DEF P
  <2>1. \A k \in 0..R : k \in P
    BY <1>3, <1>4, <1>5, UpTo
  <2> QED BY <1>3, <2>1
<1>7. CodesIn(get_country_codes, R)
  BY <1>1, <1>6
<1>8. PlacedIn(R) = WithExits
  BY PlacedAreExits
<1> QED BY <1>7, <1>8 DEF CodesIn, MenuIsKnown

-----------------------------------------------------------------------------
(* The exits of a country: at most one, whose bandwidth the later lines    *)
(* overwrite.                                                              *)
ExitRecords(country) == [relay : ExitsIn(country), bandwidth : {1, 2, 1000}]

ExitAcc(country) ==
  {[mode |-> "scan", exits |-> <<>>], [mode |-> "flags", exits |-> <<>>]}
  \cup {[mode |-> "inner", exits |-> <<e>>] : e \in ExitRecords(country)}

ModeNext(country, m, line) ==
  CASE m = "scan" -> IF line.kind = "r" THEN "flags" ELSE "scan"
    [] m = "flags" ->
         IF line.kind = "s" /\ Wanted(country, line.of) THEN "inner" ELSE "scan"
    [] OTHER -> m

(* Each line leaves one of the exits' records, or none, and moves the scan *)
(* from mode to mode.                                                      *)
LEMMA ExitLineRead ==
  ASSUME RelaysKnown, NEW country, NEW acc \in ExitAcc(country), NEW line \in Lines
  PROVE  /\ ReadExit(country, acc, line) \in ExitAcc(country)
         /\ ReadExit(country, acc, line).mode = ModeNext(country, acc.mode, line)
<1> DEFINE S == [mode |-> "scan", exits |-> <<>>]
           F == [mode |-> "flags", exits |-> <<>>]
           T == ExitAcc(country)
           g == ReadExit(country, acc, line)
<1>1. S \in T /\ S.mode = "scan" /\ F \in T /\ F.mode = "flags"
  BY DEF ExitAcc
<1> SUFFICES g \in T /\ g.mode = ModeNext(country, acc.mode, line)
  OBVIOUS
<1>2. [S EXCEPT !.mode = "flags"] = F /\ [F EXCEPT !.mode = "scan"] = S
  OBVIOUS
<1>3. acc = S \/ acc = F \/ \E e \in ExitRecords(country) : acc = [mode |-> "inner", exits |-> <<e>>]
  BY DEF ExitAcc
<1> HIDE DEF g, T
<1>4. CASE acc = S
  <2>1. CASE line.kind = "r"
    <3>1. g = [S EXCEPT !.mode = "flags"]
      BY <1>1, <1>4, <2>1 DEF ReadExit, g
    <3>2. ModeNext(country, acc.mode, line) = "flags"
      BY <1>1, <1>4, <2>1 DEF ModeNext
    <3> QED BY <1>1, <1>2, <3>1, <3>2
  <2>2. CASE line.kind # "r"
    <3>1. g = acc
      BY <1>1, <1>4, <2>2 DEF ReadExit, g
    <3>2. ModeNext(country, acc.mode, line) = "scan"
      BY <1>1, <1>4, <2>2 DEF ModeNext
    <3> QED BY <1>1, <1>4, <3>1, <3>2
  <2> QED BY <2>1, <2>2
<1>5. CASE acc = F
  <2>1. CASE line.kind = "s" /\ Wanted(country, line.of)
    <3> DEFINE e == [relay |-> line.of, bandwidth |-> 1000]
               I == [mode |-> "inner", exits |-> <<e>>]
    <3>1. g = [mode |-> "inner", exits |-> Append(acc.exits, e)]
      BY <1>1, <1>5, <2>1 DEF ReadExit, g
    <3>2. Append(<<>>, e) = <<e>>
      OBVIOUS
    <3>3. acc.exits = <<>>
      BY <1>5
    <3>4. g = I
      <4> HIDE DEF e
      <4> QED BY <3>1, <3>2, <3>3
    <3>5. line.of \in 1..Len(relays)
      BY <2>1 DEF Lines, RelayKinds
    <3>6. e \in ExitRecords(country)
      BY <2>1, <3>5 DEF Wanted, ExitsIn, ExitRecords
    <3>7. I \in T /\ I.mode = "inner"
      <4> HIDE DEF e
      <4> QED BY <3>6 DEF ExitAcc, T
    <3>8. ModeNext(country, acc.mode, line) = "inner"
      BY <1>1, <1>5, <2>1 DEF ModeNext
    <3> HIDE DEF I
    <3> QED BY <3>4, <3>7, <3>8
  <2>2. CASE ~(line.kind = "s" /\ Wanted(country, line.of))
    <3>1. g = [F EXCEPT !.mode = "scan"]
      BY <1>1, <1>5, <2>2 DEF ReadExit, g
    <3>2. ModeNext(country, acc.mode, line) = "scan"
      BY <1>1, <1>5, <2>2 DEF ModeNext
    <3> QED BY <1>1, <1>2, <3>1, <3>2
  <2> QED BY <2>1, <2>2
<1>6. ASSUME NEW e \in ExitRecords(country), acc = [mode |-> "inner", exits |-> <<e>>]
      PROVE  g \in T /\ g.mode = ModeNext(country, acc.mode, line)
  <2>1. acc.mode = "inner" /\ acc \in T /\ acc.exits = <<e>>
    BY <1>6 DEF T
  <2>2. ModeNext(country, acc.mode, line) = "inner"
    BY <2>1 DEF ModeNext
  <2>3. CASE line.kind = "w"
    <3> DEFINE b == relays[line.of].bw
               d == [e EXCEPT !.bandwidth = b]
               I == [mode |-> "inner", exits |-> <<d>>]
    <3>1. g = [acc EXCEPT !.exits[Len(acc.exits)].bandwidth = b]
      BY <2>1, <2>3 DEF ReadExit, g
    <3>2. Len(acc.exits) = 1
      BY <2>1
    <3>3. [acc EXCEPT !.exits[1].bandwidth = b] = I
      BY <1>6
    <3>4. g = I
      BY <3>1, <3>2, <3>3, Zenon
    <3>5. b \in {1, 2, 1000}
      <4>1. line.of \in 1..Len(relays)
        BY <2>3 DEF Lines, RelayKinds
      <4>2. relays[line.of] \in Relays
        BY <4>1 DEF RelaysKnown
      <4> QED BY <4>2 DEF Relays
    <3>6. d \in ExitRecords(country)
      <4> HIDE DEF b
      <4> QED BY <3>5 DEF ExitRecords
    <3>7. I \in T /\ I.mode = "inner"
      <4> HIDE DEF d
      <4> QED BY <3>6 DEF ExitAcc, T
    <3> HIDE DEF I
    <3> QED BY <2>2, <3>4, <3>7
  <2>4. CASE line.kind # "w"
    <3>1. g = acc
      BY <2>1, <2>4 DEF ReadExit, g
    <3> QED BY <2>1, <2>2, <3>1
  <2> QED BY <2>3, <2>4
<1> QED BY <1>3, <1>4, <1>5, <1>6

ExitReader(country) ==
  [x \in Lines \X ExitAcc(country) |-> ReadExit(country, x[2], x[1])]

NoExit == [mode |-> "scan", exits |-> <<>>]

LEMMA ExitReaderTyped ==
  ASSUME RelaysKnown, NEW country
  PROVE  /\ ExitReader(country) \in [Lines \X ExitAcc(country) -> ExitAcc(country)]
         /\ NoExit \in ExitAcc(country)
         /\ \A line \in Lines, acc \in ExitAcc(country) :
              /\ ExitReader(country)[line, acc] = ReadExit(country, acc, line)
              /\ ExitReader(country)[line, acc] \in ExitAcc(country)
              /\ ExitReader(country)[line, acc].mode = ModeNext(country, acc.mode, line)
<1>1. \A line \in Lines, acc \in ExitAcc(country) :
         /\ ReadExit(country, acc, line) \in ExitAcc(country)
         /\ ReadExit(country, acc, line).mode = ModeNext(country, acc.mode, line)
  BY ExitLineRead
<1>2. \A line \in Lines, acc \in ExitAcc(country) :
         ExitReader(country)[line, acc] = ReadExit(country, acc, line)
  BY DEF ExitReader
<1>3. ExitReader(country) \in [Lines \X ExitAcc(country) -> ExitAcc(country)]
  BY <1>1 DEF ExitReader
<1>4. NoExit \in ExitAcc(country)
  BY DEF NoExit, ExitAcc
<1> HIDE DEF ExitReader
<1> QED BY <1>1, <1>2, <1>3, <1>4

(* The scan finds an exit only where an "s" line follows the "r" line.     *)
Readable(country, k) == Wanted(country, k) /\ ~relays[k].ipv6

LEMMA ExitPast ==
  ASSUME RelaysKnown, NEW country, NEW x \in ExitAcc(country), x.mode # "flags",
         NEW k \in 1..Len(relays)
  PROVE  /\ PastRelay(ExitReader(country), x, k) \in ExitAcc(country)
         /\ PastRelay(ExitReader(country), x, k).mode =
              IF x.mode = "inner" \/ Readable(country, k) THEN "inner" ELSE "scan"
<1> DEFINE T == ExitAcc(country)
           rd == ExitReader(country)
<1>1. \A line \in Lines, acc \in T :
         rd[line, acc] \in T /\ rd[line, acc].mode = ModeNext(country, acc.mode, line)
  BY ExitReaderTyped
<1>2. \A kind \in RelayKinds : /\ Line(kind, k) \in Lines
                               /\ Line(kind, k).kind = kind /\ Line(kind, k).of = k
  BY LineKinds
<1>3. x.mode \in {"scan", "inner"}
  BY DEF ExitAcc
<1>4. \A kind \in RelayKinds : /\ ModeNext(country, "inner", Line(kind, k)) = "inner"
                               /\ kind # "r" => ModeNext(country, "scan", Line(kind, k)) = "scan"
                               /\ kind # "s" => ModeNext(country, "flags", Line(kind, k)) = "scan"
  BY <1>2 DEF ModeNext
<1>5. ModeNext(country, "scan", Line("r", k)) = "flags"
  BY <1>2 DEF ModeNext, RelayKinds
<1>6. ModeNext(country, "flags", Line("s", k)) = IF Wanted(country, k) THEN "inner" ELSE "scan"
  BY <1>2 DEF ModeNext, RelayKinds
<1> DEFINE r == rd[Line("r", k), x]
           a == IF relays[k].ipv6 THEN rd[Line("a", k), r] ELSE r
           s == rd[Line("s", k), a]
           w == rd[Line("w", k), s]
           p == rd[Line("p", k), w]
<1>7. PastRelay(rd, x, k) = p
  BY DEF PastRelay
<1>8. x \in T
  OBVIOUS
<1> HIDE DEF T, rd
<1>9. r \in T /\ r.mode = ModeNext(country, x.mode, Line("r", k))
  BY <1>1, <1>2, <1>8 DEF RelayKinds
<1> HIDE DEF r
<1>10. /\ a \in T
       /\ a.mode = IF relays[k].ipv6 THEN ModeNext(country, r.mode, Line("a", k)) ELSE r.mode
  <2>1. rd[Line("a", k), r] \in T /\ rd[Line("a", k), r].mode = ModeNext(country, r.mode, Line("a", k))
    BY <1>1, <1>2, <1>9 DEF RelayKinds
  <2>2. CASE relays[k].ipv6
    BY <2>1, <2>2
  <2>3. CASE ~relays[k].ipv6
    BY <1>9, <2>3
  <2> QED BY <2>2, <2>3
<1> HIDE DEF a
<1>11. s \in T /\ s.mode = ModeNext(country, a.mode, Line("s", k))
  BY <1>1, <1>2, <1>10 DEF RelayKinds
<1> HIDE DEF s
<1>12. w \in T /\ w.mode = ModeNext(country, s.mode, Line("w", k))
  BY <1>1, <1>2, <1>11 DEF RelayKinds
<1> HIDE DEF w
<1>13. p \in T /\ p.mode = ModeNext(country, w.mode, Line("p", k))
  BY <1>1, <1>2, <1>12 DEF RelayKinds
<1> HIDE DEF p
<1>14. p.mode = s.mode \/ s.mode \notin {"scan", "inner"}
  BY <1>4, <1>12, <1>13 DEF RelayKinds
<1>15. s.mode = IF x.mode = "inner" \/ Readable(country, k) THEN "inner" ELSE "scan"
  <2>1. CASE x.mode = "inner"
    <3>1. r.mode = "inner"
      BY <1>4, <1>9, <2>1 DEF RelayKinds
    <3>2. a.mode = "inner"
      BY <1>4, <1>10, <3>1 DEF RelayKinds
    <3>3. s.mode = "inner"
      BY <1>4, <1>11, <3>2 DEF RelayKinds
    <3> QED BY <2>1, <3>3
  <2>2. CASE x.mode = "scan" /\ relays[k].ipv6
    <3>1. r.mode = "flags"
      BY <1>5, <1>9, <2>2
    <3>2. a.mode = "scan"
      BY <1>4, <1>10, <2>2, <3>1 DEF RelayKinds
    <3>3. s.mode = "scan"
      BY <1>4, <1>11, <3>2 DEF RelayKinds
    <3>4. ~Readable(country, k) /\ x.mode # "inner"
      BY <2>2 DEF Readable
    <3> QED BY <3>3, <3>4
  <2>3. CASE x.mode = "scan" /\ ~relays[k].ipv6
    <3>1. r.mode = "flags"
      BY <1>5, <1>9, <2>3
    <3>2. a.mode = "flags"
      BY <1>10, <2>3, <3>1
    <3>3. s.mode = IF Wanted(country, k) THEN "inner" ELSE "scan"
      BY <1>6, <1>11, <3>2
    <3>4. (Readable(country, k) <=> Wanted(country, k)) /\ x.mode # "inner"
      BY <2>3 DEF Readable
    <3> QED BY <3>3, <3>4
  <2> QED BY <1>3, <2>1, <2>2, <2>3
<1>16. p \in T /\ p.mode = IF x.mode = "inner" \/ Readable(country, k) THEN "inner" ELSE "scan"
  BY <1>13, <1>14, <1>15
<1> QED BY <1>7, <1>16 DEF T, rd

ExitRead(country, f) ==
  f = [s \in SUBSET (DOMAIN ConsensusLines) |->
         IF s = {} THEN NoExit
         ELSE ReadExit(country, f[s \ {Max(s)}], ConsensusLines[Max(s)])]

(* The fold of get_exits_for_country, expanded.                            *)
LEMMA ExitsFold ==
  ASSUME NEW country
  PROVE  get_exits_for_country(country) =
           (CHOOSE f : ExitRead(country, f))[DOMAIN ConsensusLines].exits
  BY DEF get_exits_for_country, FoldLeft, MapThenFoldSet, ExitRead, NoExit

(* How the exits are read.                                                 *)
LEMMA ExitsScanned ==
  ASSUME RelaysKnown, NEW country
  PROVE  \E h : /\ ByRelay(h, ExitReader(country), NoExit, ExitAcc(country))
                /\ get_exits_for_country(country) = AtLast(h, ExitReader(country)).exits
<1> DEFINE T == ExitAcc(country)
           rd == ExitReader(country)
           f == CHOOSE g : ExitRead(country, g)
<1>1. rd \in [Lines \X T -> T] /\ NoExit \in T
  BY ExitReaderTyped
<1>2. \A line \in Lines, acc \in T : rd[line, acc] = ReadExit(country, acc, line)
  BY ExitReaderTyped
<1>3. /\ Len(ConsensusLines) \in Nat /\ DOMAIN ConsensusLines = 1..Len(ConsensusLines)
      /\ \A n \in 1..Len(ConsensusLines) : ConsensusLines[n] \in Lines
  BY AnswerIsLines
<1> HIDE DEF rd, T, f
<1>4. \E g : ExitRead(country, g)
  <2>1. PICK c \in [SUBSET (DOMAIN ConsensusLines) -> T] : LineFold(c, rd, NoExit)
    BY <1>1, LineFoldExists
  <2>2. ASSUME NEW s \in SUBSET (DOMAIN ConsensusLines), s # {}
        PROVE  rd[ConsensusLines[Max(s)], c[s \ {Max(s)}]] =
                 ReadExit(country, c[s \ {Max(s)}], ConsensusLines[Max(s)])
    <3>1. Max(s) \in s
      BY <1>3, <2>2, MaxWithin
    <3>2. Max(s) \in 1..Len(ConsensusLines) /\ s \ {Max(s)} \in SUBSET (DOMAIN ConsensusLines)
      BY <1>3, <3>1
    <3>3. c[s \ {Max(s)}] \in T
      BY <2>1, <3>2
    <3> QED BY <1>2, <1>3, <3>2, <3>3
  <2>3. c = [s \in SUBSET (DOMAIN ConsensusLines) |->
               IF s = {} THEN NoExit
               ELSE ReadExit(country, c[s \ {Max(s)}], ConsensusLines[Max(s)])]
    BY <2>1, <2>2 DEF LineFold
  <2> QED BY <2>3 DEF ExitRead
<1>5. ExitRead(country, f)
  BY <1>4 DEF f
<1>6. ReadInOrder(f, rd, NoExit, T)
  <2>1. \A s \in SUBSET (DOMAIN ConsensusLines) :
          f[s] = IF s = {} THEN NoExit
                 ELSE ReadExit(country, f[s \ {Max(s)}], ConsensusLines[Max(s)])
    BY <1>5 DEF ExitRead
  <2>2. f[{}] = NoExit
    BY <2>1
  <2>3. ASSUME NEW n \in 1..Len(ConsensusLines), f[1..(n - 1)] \in T
        PROVE  f[1..n] = rd[ConsensusLines[n], f[1..(n - 1)]]
    <3>1. Max(1..n) = n /\ (1..n) \ {n} = 1..(n - 1) /\ 1..n # {}
      BY LastOfPrefix
    <3>2. 1..n \in SUBSET (DOMAIN ConsensusLines) /\ ConsensusLines[n] \in Lines
      BY <1>3
    <3>3. f[1..n] = ReadExit(country, f[1..(n - 1)], ConsensusLines[n])
      BY <2>1, <3>1, <3>2
    <3> QED BY <1>2, <2>3, <3>2, <3>3
  <2> QED BY <2>2, <2>3 DEF ReadInOrder
<1>7. PICK h : ByRelay(h, rd, NoExit, T) /\ f[DOMAIN ConsensusLines] = AtLast(h, rd)
  BY <1>1, <1>6, PrefixesFold
<1>8. get_exits_for_country(country) = f[DOMAIN ConsensusLines].exits
  BY ExitsFold DEF f
<1>9. get_exits_for_country(country) = AtLast(h, rd).exits
  BY <1>7, <1>8
<1> QED BY <1>7, <1>9 DEF T, rd

(* An exit that is found is one, of the country asked for, and at least    *)
(* one is found where an exit's lines are "r" and "s"                      *)
(* (exit_selector.cpp:93-143).                                             *)
LEMMA ExitFound ==
  ASSUME RelaysKnown, NEW country
  PROVE  LET exits == get_exits_for_country(country)
         IN  /\ \A n \in DOMAIN exits : exits[n].relay \in ExitsIn(country)
             /\ (\E i \in ExitsIn(country) : ~relays[i].ipv6) => exits # <<>>
<1> DEFINE R == Len(relays)
           T == ExitAcc(country)
           rd == ExitReader(country)
<1>1. PICK h : ByRelay(h, rd, NoExit, T) /\ get_exits_for_country(country) = AtLast(h, rd).exits
  BY ExitsScanned
<1>2. /\ h \in [0..R -> T] /\ h[0] = rd[Line("250+", 0), NoExit]
      /\ \A k \in 1..R : h[k] = PastRelay(rd, h[k - 1], k)
  BY <1>1 DEF ByRelay
<1>3. R \in Nat
  BY DEF RelaysKnown
<1>4. \A line \in Lines, acc \in T :
         rd[line, acc] \in T /\ rd[line, acc].mode = ModeNext(country, acc.mode, line)
  BY ExitReaderTyped
<1>5. NoExit \in T /\ NoExit.mode = "scan"
  BY ExitReaderTyped DEF NoExit
<1>6. ASSUME NEW kind \in {"250+", ".", "250"}, NEW acc \in T, acc.mode \in {"scan", "inner"}
      PROVE  rd[Line(kind, 0), acc] \in T /\ rd[Line(kind, 0), acc].mode = acc.mode
  <2>1. Line(kind, 0) \in Lines /\ Line(kind, 0).kind = kind /\ kind # "r"
    BY LineKinds
  <2>2. ModeNext(country, acc.mode, Line(kind, 0)) = acc.mode
    BY <1>6, <2>1 DEF ModeNext
  <2> HIDE DEF T, rd
  <2> QED BY <1>4, <2>1, <2>2
<1>7. \A x \in T, k \in 1..R : x.mode # "flags" =>
        PastRelay(rd, x, k).mode = IF x.mode = "inner" \/ Readable(country, k)
                                   THEN "inner" ELSE "scan"
  BY ExitPast
<1> HIDE DEF T, rd, R
<1> DEFINE Seen(k) == \E i \in 1..k : Readable(country, i)
           P == {k \in 0..R : h[k].mode = IF Seen(k) THEN "inner" ELSE "scan"}
<1>8. 0 \in P
  <2>1. h[0].mode = "scan"
    BY <1>2, <1>5, <1>6
  <2>2. ~Seen(0) /\ 0 \in 0..R
    BY <1>3
  <2> HIDE DEF Seen
  <2> QED BY <2>1, <2>2
<1>9. ASSUME NEW k \in 1..R, k - 1 \in P PROVE k \in P
  <2>1. Seen(k) <=> Seen(k - 1) \/ Readable(country, k)
    <3>1. \A i : i \in 1..k <=> i \in 1..(k - 1) \/ i = k
      BY <1>3
    <3> QED BY <3>1, Zenon
  <2> HIDE DEF Seen
  <2>2. k \in 0..R /\ k - 1 \in 0..R
    BY <1>3
  <2>3. h[k - 1] \in T /\ h[k - 1].mode = IF Seen(k - 1) THEN "inner" ELSE "scan"
    BY <1>2, <1>9, <2>2
  <2>4. h[k].mode = IF h[k - 1].mode = "inner" \/ Readable(country, k) THEN "inner" ELSE "scan"
    <3>1. h[k - 1].mode # "flags"
      BY <2>3
    <3>2. h[k] = PastRelay(rd, h[k - 1], k)
      BY <1>2
    <3>3. PastRelay(rd, h[k - 1], k).mode =
            IF h[k - 1].mode = "inner" \/ Readable(country, k) THEN "inner" ELSE "scan"
      BY <1>7, <2>3, <3>1
    <3> QED BY <3>2, <3>3
  <2>5. h[k].mode = IF Seen(k) THEN "inner" ELSE "scan"
    BY <2>1, <2>3, <2>4
  <2> QED BY <2>2, <2>5
<1>10. R \in P
  <2> HIDE DEF P
  <2>1. \A k \in 0..R : k \in P
    BY <1>3, <1>8, <1>9, UpTo
  <2> QED BY <1>3, <2>1
<1> DEFINE l == AtLast(h, rd)
<1>11. l \in T /\ l.mode = IF Seen(R) THEN "inner" ELSE "scan"
  <2>1. h[R] \in T
    <3>1. R \in 0..R
      BY <1>3
    <3>2. h \in [0..R -> T]
      BY <1>2, Zenon
    <3> QED BY <3>1, <3>2
  <2>2. h[R].mode = IF Seen(R) THEN "inner" ELSE "scan"
    BY <1>10
  <2> HIDE DEF Seen
  <2> DEFINE d == rd[Line(".", 0), h[R]]
  <2>3. d \in T /\ d.mode = h[R].mode
    BY <1>6, <2>1, <2>2
  <2> HIDE DEF d
  <2>4. rd[Line("250", 0), d] \in T /\ rd[Line("250", 0), d].mode = d.mode
    BY <1>6, <2>2, <2>3
  <2>5. l = rd[Line("250", 0), d]
    BY DEF AtLast, d, R
  <2> HIDE DEF l
  <2> QED BY <2>2, <2>3, <2>4, <2>5
<1>12. Seen(R) <=> \E i \in ExitsIn(country) : ~relays[i].ipv6
  BY DEF ExitsIn, Wanted, Readable, R
<1> HIDE DEF Seen, l
<1>13. CASE Seen(R)
  <2>1. PICK e \in ExitRecords(country) : l = [mode |-> "inner", exits |-> <<e>>]
    BY <1>11, <1>13 DEF T, ExitAcc
  <2>2. l.exits = <<e>> /\ e.relay \in ExitsIn(country)
    BY <2>1 DEF ExitRecords
  <2>3. <<e>> # <<>> /\ \A n \in DOMAIN <<e>> : <<e>>[n] = e
    OBVIOUS
  <2> QED BY <1>1, <1>12, <1>13, <2>2, <2>3 DEF l
<1>14. CASE ~Seen(R)
  <2>1. l.exits = <<>>
    BY <1>11, <1>14 DEF T, ExitAcc
  <2>2. DOMAIN <<>> = {}
    OBVIOUS
  <2> QED BY <1>1, <1>12, <1>14, <2>1, <2>2 DEF l
<1> QED BY <1>13, <1>14

-----------------------------------------------------------------------------
(* The consensus is a sequence of relays.                                  *)
LEMMA RelaysStayKnown == EsSpec => []RelaysKnown
<1>1. EsInit => RelaysKnown
  BY DEF EsInit, RelaysKnown
<1>2. RelaysKnown /\ [Joins]_relays => RelaysKnown'
  BY DEF RelaysKnown, Joins
<1> QED BY <1>1, <1>2, PTL DEF EsSpec

(* What is read off the consensus is true of it, with three scans that     *)
(* differ in which lines they expect to follow one another                 *)
(* (exit_selector.cpp:17-147).                                             *)
THEOREM ExitsAreRightHolds == EsSpec => []ExitsAreRight
<1>1. RelaysKnown => ExitsAreRight
  <2> SUFFICES ASSUME RelaysKnown PROVE ExitsAreRight
    OBVIOUS
  <2>1. MenuIsRight /\ MenuIsKnown
    BY MenuRight, MenuKnown
  <2>2. FoundIsExit
    BY ExitFound DEF FoundIsExit
  <2> QED BY <2>1, <2>2 DEF ExitsAreRight
<1> QED BY <1>1, RelaysStayKnown, PTL
=============================================================================
