--------------------------- MODULE ServiceControl ---------------------------
(***************************************************************************)
(* How ivpn_daemon is installed, started, stopped and uninstalled,         *)
(* src/core/service.cpp: main(), ServiceMain, the two control handlers and *)
(* the calls "--uninstall" makes, against Windows' service manager.        *)
(*                                                                         *)
(* ServiceMain runs in a thread of its own, the stop handler in the        *)
(* dispatcher's; they share gServiceStatus and gServiceStopEvent.  A       *)
(* console run uses the same event and worker without a status.            *)
(***************************************************************************)
EXTENDS Worker, Naturals

CONSTANT MaxRuns   (* bounds how often the program is started              *)

ASSUME MaxRunsAssumption == MaxRuns \in Nat

VARIABLES
  main,        (* what ServiceMain, or main() in a console run, does next  *)
  event,       (* the handle in gServiceStopEvent: none, open or closed    *)
  status,      (* gServiceStatus.dwCurrentState                            *)
  handler,     (* ServiceCtrlHandler, or "idle"                            *)
  reported,    (* the state the service manager was last told              *)
  entry,       (* the service in the manager's database                    *)
  uninstaller, (* a process run with "--uninstall"                         *)
  runs

scmVars == <<reported, entry>>
scVars == <<workerVars, main, event, status, handler, scmVars, uninstaller, runs>>

ServiceSteps == {"register", "announce", "createEvent", "createThread",
                 "waitEvent", "waitWorker", "closeEvent", "reportStopped"}
ConsoleSteps == {"consoleEvent", "consoleWorker", "consoleClose"}
EventHeld == {"createThread", "waitEvent", "waitWorker", "closeEvent",
              "consoleWorker", "consoleClose"}

ScTypeOK ==
  /\ phase \in Phases /\ stopEvent \in BOOLEAN
  /\ main \in {"off", "gone"} \cup ServiceSteps \cup ConsoleSteps
  /\ event \in {"none", "open", "closed"}
  /\ {status, reported} \subseteq {"stopped", "startPending", "running", "stopPending"}
  /\ handler \in {"idle", "called", "setEvent"}
  /\ entry \in {"absent", "present", "marked"}
  /\ uninstaller \in {"idle", "stopping", "deleting", "deleted"}
  /\ runs \in 0..MaxRuns
  /\ event = "open" <=> main \in EventHeld

ScInit ==
  /\ WorkerInit
  /\ main = "off" /\ event = "none" /\ status = "stopped"
  /\ handler = "idle" /\ reported = "stopped" /\ entry = "absent"
  /\ uninstaller = "idle" /\ runs = 0

Step(from, to) == main = from /\ main' = to

-----------------------------------------------------------------------------
(* External: the service manager starts and forgets the program.           *)

(* A process with fresh globals, run as a service or in a console.         *)
Launch ==
  /\ main = "off" /\ runs < MaxRuns /\ runs' = runs + 1
  /\ \/ /\ entry = "present"
        /\ main' = "register"
        /\ reported' = "startPending"
     \/ main' = "consoleEvent" /\ UNCHANGED reported
  /\ phase' = "starting" /\ stopEvent' = FALSE
  /\ event' = "none" /\ status' = "stopped"
  /\ UNCHANGED <<handler, entry, uninstaller>>

(* A process that ended is a stopped service, whatever it reported.        *)
ProcessEnds ==
  /\ Step("gone", "off")
  /\ handler = "idle"
  /\ reported' = "stopped"
  /\ UNCHANGED <<workerVars, event, status, handler, entry, uninstaller, runs>>

(* A service marked for deletion goes once it is stopped and its handles   *)
(* are closed.                                                             *)
Forget ==
  /\ entry = "marked" /\ reported = "stopped" /\ uninstaller = "deleted"
  /\ entry' = "absent" /\ uninstaller' = "idle"
  /\ UNCHANGED <<workerVars, main, event, status, handler, reported, runs>>

(* A stop reaches a service that has said it accepts one; the manager      *)
(* sends one control at a time.                                            *)
SendStop ==
  /\ reported = "running" /\ handler = "idle"
  /\ handler' = "called"

StopService ==
  /\ SendStop
  /\ UNCHANGED <<workerVars, main, event, status, scmVars, uninstaller, runs>>

-----------------------------------------------------------------------------
(* ServiceMain.                                                            *)

(* Without a handler it returns and never reports anything.                *)
Register ==
  /\ Step("register", "announce") \/ Step("register", "gone")
  /\ UNCHANGED <<workerVars, event, status, handler, scmVars, uninstaller, runs>>

Report(state) == status' = state /\ reported' = state

Announce ==
  /\ Step("announce", "createEvent")
  /\ Report("running")
  /\ UNCHANGED <<workerVars, event, handler, entry, uninstaller, runs>>

CreateStopEvent ==
  /\ Step("createEvent", "createThread") \/ Step("consoleEvent", "consoleWorker")
  /\ event' = "open"
  /\ UNCHANGED <<workerVars, status, handler, scmVars, uninstaller, runs>>

(* Mutant: ServiceMain does not wait for the worker's thread.              *)
WaitForEventOnly ==
  /\ \/ Step("createThread", "waitEvent")
     \/ Step("waitEvent", "closeEvent") /\ stopEvent
     \/ Step("consoleWorker", "consoleClose") /\ phase = "ended"
  /\ UNCHANGED <<workerVars, event, status, handler, scmVars, uninstaller, runs>>

(* The two waits of ServiceMain, and that of main() for the call of        *)
(* ServiceWorkerThread.  What the worker returned is not looked at.        *)
Wait ==
  /\ \/ Step("createThread", "waitEvent")
     \/ Step("waitEvent", "waitWorker") /\ stopEvent
     \/ Step("waitWorker", "closeEvent") /\ phase = "ended"
     \/ Step("consoleWorker", "consoleClose") /\ phase = "ended"
  /\ UNCHANGED <<workerVars, event, status, handler, scmVars, uninstaller, runs>>

CloseEvent ==
  /\ Step("closeEvent", "reportStopped") \/ Step("consoleClose", "gone")
  /\ event' = "closed"
  /\ UNCHANGED <<workerVars, status, handler, scmVars, uninstaller, runs>>

ReportStopped ==
  /\ Step("reportStopped", "gone")
  /\ Report("stopped")
  /\ UNCHANGED <<workerVars, event, handler, entry, uninstaller, runs>>

MainStep == Register \/ Announce \/ CreateStopEvent \/ Wait \/ CloseEvent \/ ReportStopped

-----------------------------------------------------------------------------
(* The control handlers.                                                   *)

(* SetEvent on a handle that does not exist, or no longer does, fails.     *)
SignalStop == IF event = "open" THEN SetStop ELSE UNCHANGED workerVars

(* Mutant: the event is set first, the status reported last.               *)
CtrlHandlerReportsLast ==
  /\ \/ handler = "called" /\ handler' = "setEvent" /\ SignalStop
        /\ UNCHANGED <<status, reported>>
     \/ handler = "setEvent" /\ handler' = "idle" /\ Report("stopPending")
        /\ UNCHANGED workerVars
  /\ UNCHANGED <<main, event, entry, uninstaller, runs>>

(* ServiceCtrlHandler: a service that is not running ignores the stop.     *)
(* The test, the store and its report are one step, SetEvent is the other. *)
CtrlHandler ==
  /\ \/ /\ handler = "called"
        /\ IF status = "running"
             THEN handler' = "setEvent" /\ Report("stopPending")
             ELSE handler' = "idle" /\ UNCHANGED <<status, reported>>
        /\ UNCHANGED workerVars
     \/ /\ handler = "setEvent" /\ handler' = "idle"
        /\ SignalStop
        /\ UNCHANGED <<status, reported>>
  /\ UNCHANGED <<main, event, entry, uninstaller, runs>>

(* ConsoleCtrlHandler, registered once the event exists.  It still runs    *)
(* when main() has closed the event.                                       *)
ConsoleCtrl ==
  /\ main \in {"consoleWorker", "consoleClose"}
  /\ SignalStop
  /\ UNCHANGED <<main, event, status, handler, scmVars, uninstaller, runs>>

-----------------------------------------------------------------------------
(* The installer's commands.  One that is refused changes nothing.         *)

Install ==
  /\ entry = "absent"
  /\ entry' = "present"
  /\ UNCHANGED <<workerVars, main, event, status, handler, reported, uninstaller, runs>>

(* ControlService returns when the handler has; its result is ignored.     *)
UninstallStops ==
  /\ uninstaller = "idle" /\ entry = "present"
  /\ \/ SendStop /\ uninstaller' = "stopping"
     \/ /\ reported # "running"
        /\ uninstaller' = "deleting"
        /\ UNCHANGED handler
  /\ UNCHANGED <<workerVars, main, event, status, scmVars, runs>>

UninstallReturns ==
  /\ uninstaller = "stopping" /\ handler = "idle"
  /\ uninstaller' = "deleting"
  /\ UNCHANGED <<workerVars, main, event, status, handler, scmVars, runs>>

UninstallDeletes ==
  /\ uninstaller = "deleting"
  /\ \/ entry' = "marked" /\ uninstaller' = "deleted"
     \/ uninstaller' = "idle" /\ UNCHANGED entry
  /\ UNCHANGED <<workerVars, main, event, status, handler, reported, runs>>

Uninstall == UninstallStops \/ UninstallReturns \/ UninstallDeletes

-----------------------------------------------------------------------------
(* The worker, as Worker promises it, once its thread exists.              *)
WorkerRuns == main \in {"waitEvent", "waitWorker", "consoleWorker"}

WorkerStep(A) ==
  /\ WorkerRuns /\ A
  /\ UNCHANGED <<main, event, status, handler, scmVars, uninstaller, runs>>

ScNext == \/ Launch \/ ProcessEnds \/ Forget \/ StopService
          \/ MainStep \/ CtrlHandler \/ ConsoleCtrl \/ Install \/ Uninstall
          \/ WorkerStep(StartUp) \/ WorkerStep(SeeStop) \/ WorkerStep(End)

(* Threads run and processes end.  The worker's start-up and teardown may  *)
(* last for ever (Daemon, TorControl).                                     *)
ScFairness == /\ WF_scVars(MainStep)
              /\ WF_scVars(CtrlHandler)
              /\ WF_scVars(ProcessEnds)
              /\ WF_scVars(WorkerStep(SeeStop))

ScSpec == ScInit /\ [][ScNext]_scVars
ScFairSpec == ScSpec /\ ScFairness

-----------------------------------------------------------------------------
(* A service reported stopped has no worker left: whoever removes or       *)
(* restarts it meets no half-torn tunnel (service.cpp:174-180).            *)
StoppedMeansEnded ==
  reported = "stopped" /\ main \notin {"off"} \cup ConsoleSteps
    => phase = "ended" \/ event = "none"

(* The manager sees every run pass through its states in order, although   *)
(* two threads report: a handler's STOP_PENDING neither comes after        *)
(* STOPPED nor is undone by RUNNING (service.cpp:168-170,178-180,188-193). *)
Reported(old, new) == reported = old /\ reported' = new
StatusOrder ==
  [][\/ Reported("stopped", "startPending") \/ Reported("startPending", "running")
     \/ Reported("running", "stopPending") \/ Reported("stopPending", "stopped")
     \/ Reported("startPending", "stopped")]_reported

(* A stop that finds the event reaches both threads that wait for it: the  *)
(* process ends, in a service and in a console, whatever the worker was    *)
(* doing and also when it had failed long ago, unless the worker hangs     *)
(* (service.cpp:172-177,143-148).                                          *)
StopHonoured ==
  (handler = "setEvent" /\ event = "open") \/ stopEvent
    ~> (main = "off" \/ [](phase \in {"starting", "stopping"}))
=============================================================================
