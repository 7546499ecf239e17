------------------------------- MODULE Worker -------------------------------
(***************************************************************************)
(* What ServiceWorkerThread promises to those who start it, ServiceMain    *)
(* and main() (src/core/service.cpp): it starts up or fails, serves until  *)
(* gServiceStopEvent is set and only then tears down, and ends once.       *)
(* Daemon implements it; ServiceControl is built on it.                    *)
(***************************************************************************)
VARIABLES phase,       (* where the worker is                              *)
          stopEvent    (* gServiceStopEvent, a manual-reset event          *)

workerVars == <<phase, stopEvent>>

Phases == {"starting", "serving", "stopping", "ended"}

WorkerInit == phase = "starting" /\ stopEvent = FALSE

(* Every early return of the start-up is a failure.                        *)
StartUp == /\ phase = "starting"
           /\ phase' \in {"serving", "ended"}
           /\ UNCHANGED stopEvent

(* Mutant: CreateEvent without manual reset; the first wait that is        *)
(* satisfied resets the event, and ServiceMain waits for it too.           *)
SeeStopAutoReset == /\ phase = "serving"
                    /\ stopEvent
                    /\ phase' = "stopping"
                    /\ stopEvent' = FALSE

SeeStop == /\ phase = "serving"
           /\ stopEvent
           /\ phase' = "stopping"
           /\ UNCHANGED stopEvent

End == /\ phase = "stopping"
       /\ phase' = "ended"
       /\ UNCHANGED stopEvent

SetStop == stopEvent' = TRUE /\ UNCHANGED phase

WorkerNext == StartUp \/ SeeStop \/ End \/ SetStop

WorkerSpec == WorkerInit /\ [][WorkerNext]_workerVars
=============================================================================
