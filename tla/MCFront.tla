------------------------------ MODULE MCFront ------------------------------
(* How the daemon is run and used: the service on what Worker promises,    *)
(* the client on what Tunnel promises, and the menu of countries it shows, *)
(* a function of the consensus.  They share no state, so a behaviour is    *)
(* one part's, chosen at the start, while the others rest.                 *)
(* Three countries of relays, one of which has no code in the database.    *)
EXTENDS ServiceControl, Client, ExitSelector

VARIABLE part

frontVars == <<scVars, allVars, relays, part>>

MCImpatient == {"impatient"}
MCAllClientFaults == {"impatient", "otherClient", "daemonDies"}

MCNamed == {"us", "de", "an"}
MCCodeOf == [c \in MCNamed |-> IF c = "an" THEN "" ELSE c]

Init == part \in {"service", "client", "menu"} /\ ScInit /\ ClientInit /\ EsInit

Service(A) == part = "service" /\ A /\ UNCHANGED <<allVars, relays, part>>
AtClient(A) == part = "client" /\ A /\ UNCHANGED <<scVars, relays, part>>
Menu(A) == part = "menu" /\ A /\ UNCHANGED <<scVars, allVars, part>>

Next == Service(ScNext) \/ AtClient(ClientNext) \/ Menu(Joins)

(* The fairness of ScFairSpec and ClientFairSpec.                          *)
Spec == /\ Init /\ [][Next]_frontVars
        /\ WF_frontVars(Service(MainStep)) /\ WF_frontVars(Service(CtrlHandler))
        /\ WF_frontVars(Service(ProcessEnds))
        /\ WF_frontVars(Service(WorkerStep(SeeStop)))
        /\ WF_frontVars(AtClient(SureDaemonStep))
        /\ \A t \in Threads : WF_frontVars(AtClient(SureThreadStep(t)))

(* The service's and the client's variables keep their types.              *)
FrontTypeOK == ScTypeOK /\ ClientTypeOK
=============================================================================
