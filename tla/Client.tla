------------------------------- MODULE Client -------------------------------
(***************************************************************************)
(* ivpn_client: main.cpp, src/core/ipc_client.cpp and the buttons of       *)
(* src/UI/tui.cpp, talking to a daemon that behaves as Tunnel.             *)
(*                                                                         *)
(* The client keeps its own idea of the daemon: connected (main.cpp:60),   *)
(* which its handlers test, and is_connected_ (tui.h), which chooses what  *)
(* the button does and says.  Handlers run in the UI's thread or in        *)
(* detached ones; every command opens the pipe anew, and is lost when no   *)
(* instance of the pipe is listening at that moment.                       *)
(***************************************************************************)
EXTENDS Tunnel, Naturals

CONSTANTS
  MaxThreads,   (* bounds the detached threads alive at once               *)
  MaxTries,     (* attempts at verify_connection, 20 in the code           *)
  ClientFaults  (* what goes wrong, or the user does, besides one patient  *)
                (* user at one client                                      *)

ASSUME MaxThreadsAssumption == MaxThreads \in Nat
ASSUME MaxTriesAssumption == MaxTries \in Nat \ {0}
ASSUME ClientFaultsAssumption ==
  ClientFaults \subseteq {"impatient", "otherClient", "daemonDies"}

VARIABLES
  alive,         (* the client process                                     *)
  connected,     (* main()'s flag                                          *)
  is_connected_, (* the UI's                                               *)
  job,           (* what the UI thread and the detached ones are doing     *)
  pipe,          (* the daemon's pipe instance and whom it serves          *)
  calm           (* history: one patient user, one client and one daemon   *)

clientVars == <<alive, connected, is_connected_, job>>
allVars == <<tunnelVars, clientVars, pipe, calm>>

Detached == 1..MaxThreads
Threads == {0} \cup Detached       (* 0 is the UI's                        *)
NoOne == MaxThreads + 1            (* nobody holds the pipe                *)
Other == MaxThreads + 2            (* a client in another process does     *)

(* A thread is in a handler (does), opens the pipe for a command (cmd),    *)
(* waits for the answer or verifies the connection.                        *)
Idle == [does |-> "nothing", cmd |-> "none", at |-> "idle", tries |-> 0]
Calling(does, cmd, tries) == [does |-> does, cmd |-> cmd, at |-> "open", tries |-> tries]
Verifying(does, tries) == [does |-> does, cmd |-> "none", at |-> "verify", tries |-> tries]

Jobs == [does : {"nothing", "start", "connect", "disconnect", "changeCity", "quit"},
         cmd : {"none", "connect", "disconnect", "change_city", "get_cities"},
         at : {"idle", "open", "called", "verify"},
         tries : 0..(MaxTries - 1)]

NoPipe == [at |-> "absent", cmd |-> "none", by |-> NoOne]

ClientTypeOK ==
  /\ mode \in {"open", "sealed", "tunnelled"} /\ goal \in {"open", "tunnelled"}
  /\ {alive, connected, is_connected_} \subseteq BOOLEAN
  /\ job \in [Threads -> Jobs]
  /\ pipe \in [at : {"absent", "listening", "asked", "taken"},
               cmd : {"none", "connect", "disconnect", "change_city", "get_cities"},
               by : Threads \cup {NoOne, Other}]
  /\ calm \in BOOLEAN

ClientInit ==
  /\ TunnelInit
  /\ alive = FALSE /\ connected = FALSE /\ is_connected_ = FALSE
  /\ job = [t \in Threads |-> Idle]
  /\ pipe = NoPipe
  /\ calm = TRUE

Becomes(t, j) == job' = [job EXCEPT ![t] = j]
Quiet == \A t \in Detached : job[t] = Idle

-----------------------------------------------------------------------------
(* The daemon: one pipe instance after the other, one command on each      *)
(* (ipc_server.cpp:39-87).                                                 *)

Listen ==
  /\ pipe.at = "absent"
  /\ pipe' = [NoPipe EXCEPT !.at = "listening"]
  /\ UNCHANGED <<tunnelVars, clientVars>>

(* on_connect and on_disconnect turn the tunnel's goal, if it is another.  *)
TakeUp ==
  /\ pipe.at = "asked"
  /\ pipe' = [pipe EXCEPT !.at = "taken"]
  /\ CASE pipe.cmd = "connect" /\ goal = "open" -> Command
       [] pipe.cmd = "disconnect" /\ goal = "tunnelled" -> Command
       [] OTHER -> UNCHANGED tunnelVars
  /\ UNCHANGED clientVars

MoveTunnel == Advance /\ UNCHANGED <<clientVars, pipe>>

Answered == pipe.at = "taken" /\ mode = goal /\ pipe' = NoPipe

-----------------------------------------------------------------------------
(* What a thread does when its call returns.                               *)

(* Mutant: attempts that are not counted.                                  *)
NextTryForever(j) == Verifying(j.does, j.tries)

(* Mutant: one attempt too many.                                           *)
NextTryOffByOne(j) == IF j.tries < MaxTries THEN Verifying(j.does, j.tries + 1) ELSE Idle

(* After a failed attempt the connect thread asks for the cities until it  *)
(* is given some, then it tries again.                                     *)
NextTry(j) == IF j.tries + 1 < MaxTries THEN Verifying(j.does, j.tries + 1) ELSE Idle

(* Mutant: main.cpp:67 without its if.                                     *)
ConnectReturnsUnchecked(t, result) ==
  /\ Becomes(t, Verifying("connect", 0))
  /\ UNCHANGED <<alive, connected, is_connected_>>

ConnectReturns(t, result) ==
  /\ Becomes(t, IF result = "refused" THEN Idle ELSE Verifying("connect", 0))
  /\ UNCHANGED <<alive, connected, is_connected_>>

CitiesReturn(t, result) ==
  /\ Becomes(t, IF job[t].does = "start" THEN Idle
                ELSE IF result = "ok" THEN NextTry(job[t])
                ELSE Calling("connect", "get_cities", job[t].tries))
  /\ UNCHANGED <<alive, connected, is_connected_>>

(* The result of the call is ignored.                                      *)
DisconnectReturns(t) ==
  /\ Becomes(t, Idle)
  /\ connected' = FALSE /\ is_connected_' = FALSE
  /\ UNCHANGED alive

ChangeCityReturns(t) ==
  /\ Becomes(t, IF connected THEN Verifying("changeCity", 0) ELSE Idle)
  /\ is_connected_' = (is_connected_ /\ ~connected)
  /\ UNCHANGED <<alive, connected>>

(* The process ends and takes its threads along, in whatever call they are.*)
Exit ==
  /\ alive' = FALSE /\ connected' = FALSE /\ is_connected_' = FALSE
  /\ job' = [t \in Threads |-> Idle]

Returns(t, result) ==
  \/ job[t].does = "quit" /\ Exit
  \/ /\ job[t].does # "quit"
     /\ \/ job[t].cmd = "connect" /\ ConnectReturns(t, result)
        \/ job[t].cmd = "get_cities" /\ CitiesReturn(t, result)
        \/ job[t].cmd = "disconnect" /\ DisconnectReturns(t)
        \/ job[t].cmd = "change_city" /\ ChangeCityReturns(t)

-----------------------------------------------------------------------------
(* ipcClient::send_command and get_cities.                                 *)

(* CreateFile finds an instance that listens, or the command is lost.      *)
Open(t) ==
  /\ job[t].at = "open"
  /\ IF pipe.at = "listening"
       THEN /\ pipe' = [at |-> "asked", cmd |-> job[t].cmd, by |-> t]
            /\ Becomes(t, [job[t] EXCEPT !.at = "called"])
            /\ UNCHANGED <<alive, connected, is_connected_>>
       ELSE Returns(t, "refused") /\ UNCHANGED pipe
  /\ UNCHANGED tunnelVars

(* A daemon without a consensus answers with no cities.                    *)
Answer(t) ==
  /\ Answered
  /\ pipe.by = t /\ job[t].at = "called"
  /\ \E result \in {"ok"} \cup (IF pipe.cmd = "get_cities" THEN {"empty"} ELSE {}) :
       Returns(t, result)
  /\ UNCHANGED tunnelVars

(* The caller is another client, or is gone.                               *)
AnswerNobody ==
  /\ Answered
  /\ pipe.by \in Threads => job[pipe.by].at # "called"
  /\ UNCHANGED <<tunnelVars, clientVars>>

(* verify_connection: a connection to 1.1.1.1 may fail at any time, and    *)
(* succeed unless the machine is sealed.                                   *)
Verify(t) ==
  /\ job[t].at = "verify"
  /\ \/ /\ mode # "sealed"
        /\ Becomes(t, Idle)
        /\ connected' = (connected \/ job[t].does = "connect")
        /\ is_connected_' = TRUE
     \/ /\ Becomes(t, IF job[t].does = "connect"
                        THEN Calling("connect", "get_cities", job[t].tries)
                        ELSE NextTry(job[t]))
        /\ UNCHANGED <<connected, is_connected_>>
  /\ UNCHANGED <<alive, tunnelVars, pipe>>

-----------------------------------------------------------------------------
(* The user, in the UI's thread.  A patient one does not disconnect while  *)
(* another thread is at work.                                              *)

UserActs == alive /\ job[0] = Idle
MayDisconnect == connected /\ ("impatient" \in ClientFaults \/ Quiet)

Detach(j) == \E t \in Detached : job[t] = Idle /\ Becomes(t, j)

(* The button of tui.cpp:26-32 and the handlers it calls; a handler that   *)
(* finds connected otherwise does nothing.                                 *)
Toggle ==
  /\ UserActs
  /\ IF is_connected_
       THEN MayDisconnect /\ Becomes(0, Calling("disconnect", "disconnect", 0))
       ELSE ~connected /\ Detach(Calling("connect", "connect", 0))
  /\ calm' = (calm /\ (is_connected_ => Quiet))
  /\ UNCHANGED <<alive, connected, is_connected_, tunnelVars, pipe>>

(* There is always a region to choose: set_cities() adds "Auto (Random)".  *)
ChangeCity ==
  /\ UserActs
  /\ Detach(Calling("changeCity", "change_city", 0))
  /\ UNCHANGED <<alive, connected, is_connected_, tunnelVars, pipe>>

Quit ==
  /\ UserActs
  /\ IF connected
       THEN /\ Becomes(0, Calling("quit", "disconnect", 0))
            /\ UNCHANGED <<alive, connected, is_connected_>>
       ELSE Exit
  /\ UNCHANGED <<tunnelVars, pipe>>

(* A new process asks for the cities, not for the state of the tunnel.     *)
Start ==
  /\ ~alive
  /\ alive' = TRUE
  /\ Becomes(0, Calling("start", "get_cities", 0))
  /\ UNCHANGED <<connected, is_connected_, tunnelVars, pipe>>

User == Toggle \/ ((ChangeCity \/ Quit \/ Start) /\ UNCHANGED calm)

-----------------------------------------------------------------------------
(* Faults.                                                                 *)

OtherClient ==
  /\ "otherClient" \in ClientFaults
  /\ pipe.at = "listening"
  /\ \E cmd \in {"connect", "disconnect"} :
       pipe' = [at |-> "asked", cmd |-> cmd, by |-> Other]
  /\ calm' = FALSE
  /\ UNCHANGED <<tunnelVars, clientVars>>

(* A daemon that dies and is started again: the command is not written, or *)
(* is written and, its reply unread, taken for carried out                 *)
(* (ipc_client.cpp:34-43).                                                 *)
DaemonDies ==
  /\ "daemonDies" \in ClientFaults
  /\ mode' = "open" /\ goal' = "open"
  /\ pipe' = NoPipe
  /\ calm' = FALSE
  /\ IF pipe.by \in Threads /\ job[pipe.by].at = "called"
       THEN \E result \in {"refused", IF pipe.cmd = "get_cities" THEN "empty" ELSE "ok"} :
              Returns(pipe.by, result)
       ELSE UNCHANGED clientVars

ThreadStep(t) == (Open(t) \/ Answer(t) \/ Verify(t)) /\ UNCHANGED calm
DaemonStep == (Listen \/ TakeUp \/ MoveTunnel \/ AnswerNobody) /\ UNCHANGED calm

ClientNext == \/ DaemonStep \/ User \/ OtherClient \/ DaemonDies
              \/ \E t \in Threads : ThreadStep(t)

ClientSpec == ClientInit /\ [][ClientNext]_allVars

(* Threads run, in the client and in the daemon, but Tor need not answer:  *)
(* the daemon waits for it without a timeout (service.cpp:279,297-301,     *)
(* control_port.cpp:68-70), and its client with it.                        *)
AskTor == {"change_city", "get_cities"}

Prompt(A) == pipe.cmd \notin AskTor /\ A

SureThreadStep(t) == (Open(t) \/ Prompt(Answer(t)) \/ Verify(t)) /\ UNCHANGED calm
SureDaemonStep == (Listen \/ TakeUp \/ MoveTunnel \/ Prompt(AnswerNobody)) /\ UNCHANGED calm

ClientFairSpec == /\ ClientSpec
                  /\ WF_allVars(SureDaemonStep)
                  /\ \A t \in Threads : WF_allVars(SureThreadStep(t))

-----------------------------------------------------------------------------
(* "STATUS: SECURE & ENCRYPTED" (tui.cpp:43) and the flag behind the       *)
(* buttons are true, although commands get lost, verification proves       *)
(* nothing in an open machine, and a change of city switches the label off *)
(* and on, whichever threads overlap, as long as nobody disconnects while  *)
(* one is at work.  A disconnect under way is excepted: the label changes  *)
(* last (main.cpp:64-119).                                                 *)
SecureMeansTunnelled ==
  calm /\ (is_connected_ \/ connected)
    => mode = "tunnelled" \/ job[0].cmd = "disconnect"

(* Whatever the threads do, and although Tor may keep the one instance of  *)
(* the pipe waiting for ever, a user who has pressed Disconnect or Quit is *)
(* not left waiting, and no thread stays behind but one whose own command  *)
(* is Tor's to answer: a change of city, or the question for the cities,   *)
(* which a connect repeats until it is given some                          *)
(* (main.cpp:68-88,109-116, ipc_client.cpp:22-43,46-76).                   *)
CallsEnd ==
  \A t \in Threads :
    job[t] # Idle ~> (job[t] = Idle \/ []<>(job[t].cmd \in AskTor))

-----------------------------------------------------------------------------
(* What the UI and the README say.                                         *)

(* The status line again, whatever the user does.                          *)
StatusIsTrue == is_connected_ => mode = "tunnelled" \/ job[0].cmd = "disconnect"
=============================================================================
