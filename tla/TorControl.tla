----------------------------- MODULE TorControl -----------------------------
(***************************************************************************)
(* The daemon on Tor's control port: controlPort, bootstrapWaiter, and     *)
(* what ServiceWorkerThread and the handlers of get_cities and change_city *)
(* ask (src/tor/control_port.cpp, src/core/bootstrap_waiter.cpp,           *)
(* src/core/service.cpp).                                                  *)
(*                                                                         *)
(* One thread at a time uses the connection: the worker while it starts,   *)
(* the ipc thread afterwards.  A reply arrives in pieces; send() puts them *)
(* together until what it has looks complete, and waits without a timeout. *)
(***************************************************************************)
EXTENDS Sequences, FiniteSets, Naturals

CONSTANTS
  Countries,    (* where exits may be                                      *)
  NoCountry,
  TorFaults     (* what Tor may do besides answering                       *)

ASSUME CountriesAssumption == NoCountry \notin Countries
ASSUME TorFaultsAssumption == TorFaults \subseteq {"dies", "odd"}

VARIABLES
  torAt,      (* tor.exe: "starting", "listening" or "gone"                *)
  cookie,     (* its cookie in the data directory: "none", "stale", "fresh"*)
  booted,     (* PROGRESS=100                                              *)
  consensus,  (* the countries that have an exit                           *)
  exitNodes,  (* the country ExitNodes is set to                           *)
  sock,       (* sock_: "none", "unconnected", "open", "authed", "closed"  *)
  at,         (* the daemon's place                                        *)
  late,       (* the bootstrap wait's 120 seconds are over                 *)
  request,    (* the command Tor has not answered, with its argument       *)
  asking,     (* the command send() is in                                  *)
  wire,       (* pieces of replies not yet received                        *)
  response,   (* what send() has put together                              *)
  waited,     (* the result of bootstrapWaiter::wait                       *)
  codes,      (* the keys of country_codes, captured by change_city        *)
  chosen      (* the country last reported as set                          *)

torVars == <<torAt, cookie, booted, consensus, exitNodes>>
chanVars == <<sock, request, asking, wire, response>>
userVars == <<waited, codes, chosen>>
tcVars == <<torVars, chanVars, at, late, userVars>>

Nothing == [cmd |-> "none", arg |-> NoCountry]
Cmd(c) == [cmd |-> c, arg |-> NoCountry]
Commands == {"AUTHENTICATE", "bootstrap", "ns", "ExitNodes", "StrictNodes", "NEWNYM"}
Requests == [cmd : Commands \cup {"none"}, arg : Countries \cup {NoCountry, "none", "stale", "fresh"}]

(* Start-up in order, then the handlers.                                   *)
Places == {"connect", "authenticate", "bootstrap", "exits", "codes", "serving",
           "cities", "change", "strict", "newnym"}
Pieces == {wire[i] : i \in DOMAIN wire} \cup {response[i] : i \in DOMAIN response}

TcTypeOK ==
  /\ torAt \in {"starting", "listening", "gone"} /\ cookie \in {"none", "stale", "fresh"}
  /\ {booted, late, waited} \subseteq BOOLEAN
  /\ {consensus, codes} \subseteq SUBSET Countries
  /\ {exitNodes, chosen} \subseteq Countries \cup {NoCountry}
  /\ sock \in {"none", "unconnected", "open", "authed", "closed"} /\ at \in Places
  /\ {request, asking} \subseteq Requests
  /\ {Len(wire), Len(response)} \subseteq 0..2
  /\ \A p \in Pieces : p.to \in Commands /\ p.end \in {"more", "ok", "error", "odd"}

TcInit ==
  /\ torAt = "starting" /\ cookie \in {"none", "stale"}
  /\ booted = FALSE /\ consensus = {} /\ exitNodes = NoCountry
  /\ sock = "none" /\ at = "connect" /\ late = FALSE
  /\ request = Nothing /\ asking = Nothing
  /\ wire = <<>> /\ response = <<>>
  /\ waited = FALSE /\ codes = {} /\ chosen = NoCountry

-----------------------------------------------------------------------------
(* External: Tor.                                                          *)

Listens == torAt = "starting" /\ torAt' = "listening"
           /\ UNCHANGED <<cookie, booted, consensus, exitNodes, sock, wire, request>>
WritesCookie == torAt # "gone" /\ cookie # "fresh" /\ cookie' = "fresh"
                /\ UNCHANGED <<torAt, booted, consensus, exitNodes, sock, wire, request>>
Learns == /\ torAt = "listening" /\ consensus' \in SUBSET Countries \ {{}, consensus}
          /\ UNCHANGED <<torAt, cookie, booted, exitNodes, sock, wire, request>>
Boots == torAt = "listening" /\ consensus # {} /\ ~booted /\ booted' = TRUE
         /\ UNCHANGED <<torAt, cookie, consensus, exitNodes, sock, wire, request>>

(* A bad cookie, and a command before authentication, are answered with an *)
(* error, and the connection is closed.  What a piece ends with is all     *)
(* that send() looks at.                                                   *)
Piece(end, value) == [to |-> request.cmd, end |-> end, value |-> value]

Reply ==
  IF sock = "open" THEN
    IF request.cmd = "AUTHENTICATE" /\ request.arg = "fresh"
      THEN <<Piece("ok", {})>> ELSE <<Piece("error", {})>>
  ELSE CASE request.cmd = "bootstrap" ->
              <<Piece("more", IF booted THEN {"100"} ELSE {}), Piece("ok", {})>>
         [] request.cmd = "ns" -> <<Piece("more", consensus), Piece("ok", {})>>
         [] OTHER -> <<Piece("ok", {})>>

Replies ==
  /\ torAt = "listening" /\ request # Nothing /\ cookie = "fresh"
  /\ wire' = wire \o Reply
  /\ sock' = IF sock = "open" THEN (IF Reply[1].end = "ok" THEN "authed" ELSE "closed")
             ELSE sock
  /\ exitNodes' = IF sock = "authed" /\ request.cmd = "ExitNodes" THEN request.arg
                  ELSE exitNodes
  /\ request' = Nothing
  /\ UNCHANGED <<torAt, cookie, booted, consensus>>

(* Tor refuses a setting or, a fault, answers with a status that send()    *)
(* does not take for an end.                                               *)
Refuses ==
  /\ torAt = "listening" /\ sock = "authed"
  /\ request.cmd \in {"ExitNodes", "StrictNodes", "NEWNYM"}
  /\ \E end \in {"error"} \cup (IF "odd" \in TorFaults THEN {"odd"} ELSE {}) :
       wire' = wire \o <<Piece(end, {})>>
  /\ request' = Nothing
  /\ UNCHANGED <<sock, torVars>>

(* A fault; the reset may overtake what was already sent.                  *)
Dies ==
  /\ "dies" \in TorFaults /\ torAt # "gone" /\ torAt' = "gone"
  /\ sock' = IF sock \in {"open", "authed"} THEN "closed" ELSE sock
  /\ request' = Nothing
  /\ wire' \in {wire, <<>>}
  /\ UNCHANGED <<cookie, booted, consensus, exitNodes>>

TorStep(A) == A /\ UNCHANGED <<asking, response, at, late, userVars>>

-----------------------------------------------------------------------------
(* controlPort.                                                            *)

(* Tried once, right after the launch; the result is not looked at.        *)
Connect ==
  /\ at = "connect" /\ at' = "authenticate"
  /\ sock' \in {"none", IF torAt = "listening" THEN "open" ELSE "unconnected"}
  /\ UNCHANGED <<torVars, request, asking, wire, response, late, userVars>>

(* The request each place makes; authenticate() reads the cookie's file.   *)
Asks == [authenticate |-> [cmd |-> "AUTHENTICATE", arg |-> cookie],
         bootstrap |-> Cmd("bootstrap"), exits |-> Cmd("ns"), codes |-> Cmd("ns"),
         cities |-> Cmd("ns"), strict |-> Cmd("StrictNodes"), newnym |-> Cmd("NEWNYM")]

(* send(): what is written to a connection that is gone is lost.           *)
Send(r) ==
  /\ asking = Nothing
  /\ asking' = r
  /\ response' = <<>>
  /\ request' = IF sock \in {"open", "authed"} THEN r ELSE request
  /\ UNCHANGED <<sock, wire>>

(* Mutant: while (true).                                                   *)
AskForever ==
  /\ at \in DOMAIN Asks
  /\ Send(Asks[at])
  /\ UNCHANGED <<torVars, at, late, userVars>>

Ask ==
  /\ at \in DOMAIN Asks
  /\ at = "bootstrap" => ~late
  /\ Send(Asks[at])
  /\ UNCHANGED <<torVars, at, late, userVars>>

(* Mutant: a reply is complete at its first line end.                      *)
CompleteAtLineEnd(r) == r # <<>>

(* A reply is complete when it ends with "250 OK", or when it begins with  *)
(* an error and its line ends.                                             *)
Complete(r) == r # <<>> /\ (r[Len(r)].end = "ok" \/ r[1].end = "error")

Succeeded(r) == r # <<>> /\ r[Len(r)].end = "ok"

-----------------------------------------------------------------------------
(* What the daemon does with a reply; <<>> is none.                        *)

CountriesIn(r) == IF r = <<>> THEN {} ELSE r[1].value \cap Countries

Goes(to) == at' = to

(* is_bootstrap_complete().                                                *)
BootstrapReply(r) ==
  /\ waited' = (r # <<>> /\ "100" \in r[1].value)
  /\ Goes(IF waited' THEN "exits" ELSE "bootstrap")
  /\ UNCHANGED <<codes, chosen>>

(* The exits found at start-up are not used; the codes are captured, and   *)
(* the countries a client asks for are only handed on.                     *)
NsReply(r) ==
  /\ Goes(CASE at = "exits" -> "codes" [] OTHER -> "serving")
  /\ codes' = IF at = "codes" THEN CountriesIn(r) ELSE codes
  /\ UNCHANGED <<waited, chosen>>

(* Mutant: the reply to SETCONF is not looked at.                          *)
ChangeReplyUnchecked(r) ==
  /\ Goes(IF at = "change" THEN "strict" ELSE IF at = "strict" THEN "newnym" ELSE "serving")
  /\ chosen' = IF at = "change" THEN asking.arg ELSE chosen
  /\ UNCHANGED <<waited, codes>>

(* Only the first of change_city's three commands is checked.              *)
ChangeReply(r) ==
  /\ Goes(CASE at = "change" /\ Succeeded(r) -> "strict"
            [] at = "strict" -> "newnym"
            [] OTHER -> "serving")
  /\ chosen' = IF at = "change" /\ Succeeded(r) THEN asking.arg ELSE chosen
  /\ UNCHANGED <<waited, codes>>

Continue(r) ==
  /\ asking' = Nothing
  /\ CASE at = "authenticate" -> Goes("bootstrap") /\ UNCHANGED userVars
       [] at = "bootstrap" -> BootstrapReply(r)
       [] at \in {"exits", "codes", "cities"} -> NsReply(r)
       [] at \in {"change", "strict", "newnym"} -> ChangeReply(r)

(* One recv: any number of the pieces that are there.                      *)
Receive ==
  /\ asking # Nothing /\ wire # <<>>
  /\ \E n \in 1..Len(wire) :
       /\ wire' = SubSeq(wire, n + 1, Len(wire))
       /\ response' = response \o SubSeq(wire, 1, n)
  /\ IF Complete(response') THEN Continue(response')
     ELSE UNCHANGED <<asking, at, userVars>>
  /\ UNCHANGED <<torVars, sock, request, late>>

(* A connection that was never made or is closed gives no reply.           *)
ReceiveNothing ==
  /\ asking # Nothing /\ wire = <<>>
  /\ sock \in {"none", "unconnected", "closed"}
  /\ Continue(<<>>)
  /\ UNCHANGED <<torVars, sock, request, wire, response, late>>

-----------------------------------------------------------------------------
(* bootstrapWaiter::wait's clock.                                          *)
Deadline ==
  /\ at = "bootstrap" /\ ~late /\ late' = TRUE
  /\ UNCHANGED <<torVars, chanVars, at, userVars>>

GiveUp ==
  /\ at = "bootstrap" /\ late /\ asking = Nothing
  /\ at' = "exits"
  /\ UNCHANGED <<torVars, chanVars, late, userVars>>

(* A client's commands.  A country that was not known at start-up, and     *)
(* "Auto (Random)", are only logged.                                       *)
GetCities ==
  /\ at = "serving" /\ at' = "cities"
  /\ UNCHANGED <<torVars, chanVars, late, userVars>>

ChangeCity ==
  /\ at = "serving"
  /\ at' = "change"
  /\ \E country \in codes : Send([cmd |-> "ExitNodes", arg |-> country])
  /\ UNCHANGED <<torVars, late, userVars>>

DaemonStep == Connect \/ Ask \/ Receive \/ ReceiveNothing \/ GiveUp

TcNext == \/ DaemonStep \/ Deadline \/ GetCities \/ ChangeCity
          \/ TorStep(Listens) \/ TorStep(WritesCookie) \/ TorStep(Learns)
          \/ TorStep(Boots) \/ TorStep(Replies) \/ TorStep(Refuses) \/ TorStep(Dies)

TcSpec == TcInit /\ [][TcNext]_tcVars

(* The daemon runs and time passes; Tor need not answer.                   *)
TcFairSpec == TcSpec /\ WF_tcVars(DaemonStep) /\ WF_tcVars(Deadline)

-----------------------------------------------------------------------------
(* A reply is that of the command it is taken for: however replies are cut *)
(* into pieces, and whatever failed before, nothing of one is left on the  *)
(* connection when the next command is sent (control_port.cpp:62-81).      *)
RepliesMatch ==
  /\ asking # Nothing => \A p \in Pieces : p.to = asking.cmd
  /\ asking = Nothing => wire = <<>> /\ request = Nothing

(* wait() reports a finished bootstrap only if Tor had finished, whatever  *)
(* became of the connection and the authentication before                  *)
(* (bootstrap_waiter.cpp:11-36).                                           *)
WaitedMeansBooted == waited => booted

(* The country reported as set is the one Tor is set to, also when later   *)
(* changes are refused (service.cpp:293-305).                              *)
ChosenIsSet == at # "change" /\ torAt # "gone" => chosen = exitNodes

(* Nothing the daemon reports of Tor is false (bootstrap_waiter.cpp:11-36, *)
(* service.cpp:293-305).                                                   *)
ReportsAreTrue == WaitedMeansBooted /\ ChosenIsSet

(* Start-up reaches its commands, reachable Tor or not, unless Tor keeps a *)
(* connection open and an answer back (service.cpp:211-222,281;            *)
(* control_port.cpp:68-70).                                                *)
StartUpEnds ==
  at = "connect" ~> (at = "serving" \/ [](asking # Nothing /\ sock \in {"open", "authed"}))
=============================================================================
