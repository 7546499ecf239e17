------------------------------ MODULE MCRelay ------------------------------
(* The parts of the relay that share no state: a stream's bytes, the DNS   *)
(* queries, a SOCKS connection and the adapter.  Steps of two of them      *)
(* commute, so a behaviour is one part's, chosen at the start, while the   *)
(* others rest: all that each can do, and not the product.                 *)
(*                                                                         *)
(* A segment of two bytes stands for MAX_SEG: responses of less than one,  *)
(* of exactly one and two, and of one and a rest.  The numbers start where *)
(* a connection does and just before they wrap around, and the bytes are   *)
(* such that some sum carries once and some, with 166 and 79, twice.       *)
(* Three queries of two clients, and a port that is Tor's or is not.       *)
EXTENDS Segments, Dns, Socks5, Wintun

VARIABLE part

relayVars == <<segVars, dnsVars, s5Vars, wtVars, part>>

MCKey == [local_ip |-> <<10, 0, 0, 2>>, remote_ip |-> <<255, 254, 253, 252>>,
          local_port |-> 65535, remote_port |-> 443]
MCResponses == {<<255>>, <<7, 255, 0>>, <<166, 79>>, <<255, 255, 255, 254>>}
MCRequests == {<<1>>, <<255, 0, 255>>}
MCFirstSeqs == {<<0, 1001>>, <<65535, 65534>>, <<65535, 65535>>}

MCClients == {[ip |-> <<10, 0, 0, 2>>, port |-> 50000], [ip |-> <<10, 0, 0, 2>>, port |-> 50001]}
MCServers == {<<8, 8, 8, 8>>}
MCUdpPorts == {9053, 0}

Init ==
  /\ part \in {"stream", "queries", "socks", "adapter"}
  /\ SegInit /\ DnsInit /\ S5Init /\ WtInit
  /\ part # "stream" => begun = [vpn |-> <<0, 1001>>, client |-> <<0, 1001>>]

Stream(A) == part = "stream" /\ A /\ UNCHANGED <<dnsVars, s5Vars, wtVars, part>>
Queries(A) == part = "queries" /\ A /\ UNCHANGED <<segVars, s5Vars, wtVars, part>>
Socks(A) == part = "socks" /\ A /\ UNCHANGED <<segVars, dnsVars, wtVars, part>>
Adapter(A) == part = "adapter" /\ A /\ UNCHANGED <<segVars, dnsVars, s5Vars, part>>

Next == Stream(SegNext) \/ Queries(DnsNext) \/ Socks(S5Next) \/ Adapter(WtNext)

(* The fairness of DnsSpec, S5FairSpec and WtSpec.                         *)
Spec == /\ Init /\ [][Next]_relayVars
        /\ \A i \in Ids : WF_relayVars(Queries(ThreadStep(i)))
        /\ WF_relayVars(Socks(S5Step))
        /\ WF_relayVars(Adapter(WorkerCalls)) /\ WF_relayVars(Adapter(Deliver))
        /\ WF_relayVars(Adapter(CompleteReceive))
        /\ \A s \in Senders : WF_relayVars(Adapter(SendPacket(s)))

(* The parts' variables keep their types.                                  *)
RelayTypeOK == SegTypeOK /\ DnsTypeOK /\ S5TypeOK /\ WtTypeOK

(* No thread of the relay stays behind: a query's ends by its timeout, a   *)
(* connection's with Tor's answers (dns_interceptor.cpp:15-16,39-45,       *)
(* socks5.cpp:60,89).                                                      *)
ThreadsReturn == QueriesEnd /\ ConnectReturns
=============================================================================
