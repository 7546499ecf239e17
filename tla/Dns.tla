-------------------------------- MODULE Dns --------------------------------
(***************************************************************************)
(* The DNS half of packetProcessor: a query to port 53 of any server is    *)
(* taken from the adapter by process_loop() and handed to a detached       *)
(* thread with a dnsInterceptor, and a socket, of its own; that thread     *)
(* asks Tor's DNS port and injects the answer as if the server had sent    *)
(* it (packet_processor.cpp:258-282, dns_interceptor.cpp).                 *)
(*                                                                         *)
(* A query's payload is one byte, the identifier the client gave it, and   *)
(* an answer to it is that byte and what Tor found, 1.                     *)
(***************************************************************************)
EXTENDS Packets

CONSTANTS
  Clients,     (* endpoints of the machine: address and port               *)
  Servers,     (* addresses of the servers it asks                         *)
  Ids,         (* identifiers of queries; bounds the queries               *)
  UdpPorts,    (* ports of this machine a 16-bit number may name           *)
  DnsPort,     (* the one Tor listens on for queries                       *)
  DnsFaults    (* what may fail: see DnsFaultKinds                         *)

(* A socket that cannot be opened or written, an answer that is longer     *)
(* than the 512 bytes it is read into, a full adapter ring, and a socket   *)
(* that is given the local port of one closed before its answer came.      *)
DnsFaultKinds == {"sendFails", "answerTooLong", "ringFull", "portReused"}

Address == [1..4 -> Byte]

(* An address has four bytes, and a port 16 bits.                          *)
ASSUME DnsAssumption ==
  /\ DnsPort \in UdpPorts
  /\ DnsFaults \subseteq DnsFaultKinds
  /\ Clients \subseteq [ip : Address, port : 0..(Base - 1)]
  /\ Servers \subseteq Address
  /\ Ids \subseteq Byte

VARIABLES
  threads,   (* the query threads: by identifier, what they work on        *)
  tor,       (* queries before Tor's DNS port, with the socket they are of *)
  replies,   (* packets injected                                           *)
  queried    (* history: the client and the server of every query so far   *)

dnsVars == <<threads, tor, replies, queried>>

Questions == [client : Clients, server : Servers]

DnsInit ==
  /\ threads = [i \in Ids |-> [at |-> "none"]]
  /\ tor = {}
  /\ replies = {}
  /\ queried = <<>>

Ended(i) == [threads EXCEPT ![i] = [at |-> "ended"]]

-----------------------------------------------------------------------------
(* External: the packet a client's stack builds.                           *)
Query(i, q) == buildUDPPacket(q.client.ip, q.client.port, q.server, 53, <<i>>)

(* handle_ipv4_packet() starts the thread, and the thread constructs its   *)
(* dnsInterceptor, whose constructor leaves tor_dns_port_ unset.           *)
Intercept ==
  /\ \E i \in Ids, q \in Questions, port \in UdpPorts :
       /\ i \notin DOMAIN queried
       /\ IsDNS(Query(i, q))
       /\ queried' = [j \in DOMAIN queried \cup {i} |-> IF j = i THEN q ELSE queried[j]]
       /\ threads' = [threads EXCEPT ![i] =
            [at |-> "resolve", packet |-> ParseUDP(Query(i, q)), tor_dns_port |-> port]]
  /\ UNCHANGED <<tor, replies>>

(* resolve() up to the receive.                                            *)
Resolve(i) ==
  /\ threads[i].at = "resolve"
  /\ \/ /\ threads' = [threads EXCEPT ![i].at = "await"]
        /\ tor' = tor \cup (IF threads[i].tor_dns_port # DnsPort THEN {}
                            ELSE {[socket |-> i, query |-> threads[i].packet.payload]})
     \/ /\ "sendFails" \in DnsFaults
        /\ threads' = Ended(i)
        /\ UNCHANGED tor
  /\ UNCHANGED <<replies, queried>>

(* External: Tor answers a query, on the socket it came from or on the one *)
(* that has its port by now; an answer to a closed socket is lost.         *)
TorResolves ==
  \E t \in tor, i \in Ids :
    /\ \/ t.socket = i
       \/ "portReused" \in DnsFaults /\ threads[t.socket].at = "ended"
    /\ tor' = tor \ {t}
    /\ threads' = IF threads[i].at # "await" THEN threads
                  ELSE [threads EXCEPT ![i] = [at |-> "reply", packet |-> @.packet,
                                               answer |-> Append(t.query, 1)]]
    /\ UNCHANGED <<replies, queried>>

(* Mutant: a socket without SO_RCVTIMEO.                                   *)
GiveUpOnError(i) ==
  /\ threads[i].at = "reply"
  /\ "answerTooLong" \in DnsFaults
  /\ threads' = Ended(i)
  /\ UNCHANGED <<tor, replies, queried>>

(* Two seconds without an answer, or one that cannot be read.              *)
GiveUp(i) ==
  /\ \/ threads[i].at = "await"
     \/ threads[i].at = "reply" /\ "answerTooLong" \in DnsFaults
  /\ threads' = Ended(i)
  /\ UNCHANGED <<tor, replies, queried>>

(* Mutant: the reply goes the way the query went.                          *)
ReplyPacketForward(p, answer) == buildUDPPacket(p.src, p.sport, p.dst, p.dport, answer)

ReplyPacket(p, answer) == buildUDPPacket(p.dst, p.dport, p.src, p.sport, answer)

Reply(i) ==
  /\ threads[i].at = "reply"
  /\ threads' = Ended(i)
  /\ \/ replies' = replies \cup {ReplyPacket(threads[i].packet, threads[i].answer)}
     \/ "ringFull" \in DnsFaults /\ UNCHANGED replies
  /\ UNCHANGED <<tor, queried>>

ThreadStep(i) == Resolve(i) \/ GiveUp(i) \/ Reply(i)
DnsNext == Intercept \/ TorResolves \/ \E i \in Ids : ThreadStep(i)

(* The threads run and their timeouts expire; Tor need not answer.         *)
DnsSpec == DnsInit /\ [][DnsNext]_dnsVars /\ \A i \in Ids : WF_dnsVars(ThreadStep(i))
-----------------------------------------------------------------------------
DnsTypeOK ==
  /\ \A i \in Ids : threads[i].at \in {"none", "resolve", "await", "reply", "ended"}
  /\ \A t \in tor : t.socket \in Ids /\ t.query \in [1..1 -> Ids]
  /\ \A r \in replies : \A n \in 1..Len(r) : r[n] \in Byte
  /\ \A i \in DOMAIN queried : queried[i] \in Questions

(* With any number of queries under way, answered in any order, late or    *)
(* not at all, the addresses, ports, length and payload of each reply say  *)
(* that the server that was queried answers the client that queried, and   *)
(* the answer is the one to that client's query                            *)
(* (packet_processor.cpp:118-155,270-280).  Nothing is said of checksums:  *)
(* buildUDPPacket leaves that of the IPv4 header zero (:137-138), so the   *)
(* packet is not one that PacketsAccepted of Segments would accept, and    *)
(* whether the stack takes it rests with the adapter's driver.             *)
AnswersMatch ==
  \A r \in replies : \E i \in DOMAIN queried :
    /\ At(r, 3) = Len(r)
    /\ ParseUDP(r) = [src |-> queried[i].server, sport |-> 53,
                      dst |-> queried[i].client.ip, dport |-> queried[i].client.port,
                      payload |-> <<i, 1>>]

(* No query keeps its thread and its socket for ever, whether Tor answers  *)
(* or not (dns_interceptor.cpp:15-16,39-45).                               *)
QueriesEnd ==
  \A i \in Ids : threads[i].at = "resolve" ~> threads[i].at = "ended"
=============================================================================
