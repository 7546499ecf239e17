-------------------------- MODULE PacketProcessor --------------------------
(***************************************************************************)
(* packetProcessor, src/core/packet_processor.cpp: terminates the TCP      *)
(* connections the machine opens into the Wintun adapter and carries each  *)
(* over a SOCKS5 connection of its own to Tor.                             *)
(*                                                                         *)
(* Three kinds of threads share the table streams_ under streams_mutex_: a *)
(* process loop that handles the packets of the adapter in order, one      *)
(* detached thread per connect attempt, and the response loop, which takes *)
(* the lock once to read every socket, once more for every response it     *)
(* sends, and once more to clean up.  A critical section is one action.    *)
(* Nothing here depends on running_: a stopped processor is one whose      *)
(* loops take no step, and start() keeps the table.                        *)
(*                                                                         *)
(* Data is counted in segments.  A sequence number of a client is a pair   *)
(* of its connection (gen) and an offset into it; one of the daemon is a   *)
(* number of segments from the 1000 every connection starts at.            *)
(***************************************************************************)
EXTENDS Naturals, Sequences, FiniteSets

CONSTANTS
  Keys,        (* address and port pairs of connections                    *)
  PpFaults,    (* what may fail: see PpFaultKinds                          *)
  MaxGen,      (* bounds the connections a client opens under one key      *)
  MaxUp,       (* bounds the segments a client sends on one                *)
  MaxDown,     (* bounds the segments a server answers on one              *)
  MaxRead,     (* segments of MAX_SEG bytes one recv() may return          *)
  MaxAttempts, (* bounds the connect attempts                              *)
  MaxQueue     (* bounds the packets under way in each direction           *)

(* A full adapter ring, a send() on a socket that would block, a SOCKS     *)
(* connect that fails.                                                     *)
PpFaultKinds == {"ringFull", "sendBlocks", "connectFails"}

ASSUME PpAssumption ==
  /\ PpFaults \subseteq PpFaultKinds
  /\ <<MaxGen, MaxUp, MaxDown, MaxRead, MaxAttempts, MaxQueue>>
       \in (Nat \ {0}) \X Nat \X Nat \X (Nat \ {0}) \X (Nat \ {0}) \X (Nat \ {0})

VARIABLES
  streams,    (* streams_: per key a tcpStream, or NoStream                *)
  attempts,   (* connect threads in flight: their id and their seq_num     *)
  attemptId,  (* ids handed out so far                                     *)
  loop,       (* where the response loop is: "read", "send" or "clean"     *)
  responses,  (* what it read and has yet to send, by key                  *)
  inbound,    (* packets in the adapter's ring, towards the daemon         *)
  outbound,   (* packets written to the adapter, towards the client        *)
  client,     (* the TCP stack of the machine, one end per key             *)
  finSent,    (* history: a FIN followed the latest SYN-ACK                *)
  forwarded,  (* history: segments sent upstream, and on which socket      *)
  carried,    (* history: connections that have, had or await a socket     *)
  twice       (* history: one of them asked for another, its stream being  *)
              (* lost, or asked while an older attempt was in flight       *)

daemonVars == <<streams, attempts, attemptId, loop, responses>>
historyVars == <<finSent, forwarded, carried, twice>>
vars == <<daemonVars, inbound, outbound, client, historyVars>>

NoStream == [state |-> "none"]
NoSocket == [id |-> 0, read |-> 0]
Iss == 1000

(* Mutant: the sequence numbers start in the member initialisers.          *)
FreshStreamNumbered ==
  [connected |-> FALSE, connecting |-> FALSE, state |-> "Listen",
   client_seq |-> [gen |-> 0, off |-> 0], vpn_seq |-> Iss + 1,
   socks |-> NoSocket, idle |-> 0]

(* socks: which attempt opened it and the segments read from it.  idle     *)
(* stands for last_activity: 0 is at most 15 seconds ago, 1 at most 300, 2 *)
(* more.                                                                   *)
FreshStream ==
  [connected |-> FALSE, connecting |-> FALSE, state |-> "Listen",
   client_seq |-> [gen |-> 0, off |-> 0], vpn_seq |-> 0,
   socks |-> NoSocket, idle |-> 0]

Init ==
  /\ streams = [k \in Keys |-> NoStream]
  /\ attempts = [k \in Keys |-> {}]
  /\ attemptId = 0
  /\ loop = "read"
  /\ responses = [k \in Keys |-> <<>>]
  /\ inbound = <<>>
  /\ outbound = [k \in Keys |-> <<>>]
  /\ client = [k \in Keys |-> [phase |-> "closed", gen |-> 0, sent |-> 0,
                               una |-> 0, rcv |-> 0, from |-> 0, intact |-> TRUE]]
  /\ finSent = [k \in Keys |-> FALSE]
  /\ forwarded = [k \in Keys |-> {}]
  /\ carried = [k \in Keys |-> {}]
  /\ twice = [k \in Keys |-> FALSE]

-----------------------------------------------------------------------------
(* Helpers.                                                                *)

(* handle_ipv4_packet() finds or creates the stream and touches it first.  *)
Touched(k) ==
  [(IF streams[k] = NoStream THEN FreshStream ELSE streams[k]) EXCEPT !.idle = 0]

Put(k, stream) == streams' = [streams EXCEPT ![k] = stream]

(* session_.send_packet(): a packet that finds the ring full is dropped    *)
(* without a word.                                                         *)
Send(k, packets) ==
  \E n \in 0..Len(packets) : \E place \in [1..n -> 1..Len(packets)] :
    /\ \A i, j \in 1..n : i < j => place[i] < place[j]
    /\ "ringFull" \in PpFaults \/ n = Len(packets)
    /\ Len(outbound[k]) + n <= MaxQueue
    /\ outbound' = [outbound EXCEPT ![k] = @ \o [i \in 1..n |-> packets[place[i]]]]

Segment(kind, seq, ack) == [kind |-> kind, seq |-> seq, ack |-> ack, unit |-> <<0, 0>>]
SynAck(seq, ack) == Segment("synack", seq, ack)
Offset(gen, off) == [gen |-> gen, off |-> off]

-----------------------------------------------------------------------------
(* The process loop.                                                       *)

Arrives(k, kind) ==
  /\ inbound # <<>>
  /\ Head(inbound).key = k
  /\ Head(inbound).kind = kind
  /\ inbound' = Tail(inbound)

(* Mutant: a SYN is a repeated one only during the handshake.              *)
RepeatsSynInHandshake(s) == s.state = "SynReceived"

RepeatsSyn(s) == s.state = "SynReceived" \/ s.connected

(* A SYN of a stream that is open, or waits for the handshake's ACK, is    *)
(* answered again; one of a stream that is connecting is dropped; any      *)
(* other starts a connect thread.                                          *)
HandleSyn(k) ==
  LET s == Touched(k)
      gen == Head(inbound).gen
  IN
  /\ Arrives(k, "syn")
  /\ \/ /\ RepeatsSyn(s)
        /\ Put(k, s)
        /\ Send(k, <<SynAck(s.vpn_seq - 1, s.client_seq)>>)
        /\ UNCHANGED <<attempts, attemptId, carried, twice>>
     \/ /\ ~RepeatsSyn(s)
        /\ s.connecting
        /\ Put(k, s)
        /\ UNCHANGED <<attempts, attemptId, outbound, carried, twice>>
     \/ /\ ~RepeatsSyn(s)
        /\ ~s.connecting
        /\ attemptId < MaxAttempts
        /\ Put(k, [s EXCEPT !.connecting = TRUE])
        /\ attemptId' = attemptId + 1
        /\ attempts' = [attempts EXCEPT
             ![k] = @ \cup {[id |-> attemptId + 1, gen |-> gen]}]
        /\ carried' = [carried EXCEPT ![k] = @ \cup {gen}]
        /\ twice' = [twice EXCEPT ![k] =
             @ \/ (s.state = "Listen" /\ (gen \in carried[k] \/ attempts[k] # {}))]
        /\ UNCHANGED outbound
  /\ UNCHANGED <<loop, responses, client, finSent, forwarded>>

(* A packet with the ACK flag and no payload ends the handshake, a FIN and *)
(* a RST ("ack" here, "rst" when it has no ACK flag) as well; otherwise it *)
(* only counts as activity.                                                *)
HandleAck(k) ==
  LET s == Touched(k) IN
  /\ \/ /\ Arrives(k, "ack") \/ Arrives(k, "fin")
        /\ s.state = "SynReceived"
        /\ Put(k, [s EXCEPT !.state = "Established"])
     \/ /\ Arrives(k, "rst") \/ (Arrives(k, "ack") /\ s.state # "SynReceived")
        /\ Put(k, s)
  /\ UNCHANGED <<attempts, attemptId, loop, responses, outbound, client, historyVars>>

(* Data is acknowledged before it is sent on, if it is: a stream that is   *)
(* not connected has nowhere to send it, and the result of the send is     *)
(* ignored.  forwarded says what went up, not how often: that data sent    *)
(* again goes up again is in Segments.                                     *)
HandleData(k) ==
  LET p == Head(inbound)
      s == [Touched(k) EXCEPT !.client_seq = Offset(p.gen, p.unit + 1)]
  IN
  /\ Arrives(k, "data")
  /\ Put(k, s)
  /\ Send(k, <<Segment("ack", s.vpn_seq, s.client_seq)>>)
  /\ \/ /\ s.connected
        /\ forwarded' = [forwarded EXCEPT ![k] = @ \cup {<<p.gen, p.unit, s.socks.id>>}]
     \/ /\ ~s.connected \/ "sendBlocks" \in PpFaults
        /\ UNCHANGED forwarded
  /\ UNCHANGED <<attempts, attemptId, loop, responses, client, finSent, carried, twice>>

(* A FIN without data; one that carries data is read as data alone         *)
(* (packet_processor.cpp:240,250), and the client here sends none.         *)
HandleFin(k) ==
  LET p == Head(inbound)
      s == [Touched(k) EXCEPT !.client_seq = Offset(p.gen, p.unit + 1),
                              !.state = "Closed"]
  IN
  /\ Touched(k).state # "SynReceived"
  /\ Arrives(k, "fin")
  /\ Send(k, <<Segment("finack", s.vpn_seq, s.client_seq)>>)
  /\ Put(k, [s EXCEPT !.vpn_seq = @ + 1])
  /\ finSent' = [finSent EXCEPT ![k] = TRUE]
  /\ UNCHANGED <<attempts, attemptId, loop, responses, client, forwarded, carried, twice>>

-----------------------------------------------------------------------------
(* A connect thread comes back from socks5Client::connect().               *)

(* Mutant: the flag is set before the result is looked at.                 *)
ConnectFailedConnects(k, a) ==
  /\ "connectFails" \in PpFaults
  /\ attempts' = [attempts EXCEPT ![k] = @ \ {a}]
  /\ IF streams[k] = NoStream
       THEN UNCHANGED streams
       ELSE Put(k, [streams[k] EXCEPT !.connecting = FALSE, !.connected = TRUE])
  /\ carried' = [carried EXCEPT ![k] = @ \ {a.gen}]
  /\ UNCHANGED <<attemptId, loop, responses, inbound, outbound, client, finSent,
                 forwarded, twice>>

(* Mutant: a failure leaves the flag set.                                  *)
ConnectFailedKeepsFlag(k, a) ==
  /\ "connectFails" \in PpFaults
  /\ attempts' = [attempts EXCEPT ![k] = @ \ {a}]
  /\ UNCHANGED <<streams, attemptId, loop, responses, inbound, outbound, client,
                 historyVars>>

ConnectFailed(k, a) ==
  /\ "connectFails" \in PpFaults
  /\ attempts' = [attempts EXCEPT ![k] = @ \ {a}]
  /\ IF streams[k] = NoStream
       THEN UNCHANGED streams
       ELSE Put(k, [streams[k] EXCEPT !.connecting = FALSE])
  /\ carried' = [carried EXCEPT ![k] = @ \ {a.gen}]
  /\ UNCHANGED <<attemptId, loop, responses, inbound, outbound, client, finSent,
                 forwarded, twice>>

(* Mutant: the SYN-ACK takes no sequence number.                           *)
TakenOverNoIncrement(s, a) ==
  [s EXCEPT !.connecting = FALSE, !.connected = TRUE,
            !.socks = [NoSocket EXCEPT !.id = a.id],
            !.client_seq = Offset(a.gen, 1), !.vpn_seq = Iss, !.state = "SynReceived"]

TakenOver(s, a) ==
  [s EXCEPT !.connecting = FALSE, !.connected = TRUE,
            !.socks = [NoSocket EXCEPT !.id = a.id],
            !.client_seq = Offset(a.gen, 1), !.vpn_seq = Iss + 1, !.state = "SynReceived"]

(* The stream is taken over whatever became of it, unless it is gone.  The *)
(* socket it had is closed with the object.                                *)
Connected(k, a) ==
  /\ attempts' = [attempts EXCEPT ![k] = @ \ {a}]
  /\ \/ /\ streams[k] = NoStream
        /\ UNCHANGED <<streams, outbound, finSent>>
     \/ /\ streams[k] # NoStream
        /\ Put(k, TakenOver(streams[k], a))
        /\ Send(k, <<SynAck(Iss, Offset(a.gen, 1))>>)
        /\ finSent' = [finSent EXCEPT ![k] = FALSE]
  /\ UNCHANGED <<attemptId, loop, responses, inbound, client, forwarded, carried, twice>>

Connect == \E k \in Keys : \E a \in attempts[k] : ConnectFailed(k, a) \/ Connected(k, a)

Handle == \E k \in Keys : HandleSyn(k) \/ HandleAck(k) \/ HandleData(k) \/ HandleFin(k)

-----------------------------------------------------------------------------
(* The response loop.                                                      *)

Readable(k) ==
  /\ streams[k] # NoStream
  /\ streams[k].connected
  /\ streams[k].state # "Closed"

(* One lock for one recv() on every open socket: nothing there, up to      *)
(* MaxRead segments, or an error, for which a FIN is built but not sent.   *)
ReadSockets ==
  \E gone \in SUBSET {k \in Keys : Readable(k)}, n \in [Keys -> 0..MaxRead] :
    /\ loop = "read"
    /\ \A k \in Keys :
         n[k] > 0 => /\ Readable(k) /\ k \notin gone
                     /\ streams[k].socks.read + n[k] <= MaxDown
    /\ streams' = [k \in Keys |->
         IF k \in gone THEN [streams[k] EXCEPT !.state = "Closed"]
         ELSE IF n[k] > 0 THEN [streams[k] EXCEPT !.idle = 0, !.socks.read = @ + n[k]]
         ELSE streams[k]]
    /\ responses' = [k \in Keys |->
         [i \in 1..n[k] |-> <<streams[k].socks.id, streams[k].socks.read + i>>]]
    /\ loop' = "send"
    /\ UNCHANGED <<attempts, attemptId, inbound, outbound, client, historyVars>>

(* Mutant: the second look at the state is dropped.                        *)
RespondClosedToo(k) ==
  /\ loop = "send"
  /\ responses[k] # <<>>
  /\ responses' = [responses EXCEPT ![k] = <<>>]
  /\ \/ /\ streams[k] = NoStream
        /\ UNCHANGED <<streams, outbound>>
     \/ /\ streams[k] # NoStream
        /\ Send(k, [i \in DOMAIN responses[k] |->
             [Segment("data", streams[k].vpn_seq + i - 1, streams[k].client_seq)
                EXCEPT !.unit = responses[k][i]]])
        /\ Put(k, [streams[k] EXCEPT !.vpn_seq = @ + Len(responses[k]), !.idle = 0])
  /\ UNCHANGED <<attempts, attemptId, loop, inbound, client, historyVars>>

(* A lock of its own for each response: one whose stream was closed since  *)
(* it was read is dropped.                                                 *)
Respond(k) ==
  /\ loop = "send"
  /\ responses[k] # <<>>
  /\ responses' = [responses EXCEPT ![k] = <<>>]
  /\ \/ /\ streams[k].state \in {"none", "Closed"}
        /\ UNCHANGED <<streams, outbound>>
     \/ /\ streams[k].state \notin {"none", "Closed"}
        /\ Send(k, [i \in DOMAIN responses[k] |->
             [Segment("data", streams[k].vpn_seq + i - 1, streams[k].client_seq)
                EXCEPT !.unit = responses[k][i]]])
        /\ Put(k, [streams[k] EXCEPT !.vpn_seq = @ + Len(responses[k]), !.idle = 0])
  /\ UNCHANGED <<attempts, attemptId, loop, inbound, client, historyVars>>

(* Every two seconds the turn ends with a cleanup.                         *)
EndSending ==
  /\ loop = "send"
  /\ \A k \in Keys : responses[k] = <<>>
  /\ loop' \in {"clean", "read"}
  /\ UNCHANGED <<streams, attempts, attemptId, responses, inbound, outbound, client,
                 historyVars>>

(* Mutant: a closed stream waits for its timeout like the others.          *)
ExpiredIdleOnly(s) ==
  \/ s.state # "Closed" /\ (s.connecting \/ s.state = "SynReceived") /\ s.idle > 0
  \/ s.state = "Established" /\ s.idle > 1

Expired(s) ==
  \/ s.state = "Closed"
  \/ (s.connecting \/ s.state = "SynReceived") /\ s.idle > 0
  \/ s.state = "Established" /\ s.idle > 1

(* cleanupStateStreams().                                                  *)
Cleanup ==
  LET gone == {k \in Keys : streams[k] # NoStream /\ Expired(streams[k])} IN
  /\ loop = "clean"
  /\ loop' = "read"
  /\ streams' = [k \in Keys |-> IF k \in gone THEN NoStream ELSE streams[k]]
  /\ UNCHANGED <<attempts, attemptId, responses, inbound, outbound, client,
                 historyVars>>

ResponseLoop == ReadSockets \/ (\E k \in Keys : Respond(k)) \/ EndSending \/ Cleanup

(* Time goes by.                                                           *)
Idle(k) ==
  /\ streams[k] # NoStream
  /\ streams[k].idle < 2
  /\ Put(k, [streams[k] EXCEPT !.idle = @ + 1])
  /\ UNCHANGED <<attempts, attemptId, loop, responses, inbound, outbound, client,
                 historyVars>>

-----------------------------------------------------------------------------
(* External: the machine's TCP, one connection after the other under each  *)
(* key.  It retransmits what was not acknowledged whenever it likes.  Its  *)
(* ACKs of data are left out: they only count as activity (see Idle).      *)

Packet(k, kind, unit) ==
  [key |-> k, kind |-> kind, gen |-> client'[k].gen, unit |-> unit]

Emits(packets) ==
  /\ Len(inbound) + Len(packets) <= MaxQueue
  /\ inbound' = inbound \o packets

Open == {"established", "finSent", "finSentTwice"}

ClientOpen(k) ==
  /\ client[k].phase = "closed"
  /\ client[k].gen < MaxGen
  /\ client' = [client EXCEPT ![k] =
       [phase |-> "synSent", gen |-> @.gen + 1, sent |-> 0, una |-> 0, rcv |-> 0,
        from |-> 0, intact |-> @.intact]]
  /\ Emits(<<Packet(k, "syn", 0)>>)

ClientSend(k) ==
  /\ client[k].phase = "established"
  /\ client[k].sent < MaxUp
  /\ client' = [client EXCEPT ![k].sent = @ + 1]
  /\ Emits(<<Packet(k, "data", client[k].sent + 1)>>)

(* Its FIN it repeats once: each one handled takes a number of the daemon. *)
ClientClose(k) ==
  /\ \/ /\ client[k].phase = "established"
        /\ client' = [client EXCEPT ![k].phase = "finSent"]
     \/ /\ client[k].phase = "finSent"
        /\ client' = [client EXCEPT ![k].phase = "finSentTwice"]
  /\ Emits(<<Packet(k, "fin", client[k].sent + 1)>>)

ClientRepeats(k) ==
  /\ UNCHANGED client
  /\ \/ client[k].phase = "synSent" /\ Emits(<<Packet(k, "syn", 0)>>)
     \/ /\ client[k].phase \in Open
        /\ \E n \in (client[k].una + 1)..client[k].sent : Emits(<<Packet(k, "data", n)>>)

(* A client gives up, with or without a RST.                               *)
ClientAborts(k) ==
  /\ client[k].phase # "closed"
  /\ client' = [client EXCEPT ![k].phase = "closed"]
  /\ \/ UNCHANGED inbound
     \/ client[k].phase # "synSent" /\ Emits(<<Packet(k, "ack", 0)>>)

ClientSteps ==
  /\ \E k \in Keys : \/ ClientOpen(k) \/ ClientSend(k) \/ ClientClose(k)
                     \/ ClientRepeats(k) \/ ClientAborts(k)
  /\ UNCHANGED <<daemonVars, outbound, historyVars>>

(* A SYN-ACK for another connection is answered with a RST.  An answer is  *)
(* not held back by the bound, which would stop both directions at once.   *)
ReceiveSynAck(k, p) ==
  LET c == client[k] IN
  /\ p.kind = "synack"
  /\ \/ /\ c.phase = "synSent" /\ p.ack = Offset(c.gen, 1)
        /\ client' = [client EXCEPT ![k].phase = "established", ![k].rcv = p.seq + 1]
        /\ inbound' = Append(inbound, Packet(k, "ack", 0))
     \/ /\ c.phase = "synSent" /\ p.ack # Offset(c.gen, 1)
        /\ UNCHANGED client
        /\ inbound' = Append(inbound, Packet(k, "rst", 0))
     \/ /\ c.phase # "synSent"
        /\ UNCHANGED <<client, inbound>>

(* Anything else is taken when it is the next segment, and dropped         *)
(* otherwise.                                                              *)
ReceiveSegment(k, p) ==
  LET c == client[k]
      acked == IF p.ack.gen # c.gen THEN 0 ELSE p.ack.off - 1
      una == IF acked > c.una THEN (IF acked > c.sent THEN c.sent ELSE acked) ELSE c.una
  IN
  /\ p.kind # "synack"
  /\ UNCHANGED inbound
  /\ \/ /\ c.phase \in Open /\ p.seq = c.rcv
        /\ client' = [client EXCEPT ![k] =
             CASE p.kind = "data" ->
                    [c EXCEPT !.una = una, !.rcv = @ + 1, !.from = p.unit[1],
                              !.intact = /\ @
                                         /\ c.from \in {0, p.unit[1]}
                                         /\ p.unit[2] = c.rcv - Iss]
               [] p.kind = "ack" -> [c EXCEPT !.una = una]
               [] p.kind = "finack" ->
                    [c EXCEPT !.una = una,
                              !.phase = IF acked > c.sent THEN "closed" ELSE @]]
     \/ /\ c.phase \notin Open \/ p.seq # c.rcv
        /\ UNCHANGED client

ClientReceive ==
  \E k \in Keys :
    /\ outbound[k] # <<>>
    /\ outbound' = [outbound EXCEPT ![k] = Tail(@)]
    /\ \/ ReceiveSynAck(k, Head(outbound[k]))
       \/ ReceiveSegment(k, Head(outbound[k]))
    /\ UNCHANGED <<daemonVars, historyVars>>

-----------------------------------------------------------------------------
Next == \/ Handle \/ Connect \/ ResponseLoop \/ (\E k \in Keys : Idle(k))
        \/ ClientSteps \/ ClientReceive

Spec == Init /\ [][Next]_vars

StartCleanup == EndSending /\ loop' = "clean"

(* The response loop runs, and time goes by, so that two seconds pass      *)
(* again and again; packets written to the adapter are taken from it, and  *)
(* those the machine writes are handled.                                   *)
FairSpec == /\ Spec
            /\ WF_vars(ResponseLoop)
            /\ SF_vars(StartCleanup)
            /\ WF_vars(ClientReceive)
            /\ WF_vars(Handle)
-----------------------------------------------------------------------------
(* Types; and a connected stream has a socket, as send and receive expect  *)
(* without a test (packet_processor.cpp:247,328).                          *)
PpTypeOK ==
  /\ attemptId \in 0..MaxAttempts
  /\ loop \in {"read", "send", "clean"}
  /\ \A k \in Keys :
       /\ attempts[k] \subseteq [id : 1..attemptId, gen : 1..MaxGen]
       /\ \A a \in attempts[k], b \in attempts[k] : a.id = b.id => a = b
       /\ \/ streams[k] = NoStream
          \/ /\ streams[k].state \in {"Listen", "SynReceived", "Established", "Closed"}
             /\ streams[k].vpn_seq \in Nat
             /\ streams[k].idle \in 0..2
             /\ streams[k].connected = (streams[k].socks.id \in 1..attemptId)
             /\ ~streams[k].connected => streams[k].socks = NoSocket
       /\ Len(outbound[k]) <= MaxQueue

(* What the client believes acknowledged has been sent upstream, all of it *)
(* on one SOCKS connection, although data is acknowledged before it is     *)
(* sent, on streams that are not connected too, and streams are erased     *)
(* under the client.  As long as no connection is given a second socket    *)
(* (packet_processor.cpp:240-249,289-315).                                 *)
AckedIsForwarded ==
  \A k \in Keys : \/ twice[k]
                  \/ client[k].una = 0
                  \/ \E id \in 1..attemptId : \A n \in 1..client[k].una :
                       <<client[k].gen, n, id>> \in forwarded[k]

(* A client reads what one server connection sent, from its first segment  *)
(* on and without a hole: nothing read before the lock was released is     *)
(* sent on a stream that was taken over meanwhile, and no number is used   *)
(* twice (packet_processor.cpp:214-228,323-362).                           *)
DownstreamIntact == \A k \in Keys : twice[k] \/ client[k].intact

(* A stream that waits for a connect thread has one: it would ignore every *)
(* SYN otherwise (packet_processor.cpp:205-216).                           *)
NeverStuckConnecting ==
  \A k \in Keys : streams[k] # NoStream /\ streams[k].connecting => attempts[k] # {}

Data(k) == {i \in DOMAIN outbound[k] : outbound[k][i].kind = "data"}

(* Once the FIN of a connection is written no data of it follows, not even *)
(* a response that was read before the client closed                       *)
(* (packet_processor.cpp:250-256,343-346).                                 *)
NoDataAfterFin ==
  [][\A k \in Keys : finSent[k] /\ finSent'[k] => Cardinality(Data(k)') <= Cardinality(Data(k))]_vars

(* An established stream never falls back into the handshake               *)
(* (packet_processor.cpp:213-222,236-237).                                 *)
EstablishedStays ==
  [][\A k \in Keys : streams[k].state = "Established" /\ ~twice[k]
       => streams'[k].state \in {"Established", "Closed", "none"}]_vars

(* A closed stream, and its socket, is given up before long, and the key   *)
(* is free for another connection (packet_processor.cpp:296-315,366-369).  *)
ClosedErased ==
  \A k \in Keys : streams[k].state = "Closed" ~> streams[k].state # "Closed"
=============================================================================
