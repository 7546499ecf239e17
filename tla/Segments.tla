------------------------------ MODULE Segments ------------------------------
(***************************************************************************)
(* One established stream of packetProcessor at the level of bytes: the    *)
(* packets of the client are read and acknowledged, a response of the      *)
(* server is cut into segments.  PacketProcessor has the streams' life and *)
(* counts in segments what is counted in bytes here.                       *)
(***************************************************************************)
EXTENDS Packets

CONSTANTS
  Key,         (* the stream's tcpStreamKey                                *)
  MaxSeg,      (* MAX_SEG, 1400 in the code                                *)
  Responses,   (* what one recv() of the server's data may return          *)
  Requests,    (* payloads of a client's packet                            *)
  Options,     (* TCP options of a client's packet, in words of four bytes *)
  FirstSeqs,   (* sequence numbers the stream may have reached, each end   *)
  MaxCount     (* bounds the responses and the client's packets            *)

(* A packet's length has 16 bits and its TCP header at most 15 words.      *)
ASSUME SegAssumption ==
  /\ Key \in [local_ip : [1..4 -> Byte], remote_ip : [1..4 -> Byte],
              local_port : 0..(Base - 1), remote_port : 0..(Base - 1)]
  /\ MaxSeg \in Nat \ {0} /\ MaxSeg + 44 < Base
  /\ Responses \subseteq Seq(Byte) /\ Requests \subseteq Seq(Byte)
  /\ Options \subseteq 0..10
  /\ FirstSeqs \subseteq (0..(Base - 1)) \X (0..(Base - 1))
  /\ MaxCount \in Nat

VARIABLES
  vpn_seq, client_seq,  (* of the tcpStream                                *)
  payload, offset,      (* the response being sent, and how far            *)
  wire,                 (* packets sent to the client                      *)
  upstream,             (* bytes sent to the server                        *)
  begun,                (* history: vpn_seq and client_seq at the start    *)
  answered, asked,      (* history: all bytes of the responses, and of the *)
                        (* client's packets, in the order of the packets   *)
  written,              (* history: what the client's program has written  *)
  reached,              (* history: where in it the last packet ended      *)
  count                 (* history: responses and packets of the client    *)

streamVars == <<vpn_seq, client_seq, payload, offset>>
clientVars == <<asked, written, reached>>
segVars == <<streamVars, wire, upstream, begun, answered, clientVars, count>>

SegInit ==
  /\ vpn_seq \in FirstSeqs
  /\ client_seq \in FirstSeqs
  /\ payload = <<>>
  /\ offset = 0
  /\ wire = <<>>
  /\ upstream = <<>>
  /\ begun = [vpn |-> vpn_seq, client |-> client_seq]
  /\ answered = <<>>
  /\ asked = <<>>
  /\ written = <<>>
  /\ reached = 0
  /\ count = 0

-----------------------------------------------------------------------------
(* response_loop() has read a response.                                    *)
Receive ==
  /\ offset = Len(payload)
  /\ count < MaxCount
  /\ \E r \in Responses : payload' = r /\ answered' = answered \o r
  /\ offset' = 0
  /\ count' = count + 1
  /\ UNCHANGED <<vpn_seq, client_seq, wire, upstream, begun, clientVars>>

Flags(chunk) == IF offset + chunk >= Len(payload) THEN ACK + PSH ELSE ACK

(* Mutant: advances by a full segment, whatever was sent.                  *)
AdvanceWhole(chunk) ==
  /\ vpn_seq' = Plus(vpn_seq, MaxSeg)
  /\ offset' = offset + MaxSeg

Advance(chunk) ==
  /\ vpn_seq' = Plus(vpn_seq, chunk)
  /\ offset' = offset + chunk

(* One turn of the loop that cuts it into segments.                        *)
Cut ==
  /\ offset < Len(payload)
  /\ LET chunk == IF Len(payload) - offset < MaxSeg THEN Len(payload) - offset ELSE MaxSeg
     IN  /\ wire' = Append(wire, buildTCPPacket(Key, Flags(chunk), vpn_seq, client_seq,
                                   SubSeq(payload, offset + 1, offset + chunk)))
         /\ Advance(chunk)
  /\ UNCHANGED <<client_seq, payload, upstream, begun, answered, clientVars, count>>

(* External: a packet of the client's TCP, with the data of its stream     *)
(* from some place on, behind options it may have.                         *)
Request(data, from, words) ==
  <<69, 0>> \o Two(40 + 4 * words + Len(data)) \o <<0, 0, 64, 0, 128, 6, 0, 0>>
    \o Key.local_ip \o Key.remote_ip
    \o Two(Key.local_port) \o Two(Key.remote_port)
    \o Four(Plus(begun.client, from)) \o Four(vpn_seq)
    \o <<16 * (5 + words), ACK, 250, 240, 0, 0, 0, 0>>
    \o [i \in 1..4 * words |-> 1] \o data

(* Its packet goes up to what its program has written last, or, sent       *)
(* again, over any stretch of what it has sent before.  The adapter keeps  *)
(* packets in order, so none leaves a gap.                                 *)
Stretch(fresh, from, to) ==
  /\ from <= Len(written) /\ from < to
  /\ fresh # <<>> => to = Len(written \o fresh)

(* handle_ipv4_packet() on a packet with data, while no response is sent.  *)
(* Its number is not compared with client_seq: data that is sent again is  *)
(* passed on again, and client_seq goes back to its end.                   *)
HandleData ==
  /\ offset = Len(payload)
  /\ count < MaxCount
  /\ \E fresh \in Requests \cup {<<>>}, words \in Options :
       \E from, to \in 0..Len(written \o fresh) :
         LET data == SubSeq(written \o fresh, from + 1, to)
             packet == Request(data, from, words)
             p == ParseTCP(packet)
         IN  /\ Stretch(fresh, from, to)
             /\ 40 + 4 * words + Len(data) < Base
             /\ IsTCP(packet) /\ p.key = Key
             /\ written' = written \o fresh
             /\ asked' = asked \o data
             /\ reached' = to
             /\ client_seq' = Plus(p.seq, Len(p.payload))
             /\ upstream' = upstream \o p.payload
  /\ wire' = Append(wire, buildTCPPacket(Key, ACK, vpn_seq, client_seq', <<>>))
  /\ count' = count + 1
  /\ UNCHANGED <<vpn_seq, payload, offset, begun, answered>>

(* A SYN repeated before any data has been sent.                           *)
RepeatSynAck ==
  /\ wire = <<>>
  /\ wire' = <<buildTCPPacket(Key, SYN + ACK, MinusOne(vpn_seq), client_seq, <<>>)>>
  /\ UNCHANGED <<streamVars, upstream, begun, answered, clientVars, count>>

SegNext == Receive \/ Cut \/ HandleData \/ RepeatSynAck

SegSpec == SegInit /\ [][SegNext]_segVars
-----------------------------------------------------------------------------
(* What a client's TCP makes of the packets, by its own rules.             *)
BigWords(b) == [i \in 1..Len(b) \div 2 |-> At(b, 2 * i - 1)]

(* The Internet checksum: the one's complement sum over everything, the    *)
(* checksum included, is zero.                                             *)
Intact(b) ==
  Total(BigWords(IF Len(b) % 2 = 0 THEN b ELSE Append(b, 0))) % (Base - 1) = 0

(* The number k places after n, counted one by one.                        *)
Next32(n) == IF n[2] < Base - 1 THEN <<n[1], n[2] + 1>>
             ELSE IF n[1] < Base - 1 THEN <<n[1] + 1, 0>> ELSE <<0, 0>>
After32(n, k) == LET at[i \in 0..k] == IF i = 0 THEN n ELSE Next32(at[i - 1])
                 IN  at[k]

TCPOf(p) == SubSeq(p, 21, Len(p))
Data(p) == ParseTCP(p).payload

DataBefore(n) ==
  LET data[i \in 0..n] == IF i = 0 THEN <<>> ELSE data[i - 1] \o Data(wire[i])
  IN  data[n]

SegTypeOK ==
  /\ {vpn_seq, client_seq} \subseteq (0..Base - 1) \X (0..Base - 1)
  /\ offset \in 0..Len(payload)
  /\ reached \in 0..Len(written)
  /\ \A i \in 1..Len(wire) : \A j \in 1..Len(wire[i]) : wire[i][j] \in Byte
  /\ count \in 0..MaxCount

(* Every packet built is one the client's TCP accepts: its length is the   *)
(* one it states and no more than a segment, and both checksums add up,    *)
(* whatever carries the sums produce and however long the data is          *)
(* (packet_processor.cpp:30-39,66-68,89-110).                              *)
PacketsAccepted ==
  \A i \in 1..Len(wire) :
    LET p == wire[i]
    IN  /\ At(p, 3) = Len(p)
        /\ Len(Data(p)) <= MaxSeg
        /\ Intact(SubSeq(p, 1, 20))
        /\ Intact(Pseudo(Key.remote_ip, Key.local_ip, Len(p) - 20) \o TCPOf(p))

(* The segments continue each other, also where the number wraps around:   *)
(* reassembled by sequence number they are the responses and nothing else  *)
(* (packet_processor.cpp:347-361).                                         *)
Reassembled ==
  /\ \A i \in 1..Len(wire) :
       \/ ParseTCP(wire[i]).flags = SYN + ACK
       \/ ParseTCP(wire[i]).seq = After32(begun.vpn, Len(DataBefore(i - 1)))
  /\ answered = DataBefore(Len(wire)) \o SubSeq(payload, offset + 1, Len(payload))

(* The client is told to hand data up when a response is complete, and     *)
(* only then: the last packet with data is pushed exactly when nothing of  *)
(* the response is left (packet_processor.cpp:353-356).                    *)
PushEndsResponse ==
  LET sent == {i \in 1..Len(wire) : Data(wire[i]) # <<>>}
      last == CHOOSE i \in sent : \A j \in sent : j <= i
  IN  offset > 0 =>
        (ParseTCP(wire[last]).flags = ACK + PSH <=> offset = Len(payload))

(* Upstream goes the data of every packet of the client, behind any        *)
(* options, once for each time it was sent, and client_seq is where the    *)
(* last of them ended (packet_processor.cpp:175-193,240-248).  So none of  *)
(* the client's bytes is missing; that none is there twice holds for a     *)
(* client that sends nothing again, and only then is the server's stream   *)
(* the client's: the code does not look at the sequence number.            *)
UpstreamAsSent ==
  /\ upstream = asked
  /\ client_seq = After32(begun.client, reached)
  /\ Len(written) <= Len(upstream)
  /\ Len(upstream) = Len(written) => upstream = written /\ reached = Len(written)

(* The responses arrive whole and are handed up; the client's data goes up *)
(* packet by packet, what it sends again once more.  Both across segments, *)
(* options and numbers that wrap around                                    *)
(* (packet_processor.cpp:175-193,240-248,347-361).                         *)
BytesRelayed == Reassembled /\ PushEndsResponse /\ UpstreamAsSent
=============================================================================
