------------------------------ MODULE Packets ------------------------------
(***************************************************************************)
(* The packets packetProcessor builds and reads, byte by byte, as          *)
(* src/core/packet_processor.cpp does.  A packet is a sequence of bytes,   *)
(* an address a sequence of four; the program keeps it as the dotted       *)
(* string it prints and scans.  A 32-bit number is a pair of its halves,   *)
(* for TLC's integers have 32 bits and a sign.                             *)
(*                                                                         *)
(* C's packet[i] is packet[i + 1] here.                                    *)
(***************************************************************************)
EXTENDS Integers, Sequences

Byte == 0..255
Base == 65536

(* A 16-bit number as push_back(n >> 8), push_back(n & 0xFF) write it, and *)
(* as (p[i] << 8) | p[i + 1] reads it.                                     *)
Two(n) == <<n \div 256, n % 256>>
At(p, i) == 256 * p[i] + p[i + 1]

Four(n) == Two(n[1]) \o Two(n[2])

(* Mutant: the low half wraps around and its carry is lost.                *)
PlusNoCarry(n, k) == <<n[1], (n[2] + k) % Base>>

(* uint32_t addition of a small number.                                    *)
Plus(n, k) == <<(n[1] + (n[2] + k) \div Base) % Base, (n[2] + k) % Base>>

(* n - 1 on a uint32_t.                                                    *)
MinusOne(n) == <<(n[1] + (IF n[2] = 0 THEN Base - 1 ELSE 0)) % Base, (n[2] + Base - 1) % Base>>

-----------------------------------------------------------------------------
(* checksum(): the words are read in the order of the machine, little end  *)
(* first, and the result is stored in the same order.                      *)
Words(b) == [i \in 1..Len(b) \div 2 |-> b[2 * i - 1] + 256 * b[2 * i]]

Total(w) == LET sum[i \in 0..Len(w)] == IF i = 0 THEN 0 ELSE w[i] + sum[i - 1]
            IN  sum[Len(w)]

Fold(n) == (n % Base) + (n \div Base)

(* Mutant: the carry of the first fold is not folded.                      *)
FoldedOnce(n) == Fold(n) % Base

(* The loop folds a 32-bit sum at most twice.                              *)
Folded(n) == Fold(Fold(n))

checksum(b) == (Base - 1) - Folded(Total(Words(b)))

Store(p, i, c) == [p EXCEPT ![i] = c % 256, ![i + 1] = c \div 256]

Even(b) == IF Len(b) % 2 = 0 THEN b ELSE Append(b, 0)

-----------------------------------------------------------------------------
SYN == 2
ACK == 16
PSH == 8

IPHeader(total, protocol, src, dst) ==
  <<69, 0>> \o Two(total % Base) \o <<0, 0, 64, 0, 64, protocol, 0, 0>> \o src \o dst

(* What a TCP checksum is taken over before the segment itself.            *)
Pseudo(src, dst, len) == src \o dst \o <<0, 6>> \o Two(len % Base)

(* buildTCPPacket(): a SYN carries the MSS option.                         *)
buildTCPPacket(key, flags, seq, ack, payload) ==
  LET syn == (flags \div SYN) % 2 = 1
      len == (IF syn THEN 24 ELSE 20) + Len(payload)
      ip == IPHeader(20 + len, 6, key.remote_ip, key.local_ip)
      tcp == Two(key.remote_port) \o Two(key.local_port) \o Four(seq) \o Four(ack)
               \o <<16 * (IF syn THEN 6 ELSE 5), flags, 250, 240, 0, 0, 0, 0>>
               \o (IF syn THEN <<2, 4, 5, 180>> ELSE <<>>) \o payload
      pseudo == Even(Pseudo(key.remote_ip, key.local_ip, len) \o tcp)
  IN  Store(ip, 11, checksum(ip)) \o Store(tcp, 17, checksum(pseudo))

(* buildUDPPacket(): both checksums are left zero.                         *)
buildUDPPacket(src, sport, dst, dport, payload) ==
  IPHeader(28 + Len(payload), 17, src, dst)
    \o Two(sport) \o Two(dport) \o Two((8 + Len(payload)) % Base) \o <<0, 0>> \o payload

-----------------------------------------------------------------------------
(* handle_ipv4_packet(): what it takes from a TCP packet.  The ports are   *)
(* read behind a header of 20 bytes, everything else behind the header the *)
(* packet has.                                                             *)
HeaderLen(p) == 4 * (p[1] % 16)

(* Mutant: the options of the client's TCP are taken for data.             *)
TCPHeaderLenFixed(p) == 20

TCPHeaderLen(p) == 4 * (p[HeaderLen(p) + 13] \div 16)

IsTCP(p) == Len(p) >= 20 /\ p[1] \div 16 = 4 /\ p[10] = 6

ParseTCP(p) ==
  LET ihl == HeaderLen(p)
      start == ihl + TCPHeaderLen(p)
  IN  [key |-> [local_ip |-> SubSeq(p, 13, 16), remote_ip |-> SubSeq(p, 17, 20),
                local_port |-> At(p, 21), remote_port |-> At(p, 23)],
       flags |-> p[ihl + 14],
       seq |-> <<At(p, ihl + 5), At(p, ihl + 7)>>,
       payload |-> SubSeq(p, start + 1, At(p, 3))]

(* A UDP packet whose payload lies inside it; other packets to port 53,    *)
(* and all to other ports, are dropped.  A stated length below 8 is left   *)
(* out: the code's payloadLen would wrap (packet_processor.cpp:266-268),   *)
(* but no stack states one, and nothing here is asked of such a packet.    *)
IsDNS(p) ==
  /\ Len(p) >= HeaderLen(p) + 8
  /\ p[1] \div 16 = 4
  /\ p[10] = 17
  /\ At(p, HeaderLen(p) + 3) = 53
  /\ HeaderLen(p) + At(p, HeaderLen(p) + 5) <= Len(p)

ParseUDP(p) ==
  LET ihl == HeaderLen(p)
  IN  [src |-> SubSeq(p, 13, 16), dst |-> SubSeq(p, 17, 20),
       sport |-> At(p, ihl + 1), dport |-> At(p, ihl + 3),
       payload |-> SubSeq(p, ihl + 9, ihl + At(p, ihl + 5))]
=============================================================================
