----------------------- MODULE PacketProcessorProofs -----------------------
(***************************************************************************)
(* The stream table: what each connection's stream, connect threads and    *)
(* packets under way are to each other, for any number of keys,            *)
(* connections and packets, and whatever fails.                            *)
(*                                                                         *)
(* The packets under way matter as sets, From and Held, and by the order   *)
(* they are in.                                                            *)
(***************************************************************************)
EXTENDS PacketProcessor, SequenceTheorems, FiniteSetTheorems, TLAPS

Position == [gen : Nat, off : Nat]

StreamRecords ==
  [connected : BOOLEAN, connecting : BOOLEAN,
   state : {"Listen", "SynReceived", "Established", "Closed"},
   client_seq : Position, vpn_seq : Nat, socks : [id : Nat, read : Nat], idle : 0..2]

PacketsIn ==
  [key : Keys, kind : {"syn", "ack", "rst", "data", "fin"}, gen : 1..MaxGen, unit : Nat]

PacketsOut ==
  [kind : {"synack", "ack", "finack", "data"}, seq : Int, ack : Position, unit : Nat \X Nat]

ClientRecords ==
  [phase : {"closed", "synSent"} \cup Open, gen : 0..MaxGen, sent : Nat, una : Nat,
   rcv : Int, from : Nat, intact : BOOLEAN]

Attempts == [id : Nat, gen : 1..MaxGen]

WireType ==
  /\ inbound \in Seq(PacketsIn)
  /\ outbound \in [Keys -> Seq(PacketsOut)]
  /\ client \in [Keys -> ClientRecords]
  /\ \A k \in Keys : /\ client[k].phase # "closed" => client[k].gen > 0
                     /\ Len(outbound[k]) <= MaxQueue

DaemonType ==
  /\ streams \in [Keys -> StreamRecords \cup {NoStream}]
  /\ attempts \in [Keys -> SUBSET Attempts]
  /\ attemptId \in 0..MaxAttempts
  /\ loop \in {"read", "send", "clean"}
  /\ responses \in [Keys -> Seq(Nat \X Nat)]

HistoryType ==
  /\ finSent \in [Keys -> BOOLEAN]
  /\ forwarded \in [Keys -> SUBSET (Nat \X Nat \X Nat)]
  /\ carried \in [Keys -> SUBSET Nat]
  /\ twice \in [Keys -> BOOLEAN]

TypeInv == WireType /\ DaemonType /\ HistoryType

-----------------------------------------------------------------------------
(* Lemmas about the helpers of the model.                                  *)

LEMMA Bounds ==
  /\ MaxGen \in Nat /\ MaxGen > 0 /\ MaxUp \in Nat /\ MaxDown \in Nat
  /\ MaxRead \in Nat /\ MaxRead > 0 /\ MaxAttempts \in Nat /\ MaxAttempts > 0
  /\ MaxQueue \in Nat /\ MaxQueue > 0
  BY PpAssumption

LEMMA NoStreamIsNone ==
  NoStream \notin StreamRecords /\ NoStream.state = "none"
<1>1. ASSUME NEW s \in StreamRecords PROVE s.state # "none"
  BY DEF StreamRecords
<1>2. NoStream.state = "none"
  BY DEF NoStream
<1> QED BY <1>1, <1>2

LEMMA FreshIsStream == FreshStream \in StreamRecords
  BY DEF FreshStream, StreamRecords, Position, NoSocket

Exists(k) == streams[k] # NoStream

LEMMA StreamIsNoneOrRecord ==
  ASSUME DaemonType, NEW k \in Keys
  PROVE  IF Exists(k) THEN streams[k] \in StreamRecords /\ streams[k].state # "none"
         ELSE streams[k].state = "none"
  BY NoStreamIsNone DEF DaemonType, Exists, StreamRecords

(* A stream that is looked up keeps all it has, and a new one has nothing. *)
LEMMA TouchedIsStream ==
  ASSUME DaemonType, NEW k \in Keys
  PROVE  /\ Touched(k) \in StreamRecords
         /\ Exists(k) => Touched(k) = [streams[k] EXCEPT !.idle = 0]
         /\ ~Exists(k) => Touched(k) = FreshStream
<1>1. CASE Exists(k)
  BY <1>1, StreamIsNoneOrRecord DEF Touched, Exists, StreamRecords
<1>2. CASE ~Exists(k)
  <2>1. Touched(k) = FreshStream
    <3>1. Touched(k) = [FreshStream EXCEPT !.idle = 0]
      BY <1>2 DEF Touched, Exists
    <3>2. FreshStream.idle = 0
      BY DEF FreshStream
    <3>3. [FreshStream EXCEPT !.idle = 0] = FreshStream
      BY <3>2, FreshIsStream DEF StreamRecords
    <3> QED BY <3>1, <3>3
  <2> QED BY <1>2, <2>1, FreshIsStream
<1> QED BY <1>1, <1>2

LEMMA PutStream ==
  ASSUME DaemonType, NEW k \in Keys, NEW s \in StreamRecords, Put(k, s)
  PROVE  /\ streams' \in [Keys -> StreamRecords \cup {NoStream}]
         /\ streams'[k] = s
         /\ \A j \in Keys : j # k => streams'[j] = streams[j]
  BY DEF Put, DaemonType

(* What a send() appends is a subsequence of what it was given, and fits.  *)
LEMMA SendAppends ==
  ASSUME WireType, NEW k \in Keys, NEW packets \in Seq(PacketsOut), Send(k, packets)
  PROVE  /\ outbound' \in [Keys -> Seq(PacketsOut)]
         /\ \A j \in Keys : j # k => outbound'[j] = outbound[j]
         /\ Len(outbound'[k]) <= MaxQueue
         /\ \E rest \in Seq(PacketsOut) :
              /\ outbound'[k] = outbound[k] \o rest
              /\ Len(rest) <= Len(packets)
              /\ \A i \in DOMAIN rest : \E p \in DOMAIN packets : rest[i] = packets[p]
<1>0. PICK n \in 0..Len(packets) : \E place \in [1..n -> 1..Len(packets)] :
        /\ Len(outbound[k]) + n <= MaxQueue
        /\ outbound' = [outbound EXCEPT ![k] = @ \o [i \in 1..n |-> packets[place[i]]]]
  BY DEF Send
<1>1. PICK place \in [1..n -> 1..Len(packets)] :
        /\ Len(outbound[k]) + n <= MaxQueue
        /\ outbound' = [outbound EXCEPT ![k] = @ \o [i \in 1..n |-> packets[place[i]]]]
  BY <1>0
<1> DEFINE rest == [i \in 1..n |-> packets[place[i]]]
           L == Len(packets)
<1>2. L \in Nat /\ DOMAIN packets = 1..L /\ n \in Nat /\ n <= L
  BY LenProperties
<1>3. rest \in [1..n -> PacketsOut]
  BY <1>2, ElementOfSeq
<1>4. rest \in Seq(PacketsOut) /\ Len(rest) = n /\ DOMAIN rest = 1..n
  BY <1>2, <1>3
<1>5. \A i \in DOMAIN rest : \E p \in DOMAIN packets : rest[i] = packets[p]
  BY <1>2, <1>4
<1> HIDE DEF rest
<1>6. outbound' = [outbound EXCEPT ![k] = outbound[k] \o rest]
  BY <1>1 DEF rest
<1>7. outbound[k] \in Seq(PacketsOut)
  BY DEF WireType
<1>8. outbound[k] \o rest \in Seq(PacketsOut) /\ Len(outbound[k] \o rest) = Len(outbound[k]) + n
  BY <1>4, <1>7, ConcatProperties
<1>9. /\ outbound' \in [Keys -> Seq(PacketsOut)] /\ outbound'[k] = outbound[k] \o rest
      /\ \A j \in Keys : j # k => outbound'[j] = outbound[j]
  BY <1>6, <1>8 DEF WireType
<1> QED BY <1>1, <1>2, <1>4, <1>5, <1>8, <1>9
-----------------------------------------------------------------------------
(* The steps keep the types.                                               *)

LEMMA ArrivesTakes ==
  ASSUME WireType, NEW k \in Keys, NEW kind, Arrives(k, kind)
  PROVE  /\ Head(inbound) \in PacketsIn
         /\ Head(inbound).key = k /\ Head(inbound).kind = kind
         /\ Head(inbound).gen \in 1..MaxGen /\ Head(inbound).unit \in Nat
         /\ inbound' \in Seq(PacketsIn)
<1>1. inbound \in Seq(PacketsIn) /\ inbound # <<>> /\ inbound' = Tail(inbound)
  BY DEF WireType, Arrives
<1>2. Head(inbound) \in PacketsIn /\ Tail(inbound) \in Seq(PacketsIn)
  BY <1>1
<1> QED BY <1>1, <1>2 DEF Arrives, PacketsIn

LEMMA SegmentIsPacket ==
  ASSUME NEW kind \in {"synack", "ack", "finack", "data"}, NEW seq \in Int, NEW ack \in Position
  PROVE  /\ Segment(kind, seq, ack) \in PacketsOut
         /\ Segment(kind, seq, ack).kind = kind /\ Segment(kind, seq, ack).seq = seq
         /\ Segment(kind, seq, ack).ack = ack
         /\ <<Segment(kind, seq, ack)>> \in Seq(PacketsOut)
<1>1. Segment(kind, seq, ack) \in PacketsOut
  BY DEF Segment, PacketsOut
<1> QED BY <1>1 DEF Segment

LEMMA OffsetIsPosition ==
  ASSUME NEW gen \in Nat, NEW off \in Nat
  PROVE  Offset(gen, off) \in Position /\ Offset(gen, off).gen = gen /\ Offset(gen, off).off = off
  BY DEF Offset, Position

(* The sequence numbers written with a packet are those of a stream.       *)
LEMMA SendOfSegment ==
  ASSUME WireType, NEW k \in Keys, NEW p \in PacketsOut, Send(k, <<p>>)
  PROVE  /\ outbound' \in [Keys -> Seq(PacketsOut)]
         /\ \A j \in Keys : Len(outbound'[j]) <= MaxQueue
<1>1. <<p>> \in Seq(PacketsOut)
  OBVIOUS
<1> QED BY <1>1, SendAppends DEF WireType

LEMMA HandleSynType ==
  ASSUME TypeInv, NEW k \in Keys, HandleSyn(k)
  PROVE  TypeInv'
<1> DEFINE s == Touched(k)
<1> USE DEF TypeInv
<1>1. s \in StreamRecords
  BY TouchedIsStream
<1>2. Head(inbound).gen \in 1..MaxGen /\ inbound' \in Seq(PacketsIn)
  BY ArrivesTakes DEF HandleSyn
<1>3. UNCHANGED <<loop, responses, client, finSent, forwarded>>
  BY DEF HandleSyn
<1> HIDE DEF s
<1>4. CASE /\ RepeatsSyn(s) /\ Put(k, s)
           /\ Send(k, <<SynAck(s.vpn_seq - 1, s.client_seq)>>)
           /\ UNCHANGED <<attempts, attemptId, carried, twice>>
  <2>1. SynAck(s.vpn_seq - 1, s.client_seq) \in PacketsOut
    BY <1>1, SegmentIsPacket DEF SynAck, StreamRecords
  <2>2. outbound' \in [Keys -> Seq(PacketsOut)] /\ \A j \in Keys : Len(outbound'[j]) <= MaxQueue
    BY <1>4, <2>1, SendOfSegment
  <2>3. WireType'
    BY <1>2, <1>3, <2>2 DEF WireType
  <2>4. DaemonType'
    BY <1>1, <1>3, <1>4, PutStream DEF DaemonType
  <2> QED BY <1>3, <1>4, <2>3, <2>4 DEF HistoryType
<1>5. CASE /\ Put(k, s)
           /\ UNCHANGED <<attempts, attemptId, outbound, carried, twice>>
  <2>1. WireType'
    BY <1>2, <1>3, <1>5 DEF WireType
  <2>2. DaemonType'
    BY <1>1, <1>3, <1>5, PutStream DEF DaemonType
  <2> QED BY <1>3, <1>5, <2>1, <2>2 DEF HistoryType
<1>6. CASE /\ attemptId < MaxAttempts
           /\ Put(k, [s EXCEPT !.connecting = TRUE])
           /\ attemptId' = attemptId + 1
           /\ attempts' = [attempts EXCEPT
                ![k] = @ \cup {[id |-> attemptId + 1, gen |-> Head(inbound).gen]}]
           /\ carried' = [carried EXCEPT ![k] = @ \cup {Head(inbound).gen}]
           /\ twice' = [twice EXCEPT ![k] =
                @ \/ (s.state = "Listen" /\ (Head(inbound).gen \in carried[k] \/ attempts[k] # {}))]
           /\ UNCHANGED outbound
  <2>1. WireType'
    BY <1>2, <1>3, <1>6 DEF WireType
  <2>2. [s EXCEPT !.connecting = TRUE] \in StreamRecords
    BY <1>1 DEF StreamRecords
  <2>3. streams' \in [Keys -> StreamRecords \cup {NoStream}]
    BY <1>6, <2>2, PutStream
  <2>4. attemptId' \in 0..MaxAttempts
    BY <1>6, Bounds DEF DaemonType
  <2>5. attempts' \in [Keys -> SUBSET Attempts]
    <3>1. [id |-> attemptId + 1, gen |-> Head(inbound).gen] \in Attempts
      BY <1>2, Bounds DEF DaemonType, Attempts
    <3> QED BY <1>6, <3>1 DEF DaemonType
  <2>6. DaemonType'
    BY <1>3, <2>3, <2>4, <2>5 DEF DaemonType
  <2>7. carried' \in [Keys -> SUBSET Nat]
    BY <1>2, <1>6, Bounds DEF HistoryType
  <2>8. twice' \in [Keys -> BOOLEAN]
    BY <1>6 DEF HistoryType
  <2> QED BY <1>3, <2>1, <2>6, <2>7, <2>8 DEF HistoryType
<1> QED BY <1>4, <1>5, <1>6 DEF HandleSyn, s

LEMMA HandleAckType ==
  ASSUME TypeInv, NEW k \in Keys, HandleAck(k)
  PROVE  TypeInv'
<1> DEFINE s == Touched(k)
<1> USE DEF TypeInv
<1>1. s \in StreamRecords
  BY TouchedIsStream
<1>2. inbound' \in Seq(PacketsIn)
  BY ArrivesTakes DEF HandleAck
<1>3. UNCHANGED <<attempts, attemptId, loop, responses, outbound, client, historyVars>>
  BY DEF HandleAck
<1>4. [s EXCEPT !.state = "Established"] \in StreamRecords
  BY <1>1 DEF StreamRecords
<1>5. Put(k, [s EXCEPT !.state = "Established"]) \/ Put(k, s)
  BY DEF HandleAck
<1> HIDE DEF s
<1>6. streams' \in [Keys -> StreamRecords \cup {NoStream}]
  BY <1>1, <1>4, <1>5, PutStream
<1>7. WireType'
  BY <1>2, <1>3 DEF WireType
<1>8. DaemonType'
  BY <1>3, <1>6 DEF DaemonType
<1>9. HistoryType'
  BY <1>3 DEF HistoryType, historyVars
<1> QED BY <1>7, <1>8, <1>9

LEMMA HandleDataType ==
  ASSUME TypeInv, NEW k \in Keys, HandleData(k)
  PROVE  TypeInv'
<1> DEFINE p == Head(inbound)
           s == [Touched(k) EXCEPT !.client_seq = Offset(p.gen, p.unit + 1)]
<1> USE DEF TypeInv
<1>1. p.gen \in 1..MaxGen /\ p.unit \in Nat /\ inbound' \in Seq(PacketsIn)
  BY ArrivesTakes DEF HandleData
<1>2. s \in StreamRecords
  <2>1. Offset(p.gen, p.unit + 1) \in Position
    BY <1>1, Bounds, OffsetIsPosition
  <2> QED BY <2>1, TouchedIsStream DEF StreamRecords
<1>3. /\ Put(k, s)
      /\ Send(k, <<Segment("ack", s.vpn_seq, s.client_seq)>>)
      /\ \/ forwarded' = [forwarded EXCEPT ![k] = @ \cup {<<p.gen, p.unit, s.socks.id>>}]
         \/ UNCHANGED forwarded
      /\ UNCHANGED <<attempts, attemptId, loop, responses, client, finSent, carried, twice>>
  BY DEF HandleData
<1> HIDE DEF s, p
<1>4. Segment("ack", s.vpn_seq, s.client_seq) \in PacketsOut
  BY <1>2, SegmentIsPacket DEF StreamRecords
<1>5. WireType'
  BY <1>1, <1>3, <1>4, SendOfSegment DEF WireType
<1>6. DaemonType'
  BY <1>2, <1>3, PutStream DEF DaemonType
<1>7. forwarded' \in [Keys -> SUBSET (Nat \X Nat \X Nat)]
  <2>1. <<p.gen, p.unit, s.socks.id>> \in Nat \X Nat \X Nat
    BY <1>1, <1>2, Bounds DEF StreamRecords
  <2> QED BY <1>3, <2>1 DEF HistoryType
<1>8. HistoryType'
  BY <1>3, <1>7 DEF HistoryType
<1> QED BY <1>5, <1>6, <1>8

LEMMA HandleFinType ==
  ASSUME TypeInv, NEW k \in Keys, HandleFin(k)
  PROVE  TypeInv'
<1> DEFINE p == Head(inbound)
           s == [Touched(k) EXCEPT !.client_seq = Offset(p.gen, p.unit + 1), !.state = "Closed"]
<1> USE DEF TypeInv
<1>1. p.gen \in 1..MaxGen /\ p.unit \in Nat /\ inbound' \in Seq(PacketsIn)
  BY ArrivesTakes DEF HandleFin
<1>2. s \in StreamRecords
  <2>1. Offset(p.gen, p.unit + 1) \in Position
    BY <1>1, Bounds, OffsetIsPosition
  <2> QED BY <2>1, TouchedIsStream DEF StreamRecords
<1>3. /\ Send(k, <<Segment("finack", s.vpn_seq, s.client_seq)>>)
      /\ Put(k, [s EXCEPT !.vpn_seq = @ + 1])
      /\ finSent' = [finSent EXCEPT ![k] = TRUE]
      /\ UNCHANGED <<attempts, attemptId, loop, responses, client, forwarded, carried, twice>>
  BY DEF HandleFin
<1> HIDE DEF s, p
<1>4. Segment("finack", s.vpn_seq, s.client_seq) \in PacketsOut
  BY <1>2, SegmentIsPacket DEF StreamRecords
<1>5. [s EXCEPT !.vpn_seq = @ + 1] \in StreamRecords
  BY <1>2 DEF StreamRecords
<1>6. WireType'
  BY <1>1, <1>3, <1>4, SendOfSegment DEF WireType
<1>7. DaemonType'
  BY <1>3, <1>5, PutStream DEF DaemonType
<1>8. HistoryType'
  BY <1>3 DEF HistoryType
<1> QED BY <1>6, <1>7, <1>8

LEMMA ConnectFailedType ==
  ASSUME TypeInv, NEW k \in Keys, NEW a \in attempts[k], ConnectFailed(k, a)
  PROVE  TypeInv'
<1> USE DEF TypeInv
<1>1. /\ attempts' = [attempts EXCEPT ![k] = @ \ {a}]
      /\ carried' = [carried EXCEPT ![k] = @ \ {a.gen}]
      /\ UNCHANGED <<attemptId, loop, responses, inbound, outbound, client, finSent,
                     forwarded, twice>>
  BY DEF ConnectFailed
<1>2. streams' \in [Keys -> StreamRecords \cup {NoStream}]
  <2>1. CASE streams[k] = NoStream
    BY <2>1 DEF ConnectFailed, DaemonType
  <2>2. CASE streams[k] # NoStream
    <3>1. [streams[k] EXCEPT !.connecting = FALSE] \in StreamRecords
      BY <2>2 DEF DaemonType, StreamRecords
    <3>2. Put(k, [streams[k] EXCEPT !.connecting = FALSE])
      BY <2>2 DEF ConnectFailed
    <3> QED BY <3>1, <3>2, PutStream
  <2> QED BY <2>1, <2>2
<1>3. WireType'
  BY <1>1 DEF WireType
<1>4. attempts' \in [Keys -> SUBSET Attempts]
  BY <1>1 DEF DaemonType
<1>5. DaemonType'
  BY <1>1, <1>2, <1>4 DEF DaemonType
<1>6. carried' \in [Keys -> SUBSET Nat]
  BY <1>1 DEF HistoryType
<1>7. HistoryType'
  BY <1>1, <1>6 DEF HistoryType
<1> QED BY <1>3, <1>5, <1>7

LEMMA TakenOverIsStream ==
  ASSUME NEW s \in StreamRecords, NEW a \in Attempts
  PROVE  /\ TakenOver(s, a) \in StreamRecords
         /\ TakenOver(s, a).connected = TRUE /\ TakenOver(s, a).connecting = FALSE
         /\ TakenOver(s, a).socks = [id |-> a.id, read |-> 0]
         /\ TakenOver(s, a).client_seq = Offset(a.gen, 1)
         /\ TakenOver(s, a).vpn_seq = Iss + 1 /\ TakenOver(s, a).state = "SynReceived"
<1>1. Offset(a.gen, 1) \in Position
  BY Bounds, OffsetIsPosition DEF Attempts
<1>2. [NoSocket EXCEPT !.id = a.id] = [id |-> a.id, read |-> 0]
  BY DEF NoSocket
<1>3. [id |-> a.id, read |-> 0] \in [id : Nat, read : Nat]
  BY DEF Attempts
<1>4. Iss + 1 \in Nat
  BY DEF Iss
<1> QED BY <1>1, <1>2, <1>3, <1>4 DEF TakenOver, StreamRecords

LEMMA ConnectedType ==
  ASSUME TypeInv, NEW k \in Keys, NEW a \in attempts[k], Connected(k, a)
  PROVE  TypeInv'
<1> USE DEF TypeInv
<1>1. /\ attempts' = [attempts EXCEPT ![k] = @ \ {a}]
      /\ UNCHANGED <<attemptId, loop, responses, inbound, client, forwarded, carried, twice>>
  BY DEF Connected
<1>2. attempts' \in [Keys -> SUBSET Attempts] /\ a \in Attempts
  BY <1>1 DEF DaemonType
<1>3. CASE UNCHANGED <<streams, outbound, finSent>>
  <2>1. WireType'
    BY <1>1, <1>3 DEF WireType
  <2>2. DaemonType'
    BY <1>1, <1>2, <1>3 DEF DaemonType
  <2>3. HistoryType'
    BY <1>1, <1>3 DEF HistoryType
  <2> QED BY <2>1, <2>2, <2>3
<1>4. CASE /\ streams[k] # NoStream
           /\ Put(k, TakenOver(streams[k], a))
           /\ Send(k, <<SynAck(Iss, Offset(a.gen, 1))>>)
           /\ finSent' = [finSent EXCEPT ![k] = FALSE]
  <2>1. TakenOver(streams[k], a) \in StreamRecords
    BY <1>2, <1>4, TakenOverIsStream DEF DaemonType
  <2>2. SynAck(Iss, Offset(a.gen, 1)) \in PacketsOut
    <3>1. Iss \in Int /\ Offset(a.gen, 1) \in Position
      BY <1>2, Bounds, OffsetIsPosition DEF Iss, Attempts
    <3> QED BY <3>1, SegmentIsPacket DEF SynAck
  <2>3. WireType'
    BY <1>1, <1>4, <2>2, SendOfSegment DEF WireType
  <2>4. DaemonType'
    BY <1>1, <1>2, <1>4, <2>1, PutStream DEF DaemonType
  <2>5. HistoryType'
    BY <1>1, <1>4 DEF HistoryType
  <2> QED BY <2>3, <2>4, <2>5
<1> QED BY <1>3, <1>4 DEF Connected

LEMMA ReadableIsStream ==
  ASSUME DaemonType, NEW k \in Keys, Readable(k)
  PROVE  streams[k] \in StreamRecords /\ streams[k].connected /\ streams[k].state # "Closed"
  BY DEF Readable, DaemonType

(* What a read and a response make of a stream.                            *)
LEMMA ActiveIsStream ==
  ASSUME NEW s \in StreamRecords
  PROVE  LET t == [s EXCEPT !.idle = 0] IN
         /\ t \in StreamRecords
         /\ t.connected = s.connected /\ t.connecting = s.connecting /\ t.state = s.state
         /\ t.client_seq = s.client_seq /\ t.vpn_seq = s.vpn_seq /\ t.socks = s.socks
  BY DEF StreamRecords

LEMMA ReadIsStream ==
  ASSUME NEW s \in StreamRecords, NEW n \in Nat
  PROVE  LET t == [s EXCEPT !.idle = 0, !.socks.read = @ + n] IN
         /\ t \in StreamRecords
         /\ t.connected = s.connected /\ t.connecting = s.connecting /\ t.state = s.state
         /\ t.client_seq = s.client_seq /\ t.vpn_seq = s.vpn_seq
         /\ t.socks.id = s.socks.id /\ t.socks.read = s.socks.read + n
<1> DEFINE v == s.socks.read + n
           sock == [s.socks EXCEPT !.read = v]
           t == [s EXCEPT !.idle = 0, !.socks.read = v]
<1>1. v \in Nat
  BY DEF StreamRecords
<1> DEFINE u == [s EXCEPT !.idle = 0]
<1>2. /\ u \in StreamRecords
      /\ u.connected = s.connected /\ u.connecting = s.connecting /\ u.state = s.state
      /\ u.client_seq = s.client_seq /\ u.vpn_seq = s.vpn_seq /\ u.socks = s.socks
  BY ActiveIsStream
<1>3. t = [u EXCEPT !.socks = sock]
  BY <1>2
<1> HIDE DEF v
<1>4. sock \in [id : Nat, read : Nat] /\ sock.id = s.socks.id /\ sock.read = v
  BY <1>1 DEF StreamRecords
<1> HIDE DEF sock, u, t
<1>5. /\ t \in StreamRecords
      /\ t.connected = u.connected /\ t.connecting = u.connecting /\ t.state = u.state
      /\ t.client_seq = u.client_seq /\ t.vpn_seq = u.vpn_seq /\ t.socks = sock
  BY <1>2, <1>3, <1>4 DEF StreamRecords
<1> QED BY <1>2, <1>4, <1>5 DEF v, t

LEMMA AdvancedIsStream ==
  ASSUME NEW s \in StreamRecords, NEW n \in Nat
  PROVE  LET t == [s EXCEPT !.vpn_seq = @ + n, !.idle = 0] IN
         /\ t \in StreamRecords
         /\ t.connected = s.connected /\ t.connecting = s.connecting /\ t.state = s.state
         /\ t.client_seq = s.client_seq /\ t.vpn_seq = s.vpn_seq + n /\ t.socks = s.socks
<1> DEFINE v == s.vpn_seq + n
           t == [s EXCEPT !.vpn_seq = v, !.idle = 0]
<1>1. v \in Nat
  BY DEF StreamRecords
<1> HIDE DEF v
<1> DEFINE u == [s EXCEPT !.vpn_seq = v]
<1>2. /\ u \in StreamRecords
      /\ u.connected = s.connected /\ u.connecting = s.connecting /\ u.state = s.state
      /\ u.client_seq = s.client_seq /\ u.vpn_seq = v /\ u.socks = s.socks
  BY <1>1 DEF StreamRecords
<1>3. t = [u EXCEPT !.idle = 0]
  OBVIOUS
<1> HIDE DEF u, t
<1> QED BY <1>2, <1>3, ActiveIsStream DEF t, v

(* What one turn of reading does to one stream: an error closes it, n      *)
(* segments are read of it, or nothing.                                    *)
ReadsError(k) ==
  /\ Readable(k)
  /\ streams'[k] = [streams[k] EXCEPT !.state = "Closed"]
  /\ responses'[k] = <<>>

Reads(k, n) ==
  /\ Readable(k)
  /\ streams'[k] = [streams[k] EXCEPT !.idle = 0, !.socks.read = @ + n]
  /\ responses'[k] = [i \in 1..n |-> <<streams[k].socks.id, streams[k].socks.read + i>>]

ReadsNothing(k) == streams'[k] = streams[k] /\ responses'[k] = <<>>

LEMMA ReadSocketsOf ==
  ASSUME TypeInv, ReadSockets
  PROVE  /\ loop = "read" /\ loop' = "send"
         /\ UNCHANGED <<attempts, attemptId, inbound, outbound, client, historyVars>>
         /\ streams' = [k \in Keys |-> streams'[k]] /\ responses' = [k \in Keys |-> responses'[k]]
         /\ \A k \in Keys :
              ReadsError(k) \/ (\E n \in Nat : n > 0 /\ Reads(k, n)) \/ ReadsNothing(k)
<1>0. PICK gone \in SUBSET {k \in Keys : Readable(k)} : \E n \in [Keys -> 0..MaxRead] :
    /\ loop = "read"
    /\ \A k \in Keys :
         n[k] > 0 => /\ Readable(k) /\ k \notin gone
                     /\ streams[k].socks.read + n[k] <= MaxDown
    /\ streams' = [k \in Keys |->
         IF k \in gone THEN [streams[k] EXCEPT !.state = "Closed"]
         ELSE IF n[k] > 0 THEN [streams[k] EXCEPT !.idle = 0, !.socks.read = @ + n[k]]
         ELSE streams[k]]
    /\ responses' = [k \in Keys |->
         [i \in 1..n[k] |-> <<streams[k].socks.id, streams[k].socks.read + i>>]]
    /\ loop' = "send"
    /\ UNCHANGED <<attempts, attemptId, inbound, outbound, client, historyVars>>
  BY DEF ReadSockets
<1>1. PICK n \in [Keys -> 0..MaxRead] :
    /\ loop = "read"
    /\ \A k \in Keys :
         n[k] > 0 => /\ Readable(k) /\ k \notin gone
                     /\ streams[k].socks.read + n[k] <= MaxDown
    /\ streams' = [k \in Keys |->
         IF k \in gone THEN [streams[k] EXCEPT !.state = "Closed"]
         ELSE IF n[k] > 0 THEN [streams[k] EXCEPT !.idle = 0, !.socks.read = @ + n[k]]
         ELSE streams[k]]
    /\ responses' = [k \in Keys |->
         [i \in 1..n[k] |-> <<streams[k].socks.id, streams[k].socks.read + i>>]]
    /\ loop' = "send"
    /\ UNCHANGED <<attempts, attemptId, inbound, outbound, client, historyVars>>
  BY <1>0
<1>2. streams' = [k \in Keys |-> streams'[k]] /\ responses' = [k \in Keys |-> responses'[k]]
  BY <1>1
<1>3. ASSUME NEW k \in Keys
      PROVE  ReadsError(k) \/ (\E m \in Nat : m > 0 /\ Reads(k, m)) \/ ReadsNothing(k)
  <2>1. n[k] \in Nat /\ (k \in gone => Readable(k)) /\ (n[k] > 0 => Readable(k) /\ k \notin gone)
    <3>1. n[k] \in Nat
      BY Bounds
    <3>2. k \in gone => Readable(k)
      BY <1>0
    <3>3. n[k] > 0 => Readable(k) /\ k \notin gone
      BY <1>1
    <3> QED BY <3>1, <3>2, <3>3
  <2>2. responses'[k] = [i \in 1..n[k] |-> <<streams[k].socks.id, streams[k].socks.read + i>>]
    BY <1>1
  <2>3. ~(n[k] > 0) => responses'[k] = <<>>
    BY <2>1, <2>2
  <2>4. CASE k \in gone
    <3>1. streams'[k] = [streams[k] EXCEPT !.state = "Closed"]
      BY <1>1, <2>4
    <3> QED BY <2>1, <2>3, <2>4, <3>1 DEF ReadsError
  <2>5. CASE k \notin gone /\ n[k] > 0
    <3>1. streams'[k] = [streams[k] EXCEPT !.idle = 0, !.socks.read = @ + n[k]]
      BY <1>1, <2>5
    <3>2. Reads(k, n[k])
      BY <2>1, <2>2, <2>5, <3>1 DEF Reads
    <3> QED BY <2>1, <2>5, <3>2
  <2>6. CASE k \notin gone /\ ~(n[k] > 0)
    <3>1. streams'[k] = streams[k]
      BY <1>1, <2>6
    <3> QED BY <2>3, <2>6, <3>1 DEF ReadsNothing
  <2> QED BY <2>4, <2>5, <2>6
<1> QED BY <1>1, <1>2, <1>3

LEMMA ReadSocketsType ==
  ASSUME TypeInv, ReadSockets
  PROVE  TypeInv'
<1> USE DEF TypeInv
<1>1. /\ loop' = "send"
      /\ UNCHANGED <<attempts, attemptId, inbound, outbound, client, historyVars>>
      /\ streams' = [k \in Keys |-> streams'[k]] /\ responses' = [k \in Keys |-> responses'[k]]
  BY ReadSocketsOf
<1>2. ASSUME NEW k \in Keys
      PROVE  streams'[k] \in StreamRecords \cup {NoStream} /\ responses'[k] \in Seq(Nat \X Nat)
  <2>1. CASE ReadsError(k)
    <3>1. streams[k] \in StreamRecords
      BY <2>1, ReadableIsStream DEF ReadsError
    <3>2. [streams[k] EXCEPT !.state = "Closed"] \in StreamRecords
      BY <3>1 DEF StreamRecords
    <3> QED BY <2>1, <3>2 DEF ReadsError
  <2>2. CASE \E n \in Nat : n > 0 /\ Reads(k, n)
    <3>1. PICK n \in Nat : Reads(k, n)
      BY <2>2
    <3>2. streams[k] \in StreamRecords
      BY <3>1, ReadableIsStream DEF Reads
    <3>3. streams'[k] \in StreamRecords
      BY <3>1, <3>2, ReadIsStream DEF Reads
    <3>4. streams[k].socks.id \in Nat /\ streams[k].socks.read \in Nat
      BY <3>2 DEF StreamRecords
    <3>5. responses'[k] \in Seq(Nat \X Nat)
      BY <3>1, <3>4 DEF Reads
    <3> QED BY <3>3, <3>5
  <2>3. CASE ReadsNothing(k)
    BY <2>3 DEF ReadsNothing, DaemonType
  <2> QED BY <2>1, <2>2, <2>3, ReadSocketsOf
<1>3. WireType'
  BY <1>1 DEF WireType
<1>4. DaemonType'
  <2>1. streams' \in [Keys -> StreamRecords \cup {NoStream}]
    BY <1>1, <1>2
  <2>2. responses' \in [Keys -> Seq(Nat \X Nat)]
    BY <1>1, <1>2
  <2> QED BY <1>1, <2>1, <2>2 DEF DaemonType
<1>5. HistoryType'
  BY <1>1 DEF HistoryType, historyVars
<1> QED BY <1>3, <1>4, <1>5

(* The packets a response becomes.                                         *)
Sent(k) ==
  [i \in DOMAIN responses[k] |->
     [Segment("data", streams[k].vpn_seq + i - 1, streams[k].client_seq)
        EXCEPT !.unit = responses[k][i]]]

LEMMA SentArePackets ==
  ASSUME DaemonType, NEW k \in Keys, Exists(k)
  PROVE  /\ Sent(k) \in Seq(PacketsOut)
         /\ Len(Sent(k)) = Len(responses[k])
         /\ DOMAIN Sent(k) = 1..Len(responses[k])
         /\ Len(responses[k]) \in Nat
         /\ \A i \in DOMAIN Sent(k) :
              /\ Sent(k)[i].kind = "data" /\ Sent(k)[i].seq = streams[k].vpn_seq + i - 1
              /\ Sent(k)[i].ack = streams[k].client_seq /\ Sent(k)[i].unit = responses[k][i]
<1> DEFINE L == Len(responses[k])
<1>1. responses[k] \in Seq(Nat \X Nat) /\ L \in Nat /\ DOMAIN responses[k] = 1..L
  BY DEF DaemonType
<1>2. streams[k].vpn_seq \in Nat /\ streams[k].client_seq \in Position
  BY StreamIsNoneOrRecord DEF StreamRecords
<1>3. ASSUME NEW i \in 1..L
      PROVE  /\ Sent(k)[i] \in PacketsOut
             /\ Sent(k)[i].kind = "data" /\ Sent(k)[i].seq = streams[k].vpn_seq + i - 1
             /\ Sent(k)[i].ack = streams[k].client_seq /\ Sent(k)[i].unit = responses[k][i]
  <2>1. responses[k][i] \in Nat \X Nat
    BY <1>1, ElementOfSeq
  <2>2. Sent(k)[i] = [Segment("data", streams[k].vpn_seq + i - 1, streams[k].client_seq)
                        EXCEPT !.unit = responses[k][i]]
    BY <1>1 DEF Sent
  <2>3. streams[k].vpn_seq + i - 1 \in Int
    BY <1>1, <1>2
  <2> QED BY <1>2, <2>1, <2>2, <2>3 DEF Segment, PacketsOut
<1>4. DOMAIN Sent(k) = 1..L /\ Sent(k) = [i \in 1..L |-> Sent(k)[i]]
  BY <1>1 DEF Sent
<1>5. Sent(k) \in [1..L -> PacketsOut]
  BY <1>3, <1>4
<1>6. Sent(k) \in Seq(PacketsOut) /\ Len(Sent(k)) = L
  BY <1>1, <1>4, <1>5
<1> QED BY <1>1, <1>3, <1>4, <1>6

LEMMA RespondType ==
  ASSUME TypeInv, NEW k \in Keys, Respond(k)
  PROVE  TypeInv'
<1> USE DEF TypeInv
<1>1. /\ responses' = [responses EXCEPT ![k] = <<>>]
      /\ UNCHANGED <<attempts, attemptId, loop, inbound, client, historyVars>>
  BY DEF Respond
<1>2. responses' \in [Keys -> Seq(Nat \X Nat)]
  BY <1>1 DEF DaemonType
<1>3. HistoryType'
  BY <1>1 DEF HistoryType, historyVars
<1>4. CASE UNCHANGED <<streams, outbound>>
  <2>1. WireType'
    BY <1>1, <1>4 DEF WireType
  <2>2. DaemonType'
    BY <1>1, <1>2, <1>4 DEF DaemonType
  <2> QED BY <1>3, <2>1, <2>2
<1>5. CASE /\ streams[k].state \notin {"none", "Closed"}
           /\ Send(k, Sent(k))
           /\ Put(k, [streams[k] EXCEPT !.vpn_seq = @ + Len(responses[k]), !.idle = 0])
  <2>1. Exists(k)
    BY <1>5, NoStreamIsNone DEF Exists
  <2>2. Sent(k) \in Seq(PacketsOut) /\ Len(responses[k]) \in Nat /\ streams[k] \in StreamRecords
    BY <2>1, SentArePackets, StreamIsNoneOrRecord
  <2>3. WireType'
    BY <1>1, <1>5, <2>2, SendAppends DEF WireType
  <2>4. [streams[k] EXCEPT !.vpn_seq = @ + Len(responses[k]), !.idle = 0] \in StreamRecords
    BY <2>2, AdvancedIsStream
  <2>5. DaemonType'
    BY <1>1, <1>2, <1>5, <2>4, PutStream DEF DaemonType
  <2> QED BY <1>3, <2>3, <2>5
<1> QED BY <1>4, <1>5 DEF Respond, Sent

LEMMA EndSendingType ==
  ASSUME TypeInv, EndSending
  PROVE  TypeInv'
<1>1. WireType'
  BY DEF EndSending, TypeInv, WireType
<1>2. DaemonType'
  BY DEF EndSending, TypeInv, DaemonType
<1>3. HistoryType'
  BY DEF EndSending, TypeInv, HistoryType, historyVars
<1> QED BY <1>1, <1>2, <1>3 DEF TypeInv

LEMMA CleanupType ==
  ASSUME TypeInv, Cleanup
  PROVE  TypeInv'
<1>1. WireType'
  BY DEF Cleanup, TypeInv, WireType
<1>2. DaemonType'
  BY DEF Cleanup, TypeInv, DaemonType
<1>3. HistoryType'
  BY DEF Cleanup, TypeInv, HistoryType, historyVars
<1> QED BY <1>1, <1>2, <1>3 DEF TypeInv

LEMMA IdleType ==
  ASSUME TypeInv, NEW k \in Keys, Idle(k)
  PROVE  TypeInv'
<1>1. WireType'
  BY DEF Idle, TypeInv, WireType
<1>2. [streams[k] EXCEPT !.idle = @ + 1] \in StreamRecords
  <2>1. streams[k] \in StreamRecords /\ streams[k].idle < 2
    BY DEF Idle, TypeInv, DaemonType
  <2>2. streams[k].idle + 1 \in 0..2
    BY <2>1 DEF StreamRecords
  <2> QED BY <2>1, <2>2 DEF StreamRecords
<1>3. DaemonType'
  BY <1>2, PutStream DEF Idle, TypeInv, DaemonType
<1>4. HistoryType'
  BY DEF Idle, TypeInv, HistoryType, historyVars
<1> QED BY <1>1, <1>3, <1>4 DEF TypeInv

LEMMA PacketIsPacket ==
  ASSUME client' \in [Keys -> ClientRecords], NEW k \in Keys, client'[k].gen > 0,
         NEW kind \in {"syn", "ack", "rst", "data", "fin"}, NEW unit \in Nat
  PROVE  /\ Packet(k, kind, unit) \in PacketsIn
         /\ Packet(k, kind, unit).key = k /\ Packet(k, kind, unit).kind = kind
         /\ Packet(k, kind, unit).gen = client'[k].gen /\ Packet(k, kind, unit).unit = unit
<1>1. client'[k].gen \in 1..MaxGen
  BY Bounds DEF ClientRecords
<1>2. Packet(k, kind, unit) \in PacketsIn
  BY <1>1 DEF Packet, PacketsIn
<1> QED BY <1>2 DEF Packet

LEMMA EmitsAppends ==
  ASSUME WireType, NEW p \in PacketsIn, Emits(<<p>>)
  PROVE  inbound' = Append(inbound, p) /\ inbound' \in Seq(PacketsIn)
<1>1. inbound \in Seq(PacketsIn) /\ inbound' = inbound \o <<p>>
  BY DEF WireType, Emits
<1>2. inbound \o <<p>> = Append(inbound, p)
  BY <1>1, AppendIsConcat
<1> QED BY <1>1, <1>2

(* What a step of the client of one key does: its record changes, and it   *)
(* writes at most one packet, of its connection.                           *)
Writes(k, kinds) ==
  \E p \in PacketsIn :
    /\ inbound' = Append(inbound, p)
    /\ p.key = k /\ p.kind \in kinds /\ p.gen = client'[k].gen

ClientTyped(k) ==
  /\ client' \in [Keys -> ClientRecords]
  /\ client'[k].phase # "closed" => client'[k].gen > 0
  /\ \A j \in Keys : j # k => client'[j] = client[j]

LEMMA ClientOpenStep ==
  ASSUME TypeInv, NEW k \in Keys, ClientOpen(k)
  PROVE  /\ ClientTyped(k)
         /\ client[k].phase = "closed" /\ client'[k].phase = "synSent"
         /\ client'[k].gen = client[k].gen + 1
         /\ client'[k].from = 0 /\ client'[k].intact = client[k].intact
         /\ Writes(k, {"syn"})
<1> DEFINE c == [phase |-> "synSent", gen |-> client[k].gen + 1, sent |-> 0, una |-> 0,
                 rcv |-> 0, from |-> 0, intact |-> client[k].intact]
<1>1. client \in [Keys -> ClientRecords] /\ client[k].gen \in 0..MaxGen
  BY DEF TypeInv, WireType, ClientRecords
<1>2. client[k].gen + 1 \in 1..MaxGen
  BY <1>1, Bounds DEF ClientOpen
<1>3. c \in ClientRecords
  BY <1>1, <1>2, Bounds DEF ClientRecords
<1>4. client' = [client EXCEPT ![k] = c]
  BY DEF ClientOpen
<1>5. /\ client' \in [Keys -> ClientRecords] /\ client'[k] = c
      /\ \A j \in Keys : j # k => client'[j] = client[j]
  <2> HIDE DEF c
  <2> QED BY <1>1, <1>3, <1>4
<1>6. c.gen > 0
  BY <1>2
<1>7. Writes(k, {"syn"})
  BY <1>5, <1>6, PacketIsPacket, EmitsAppends DEF ClientOpen, Writes, TypeInv
<1> QED BY <1>5, <1>6, <1>7 DEF ClientTyped, ClientOpen

LEMMA ClientSendStep ==
  ASSUME TypeInv, NEW k \in Keys, ClientSend(k)
  PROVE  /\ ClientTyped(k)
         /\ client[k].phase = "established" /\ client'[k].phase = "established"
         /\ client'[k].gen = client[k].gen
         /\ client'[k].from = client[k].from /\ client'[k].intact = client[k].intact
         /\ Writes(k, {"data"})
<1>1. client \in [Keys -> ClientRecords] /\ client[k].sent \in Nat /\ client[k].gen > 0
  BY DEF TypeInv, WireType, ClientRecords, ClientSend
<1> DEFINE c == [client[k] EXCEPT !.sent = @ + 1]
<1>2. c \in ClientRecords
  BY <1>1 DEF ClientRecords
<1>3. client' = [client EXCEPT ![k] = c]
  BY <1>1 DEF ClientSend, ClientRecords
<1>4. /\ c.phase = client[k].phase /\ c.gen = client[k].gen /\ c.from = client[k].from
      /\ c.intact = client[k].intact
  BY <1>1 DEF ClientRecords
<1> HIDE DEF c
<1>5. /\ client' \in [Keys -> ClientRecords] /\ client'[k] = c
      /\ \A j \in Keys : j # k => client'[j] = client[j]
  BY <1>1, <1>2, <1>3
<1>6. Packet(k, "data", client[k].sent + 1) \in PacketsIn
      /\ Packet(k, "data", client[k].sent + 1).key = k
      /\ Packet(k, "data", client[k].sent + 1).kind = "data"
      /\ Packet(k, "data", client[k].sent + 1).gen = client'[k].gen
  BY <1>1, <1>4, <1>5, PacketIsPacket
<1>7. Writes(k, {"data"})
  BY <1>6, EmitsAppends DEF ClientSend, Writes, TypeInv
<1> QED BY <1>1, <1>4, <1>5, <1>7 DEF ClientTyped, ClientSend

LEMMA ClientCloseStep ==
  ASSUME TypeInv, NEW k \in Keys, ClientClose(k)
  PROVE  /\ ClientTyped(k)
         /\ client[k].phase \in Open /\ client'[k].phase \in Open
         /\ client'[k].gen = client[k].gen
         /\ client'[k].from = client[k].from /\ client'[k].intact = client[k].intact
         /\ Writes(k, {"fin"})
<1>0. client[k].phase \in Open
  BY DEF ClientClose, Open
<1>1. client \in [Keys -> ClientRecords] /\ client[k].sent \in Nat /\ client[k].gen > 0
  BY <1>0 DEF TypeInv, WireType, ClientRecords, Open
<1>2. PICK ph \in Open : client' = [client EXCEPT ![k].phase = ph]
  BY DEF ClientClose, Open
<1> DEFINE c == [client[k] EXCEPT !.phase = ph]
<1>3. c \in ClientRecords /\ c.phase = ph
  BY <1>1 DEF ClientRecords
<1>4. c.gen = client[k].gen /\ c.from = client[k].from /\ c.intact = client[k].intact
  BY <1>1 DEF ClientRecords
<1>5. client' = [client EXCEPT ![k] = c]
  BY <1>1, <1>2 DEF ClientRecords
<1> HIDE DEF c
<1>6. /\ client' \in [Keys -> ClientRecords] /\ client'[k] = c
      /\ \A j \in Keys : j # k => client'[j] = client[j]
  BY <1>1, <1>3, <1>5
<1>7. Packet(k, "fin", client[k].sent + 1) \in PacketsIn
      /\ Packet(k, "fin", client[k].sent + 1).key = k
      /\ Packet(k, "fin", client[k].sent + 1).kind = "fin"
      /\ Packet(k, "fin", client[k].sent + 1).gen = client'[k].gen
  BY <1>1, <1>4, <1>6, PacketIsPacket
<1>8. Writes(k, {"fin"})
  BY <1>7, EmitsAppends DEF ClientClose, Writes, TypeInv
<1> QED BY <1>0, <1>1, <1>3, <1>4, <1>6, <1>8 DEF ClientTyped

LEMMA ClientRepeatsStep ==
  ASSUME TypeInv, NEW k \in Keys, ClientRepeats(k)
  PROVE  /\ UNCHANGED client
         /\ \/ client[k].phase = "synSent" /\ Writes(k, {"syn"})
            \/ client[k].phase \in Open /\ Writes(k, {"data"})
<1>1. /\ UNCHANGED client /\ client' \in [Keys -> ClientRecords]
      /\ client[k].phase # "closed" => client'[k].gen > 0
      /\ client[k].una \in Nat /\ client[k].sent \in Nat
  BY DEF TypeInv, WireType, ClientRepeats, ClientRecords
<1>2. CASE client[k].phase = "synSent" /\ Emits(<<Packet(k, "syn", 0)>>)
  BY <1>1, <1>2, PacketIsPacket, EmitsAppends DEF Writes, TypeInv
<1>3. CASE /\ client[k].phase \in Open
           /\ \E n \in (client[k].una + 1)..client[k].sent : Emits(<<Packet(k, "data", n)>>)
  <2>1. PICK n \in (client[k].una + 1)..client[k].sent : Emits(<<Packet(k, "data", n)>>)
    BY <1>3
  <2>2. n \in Nat
    BY <1>1
  <2>3. Packet(k, "data", n) \in PacketsIn /\ Packet(k, "data", n).key = k
        /\ Packet(k, "data", n).kind = "data" /\ Packet(k, "data", n).gen = client'[k].gen
    BY <1>1, <1>3, <2>2, PacketIsPacket DEF Open
  <2> QED BY <1>1, <1>3, <2>1, <2>3, EmitsAppends DEF Writes, TypeInv
<1> QED BY <1>1, <1>2, <1>3 DEF ClientRepeats

LEMMA ClientAbortsStep ==
  ASSUME TypeInv, NEW k \in Keys, ClientAborts(k)
  PROVE  /\ ClientTyped(k)
         /\ client[k].phase # "closed" /\ client'[k].phase = "closed"
         /\ client'[k].gen = client[k].gen
         /\ client'[k].from = client[k].from /\ client'[k].intact = client[k].intact
         /\ \/ UNCHANGED inbound
            \/ client[k].phase \in Open /\ Writes(k, {"ack"})
<1>1. client \in [Keys -> ClientRecords] /\ client[k].gen > 0 /\ client[k].phase # "closed"
  BY DEF TypeInv, WireType, ClientAborts
<1> DEFINE c == [client[k] EXCEPT !.phase = "closed"]
<1>2. c \in ClientRecords
  BY <1>1 DEF ClientRecords
<1>3. /\ c.phase = "closed" /\ c.gen = client[k].gen /\ c.from = client[k].from
      /\ c.intact = client[k].intact
  BY <1>1 DEF ClientRecords
<1>4. client' = [client EXCEPT ![k] = c]
  BY <1>1 DEF ClientRecords, ClientAborts
<1> HIDE DEF c
<1>5. /\ client' \in [Keys -> ClientRecords] /\ client'[k] = c
      /\ \A j \in Keys : j # k => client'[j] = client[j]
  BY <1>1, <1>2, <1>4
<1>6. ASSUME client[k].phase # "synSent", Emits(<<Packet(k, "ack", 0)>>)
      PROVE  client[k].phase \in Open /\ Writes(k, {"ack"})
  <2>1. client[k].phase \in Open
    BY <1>1, <1>6 DEF ClientRecords
  <2>2. Packet(k, "ack", 0) \in PacketsIn /\ Packet(k, "ack", 0).key = k
        /\ Packet(k, "ack", 0).kind = "ack" /\ Packet(k, "ack", 0).gen = client'[k].gen
    BY <1>1, <1>3, <1>5, PacketIsPacket
  <2> QED BY <1>6, <2>1, <2>2, EmitsAppends DEF Writes, TypeInv
<1> QED BY <1>1, <1>3, <1>5, <1>6 DEF ClientTyped, ClientAborts

LEMMA ReceiveSynAckStep ==
  ASSUME TypeInv, NEW k \in Keys, NEW p \in PacketsOut, ReceiveSynAck(k, p)
  PROVE  /\ ClientTyped(k)
         /\ client'[k].gen = client[k].gen
         /\ client'[k].from = client[k].from /\ client'[k].intact = client[k].intact
         /\ \/ /\ client[k].phase = "synSent" /\ p.ack = Offset(client[k].gen, 1)
               /\ client'[k].phase = "established" /\ client'[k].rcv = p.seq + 1
               /\ Writes(k, {"ack"})
            \/ client[k].phase = "synSent" /\ UNCHANGED client /\ Writes(k, {"rst"})
            \/ client[k].phase # "synSent" /\ UNCHANGED <<client, inbound>>
<1> DEFINE c == client[k]
           d == [c EXCEPT !.phase = "established", !.rcv = p.seq + 1]
<1>1. /\ client \in [Keys -> ClientRecords] /\ c \in ClientRecords
      /\ client[k].phase # "closed" => client[k].gen > 0
      /\ inbound \in Seq(PacketsIn) /\ p.seq \in Int
  BY DEF TypeInv, WireType, PacketsOut
<1>2. CASE /\ c.phase = "synSent" /\ p.ack = Offset(c.gen, 1)
           /\ client' = [client EXCEPT ![k].phase = "established", ![k].rcv = p.seq + 1]
           /\ inbound' = Append(inbound, Packet(k, "ack", 0))
  <2> DEFINE e == [c EXCEPT !.phase = "established"]
  <2>1. e \in ClientRecords /\ e.phase = "established" /\ e.gen = c.gen /\ e.from = c.from
        /\ e.intact = c.intact
    BY <1>1 DEF ClientRecords, Open
  <2>2. d = [e EXCEPT !.rcv = p.seq + 1]
    OBVIOUS
  <2>3. client' = [client EXCEPT ![k] = d]
    BY <1>1, <1>2 DEF ClientRecords
  <2> HIDE DEF e, d
  <2>4. p.seq + 1 \in Int
    BY <1>1
  <2>5. d \in ClientRecords /\ d.phase = e.phase /\ d.gen = e.gen /\ d.from = e.from
        /\ d.intact = e.intact /\ d.rcv = p.seq + 1
    BY <2>1, <2>2, <2>4 DEF ClientRecords
  <2>6. /\ client' \in [Keys -> ClientRecords] /\ client'[k] = d
        /\ \A j \in Keys : j # k => client'[j] = client[j]
    BY <1>1, <2>3, <2>5
  <2>7. Packet(k, "ack", 0) \in PacketsIn /\ Packet(k, "ack", 0).key = k
        /\ Packet(k, "ack", 0).kind = "ack" /\ Packet(k, "ack", 0).gen = client'[k].gen
    <3>1. client'[k].gen > 0
      BY <1>1, <1>2, <2>1, <2>5, <2>6
    <3>2. client' \in [Keys -> ClientRecords]
      BY <2>6
    <3> QED BY <3>1, <3>2, PacketIsPacket
  <2> HIDE DEF c
  <2> QED BY <1>1, <1>2, <2>1, <2>5, <2>6, <2>7 DEF Writes, ClientTyped, c
<1>3. CASE /\ c.phase = "synSent" /\ p.ack # Offset(c.gen, 1)
           /\ UNCHANGED client
           /\ inbound' = Append(inbound, Packet(k, "rst", 0))
  <2>1. Packet(k, "rst", 0) \in PacketsIn /\ Packet(k, "rst", 0).key = k
        /\ Packet(k, "rst", 0).kind = "rst" /\ Packet(k, "rst", 0).gen = client'[k].gen
    BY <1>1, <1>3, PacketIsPacket
  <2> QED BY <1>1, <1>3, <2>1 DEF Writes, ClientTyped
<1>4. CASE c.phase # "synSent" /\ UNCHANGED <<client, inbound>>
  BY <1>1, <1>4 DEF ClientTyped
<1> QED BY <1>2, <1>3, <1>4 DEF ReceiveSynAck

(* A data segment is taken when it is the next one, and joins what came    *)
(* before when it is of the same server connection and the next of it.     *)
Takes(k, p) ==
  /\ client[k].phase \in Open /\ p.seq = client[k].rcv /\ p.kind = "data"
  /\ client'[k].phase = client[k].phase /\ client'[k].rcv = client[k].rcv + 1
  /\ client'[k].from = p.unit[1]
  /\ client'[k].intact =
       (client[k].intact /\ client[k].from \in {0, p.unit[1]} /\ p.unit[2] = client[k].rcv - Iss)

LEMMA ReceiveSegmentStep ==
  ASSUME TypeInv, NEW k \in Keys, NEW p \in PacketsOut, ReceiveSegment(k, p)
  PROVE  /\ ClientTyped(k)
         /\ UNCHANGED inbound
         /\ client'[k].gen = client[k].gen
         /\ \/ Takes(k, p)
            \/ /\ client[k].phase \in Open /\ client'[k].phase \in {client[k].phase, "closed"}
               /\ client'[k].from = client[k].from /\ client'[k].intact = client[k].intact
            \/ UNCHANGED client
<1> DEFINE c == client[k]
           acked == IF p.ack.gen # c.gen THEN 0 ELSE p.ack.off - 1
           una == IF acked > c.una THEN (IF acked > c.sent THEN c.sent ELSE acked) ELSE c.una
<1>1. /\ client \in [Keys -> ClientRecords] /\ c \in ClientRecords
      /\ client[k].phase # "closed" => client[k].gen > 0
      /\ c.una \in Nat /\ c.sent \in Nat /\ c.rcv \in Int
      /\ p.kind \in {"synack", "ack", "finack", "data"} /\ p.seq \in Int
      /\ p.unit[1] \in Nat /\ p.ack.off \in Nat
  BY DEF TypeInv, WireType, PacketsOut, ClientRecords, Position
<1>2. una \in Nat
  <2>1. acked \in Int
    BY <1>1
  <2> HIDE DEF acked
  <2> QED BY <1>1, <2>1
<1>3. UNCHANGED inbound /\ p.kind # "synack"
  BY DEF ReceiveSegment
<1> DEFINE d == [c EXCEPT !.una = una]
           joins == c.intact /\ c.from \in {0, p.unit[1]} /\ p.unit[2] = c.rcv - Iss
           data == [c EXCEPT !.una = una, !.rcv = @ + 1, !.from = p.unit[1],
                             !.intact = /\ @
                                        /\ c.from \in {0, p.unit[1]}
                                        /\ p.unit[2] = c.rcv - Iss]
           fin == [c EXCEPT !.una = una, !.phase = IF acked > c.sent THEN "closed" ELSE @]
           new == CASE p.kind = "data" -> data [] p.kind = "ack" -> d [] p.kind = "finack" -> fin
<1>4. \/ c.phase \in Open /\ p.seq = c.rcv /\ client' = [client EXCEPT ![k] = new]
      \/ UNCHANGED client
  BY DEF ReceiveSegment
<1> HIDE DEF acked, una
<1>5. d \in ClientRecords /\ d.phase = c.phase /\ d.gen = c.gen /\ d.from = c.from
      /\ d.intact = c.intact /\ d.rcv = c.rcv
  BY <1>1, <1>2 DEF ClientRecords
<1>6. /\ data \in ClientRecords /\ data.phase = c.phase /\ data.gen = c.gen
      /\ data.from = p.unit[1] /\ data.rcv = c.rcv + 1 /\ data.intact = joins
  <2> DEFINE e == [d EXCEPT !.rcv = c.rcv + 1]
             f == [e EXCEPT !.from = p.unit[1]]
             g == [f EXCEPT !.intact = joins]
  <2>1. c.rcv + 1 \in Int /\ joins \in BOOLEAN
    BY <1>1
  <2>2. data = g
    BY <1>5
  <2> HIDE DEF data, d, joins
  <2>3. e \in ClientRecords /\ e.phase = d.phase /\ e.gen = d.gen /\ e.rcv = c.rcv + 1
    BY <1>5, <2>1 DEF ClientRecords
  <2> HIDE DEF e
  <2>4. f \in ClientRecords /\ f.phase = e.phase /\ f.gen = e.gen /\ f.rcv = e.rcv
        /\ f.from = p.unit[1]
    BY <1>1, <2>3 DEF ClientRecords
  <2> HIDE DEF f
  <2>5. g \in ClientRecords /\ g.phase = f.phase /\ g.gen = f.gen /\ g.rcv = f.rcv
        /\ g.from = f.from /\ g.intact = joins
    BY <2>1, <2>4 DEF ClientRecords
  <2> HIDE DEF g
  <2> QED BY <1>5, <2>2, <2>3, <2>4, <2>5
<1>7. /\ fin \in ClientRecords /\ fin.phase \in {c.phase, "closed"} /\ fin.gen = c.gen
      /\ fin.from = c.from /\ fin.intact = c.intact
  <2> DEFINE ph == IF acked > c.sent THEN "closed" ELSE c.phase
  <2>1. ph \in {c.phase, "closed"} /\ fin = [d EXCEPT !.phase = ph]
    BY <1>5
  <2> HIDE DEF d, fin, ph
  <2> QED BY <1>1, <1>5, <2>1 DEF ClientRecords
<1> HIDE DEF data, d, fin, joins
<1>8. CASE c.phase \in Open /\ p.seq = c.rcv /\ client' = [client EXCEPT ![k] = new]
  <2>1. CASE p.kind = "data"
    <3>1. new = data
      BY <2>1
    <3>2. /\ client' \in [Keys -> ClientRecords] /\ client'[k] = data
          /\ \A j \in Keys : j # k => client'[j] = client[j]
      BY <1>1, <1>6, <1>8, <3>1
    <3>3. Takes(k, p)
      BY <1>6, <1>8, <2>1, <3>2 DEF Takes, joins
    <3> HIDE DEF c
    <3> QED BY <1>1, <1>3, <1>6, <1>8, <3>2, <3>3 DEF ClientTyped, c
  <2>2. CASE p.kind # "data"
    <3>1. new = d \/ new = fin
      BY <1>1, <1>3, <2>2
    <3> HIDE DEF new
    <3>2. /\ client' \in [Keys -> ClientRecords] /\ client'[k] = new
          /\ \A j \in Keys : j # k => client'[j] = client[j]
      BY <1>1, <1>5, <1>7, <1>8, <3>1
    <3>3. /\ client'[k].gen = client[k].gen
          /\ client[k].phase \in Open /\ client'[k].phase \in {client[k].phase, "closed"}
          /\ client'[k].from = client[k].from /\ client'[k].intact = client[k].intact
      BY <1>5, <1>7, <1>8, <3>1, <3>2
    <3>4. client[k].gen > 0
      BY <1>1, <3>3 DEF Open
    <3> QED BY <1>3, <3>2, <3>3, <3>4 DEF ClientTyped
  <2> QED BY <2>1, <2>2
<1>9. CASE UNCHANGED client
  BY <1>1, <1>3, <1>9 DEF ClientTyped
<1> QED BY <1>4, <1>8, <1>9

LEMMA TailIsShorter ==
  ASSUME NEW S, NEW s \in Seq(S), s # <<>>
  PROVE  /\ Tail(s) \in Seq(S) /\ Head(s) \in S
         /\ Len(s) \in Nat /\ Len(s) > 0 /\ Len(Tail(s)) = Len(s) - 1
         /\ DOMAIN s = 1..Len(s) /\ DOMAIN Tail(s) = 1..(Len(s) - 1)
         /\ \A i \in DOMAIN Tail(s) : i + 1 \in DOMAIN s /\ Tail(s)[i] = s[i + 1]
         /\ Head(s) = s[1] /\ 1 \in DOMAIN s
  OBVIOUS

(* A packet is taken from a ring, and nothing else happens to the rings.   *)
LEMMA ClientReceiveTakes ==
  ASSUME TypeInv, NEW k \in Keys, outbound[k] # <<>>,
         outbound' = [outbound EXCEPT ![k] = Tail(@)]
  PROVE  /\ Head(outbound[k]) \in PacketsOut
         /\ outbound' \in [Keys -> Seq(PacketsOut)]
         /\ outbound'[k] = Tail(outbound[k])
         /\ \A j \in Keys : j # k => outbound'[j] = outbound[j]
         /\ \A j \in Keys : Len(outbound'[j]) <= MaxQueue
<1>1. outbound \in [Keys -> Seq(PacketsOut)] /\ \A j \in Keys : Len(outbound[j]) <= MaxQueue
  BY DEF TypeInv, WireType
<1>2. /\ Tail(outbound[k]) \in Seq(PacketsOut) /\ Head(outbound[k]) \in PacketsOut
      /\ Len(outbound[k]) \in Nat /\ Len(Tail(outbound[k])) = Len(outbound[k]) - 1
  BY <1>1, TailIsShorter
<1>3. /\ outbound' \in [Keys -> Seq(PacketsOut)] /\ outbound'[k] = Tail(outbound[k])
      /\ \A j \in Keys : j # k => outbound'[j] = outbound[j]
  BY <1>1, <1>2
<1>4. ASSUME NEW j \in Keys
      PROVE  Len(outbound'[j]) <= MaxQueue
  BY <1>1, <1>2, <1>3, Bounds
<1> QED BY <1>2, <1>3, <1>4

LEMMA ClientReceiveType ==
  ASSUME TypeInv, ClientReceive
  PROVE  TypeInv'
<1>1. PICK k \in Keys :
    /\ outbound[k] # <<>>
    /\ outbound' = [outbound EXCEPT ![k] = Tail(@)]
    /\ \/ ReceiveSynAck(k, Head(outbound[k]))
       \/ ReceiveSegment(k, Head(outbound[k]))
    /\ UNCHANGED <<daemonVars, historyVars>>
  BY DEF ClientReceive
<1>2. /\ Head(outbound[k]) \in PacketsOut /\ outbound' \in [Keys -> Seq(PacketsOut)]
      /\ \A j \in Keys : Len(outbound'[j]) <= MaxQueue
  BY <1>1, ClientReceiveTakes
<1>3. ClientTyped(k)
  BY <1>1, <1>2, ReceiveSynAckStep, ReceiveSegmentStep
<1>4. inbound \in Seq(PacketsIn)
  BY DEF TypeInv, WireType
<1>5. UNCHANGED inbound \/ Writes(k, {"ack"}) \/ Writes(k, {"rst"})
  BY <1>1, <1>2, ReceiveSynAckStep, ReceiveSegmentStep
<1>6. inbound' \in Seq(PacketsIn)
  BY <1>4, <1>5 DEF Writes
<1>7. WireType'
  BY <1>2, <1>3, <1>6 DEF TypeInv, WireType, ClientTyped
<1>8. DaemonType'
  BY <1>1 DEF TypeInv, DaemonType, daemonVars
<1>9. HistoryType'
  BY <1>1 DEF TypeInv, HistoryType, historyVars
<1> QED BY <1>7, <1>8, <1>9 DEF TypeInv

LEMMA ClientStepsType ==
  ASSUME TypeInv, ClientSteps
  PROVE  TypeInv'
<1>1. /\ UNCHANGED <<daemonVars, outbound, historyVars>>
      /\ \E k \in Keys : \/ ClientOpen(k) \/ ClientSend(k) \/ ClientClose(k)
                         \/ ClientRepeats(k) \/ ClientAborts(k)
  BY DEF ClientSteps
<1>2. PICK k \in Keys : \/ ClientOpen(k) \/ ClientSend(k) \/ ClientClose(k)
                        \/ ClientRepeats(k) \/ ClientAborts(k)
  BY <1>1
<1>3. inbound \in Seq(PacketsIn) /\ client \in [Keys -> ClientRecords]
      /\ (client[k].phase # "closed" => client[k].gen > 0)
  BY DEF TypeInv, WireType
<1>4. ClientTyped(k)
  <2>1. CASE ClientRepeats(k)
    BY <1>3, <2>1, ClientRepeatsStep DEF ClientTyped
  <2> QED BY <1>2, <2>1, ClientOpenStep, ClientSendStep, ClientCloseStep, ClientAbortsStep
<1>5. UNCHANGED inbound \/ \E kinds : Writes(k, kinds)
  BY <1>2, ClientOpenStep, ClientSendStep, ClientCloseStep, ClientAbortsStep, ClientRepeatsStep
<1>6. inbound' \in Seq(PacketsIn)
  BY <1>3, <1>5 DEF Writes
<1>7. WireType'
  BY <1>1, <1>4, <1>6 DEF TypeInv, WireType, ClientTyped
<1>8. DaemonType'
  BY <1>1 DEF TypeInv, DaemonType, daemonVars
<1>9. HistoryType'
  BY <1>1 DEF TypeInv, HistoryType, historyVars
<1> QED BY <1>7, <1>8, <1>9 DEF TypeInv

LEMMA TypeInit == Init => TypeInv
<1> SUFFICES ASSUME Init PROVE TypeInv
  OBVIOUS
<1>1. WireType
  <2>1. client \in [Keys -> ClientRecords] /\ \A k \in Keys : client[k].phase = "closed"
    BY Bounds DEF Init, ClientRecords
  <2>2. outbound \in [Keys -> Seq(PacketsOut)] /\ \A k \in Keys : Len(outbound[k]) <= MaxQueue
    BY Bounds DEF Init
  <2> QED BY <2>1, <2>2 DEF Init, WireType
<1>2. DaemonType
  BY Bounds DEF Init, DaemonType
<1>3. HistoryType
  BY DEF Init, HistoryType
<1> QED BY <1>1, <1>2, <1>3 DEF TypeInv

LEMMA TypeNext == TypeInv /\ [Next]_vars => TypeInv'
<1> SUFFICES ASSUME TypeInv, [Next]_vars PROVE TypeInv'
  OBVIOUS
<1>1. CASE Handle
  BY <1>1, HandleSynType, HandleAckType, HandleDataType, HandleFinType DEF Handle
<1>2. CASE Connect
  BY <1>2, ConnectFailedType, ConnectedType DEF Connect
<1>3. CASE ResponseLoop
  BY <1>3, ReadSocketsType, RespondType, EndSendingType, CleanupType DEF ResponseLoop
<1>4. CASE \E k \in Keys : Idle(k)
  BY <1>4, IdleType
<1>5. CASE ClientSteps
  BY <1>5, ClientStepsType
<1>6. CASE ClientReceive
  BY <1>6, ClientReceiveType
<1>7. CASE UNCHANGED vars
  <2>1. WireType'
    BY <1>7 DEF vars, TypeInv, WireType
  <2>2. DaemonType'
    BY <1>7 DEF vars, daemonVars, TypeInv, DaemonType
  <2>3. HistoryType'
    BY <1>7 DEF vars, historyVars, TypeInv, HistoryType
  <2> QED BY <2>1, <2>2, <2>3 DEF TypeInv
<1> QED BY <1>1, <1>2, <1>3, <1>4, <1>5, <1>6, <1>7 DEF Next

-----------------------------------------------------------------------------
(* The table.  A stream is connected exactly when a connect thread gave it *)
(* a socket, it is in the handshake or established only then, it waits     *)
(* only for threads that are still to come back, and its FIN closed it.    *)
(* What was read and not yet sent belongs to a stream that is connected    *)
(* still: only the loop that read it erases streams.                       *)
Shape(s, ids, tries, fin) ==
  /\ s.connected <=> s.socks.id \in 1..ids
  /\ ~s.connected => s.socks = NoSocket
  /\ s.state \in {"SynReceived", "Established"} => s.connected
  /\ s.connecting => tries # {}
  /\ fin /\ s.connected => s.state = "Closed"

StreamInv(k) == Exists(k) => Shape(streams[k], attemptId, attempts[k], finSent[k])

ReadInv(k) == responses[k] # <<>> => loop = "send" /\ Exists(k) /\ streams[k].connected

IdsInv(k) ==
  /\ \A a \in attempts[k] : a.id \in 1..attemptId
  /\ \A a, b \in attempts[k] : a.id = b.id => a = b

TableInv == \A k \in Keys : StreamInv(k) /\ ReadInv(k) /\ IdsInv(k)

LEMMA ShapeLater ==
  ASSUME NEW s \in StreamRecords, NEW ids \in Nat, NEW later \in Nat, ids <= later,
         NEW tries, NEW left, tries # {} => left # {}, NEW fin, Shape(s, ids, tries, fin)
  PROVE  Shape(s, later, left, fin)
<1>1. s.socks.id \in Nat /\ s.connected \in BOOLEAN
  BY DEF StreamRecords
<1>2. s.connected <=> s.socks.id \in 1..later
  <2>1. CASE s.connected
    BY <1>1, <2>1 DEF Shape
  <2>2. CASE ~s.connected
    <3>1. s.socks.id = 0
      BY <2>2 DEF Shape, NoSocket
    <3> QED BY <2>2, <3>1
  <2> QED BY <2>1, <2>2
<1> QED BY <1>2 DEF Shape

LEMMA FreshShape ==
  ASSUME NEW ids \in Nat, NEW tries, NEW fin
  PROVE  Shape(FreshStream, ids, tries, fin)
<1>1. /\ FreshStream.connected = FALSE /\ FreshStream.connecting = FALSE
      /\ FreshStream.state = "Listen" /\ FreshStream.socks = NoSocket
  BY DEF FreshStream
<1>2. NoSocket.id \notin 1..ids
  BY DEF NoSocket
<1> QED BY <1>1, <1>2 DEF Shape

(* Looking a stream up.                                                    *)
LEMMA TouchedShape ==
  ASSUME TypeInv, NEW k \in Keys, StreamInv(k), ReadInv(k)
  PROVE  /\ Touched(k) \in StreamRecords
         /\ Shape(Touched(k), attemptId, attempts[k], finSent[k])
         /\ responses[k] # <<>> => loop = "send" /\ Touched(k).connected
<1>0. attemptId \in Nat
  BY DEF TypeInv, DaemonType
<1>1. Touched(k) \in StreamRecords
  BY TouchedIsStream DEF TypeInv
<1>2. CASE Exists(k)
  <2>1. streams[k] \in StreamRecords
    BY <1>2, StreamIsNoneOrRecord DEF TypeInv
  <2>2. Touched(k) = [streams[k] EXCEPT !.idle = 0]
    BY <1>2, TouchedIsStream DEF TypeInv
  <2>3. /\ Touched(k).connected = streams[k].connected
        /\ Touched(k).connecting = streams[k].connecting
        /\ Touched(k).state = streams[k].state /\ Touched(k).socks = streams[k].socks
    BY <2>1, <2>2, ActiveIsStream
  <2> QED BY <1>1, <1>2, <2>3 DEF StreamInv, ReadInv, Shape
<1>3. CASE ~Exists(k)
  <2>1. Touched(k) = FreshStream
    BY <1>3, TouchedIsStream DEF TypeInv
  <2> QED BY <1>0, <1>1, <1>3, <2>1, FreshShape DEF ReadInv
<1> QED BY <1>2, <1>3

(* A step that touches one key only.                                       *)
LEMMA TableStep ==
  ASSUME TypeInv, TypeInv', TableInv, NEW k \in Keys,
         \A j \in Keys : j # k =>
           /\ streams'[j] = streams[j] /\ attempts'[j] = attempts[j]
           /\ finSent'[j] = finSent[j] /\ responses'[j] = responses[j],
         attemptId <= attemptId', loop' = loop,
         StreamInv(k)', ReadInv(k)', IdsInv(k)'
  PROVE  TableInv'
<1> SUFFICES ASSUME NEW j \in Keys PROVE StreamInv(j)' /\ ReadInv(j)' /\ IdsInv(j)'
  BY DEF TableInv
<1>1. attemptId \in Nat /\ attemptId' \in Nat
  BY DEF TypeInv, DaemonType
<1>2. CASE j = k
  BY <1>2
<1>3. CASE j # k
  <2>1. StreamInv(j) /\ ReadInv(j) /\ IdsInv(j)
    BY DEF TableInv
  <2>2. StreamInv(j)'
    <3>1. ASSUME Exists(j)' PROVE Shape(streams[j], attemptId', attempts[j], finSent[j])
      <4>1. Exists(j)
        BY <1>3, <3>1 DEF Exists
      <4>2. streams[j] \in StreamRecords
        BY <4>1, StreamIsNoneOrRecord DEF TypeInv
      <4> QED BY <1>1, <2>1, <4>1, <4>2, ShapeLater DEF StreamInv
    <3> QED BY <1>3, <3>1 DEF StreamInv
  <2>3. ReadInv(j)'
    BY <1>3, <2>1 DEF ReadInv, Exists
  <2>4. IdsInv(j)'
    BY <1>1, <1>3, <2>1 DEF IdsInv
  <2> QED BY <2>2, <2>3, <2>4
<1> QED BY <1>2, <1>3

(* A stream put in place of the one that was looked up.                    *)
LEMMA TablePut ==
  ASSUME TypeInv, TypeInv', TableInv, NEW k \in Keys, NEW s \in StreamRecords, Put(k, s),
         \A j \in Keys : j # k => attempts'[j] = attempts[j] /\ finSent'[j] = finSent[j],
         responses' = responses, attemptId <= attemptId', loop' = loop,
         Shape(s, attemptId', attempts'[k], finSent'[k]),
         responses[k] # <<>> => s.connected,
         IdsInv(k)'
  PROVE  TableInv'
<1>1. streams'[k] = s /\ \A j \in Keys : j # k => streams'[j] = streams[j]
  BY PutStream DEF TypeInv
<1>2. StreamInv(k)'
  BY <1>1 DEF StreamInv
<1>3. s # NoStream
  BY NoStreamIsNone
<1>4. ReadInv(k)'
  BY <1>1, <1>3 DEF ReadInv, Exists, TableInv
<1> QED BY <1>1, <1>2, <1>4, TableStep

LEMMA HandleSynTable ==
  ASSUME TypeInv, TypeInv', TableInv, NEW k \in Keys, HandleSyn(k)
  PROVE  TableInv'
<1> DEFINE s == Touched(k)
           a == [id |-> attemptId + 1, gen |-> Head(inbound).gen]
<1>1. /\ s \in StreamRecords
      /\ Shape(s, attemptId, attempts[k], finSent[k])
      /\ responses[k] # <<>> => loop = "send" /\ s.connected
      /\ IdsInv(k)
  BY TouchedShape DEF TableInv
<1>2. /\ UNCHANGED <<loop, responses, finSent>>
      /\ attemptId \in Nat
      /\ attempts \in [Keys -> SUBSET Attempts]
  BY DEF HandleSyn, TypeInv, DaemonType
<1>3. \/ Put(k, s) /\ UNCHANGED <<attempts, attemptId>>
      \/ /\ Put(k, [s EXCEPT !.connecting = TRUE])
         /\ attemptId' = attemptId + 1
         /\ attempts' = [attempts EXCEPT ![k] = @ \cup {a}]
  BY DEF HandleSyn
<1> HIDE DEF s
<1>4. CASE Put(k, s) /\ UNCHANGED <<attempts, attemptId>>
  <2>1. IdsInv(k)'
    BY <1>1, <1>4 DEF IdsInv
  <2> QED BY <1>1, <1>2, <1>4, <2>1, TablePut
<1>5. CASE /\ Put(k, [s EXCEPT !.connecting = TRUE])
           /\ attemptId' = attemptId + 1
           /\ attempts' = [attempts EXCEPT ![k] = @ \cup {a}]
  <2> DEFINE t == [s EXCEPT !.connecting = TRUE]
  <2>1. t \in StreamRecords /\ t.connected = s.connected /\ t.state = s.state
        /\ t.socks = s.socks
    BY <1>1 DEF StreamRecords
  <2>2. attempts'[k] = attempts[k] \cup {a}
        /\ \A j \in Keys : j # k => attempts'[j] = attempts[j]
    BY <1>2, <1>5
  <2>3. Shape(s, attemptId', attempts'[k], finSent'[k])
    <3>1. attemptId' \in Nat /\ attemptId <= attemptId'
      BY <1>2, <1>5
    <3>2. attempts'[k] # {}
      <4> HIDE DEF a
      <4> QED BY <2>2
    <3>3. Shape(s, attemptId', attempts'[k], finSent[k])
      BY <1>1, <1>2, <3>1, <3>2, ShapeLater
    <3> QED BY <1>2, <3>3
  <2>4. Shape(t, attemptId', attempts'[k], finSent'[k])
    <3>1. attempts'[k] # {}
      BY <2>2
    <3> HIDE DEF t
    <3> QED BY <2>1, <2>3, <3>1 DEF Shape
  <2>5. IdsInv(k)'
    <3>1. ASSUME NEW b \in attempts'[k]
          PROVE  b.id \in 1..attemptId' /\ (b # a => b \in attempts[k] /\ b.id <= attemptId)
      <4>1. CASE b = a
        BY <1>2, <1>5, <4>1
      <4>2. CASE b # a
        BY <1>1, <1>2, <1>5, <2>2, <4>2 DEF IdsInv
      <4> QED BY <4>1, <4>2
    <3>2. a.id = attemptId + 1
      OBVIOUS
    <3>3. ASSUME NEW b \in attempts'[k], NEW c \in attempts'[k], b.id = c.id
          PROVE  b = c
      <4>1. CASE b # a /\ c # a
        BY <1>1, <3>1, <3>3, <4>1 DEF IdsInv
      <4>2. CASE b = a /\ c # a
        BY <1>1, <1>2, <3>1, <3>2, <3>3, <4>2 DEF IdsInv
      <4>3. CASE b # a /\ c = a
        BY <1>1, <1>2, <3>1, <3>2, <3>3, <4>3 DEF IdsInv
      <4> QED BY <4>1, <4>2, <4>3
    <3> QED BY <3>1, <3>3 DEF IdsInv
  <2>6. attemptId <= attemptId'
    BY <1>2, <1>5
  <2> HIDE DEF t
  <2> QED BY <1>1, <1>2, <1>5, <2>1, <2>2, <2>4, <2>5, <2>6, TablePut DEF t
<1> QED BY <1>3, <1>4, <1>5

LEMMA HandleAckTable ==
  ASSUME TypeInv, TypeInv', TableInv, NEW k \in Keys, HandleAck(k)
  PROVE  TableInv'
<1> DEFINE s == Touched(k)
           t == [s EXCEPT !.state = "Established"]
<1>1. /\ s \in StreamRecords
      /\ Shape(s, attemptId, attempts[k], finSent[k])
      /\ responses[k] # <<>> => loop = "send" /\ s.connected
      /\ IdsInv(k)
  BY TouchedShape DEF TableInv
<1>2. /\ UNCHANGED <<attempts, attemptId, loop, responses, finSent>>
      /\ attemptId \in Nat
  BY DEF HandleAck, TypeInv, DaemonType, historyVars
<1>3. Put(k, s) \/ (s.state = "SynReceived" /\ Put(k, t))
  BY DEF HandleAck
<1> HIDE DEF s
<1>4. IdsInv(k)'
  BY <1>1, <1>2 DEF IdsInv
<1>5. CASE Put(k, s)
  BY <1>1, <1>2, <1>4, <1>5, TablePut
<1>6. CASE s.state = "SynReceived" /\ Put(k, t)
  <2>1. t \in StreamRecords /\ t.connected = s.connected /\ t.connecting = s.connecting
        /\ t.socks = s.socks /\ t.state = "Established"
    BY <1>1 DEF StreamRecords
  <2> HIDE DEF t
  <2>2. Shape(t, attemptId, attempts[k], finSent[k])
    BY <1>1, <1>6, <2>1 DEF Shape
  <2> QED BY <1>1, <1>2, <1>4, <1>6, <2>1, <2>2, TablePut
<1> QED BY <1>3, <1>5, <1>6

LEMMA HandleDataTable ==
  ASSUME TypeInv, TypeInv', TableInv, NEW k \in Keys, HandleData(k)
  PROVE  TableInv'
<1> DEFINE s == Touched(k)
           at == Offset(Head(inbound).gen, Head(inbound).unit + 1)
           t == [s EXCEPT !.client_seq = at]
<1>1. /\ s \in StreamRecords
      /\ Shape(s, attemptId, attempts[k], finSent[k])
      /\ responses[k] # <<>> => loop = "send" /\ s.connected
      /\ IdsInv(k)
  BY TouchedShape DEF TableInv
<1>2. /\ UNCHANGED <<attempts, attemptId, loop, responses, finSent>>
      /\ attemptId \in Nat
      /\ Put(k, t)
  BY DEF HandleData, TypeInv, DaemonType
<1>3. at \in Position
  BY ArrivesTakes, OffsetIsPosition, Bounds DEF HandleData, TypeInv
<1> HIDE DEF s, at
<1>4. IdsInv(k)'
  BY <1>1, <1>2 DEF IdsInv
<1>5. t \in StreamRecords /\ t.connected = s.connected /\ t.connecting = s.connecting
      /\ t.socks = s.socks /\ t.state = s.state
  BY <1>1, <1>3 DEF StreamRecords
<1> HIDE DEF t
<1>6. Shape(t, attemptId, attempts[k], finSent[k])
  BY <1>1, <1>5 DEF Shape
<1> QED BY <1>1, <1>2, <1>4, <1>5, <1>6, TablePut

LEMMA HandleFinTable ==
  ASSUME TypeInv, TypeInv', TableInv, NEW k \in Keys, HandleFin(k)
  PROVE  TableInv'
<1> DEFINE s == Touched(k)
           at == Offset(Head(inbound).gen, Head(inbound).unit + 1)
           t == [s EXCEPT !.client_seq = at, !.state = "Closed"]
           u == [t EXCEPT !.vpn_seq = @ + 1]
<1>1. /\ s \in StreamRecords
      /\ Shape(s, attemptId, attempts[k], finSent[k])
      /\ responses[k] # <<>> => loop = "send" /\ s.connected
      /\ IdsInv(k)
  BY TouchedShape DEF TableInv
<1>2. /\ UNCHANGED <<attempts, attemptId, loop, responses>>
      /\ finSent' = [finSent EXCEPT ![k] = TRUE]
      /\ attemptId \in Nat
      /\ Put(k, u)
  BY DEF HandleFin, TypeInv, DaemonType
<1>3. at \in Position
  <2>1. Arrives(k, "fin")
    BY DEF HandleFin
  <2> QED BY <2>1, ArrivesTakes, OffsetIsPosition, Bounds DEF TypeInv
<1> HIDE DEF s, at
<1>4. IdsInv(k)'
  BY <1>1, <1>2 DEF IdsInv
<1>5. t \in StreamRecords /\ t.connected = s.connected /\ t.connecting = s.connecting
      /\ t.socks = s.socks /\ t.state = "Closed"
  BY <1>1, <1>3 DEF StreamRecords
<1> HIDE DEF t
<1>6. u \in StreamRecords /\ u.connected = t.connected /\ u.connecting = t.connecting
      /\ u.socks = t.socks /\ u.state = t.state
  BY <1>5 DEF StreamRecords
<1> HIDE DEF u
<1>7. \A j \in Keys : j # k => attempts'[j] = attempts[j] /\ finSent'[j] = finSent[j]
  BY <1>2 DEF TypeInv, HistoryType
<1>8. Shape(u, attemptId, attempts[k], finSent'[k])
  BY <1>1, <1>5, <1>6 DEF Shape
<1>9. /\ Shape(u, attemptId', attempts'[k], finSent'[k])
      /\ attemptId <= attemptId' /\ loop' = loop /\ responses' = responses
  <2>1. UNCHANGED <<attempts, attemptId, loop, responses>> /\ attemptId \in Nat
    BY <1>2
  <2> QED BY <1>8, <2>1
<1>10. responses[k] # <<>> => u.connected
  BY <1>1, <1>5, <1>6
<1> QED BY <1>2, <1>4, <1>6, <1>7, <1>9, <1>10, TablePut

LEMMA ConnectFailedTable ==
  ASSUME TypeInv, TypeInv', TableInv, NEW k \in Keys, NEW a \in attempts[k], ConnectFailed(k, a)
  PROVE  TableInv'
<1>1. /\ attempts' = [attempts EXCEPT ![k] = @ \ {a}]
      /\ UNCHANGED <<attemptId, loop, responses, finSent>>
      /\ attemptId \in Nat /\ attempts \in [Keys -> SUBSET Attempts]
  BY DEF ConnectFailed, TypeInv, DaemonType
<1>2. /\ attempts'[k] = attempts[k] \ {a}
      /\ \A j \in Keys : j # k => attempts'[j] = attempts[j]
  BY <1>1
<1>3. IdsInv(k)'
  BY <1>1, <1>2 DEF TableInv, IdsInv
<1>4. CASE ~Exists(k)
  <2>1. UNCHANGED streams
    BY <1>4 DEF ConnectFailed, Exists
  <2>2. StreamInv(k)' /\ ReadInv(k)'
    BY <1>1, <1>4, <2>1 DEF StreamInv, ReadInv, TableInv, Exists
  <2> QED BY <1>1, <1>2, <1>3, <2>1, <2>2, TableStep
<1>5. CASE Exists(k)
  <2> DEFINE s == streams[k]
             t == [s EXCEPT !.connecting = FALSE]
  <2>1. s \in StreamRecords /\ Put(k, t)
    BY <1>5, StreamIsNoneOrRecord DEF ConnectFailed, Exists, TypeInv
  <2>2. Shape(s, attemptId, attempts[k], finSent[k]) /\ (responses[k] # <<>> => s.connected)
    BY <1>5 DEF TableInv, StreamInv, ReadInv
  <2> HIDE DEF s
  <2>3. t \in StreamRecords /\ t.connected = s.connected /\ t.connecting = FALSE
        /\ t.socks = s.socks /\ t.state = s.state
    BY <2>1 DEF StreamRecords
  <2> HIDE DEF t
  <2>4. Shape(t, attemptId, attempts'[k], finSent[k])
    BY <2>2, <2>3 DEF Shape
  <2>5. /\ Shape(t, attemptId', attempts'[k], finSent'[k])
        /\ attemptId <= attemptId' /\ loop' = loop /\ responses' = responses
        /\ responses[k] # <<>> => t.connected
    BY <1>1, <2>2, <2>3, <2>4
  <2>6. \A j \in Keys : j # k => attempts'[j] = attempts[j] /\ finSent'[j] = finSent[j]
    BY <1>1, <1>2
  <2> QED BY <1>3, <2>1, <2>3, <2>5, <2>6, TablePut
<1> QED BY <1>4, <1>5

LEMMA ConnectedTable ==
  ASSUME TypeInv, TypeInv', TableInv, NEW k \in Keys, NEW a \in attempts[k], Connected(k, a)
  PROVE  TableInv'
<1>1. /\ attempts' = [attempts EXCEPT ![k] = @ \ {a}]
      /\ UNCHANGED <<attemptId, loop, responses>>
      /\ attemptId \in Nat /\ attempts \in [Keys -> SUBSET Attempts]
  BY DEF Connected, TypeInv, DaemonType
<1>2. /\ attempts'[k] = attempts[k] \ {a} /\ a \in Attempts
      /\ \A j \in Keys : j # k => attempts'[j] = attempts[j]
  BY <1>1
<1>3. IdsInv(k)' /\ a.id \in 1..attemptId
  BY <1>1, <1>2 DEF TableInv, IdsInv
<1>4. CASE ~Exists(k)
  <2>1. UNCHANGED <<streams, finSent>>
    BY <1>4 DEF Connected, Exists
  <2>2. StreamInv(k)' /\ ReadInv(k)'
    BY <1>1, <1>4, <2>1 DEF StreamInv, ReadInv, TableInv, Exists
  <2> QED BY <1>1, <1>2, <1>3, <2>1, <2>2, TableStep
<1>5. CASE Exists(k)
  <2> DEFINE t == TakenOver(streams[k], a)
  <2>1. streams[k] \in StreamRecords /\ Put(k, t) /\ finSent' = [finSent EXCEPT ![k] = FALSE]
    BY <1>5, StreamIsNoneOrRecord DEF Connected, Exists, TypeInv
  <2>2. t \in StreamRecords /\ t.connected = TRUE /\ t.connecting = FALSE
        /\ t.socks = [id |-> a.id, read |-> 0] /\ t.state = "SynReceived"
    BY <1>2, <2>1, TakenOverIsStream
  <2> HIDE DEF t
  <2>3. finSent'[k] = FALSE /\ \A j \in Keys : j # k => finSent'[j] = finSent[j]
    BY <2>1 DEF TypeInv, HistoryType
  <2>4. t.socks.id \in 1..attemptId
    BY <1>3, <2>2
  <2>5. Shape(t, attemptId, attempts'[k], finSent'[k])
    BY <2>2, <2>3, <2>4 DEF Shape
  <2>6. /\ Shape(t, attemptId', attempts'[k], finSent'[k])
        /\ attemptId <= attemptId' /\ loop' = loop /\ responses' = responses
        /\ responses[k] # <<>> => t.connected
    BY <1>1, <2>2, <2>5
  <2>7. \A j \in Keys : j # k => attempts'[j] = attempts[j] /\ finSent'[j] = finSent[j]
    BY <1>2, <2>3
  <2> QED BY <1>3, <2>1, <2>2, <2>6, <2>7, TablePut
<1> QED BY <1>4, <1>5

LEMMA ReadSocketsTable ==
  ASSUME TypeInv, TypeInv', TableInv, ReadSockets
  PROVE  TableInv'
<1>1. /\ loop' = "send" /\ UNCHANGED <<attempts, attemptId, finSent>>
  BY ReadSocketsOf DEF historyVars
<1> SUFFICES ASSUME NEW k \in Keys PROVE StreamInv(k)' /\ ReadInv(k)' /\ IdsInv(k)'
  BY DEF TableInv
<1>2. StreamInv(k) /\ ReadInv(k) /\ IdsInv(k)
  BY DEF TableInv
<1>3. IdsInv(k)'
  BY <1>1, <1>2 DEF IdsInv
<1>4. ASSUME Readable(k)
      PROVE  /\ streams[k] \in StreamRecords /\ streams[k].connected
             /\ Shape(streams[k], attemptId, attempts[k], finSent[k])
  BY <1>2, <1>4, ReadableIsStream DEF TypeInv, Readable, StreamInv, Exists
<1>5. CASE ReadsError(k)
  <2> DEFINE s == streams[k]
             t == [s EXCEPT !.state = "Closed"]
  <2>1. /\ s \in StreamRecords /\ Shape(s, attemptId, attempts[k], finSent[k])
        /\ streams'[k] = t /\ responses'[k] = <<>>
    BY <1>4, <1>5 DEF ReadsError
  <2> HIDE DEF s
  <2>2. t \in StreamRecords /\ t.connected = s.connected /\ t.connecting = s.connecting
        /\ t.socks = s.socks /\ t.state = "Closed"
    BY <2>1 DEF StreamRecords
  <2> HIDE DEF t
  <2>3. Shape(t, attemptId, attempts[k], finSent[k])
    BY <2>1, <2>2 DEF Shape
  <2> QED BY <1>1, <1>3, <2>1, <2>3 DEF StreamInv, ReadInv
<1>6. CASE \E n \in Nat : n > 0 /\ Reads(k, n)
  <2>1. PICK n \in Nat : Reads(k, n)
    BY <1>6
  <2> DEFINE s == streams[k]
             t == [s EXCEPT !.idle = 0, !.socks.read = @ + n]
  <2>2. /\ s \in StreamRecords /\ Shape(s, attemptId, attempts[k], finSent[k]) /\ s.connected
        /\ streams'[k] = t
    BY <1>4, <2>1 DEF Reads
  <2>3. t \in StreamRecords /\ t.connected = s.connected /\ t.connecting = s.connecting
        /\ t.socks.id = s.socks.id /\ t.state = s.state
    BY <2>2, ReadIsStream
  <2> HIDE DEF s, t
  <2>4. Shape(t, attemptId, attempts[k], finSent[k])
    BY <2>2, <2>3 DEF Shape
  <2>5. t # NoStream
    BY <2>3, NoStreamIsNone
  <2> QED BY <1>1, <1>3, <2>2, <2>3, <2>4, <2>5 DEF StreamInv, ReadInv, Exists
<1>7. CASE ReadsNothing(k)
  BY <1>1, <1>2, <1>3, <1>7 DEF ReadsNothing, StreamInv, ReadInv, Exists
<1> QED BY <1>5, <1>6, <1>7, ReadSocketsOf

LEMMA RespondTable ==
  ASSUME TypeInv, TypeInv', TableInv, NEW k \in Keys, Respond(k)
  PROVE  TableInv'
<1>1. /\ responses' = [responses EXCEPT ![k] = <<>>] /\ responses \in [Keys -> Seq(Nat \X Nat)]
      /\ UNCHANGED <<attempts, attemptId, loop, finSent>> /\ attemptId \in Nat
  BY DEF Respond, historyVars, TypeInv, DaemonType
<1>2. responses'[k] = <<>> /\ \A j \in Keys : j # k => responses'[j] = responses[j]
  BY <1>1
<1>3. StreamInv(k) /\ IdsInv(k)
  BY DEF TableInv
<1>4. ReadInv(k)' /\ IdsInv(k)'
  BY <1>1, <1>2, <1>3 DEF ReadInv, IdsInv
<1>5. StreamInv(k)' /\ \A j \in Keys : j # k => streams'[j] = streams[j]
  <2>1. CASE UNCHANGED streams
    BY <1>1, <1>3, <2>1 DEF StreamInv, Exists
  <2>2. CASE /\ streams[k].state \notin {"none", "Closed"}
             /\ Put(k, [streams[k] EXCEPT !.vpn_seq = @ + Len(responses[k]), !.idle = 0])
    <3> DEFINE s == streams[k]
               t == [s EXCEPT !.vpn_seq = @ + Len(responses[k]), !.idle = 0]
    <3>1. Exists(k) /\ s \in StreamRecords /\ Shape(s, attemptId, attempts[k], finSent[k])
      BY <1>3, <2>2, StreamIsNoneOrRecord DEF TypeInv, StreamInv
    <3>2. Len(responses[k]) \in Nat
      BY <1>1, LenProperties
    <3>3. t \in StreamRecords /\ t.connected = s.connected /\ t.connecting = s.connecting
          /\ t.state = s.state /\ t.socks = s.socks
      BY <3>1, <3>2, AdvancedIsStream
    <3>4. streams'[k] = t /\ \A j \in Keys : j # k => streams'[j] = streams[j]
      BY <2>2, <3>3, PutStream DEF TypeInv
    <3> HIDE DEF s, t
    <3>5. Shape(t, attemptId, attempts[k], finSent[k])
      BY <3>1, <3>3 DEF Shape
    <3> QED BY <1>1, <3>4, <3>5 DEF StreamInv
  <2> QED BY <2>1, <2>2 DEF Respond
<1>6. \A j \in Keys : j # k =>
        /\ streams'[j] = streams[j] /\ attempts'[j] = attempts[j]
        /\ finSent'[j] = finSent[j] /\ responses'[j] = responses[j]
  BY <1>1, <1>2, <1>5
<1>7. attemptId <= attemptId' /\ loop' = loop
  BY <1>1
<1> QED BY <1>4, <1>5, <1>6, <1>7, TableStep

LEMMA EndSendingTable ==
  ASSUME TypeInv, TableInv, EndSending
  PROVE  TableInv'
  BY DEF EndSending, TableInv, StreamInv, ReadInv, IdsInv, Exists, historyVars

LEMMA CleanupTable ==
  ASSUME TypeInv, TableInv, Cleanup
  PROVE  TableInv'
<1>1. /\ loop = "clean" /\ UNCHANGED <<attempts, attemptId, responses, finSent>>
      /\ \A k \in Keys : streams'[k] \in {NoStream, streams[k]}
  BY DEF Cleanup, historyVars
<1> SUFFICES ASSUME NEW k \in Keys PROVE StreamInv(k)' /\ ReadInv(k)' /\ IdsInv(k)'
  BY DEF TableInv
<1>2. StreamInv(k) /\ ReadInv(k) /\ IdsInv(k)
  BY DEF TableInv
<1>3. responses[k] = <<>>
  BY <1>1, <1>2 DEF ReadInv
<1> QED BY <1>1, <1>2, <1>3 DEF StreamInv, ReadInv, IdsInv, Exists

LEMMA IdleTable ==
  ASSUME TypeInv, TypeInv', TableInv, NEW k \in Keys, Idle(k)
  PROVE  TableInv'
<1> DEFINE s == streams[k]
           t == [s EXCEPT !.idle = @ + 1]
<1>1. /\ UNCHANGED <<attempts, attemptId, loop, responses, finSent>> /\ attemptId \in Nat
      /\ Put(k, t) /\ Exists(k)
  BY DEF Idle, historyVars, TypeInv, DaemonType, Exists
<1>2. s \in StreamRecords /\ s.idle < 2
  BY DEF Idle, TypeInv, DaemonType
<1>3. Shape(s, attemptId, attempts[k], finSent[k]) /\ (responses[k] # <<>> => s.connected)
      /\ IdsInv(k)
  BY <1>1 DEF TableInv, StreamInv, ReadInv
<1> HIDE DEF s
<1>4. t \in StreamRecords /\ t.connected = s.connected /\ t.connecting = s.connecting
      /\ t.state = s.state /\ t.socks = s.socks
  <2>1. s.idle + 1 \in 0..2
    BY <1>2 DEF StreamRecords
  <2> QED BY <1>2, <2>1 DEF StreamRecords
<1> HIDE DEF t
<1>5. Shape(t, attemptId, attempts[k], finSent[k])
  BY <1>3, <1>4 DEF Shape
<1>6. IdsInv(k)'
  BY <1>1, <1>3 DEF IdsInv
<1> QED BY <1>1, <1>3, <1>4, <1>5, <1>6, TablePut

LEMMA TableSame ==
  ASSUME TableInv, UNCHANGED <<daemonVars, historyVars>>
  PROVE  TableInv'
  BY DEF daemonVars, historyVars, TableInv, StreamInv, ReadInv, IdsInv, Exists

LEMMA TableInit == Init => TableInv
  BY DEF Init, TableInv, StreamInv, ReadInv, IdsInv, Exists

LEMMA TableNext == TypeInv /\ TypeInv' /\ TableInv /\ [Next]_vars => TableInv'
<1> SUFFICES ASSUME TypeInv, TypeInv', TableInv, [Next]_vars PROVE TableInv'
  OBVIOUS
<1>1. CASE Handle
  BY <1>1, HandleSynTable, HandleAckTable, HandleDataTable, HandleFinTable DEF Handle
<1>2. CASE Connect
  BY <1>2, ConnectFailedTable, ConnectedTable DEF Connect
<1>3. CASE ResponseLoop
  BY <1>3, ReadSocketsTable, RespondTable, EndSendingTable, CleanupTable DEF ResponseLoop
<1>4. CASE \E k \in Keys : Idle(k)
  BY <1>4, IdleTable
<1>5. CASE ClientSteps
  BY <1>5, TableSame DEF ClientSteps
<1>6. CASE ClientReceive
  BY <1>6, TableSame DEF ClientReceive
<1>7. CASE UNCHANGED vars
  BY <1>7, TableSame DEF vars
<1> QED BY <1>1, <1>2, <1>3, <1>4, <1>5, <1>6, <1>7 DEF Next

LEMMA TableHolds == Spec => [](TypeInv /\ TableInv)
<1>1. Init => TypeInv /\ TableInv
  BY TypeInit, TableInit
<1>2. TypeInv /\ TableInv /\ [Next]_vars => (TypeInv /\ TableInv)'
  BY TypeNext, TableNext
<1> QED BY <1>1, <1>2, PTL DEF Spec

(* Types; and a connected stream has a socket, the one a connect thread    *)
(* with an id of its own opened, for as long as it exists                  *)
(* (packet_processor.cpp:205-237,240-256,289-372).                         *)
THEOREM PpTypeCorrect == Spec => []PpTypeOK
<1>1. TypeInv /\ TableInv => PpTypeOK
  <2> SUFFICES ASSUME TypeInv, TableInv PROVE PpTypeOK
    OBVIOUS
  <2>1. attemptId \in 0..MaxAttempts /\ loop \in {"read", "send", "clean"}
    BY DEF TypeInv, DaemonType
  <2>2. ASSUME NEW k \in Keys
        PROVE  /\ attempts[k] \subseteq [id : 1..attemptId, gen : 1..MaxGen]
               /\ \A a \in attempts[k], b \in attempts[k] : a.id = b.id => a = b
    <3>1. attempts[k] \subseteq Attempts /\ IdsInv(k)
      BY DEF TypeInv, DaemonType, TableInv
    <3> QED BY <3>1 DEF Attempts, IdsInv
  <2>3. ASSUME NEW k \in Keys, Exists(k)
        PROVE  /\ streams[k].state \in {"Listen", "SynReceived", "Established", "Closed"}
               /\ streams[k].vpn_seq \in Nat
               /\ streams[k].idle \in 0..2
               /\ streams[k].connected = (streams[k].socks.id \in 1..attemptId)
               /\ ~streams[k].connected => streams[k].socks = NoSocket
    <3>1. streams[k] \in StreamRecords
      BY <2>3, StreamIsNoneOrRecord DEF TypeInv
    <3>2. Shape(streams[k], attemptId, attempts[k], finSent[k])
      BY <2>3 DEF TableInv, StreamInv
    <3>3. streams[k].connected \in BOOLEAN
      BY <3>1 DEF StreamRecords
    <3>4. streams[k].connected = (streams[k].socks.id \in 1..attemptId)
      BY <3>2, <3>3 DEF Shape
    <3> QED BY <3>1, <3>2, <3>4 DEF StreamRecords, Shape
  <2>4. \A k \in Keys : Len(outbound[k]) <= MaxQueue
    BY DEF TypeInv, WireType
  <2> QED BY <2>1, <2>2, <2>3, <2>4 DEF PpTypeOK, Exists
<1> QED BY <1>1, TableHolds, PTL

(* A stream that waits for a connect thread has one, whatever fails: it    *)
(* would ignore every SYN otherwise (packet_processor.cpp:205-216).        *)
THEOREM NeverStuckConnectingHolds == Spec => []NeverStuckConnecting
<1>1. TypeInv /\ TableInv => NeverStuckConnecting
  BY DEF TableInv, StreamInv, Shape, Exists, NeverStuckConnecting
<1> QED BY <1>1, TableHolds, PTL

-----------------------------------------------------------------------------
(* Data under way to a client.                                             *)
DataOf(s) == {i \in DOMAIN s : s[i].kind = "data"}

LEMMA DataIsFinite ==
  ASSUME NEW S, NEW s \in Seq(S)
  PROVE  IsFiniteSet(DataOf(s)) /\ DataOf(s) \subseteq 1..Len(s)
<1>1. Len(s) \in Nat /\ DOMAIN s = 1..Len(s) /\ DataOf(s) \subseteq 1..Len(s)
  BY LenProperties DEF DataOf
<1>2. IsFiniteSet(1..Len(s))
  BY <1>1, FS_Interval
<1> QED BY <1>1, <1>2, FS_Subset

LEMMA AppendedNoData ==
  ASSUME NEW S, NEW s \in Seq(S), NEW rest \in Seq(S),
         \A i \in DOMAIN rest : rest[i].kind # "data"
  PROVE  DataOf(s \o rest) = DataOf(s)
<1> DEFINE m == Len(s)
           n == Len(rest)
<1>1. /\ m \in Nat /\ n \in Nat /\ DOMAIN s = 1..m /\ DOMAIN rest = 1..n
      /\ DOMAIN (s \o rest) = 1..(m + n)
      /\ \A i \in 1..m : (s \o rest)[i] = s[i]
      /\ \A i \in (m + 1)..(m + n) : (s \o rest)[i] = rest[i - m]
  BY ConcatProperties, LenProperties
<1> HIDE DEF m, n
<1>2. ASSUME NEW i \in 1..(m + n)
      PROVE  i \in DataOf(s \o rest) <=> i \in DataOf(s)
  <2>1. CASE i <= m
    <3>1. i \in 1..m /\ (s \o rest)[i] = s[i]
      BY <1>1, <2>1
    <3> QED BY <1>1, <3>1 DEF DataOf
  <2>2. CASE i > m
    <3>1. i - m \in 1..n /\ (s \o rest)[i] = rest[i - m] /\ i \notin 1..m
      BY <1>1, <2>2
    <3> QED BY <1>1, <3>1 DEF DataOf
  <2> QED BY <1>1, <2>1, <2>2
<1>3. DataOf(s) \subseteq 1..(m + n) /\ DataOf(s \o rest) \subseteq 1..(m + n)
  BY <1>1 DEF DataOf
<1> QED BY <1>2, <1>3

LEMMA TailHasNoMoreData ==
  ASSUME NEW S, NEW s \in Seq(S), s # <<>>
  PROVE  Cardinality(DataOf(Tail(s))) <= Cardinality(DataOf(s))
<1>1. /\ Tail(s) \in Seq(S)
      /\ \A i \in DOMAIN Tail(s) : i \in Nat /\ i + 1 \in DOMAIN s /\ Tail(s)[i] = s[i + 1]
  BY TailIsShorter
<1> DEFINE f == [i \in DataOf(Tail(s)) |-> i + 1]
<1>2. IsFiniteSet(DataOf(s)) /\ IsFiniteSet(DataOf(Tail(s)))
  BY <1>1, DataIsFinite
<1>3. \A i \in DataOf(Tail(s)) : i \in Nat /\ i + 1 \in DataOf(s)
  BY <1>1 DEF DataOf
<1>4. f \in Injection(DataOf(Tail(s)), DataOf(s))
  <2>1. f \in [DataOf(Tail(s)) -> DataOf(s)]
    BY <1>3
  <2>2. \A i, j \in DataOf(Tail(s)) : f[i] = f[j] => i = j
    BY <1>3
  <2> QED BY <2>1, <2>2 DEF Injection, IsInjective
<1> QED BY <1>2, <1>4, FS_Injection

LEMMA SegmentIsNoData ==
  ASSUME TypeInv, NEW k \in Keys, NEW p \in PacketsOut, p.kind # "data", Send(k, <<p>>)
  PROVE  \A j \in Keys : DataOf(outbound'[j]) = DataOf(outbound[j])
<1>1. <<p>> \in Seq(PacketsOut) /\ \A i \in DOMAIN <<p>> : <<p>>[i] = p
  OBVIOUS
<1>2. PICK rest \in Seq(PacketsOut) :
        /\ outbound'[k] = outbound[k] \o rest
        /\ \A i \in DOMAIN rest : \E q \in DOMAIN <<p>> : rest[i] = <<p>>[q]
  BY <1>1, SendAppends DEF TypeInv
<1>3. \A i \in DOMAIN rest : rest[i].kind # "data"
  BY <1>1, <1>2
<1>4. outbound[k] \in Seq(PacketsOut)
  BY DEF TypeInv, WireType
<1>5. DataOf(outbound'[k]) = DataOf(outbound[k])
  BY <1>2, <1>3, <1>4, AppendedNoData
<1>6. \A j \in Keys : j # k => outbound'[j] = outbound[j]
  BY <1>1, SendAppends DEF TypeInv
<1> QED BY <1>5, <1>6

LEMMA HandleAddsNoData ==
  ASSUME TypeInv, Handle
  PROVE  \A j \in Keys : DataOf(outbound'[j]) = DataOf(outbound[j])
<1>1. PICK k \in Keys : HandleSyn(k) \/ HandleAck(k) \/ HandleData(k) \/ HandleFin(k)
  BY DEF Handle
<1> DEFINE s == Touched(k)
           at == Offset(Head(inbound).gen, Head(inbound).unit + 1)
           d == [s EXCEPT !.client_seq = at]
           f == [s EXCEPT !.client_seq = at, !.state = "Closed"]
<1>2. s \in StreamRecords
  BY TouchedIsStream DEF TypeInv
<1>3. CASE HandleSyn(k)
  <2>1. UNCHANGED outbound \/ Send(k, <<SynAck(s.vpn_seq - 1, s.client_seq)>>)
    BY <1>3 DEF HandleSyn
  <2> HIDE DEF s
  <2>2. s.vpn_seq - 1 \in Int /\ s.client_seq \in Position
    BY <1>2 DEF StreamRecords
  <2>3. SynAck(s.vpn_seq - 1, s.client_seq) \in PacketsOut
        /\ SynAck(s.vpn_seq - 1, s.client_seq).kind = "synack"
    BY <2>2, SegmentIsPacket DEF SynAck
  <2> QED BY <2>1, <2>3, SegmentIsNoData
<1>4. CASE HandleAck(k)
  BY <1>4 DEF HandleAck
<1>5. CASE HandleData(k) \/ HandleFin(k)
  <2>1. \/ Send(k, <<Segment("ack", d.vpn_seq, d.client_seq)>>)
        \/ Send(k, <<Segment("finack", f.vpn_seq, f.client_seq)>>)
    BY <1>5 DEF HandleData, HandleFin
  <2>2. at \in Position
    <3>1. Arrives(k, "data") \/ Arrives(k, "fin")
      BY <1>5 DEF HandleData, HandleFin
    <3> QED BY <3>1, ArrivesTakes, OffsetIsPosition, Bounds DEF TypeInv
  <2> HIDE DEF s, at
  <2>3. d.vpn_seq = s.vpn_seq /\ d.client_seq = at /\ f.vpn_seq = s.vpn_seq /\ f.client_seq = at
        /\ s.vpn_seq \in Int
    BY <1>2 DEF StreamRecords
  <2> HIDE DEF d, f
  <2> QED BY <2>1, <2>2, <2>3, SegmentIsPacket, SegmentIsNoData
<1> QED BY <1>1, <1>3, <1>4, <1>5

LEMMA ConnectAddsNoData ==
  ASSUME TypeInv, Connect
  PROVE  \A j \in Keys : DataOf(outbound'[j]) = DataOf(outbound[j])
<1>1. PICK k \in Keys : \E a \in attempts[k] : ConnectFailed(k, a) \/ Connected(k, a)
  BY DEF Connect
<1>2. PICK a \in attempts[k] : ConnectFailed(k, a) \/ Connected(k, a)
  BY <1>1
<1>3. UNCHANGED outbound \/ Send(k, <<SynAck(Iss, Offset(a.gen, 1))>>)
  BY <1>2 DEF ConnectFailed, Connected
<1>4. Offset(a.gen, 1) \in Position /\ Iss \in Int
  BY OffsetIsPosition, Bounds DEF TypeInv, DaemonType, Attempts, Iss
<1> QED BY <1>3, <1>4, SegmentIsPacket, SegmentIsNoData DEF SynAck

LEMMA RespondAddsToOthers ==
  ASSUME TypeInv, TableInv, NEW k \in Keys, Respond(k)
  PROVE  \A j \in Keys : finSent[j] => DataOf(outbound'[j]) = DataOf(outbound[j])
<1>1. CASE UNCHANGED outbound
  BY <1>1
<1>2. CASE streams[k].state \notin {"none", "Closed"} /\ Send(k, Sent(k))
  <2>1. Exists(k) /\ streams[k].connected /\ Shape(streams[k], attemptId, attempts[k], finSent[k])
    BY DEF Respond, TableInv, ReadInv, StreamInv
  <2>2. ~finSent[k]
    BY <1>2, <2>1 DEF Shape
  <2>3. \A j \in Keys : j # k => outbound'[j] = outbound[j]
    BY <1>2, <2>1, SentArePackets, SendAppends DEF TypeInv
  <2> QED BY <2>2, <2>3
<1> QED BY <1>1, <1>2 DEF Respond, Sent

(* Once the FIN of a connection is written no data of it follows, not even *)
(* a response that was read before the client closed                       *)
(* (packet_processor.cpp:250-256,343-346).                                 *)
THEOREM NoDataAfterFinHolds == Spec => NoDataAfterFin
<1>1. ASSUME TypeInv, TableInv, [Next]_vars, NEW k \in Keys, finSent[k]
      PROVE  Cardinality(DataOf(outbound'[k])) <= Cardinality(DataOf(outbound[k]))
  <2>1. outbound[k] \in Seq(PacketsOut)
    BY <1>1 DEF TypeInv, WireType
  <2>2. Cardinality(DataOf(outbound[k])) \in Nat
    BY <2>1, DataIsFinite, FS_CardinalityType
  <2>3. CASE DataOf(outbound'[k]) = DataOf(outbound[k])
    BY <2>2, <2>3
  <2>4. CASE Handle
    BY <1>1, <2>3, <2>4, HandleAddsNoData
  <2>5. CASE Connect
    BY <1>1, <2>3, <2>5, ConnectAddsNoData
  <2>6. CASE ResponseLoop
    <3>1. CASE \E j \in Keys : Respond(j)
      BY <1>1, <2>3, <3>1, RespondAddsToOthers
    <3>2. CASE ReadSockets
      BY <1>1, <2>3, <3>2, ReadSocketsOf
    <3>3. CASE EndSending \/ Cleanup
      BY <2>3, <3>3 DEF EndSending, Cleanup
    <3> QED BY <2>6, <3>1, <3>2, <3>3 DEF ResponseLoop
  <2>7. CASE (\E j \in Keys : Idle(j)) \/ ClientSteps \/ UNCHANGED vars
    BY <2>3, <2>7 DEF Idle, ClientSteps, vars
  <2>8. CASE ClientReceive
    <3>1. PICK j \in Keys : outbound[j] # <<>> /\ outbound' = [outbound EXCEPT ![j] = Tail(@)]
      BY <2>8 DEF ClientReceive
    <3>2. outbound'[j] = Tail(outbound[j]) /\ \A i \in Keys : i # j => outbound'[i] = outbound[i]
      BY <1>1, <3>1, ClientReceiveTakes
    <3>3. CASE k = j
      BY <2>1, <3>1, <3>2, <3>3, TailHasNoMoreData
    <3>4. CASE k # j
      BY <2>3, <3>2, <3>4
    <3> QED BY <3>3, <3>4
  <2> QED BY <1>1, <2>4, <2>5, <2>6, <2>7, <2>8 DEF Next
<1>2. TypeInv /\ TableInv /\ [Next]_vars
        => [\A k \in Keys : finSent[k] /\ finSent'[k]
              => Cardinality(Data(k)') <= Cardinality(Data(k))]_vars
  <2> SUFFICES ASSUME TypeInv, TableInv, [Next]_vars, NEW k \in Keys, finSent[k]
               PROVE  Cardinality(Data(k)') <= Cardinality(Data(k))
    OBVIOUS
  <2>1. Data(k) = DataOf(outbound[k])
    BY DEF Data, DataOf
  <2>2. Data(k)' = DataOf(outbound'[k])
    BY DEF Data, DataOf
  <2> QED BY <1>1, <2>1, <2>2
<1> QED BY <1>2, TableHolds, PTL DEF NoDataAfterFin, Spec

-----------------------------------------------------------------------------
(* The packets under way: those a ring holds of one key, and the order     *)
(* they are in.  The daemon handles the packets of a client in the order   *)
(* it wrote them, so a connection's SYNs come before what it writes once   *)
(* it is open, and all of it before the next connection.                   *)
From(s, k) == {p \in PacketsIn : p.key = k /\ \E i \in DOMAIN s : s[i] = p}

Held(s) == {q \in PacketsOut : \E i \in DOMAIN s : s[i] = q}

Opened == {"ack", "data", "fin"}

Before(p, q) == p.gen <= q.gen /\ (p.kind \in Opened /\ q.kind \notin Opened => p.gen < q.gen)

InOrder(s, k) ==
  \A i, j \in DOMAIN s : i < j /\ s[i].key = k /\ s[j].key = k => Before(s[i], s[j])

OutOrder(s) == \A i, j \in DOMAIN s : i < j => s[i].ack.gen <= s[j].ack.gen

LEMMA TakenFrom ==
  ASSUME NEW s \in Seq(PacketsIn), s # <<>>, NEW k \in Keys
  PROVE  /\ From(Tail(s), k) \subseteq From(s, k)
         /\ InOrder(s, k) => InOrder(Tail(s), k)
         /\ Head(s).key = k => Head(s) \in From(s, k)
         /\ Head(s).key = k /\ InOrder(s, k) => \A q \in From(Tail(s), k) : Before(Head(s), q)
<1>1. /\ Head(s) \in PacketsIn /\ Head(s) = s[1] /\ 1 \in DOMAIN s
      /\ \A i \in DOMAIN Tail(s) : i + 1 \in DOMAIN s /\ Tail(s)[i] = s[i + 1]
      /\ \A i \in DOMAIN Tail(s) : i \in Nat /\ i > 0
  BY TailIsShorter
<1>2. From(Tail(s), k) \subseteq From(s, k)
  BY <1>1 DEF From
<1>3. Head(s).key = k => Head(s) \in From(s, k)
  BY <1>1 DEF From
<1>4. ASSUME InOrder(s, k) PROVE InOrder(Tail(s), k)
  <2> SUFFICES ASSUME NEW i \in DOMAIN Tail(s), NEW j \in DOMAIN Tail(s), i < j,
                      Tail(s)[i].key = k, Tail(s)[j].key = k
               PROVE  Before(Tail(s)[i], Tail(s)[j])
    BY DEF InOrder
  <2> DEFINE x == i + 1
             y == j + 1
  <2>1. x \in DOMAIN s /\ y \in DOMAIN s /\ x < y /\ Tail(s)[i] = s[x] /\ Tail(s)[j] = s[y]
    BY <1>1
  <2> HIDE DEF x, y
  <2> QED BY <1>4, <2>1 DEF InOrder
<1>5. ASSUME Head(s).key = k, InOrder(s, k), NEW q \in From(Tail(s), k) PROVE Before(Head(s), q)
  <2>1. PICK i \in DOMAIN Tail(s) : Tail(s)[i] = q
    BY DEF From
  <2> DEFINE x == i + 1
             one == 1
  <2>2. x \in DOMAIN s /\ one \in DOMAIN s /\ one < x /\ s[x] = q /\ s[one] = Head(s) /\ q.key = k
    BY <1>1, <2>1 DEF From
  <2> HIDE DEF x, one
  <2> QED BY <1>5, <2>2 DEF InOrder
<1> QED BY <1>2, <1>3, <1>4, <1>5

LEMMA AppendedTo ==
  ASSUME NEW S, NEW s \in Seq(S), NEW p \in S
  PROVE  /\ Append(s, p) \in Seq(S)
         /\ Len(s) \in Nat /\ DOMAIN s = 1..Len(s) /\ DOMAIN Append(s, p) = 1..(Len(s) + 1)
         /\ \A i \in DOMAIN s : Append(s, p)[i] = s[i]
         /\ Append(s, p)[Len(s) + 1] = p
  OBVIOUS

LEMMA WrittenTo ==
  ASSUME NEW s \in Seq(PacketsIn), NEW p \in PacketsIn, NEW k \in Keys, InOrder(s, k),
         p.key = k => \A q \in From(s, k) : Before(q, p)
  PROVE  /\ From(Append(s, p), k) \subseteq From(s, k) \cup {p}
         /\ p.key # k => From(Append(s, p), k) = From(s, k)
         /\ InOrder(Append(s, p), k)
<1> DEFINE t == Append(s, p)
           m == Len(s)
           n == m + 1
<1>1. /\ m \in Nat /\ DOMAIN s = 1..m /\ DOMAIN t = 1..n /\ n = m + 1
      /\ \A i \in 1..m : t[i] = s[i]
      /\ t[n] = p
  BY AppendedTo
<1> HIDE DEF t, m, n
<1>2. From(t, k) \subseteq From(s, k) \cup {p}
  <2> SUFFICES ASSUME NEW q \in From(t, k), q # p PROVE q \in From(s, k)
    OBVIOUS
  <2>1. PICK i \in 1..n : t[i] = q
    BY <1>1 DEF From
  <2>2. i \in 1..m
    BY <1>1, <2>1
  <2> QED BY <1>1, <2>1, <2>2 DEF From
<1>3. From(s, k) \subseteq From(t, k)
  BY <1>1 DEF From
<1>4. p.key # k => From(t, k) = From(s, k)
  BY <1>2, <1>3 DEF From
<1>5. InOrder(t, k)
  <2> SUFFICES ASSUME NEW i \in 1..n, NEW j \in 1..n, i < j, t[i].key = k, t[j].key = k
               PROVE  Before(t[i], t[j])
    BY <1>1 DEF InOrder
  <2>1. i \in 1..m /\ t[i] = s[i]
    BY <1>1
  <2>2. CASE j \in 1..m
    BY <1>1, <2>1, <2>2 DEF InOrder
  <2>3. CASE j \notin 1..m
    <3>1. j = n
      BY <1>1, <2>3
    <3>2. t[j] = p
      BY <1>1, <3>1
    <3>3. s[i] \in PacketsIn
      BY <1>1, <2>1, ElementOfSeq
    <3>4. t[i] \in From(s, k)
      BY <1>1, <2>1, <3>3 DEF From
    <3> QED BY <3>2, <3>4
  <2> QED BY <2>2, <2>3
<1> QED BY <1>2, <1>4, <1>5 DEF t

LEMMA TakenOut ==
  ASSUME NEW s \in Seq(PacketsOut), s # <<>>
  PROVE  /\ Held(Tail(s)) \subseteq Held(s) /\ Head(s) \in Held(s)
         /\ OutOrder(s) => /\ OutOrder(Tail(s))
                           /\ \A q \in Held(Tail(s)) : Head(s).ack.gen <= q.ack.gen
<1>1. /\ Head(s) \in PacketsOut /\ Head(s) = s[1] /\ 1 \in DOMAIN s
      /\ \A i \in DOMAIN Tail(s) : i + 1 \in DOMAIN s /\ Tail(s)[i] = s[i + 1]
      /\ \A i \in DOMAIN Tail(s) : i \in Nat /\ i > 0
  BY TailIsShorter
<1>2. Held(Tail(s)) \subseteq Held(s) /\ Head(s) \in Held(s)
  BY <1>1 DEF Held
<1>3. ASSUME OutOrder(s) PROVE OutOrder(Tail(s))
  <2> SUFFICES ASSUME NEW i \in DOMAIN Tail(s), NEW j \in DOMAIN Tail(s), i < j
               PROVE  Tail(s)[i].ack.gen <= Tail(s)[j].ack.gen
    BY DEF OutOrder
  <2> DEFINE x == i + 1
             y == j + 1
  <2>1. x \in DOMAIN s /\ y \in DOMAIN s /\ x < y /\ Tail(s)[i] = s[x] /\ Tail(s)[j] = s[y]
    BY <1>1
  <2> HIDE DEF x, y
  <2> QED BY <1>3, <2>1 DEF OutOrder
<1>4. ASSUME OutOrder(s), NEW q \in Held(Tail(s)) PROVE Head(s).ack.gen <= q.ack.gen
  <2>1. PICK i \in DOMAIN Tail(s) : Tail(s)[i] = q
    BY DEF Held
  <2> DEFINE x == i + 1
             one == 1
  <2>2. x \in DOMAIN s /\ one \in DOMAIN s /\ one < x /\ s[x] = q /\ s[one] = Head(s)
    BY <1>1, <2>1
  <2> HIDE DEF x, one
  <2> QED BY <1>4, <2>2 DEF OutOrder
<1> QED BY <1>2, <1>3, <1>4

LEMMA SentOut ==
  ASSUME NEW s \in Seq(PacketsOut), NEW rest \in Seq(PacketsOut), NEW g \in Nat,
         \A q \in Held(rest) : q.ack.gen = g
  PROVE  /\ Held(s \o rest) \subseteq Held(s) \cup Held(rest)
         /\ OutOrder(s) /\ (\A q \in Held(s) : q.ack.gen <= g) => OutOrder(s \o rest)
<1> DEFINE t == s \o rest
           m == Len(s)
           n == Len(rest)
<1>1. /\ m \in Nat /\ n \in Nat /\ DOMAIN s = 1..m /\ DOMAIN rest = 1..n
      /\ DOMAIN t = 1..(m + n)
      /\ \A i \in 1..m : t[i] = s[i]
      /\ \A i \in (m + 1)..(m + n) : t[i] = rest[i - m]
  BY ConcatProperties, LenProperties
<1> HIDE DEF t, m, n
<1>2. ASSUME NEW i \in 1..(m + n)
      PROVE  /\ i <= m => i \in 1..m /\ t[i] = s[i] /\ t[i] \in Held(s)
             /\ ~(i <= m) => t[i] \in Held(rest)
  <2>1. CASE i <= m
    <3>1. i \in 1..m /\ t[i] = s[i]
      BY <1>1, <2>1
    <3>2. s[i] \in PacketsOut
      BY <1>1, <3>1, ElementOfSeq
    <3> QED BY <1>1, <2>1, <3>1, <3>2 DEF Held
  <2>2. CASE ~(i <= m)
    <3> DEFINE x == i - m
    <3>1. x \in 1..n /\ t[i] = rest[x]
      BY <1>1, <2>2
    <3> HIDE DEF x
    <3>2. rest[x] \in PacketsOut
      BY <1>1, <3>1, ElementOfSeq
    <3> QED BY <1>1, <2>2, <3>1, <3>2 DEF Held
  <2> QED BY <2>1, <2>2
<1>3. Held(t) \subseteq Held(s) \cup Held(rest)
  <2> SUFFICES ASSUME NEW q \in Held(t) PROVE q \in Held(s) \cup Held(rest)
    OBVIOUS
  <2>1. PICK i \in 1..(m + n) : t[i] = q
    BY <1>1 DEF Held
  <2> QED BY <1>2, <2>1
<1>4. ASSUME OutOrder(s), \A q \in Held(s) : q.ack.gen <= g
      PROVE  OutOrder(t)
  <2> SUFFICES ASSUME NEW i \in 1..(m + n), NEW j \in 1..(m + n), i < j
               PROVE  t[i].ack.gen <= t[j].ack.gen
    BY <1>1 DEF OutOrder
  <2>1. CASE j <= m
    <3>1. i <= m
      BY <1>1, <2>1
    <3> QED BY <1>1, <1>2, <1>4, <2>1, <3>1 DEF OutOrder
  <2>2. CASE i <= m /\ ~(j <= m)
    BY <1>2, <1>4, <2>2
  <2>3. CASE ~(i <= m)
    <3>1. ~(j <= m)
      BY <1>1, <2>3
    <3>2. t[i].ack.gen = g /\ t[j].ack.gen = g
      BY <1>2, <2>3, <3>1
    <3> QED BY <3>2
  <2> QED BY <2>1, <2>2, <2>3
<1> QED BY <1>3, <1>4 DEF t

-----------------------------------------------------------------------------
(* What ties a key's connection, stream, threads and packets together, for *)
(* the packets in and out, the client c, the stream s, the threads tries   *)
(* and the connections carr that were carried.                             *)
Holds(s) == s # NoStream /\ s.connected

Newest(g, carr) == g \in carr /\ \A h \in carr : h <= g

(* Packets are of connections the client opened, and what is under way is  *)
(* no older than what was carried.                                         *)
Orderly(in, c, carr) ==
  /\ \A p \in in : p.gen <= c.gen /\ (c.phase = "synSent" /\ p.kind \in Opened => p.gen < c.gen)
  /\ \A g \in carr : g <= c.gen /\ \A p \in in : g <= p.gen

(* A connection that is open, or written to as if it were, was carried;    *)
(* and the socket there is belongs to the latest that was.                 *)
Evidence(in, out, c, s, carr) ==
  /\ \A p \in in : p.kind \in Opened => p.gen \in carr
  /\ \A q \in out : q.ack.gen \in carr
  /\ c.phase \in Open => c.gen \in carr
  /\ Holds(s) => Newest(s.client_seq.gen, carr)

(* A connect thread is alone, for the latest connection, of which nothing  *)
(* else exists yet.                                                        *)
Trying(in, out, c, s, tries, carr) ==
  \A a \in tries :
    /\ tries = {a} /\ Newest(a.gen, carr)
    /\ \A p \in in : p.kind \in Opened => p.gen # a.gen
    /\ \A q \in out : q.ack.gen # a.gen
    /\ c.phase \in Open => c.gen # a.gen
    /\ s # NoStream => ~s.connected /\ (s.state = "Closed" => s.connecting)

(* A closed stream without a socket is met by SYNs of new connections only.*)
GivenUp(in, c, s, tries, carr) ==
  s # NoStream /\ s.state = "Closed" /\ ~s.connected /\ tries = {} =>
    /\ \A p \in in : p.kind = "syn" => p.gen \notin carr
    /\ c.phase = "synSent" => c.gen \notin carr

Linked(in, out, c, s, tries, carr) ==
  /\ Evidence(in, out, c, s, carr)
  /\ Trying(in, out, c, s, tries, carr)
  /\ GivenUp(in, c, s, tries, carr)

OrderInv(k) == InOrder(inbound, k) /\ Orderly(From(inbound, k), client[k], carried[k])

LinkInv(k) ==
  twice[k] \/ Linked(From(inbound, k), Held(outbound[k]), client[k], streams[k], attempts[k],
                     carried[k])

(* Fewer packets are as well linked.                                       *)
LEMMA FewerOrderly ==
  ASSUME NEW in, NEW some, some \subseteq in, NEW c, NEW carr, NEW less, less \subseteq carr,
         Orderly(in, c, carr)
  PROVE  Orderly(some, c, less)
  BY DEF Orderly

LEMMA FewerLinked ==
  ASSUME NEW in, NEW some, some \subseteq in, NEW out, NEW few, few \subseteq out,
         NEW c, NEW s, NEW tries, NEW carr, Linked(in, out, c, s, tries, carr)
  PROVE  Linked(some, few, c, s, tries, carr)
<1>1. Evidence(some, few, c, s, carr)
  BY DEF Linked, Evidence
<1>2. Trying(some, few, c, s, tries, carr)
  BY DEF Linked, Trying
<1>3. GivenUp(some, c, s, tries, carr)
  BY DEF Linked, GivenUp
<1> QED BY <1>1, <1>2, <1>3 DEF Linked

(* How the client of a key moves from c to d, writing the packets P, with  *)
(* the packets out on their way to it: it opens the next connection, or    *)
(* goes on with one, of which it was open already or has been told so.     *)
Told(c, d, out) == (c.phase \in Open /\ d.gen = c.gen) \/ \E q \in out : q.ack.gen = d.gen

Move(c, d, P, out) ==
  /\ c.gen <= d.gen
  /\ d.phase = "synSent" => (c.phase = "synSent" /\ d.gen = c.gen) \/ c.gen < d.gen
  /\ d.phase \in Open => Told(c, d, out)
  /\ \A p \in P : /\ p.gen = d.gen
                  /\ p.kind \in Opened <=> d.phase # "synSent"
                  /\ p.kind \in Opened => Told(c, d, out)

LEMMA MoveOrderly ==
  ASSUME NEW in \in SUBSET PacketsIn, NEW P \in SUBSET PacketsIn, NEW out,
         NEW c \in ClientRecords, NEW d \in ClientRecords, NEW carr \in SUBSET Nat,
         Orderly(in, c, carr), Move(c, d, P, out)
  PROVE  /\ Orderly(in \cup P, d, carr)
         /\ \A q \in in, p \in P : Before(q, p)
<1>1. c.gen \in Nat /\ d.gen \in Nat /\ c.gen <= d.gen
  BY Bounds DEF ClientRecords, Move
<1>2. \A p \in in \cup P : p.gen \in Nat
  BY Bounds DEF PacketsIn
<1>3. ASSUME NEW p \in in
      PROVE  p.gen <= d.gen /\ (d.phase = "synSent" /\ p.kind \in Opened => p.gen < d.gen)
  BY <1>1, <1>2 DEF Orderly, Move
<1>4. ASSUME NEW p \in P
      PROVE  p.gen <= d.gen /\ (d.phase = "synSent" /\ p.kind \in Opened => p.gen < d.gen)
  BY <1>1, <1>2 DEF Move
<1>5. ASSUME NEW g \in carr
      PROVE  g <= d.gen /\ \A p \in in \cup P : g <= p.gen
  BY <1>1, <1>2 DEF Orderly, Move
<1>6. ASSUME NEW q \in in, NEW p \in P
      PROVE  Before(q, p)
  BY <1>1, <1>2, <1>3 DEF Move, Before
<1> QED BY <1>3, <1>4, <1>5, <1>6 DEF Orderly

LEMMA MoveLinked ==
  ASSUME NEW in \in SUBSET PacketsIn, NEW P \in SUBSET PacketsIn, NEW out \in SUBSET PacketsOut,
         NEW c \in ClientRecords, NEW d \in ClientRecords, NEW carr \in SUBSET Nat,
         NEW s, NEW tries \in SUBSET Attempts,
         Orderly(in, c, carr), Move(c, d, P, out), Linked(in, out, c, s, tries, carr)
  PROVE  Linked(in \cup P, out, d, s, tries, carr)
<1>1. c.gen \in Nat /\ d.gen \in Nat
  BY Bounds DEF ClientRecords
<1>2. ASSUME Told(c, d, out)
      PROVE  d.gen \in carr /\ \A a \in tries : d.gen # a.gen
  BY <1>2 DEF Told, Linked, Evidence, Trying
<1>3. ASSUME c.gen < d.gen PROVE d.gen \notin carr
  BY <1>1, <1>3 DEF Orderly
<1>4. Evidence(in \cup P, out, d, s, carr)
  BY <1>2 DEF Linked, Evidence, Move
<1>5. Trying(in \cup P, out, d, s, tries, carr)
  BY <1>2 DEF Linked, Trying, Move
<1>6. GivenUp(in \cup P, d, s, tries, carr)
  <2> SUFFICES ASSUME s # NoStream, s.state = "Closed", ~s.connected, tries = {}
               PROVE  /\ \A p \in in \cup P : p.kind = "syn" => p.gen \notin carr
                      /\ d.phase = "synSent" => d.gen \notin carr
    BY DEF GivenUp
  <2>1. /\ \A p \in in : p.kind = "syn" => p.gen \notin carr
        /\ c.phase = "synSent" => c.gen \notin carr
    BY DEF Linked, GivenUp
  <2>2. d.phase = "synSent" => d.gen \notin carr
    BY <1>3, <2>1 DEF Move
  <2>3. ASSUME NEW p \in P, p.kind = "syn" PROVE p.gen \notin carr
    BY <2>2, <2>3 DEF Move, Opened
  <2> QED BY <2>1, <2>2, <2>3
<1> QED BY <1>4, <1>5, <1>6 DEF Linked

(* What the daemon does to a key that is linked.                           *)
LEMMA OpenedIsNewest ==
  ASSUME NEW in \in SUBSET PacketsIn, NEW out, NEW c, NEW s, NEW tries \in SUBSET Attempts,
         NEW carr \in SUBSET Nat, Orderly(in, c, carr), Linked(in, out, c, s, tries, carr),
         NEW p \in in, p.kind \in Opened
  PROVE  tries = {} /\ Newest(p.gen, carr)
<1>1. Newest(p.gen, carr)
  BY DEF Linked, Evidence, Orderly, Newest
<1>2. ASSUME NEW a \in tries PROVE FALSE
  <2>1. a.gen \in carr /\ p.gen <= a.gen /\ p.gen # a.gen
    BY <1>1 DEF Linked, Trying, Newest
  <2>2. a.gen <= p.gen
    BY <2>1 DEF Orderly
  <2>3. a.gen \in Nat /\ p.gen \in Nat
    BY <1>1, <2>1 DEF Newest
  <2> QED BY <2>1, <2>2, <2>3
<1> QED BY <1>1, <1>2

LEMMA HolderIsAlone ==
  ASSUME NEW in, NEW out, NEW c, NEW s, NEW tries, NEW carr,
         Linked(in, out, c, s, tries, carr), Holds(s)
  PROVE  tries = {} /\ Newest(s.client_seq.gen, carr)
<1>1. Newest(s.client_seq.gen, carr)
  BY DEF Linked, Evidence
<1>2. ASSUME NEW a \in tries PROVE FALSE
  BY DEF Linked, Trying, Holds
<1> QED BY <1>1, <1>2

LEMMA StreamLinked ==
  ASSUME NEW in, NEW some, some \subseteq in, NEW out, NEW Q, NEW c, NEW s, NEW t,
         NEW tries, NEW carr, Linked(in, out, c, s, tries, carr),
         \A q \in Q : q.ack.gen \in carr /\ tries = {},
         Holds(t) => Newest(t.client_seq.gen, carr),
         tries # {} => ~t.connected /\ (t.state = "Closed" => t.connecting),
         GivenUp(some, c, t, tries, carr)
  PROVE  Linked(some, out \cup Q, c, t, tries, carr)
<1>1. Evidence(some, out \cup Q, c, t, carr)
  BY DEF Linked, Evidence
<1>2. Trying(some, out \cup Q, c, t, tries, carr)
  <2> SUFFICES ASSUME NEW a \in tries
               PROVE  /\ tries = {a} /\ Newest(a.gen, carr)
                      /\ \A p \in some : p.kind \in Opened => p.gen # a.gen
                      /\ \A q \in out \cup Q : q.ack.gen # a.gen
                      /\ c.phase \in Open => c.gen # a.gen
                      /\ t # NoStream => ~t.connected /\ (t.state = "Closed" => t.connecting)
    BY DEF Trying
  <2>1. \A q \in Q : FALSE
    OBVIOUS
  <2>2. /\ tries = {a} /\ Newest(a.gen, carr)
        /\ \A p \in in : p.kind \in Opened => p.gen # a.gen
        /\ \A q \in out : q.ack.gen # a.gen
        /\ c.phase \in Open => c.gen # a.gen
    BY DEF Linked, Trying
  <2>3. ~t.connected /\ (t.state = "Closed" => t.connecting)
    OBVIOUS
  <2> QED BY <2>1, <2>2, <2>3
<1> QED BY <1>1, <1>2 DEF Linked

(* A stream that changes in what does not matter here.                     *)
Alike(s, t) ==
  /\ t.connected = s.connected /\ t.connecting = s.connecting /\ t.state = s.state
  /\ t.client_seq = s.client_seq

LEMMA AlikeLinked ==
  ASSUME NEW in, NEW some, some \subseteq in, NEW out, NEW few, few \subseteq out,
         NEW c, NEW s \in StreamRecords, NEW t \in StreamRecords,
         NEW tries, NEW carr, Linked(in, out, c, s, tries, carr), Alike(s, t)
  PROVE  Linked(some, few, c, t, tries, carr)
<1>1. s # NoStream /\ t # NoStream
  BY NoStreamIsNone
<1>2. Evidence(some, few, c, t, carr)
  BY <1>1 DEF Linked, Evidence, Alike, Holds
<1>3. Trying(some, few, c, t, tries, carr)
  BY <1>1 DEF Linked, Trying, Alike
<1>4. GivenUp(some, c, t, tries, carr)
  BY <1>1 DEF Linked, GivenUp, Alike
<1> QED BY <1>2, <1>3, <1>4 DEF Linked

LEMMA ErasedLinked ==
  ASSUME NEW in, NEW out, NEW c, NEW s, NEW tries, NEW carr, Linked(in, out, c, s, tries, carr)
  PROVE  Linked(in, out, c, NoStream, tries, carr)
<1>1. Evidence(in, out, c, NoStream, carr)
  BY DEF Linked, Evidence, Holds
<1>2. Trying(in, out, c, NoStream, tries, carr)
  BY DEF Linked, Trying
<1>3. GivenUp(in, c, NoStream, tries, carr)
  BY DEF GivenUp
<1> QED BY <1>1, <1>2, <1>3 DEF Linked

(* A new stream, or the one there is.                                      *)
LEMMA CreatedLinked ==
  ASSUME NEW in, NEW out, NEW c, NEW tries, NEW carr, NEW t \in StreamRecords,
         Linked(in, out, c, NoStream, tries, carr), ~t.connected, t.state # "Closed"
  PROVE  Linked(in, out, c, t, tries, carr)
<1>1. Evidence(in, out, c, t, carr)
  BY DEF Linked, Evidence, Holds
<1>2. Trying(in, out, c, t, tries, carr)
  BY DEF Linked, Trying
<1>3. GivenUp(in, c, t, tries, carr)
  BY DEF GivenUp
<1> QED BY <1>1, <1>2, <1>3 DEF Linked

(* A SYN that starts a thread is the first of its connection to.           *)
LEMMA SynIsNew ==
  ASSUME NEW in, NEW out, NEW c, NEW s \in StreamRecords, NEW tries, NEW carr,
         NEW ids, NEW fin, Shape(s, ids, tries, fin),
         Linked(in, out, c, s, tries, carr), NEW p \in in, p.kind = "syn",
         ~s.connected, ~s.connecting, s.state # "SynReceived",
         ~(s.state = "Listen" /\ (p.gen \in carr \/ tries # {}))
  PROVE  tries = {} /\ p.gen \notin carr
<1>1. s # NoStream /\ s.state \in {"Listen", "Established", "Closed"}
  BY NoStreamIsNone DEF StreamRecords
<1>2. s.state # "Established"
  BY DEF Shape
<1>3. CASE s.state = "Closed"
  <2>1. tries = {}
    BY <1>1, <1>3 DEF Linked, Trying
  <2> QED BY <1>1, <1>3, <2>1 DEF Linked, GivenUp
<1> QED BY <1>1, <1>2, <1>3

LEMMA SynOrderly ==
  ASSUME NEW in, NEW some, some \subseteq in, NEW c, NEW carr, NEW p \in in,
         Orderly(in, c, carr), \A q \in some : Before(p, q)
  PROVE  Orderly(some, c, carr \cup {p.gen})
<1>1. p.gen <= c.gen /\ \A q \in some : p.gen <= q.gen
  BY DEF Orderly, Before
<1> QED BY <1>1 DEF Orderly

LEMMA SynLinked ==
  ASSUME NEW in \in SUBSET PacketsIn, NEW some, some \subseteq in, NEW out, NEW c, NEW s,
         NEW t, NEW carr \in SUBSET Nat, NEW a \in Attempts, NEW p \in in, p.gen = a.gen,
         Orderly(in, c, carr), Linked(in, out, c, s, {}, carr), p.gen \notin carr,
         ~t.connected, t.connecting
  PROVE  Linked(some, out, c, t, {a}, carr \cup {p.gen})
<1> DEFINE g == p.gen
           more == carr \cup {g}
<1>1. g \in Nat /\ g = a.gen /\ g \notin carr
  BY DEF Attempts
<1>2. Newest(g, more)
  BY <1>1 DEF Orderly, Newest
<1>3. Evidence(some, out, c, t, more)
  BY DEF Linked, Evidence, Holds
<1>4. Trying(some, out, c, t, {a}, more)
  <2>1. \A q \in some : q.kind \in Opened => q.gen # g
    BY <1>1 DEF Linked, Evidence
  <2>2. (\A q \in out : q.ack.gen # g) /\ (c.phase \in Open => c.gen # g)
    BY <1>1 DEF Linked, Evidence
  <2> QED BY <1>1, <1>2, <2>1, <2>2 DEF Trying
<1>5. GivenUp(some, c, t, {a}, more)
  BY DEF GivenUp
<1> QED BY <1>3, <1>4, <1>5 DEF Linked

(* After a FIN no SYN of its connection is under way or to come.           *)
LEMMA FinGivesUp ==
  ASSUME NEW in \in SUBSET PacketsIn, NEW some, some \subseteq in,
         NEW c \in ClientRecords, NEW t, NEW tries,
         NEW carr \in SUBSET Nat, Orderly(in, c, carr), NEW p \in in, p.kind = "fin",
         \A q \in some : Before(p, q)
  PROVE  GivenUp(some, c, t, tries, carr)
<1>1. c.gen \in Nat /\ \A q \in in : q.gen \in Nat
  BY Bounds DEF ClientRecords, PacketsIn
<1>2. \A g \in carr : g \in Nat /\ g <= p.gen
  BY DEF Orderly
<1>3. ASSUME NEW q \in some, q.kind = "syn" PROVE q.gen \notin carr
  <2>1. p.gen < q.gen
    BY <1>3 DEF Before, Opened
  <2> QED BY <1>1, <1>2, <2>1
<1>4. ASSUME c.phase = "synSent" PROVE c.gen \notin carr
  <2>1. p.gen < c.gen
    BY <1>4 DEF Orderly, Opened
  <2> QED BY <1>1, <1>2, <2>1
<1> QED BY <1>3, <1>4 DEF GivenUp

(* A thread that fails leaves its connection as if it had not been.        *)
LEMMA FailedLinked ==
  ASSUME NEW in \in SUBSET PacketsIn, NEW out, NEW c \in ClientRecords, NEW s, NEW t,
         NEW tries \in SUBSET Attempts, NEW carr \in SUBSET Nat, NEW a \in tries,
         Orderly(in, c, carr), Linked(in, out, c, s, tries, carr),
         t # NoStream => s # NoStream /\ t.connected = s.connected
  PROVE  tries \ {a} = {} /\ Linked(in, out, c, t, tries \ {a}, carr \ {a.gen})
<1> DEFINE less == carr \ {a.gen}
<1>1. /\ tries = {a} /\ Newest(a.gen, carr) /\ a.gen \in Nat
      /\ \A p \in in : p.kind \in Opened => p.gen # a.gen
      /\ \A q \in out : q.ack.gen # a.gen
      /\ c.phase \in Open => c.gen # a.gen
      /\ s # NoStream => ~s.connected
  BY DEF Linked, Trying, Attempts
<1>2. c.gen \in Nat /\ \A q \in in : q.gen \in Nat
  BY Bounds DEF ClientRecords, PacketsIn
<1>3. Evidence(in, out, c, t, less)
  BY <1>1 DEF Linked, Evidence, Holds
<1>4. GivenUp(in, c, t, {}, less)
  <2>1. ASSUME NEW n \in Nat, a.gen <= n PROVE n \notin less
    BY <1>1, <2>1 DEF Newest
  <2>2. \A p \in in : p.gen \notin less
    BY <1>1, <1>2, <2>1 DEF Orderly, Newest
  <2>3. c.gen \notin less
    BY <1>1, <1>2, <2>1 DEF Orderly, Newest
  <2> QED BY <2>2, <2>3 DEF GivenUp
<1>5. Trying(in, out, c, t, {}, less)
  BY DEF Trying
<1>6. tries \ {a} = {}
  BY <1>1
<1> QED BY <1>3, <1>4, <1>5, <1>6 DEF Linked

LEMMA SucceededLinked ==
  ASSUME NEW in, NEW out, NEW Q, NEW c, NEW s, NEW t,
         NEW tries, NEW carr, NEW a \in tries, Linked(in, out, c, s, tries, carr),
         t = NoStream \/ (t.connected /\ t.client_seq.gen = a.gen),
         \A q \in Q : q.ack.gen = a.gen
  PROVE  tries \ {a} = {} /\ Linked(in, out \cup Q, c, t, tries \ {a}, carr)
<1>1. tries = {a} /\ Newest(a.gen, carr)
  BY DEF Linked, Trying
<1>2. Evidence(in, out \cup Q, c, t, carr)
  BY <1>1 DEF Linked, Evidence, Newest, Holds
<1>3. Trying(in, out \cup Q, c, t, {}, carr)
  BY DEF Trying
<1>4. GivenUp(in, c, t, {}, carr)
  BY DEF GivenUp
<1>5. tries \ {a} = {}
  BY <1>1
<1> QED BY <1>2, <1>3, <1>4, <1>5 DEF Linked

LinkAll == \A k \in Keys : OrderInv(k) /\ LinkInv(k)

LEMMA KeyTypes ==
  ASSUME TypeInv, NEW k \in Keys
  PROVE  /\ From(inbound, k) \in SUBSET PacketsIn /\ Held(outbound[k]) \in SUBSET PacketsOut
         /\ client[k] \in ClientRecords /\ carried[k] \in SUBSET Nat
         /\ attempts[k] \in SUBSET Attempts
         /\ inbound \in Seq(PacketsIn) /\ outbound[k] \in Seq(PacketsOut)
<1>1. From(inbound, k) \in SUBSET PacketsIn /\ Held(outbound[k]) \in SUBSET PacketsOut
  BY DEF From, Held
<1> QED BY <1>1 DEF TypeInv, WireType, DaemonType, HistoryType

(* A step of one key leaves the others as they are, but for packets taken. *)
LEMMA LinkStep ==
  ASSUME LinkAll, NEW k \in Keys,
         \A j \in Keys : j # k =>
           /\ From(inbound', j) \subseteq From(inbound, j) /\ InOrder(inbound', j)
           /\ outbound'[j] = outbound[j] /\ client'[j] = client[j]
           /\ streams'[j] = streams[j] /\ attempts'[j] = attempts[j]
           /\ carried'[j] = carried[j] /\ twice'[j] = twice[j],
         OrderInv(k)', LinkInv(k)'
  PROVE  LinkAll'
<1> SUFFICES ASSUME NEW j \in Keys, j # k PROVE OrderInv(j)' /\ LinkInv(j)'
  BY DEF LinkAll
<1>1. OrderInv(j) /\ LinkInv(j)
  BY DEF LinkAll
<1>2. OrderInv(j)'
  <2>1. Orderly(From(inbound', j), client[j], carried[j])
    BY <1>1, FewerOrderly DEF OrderInv
  <2> QED BY <2>1 DEF OrderInv
<1>3. LinkInv(j)'
  <2>1. CASE twice[j]
    BY <2>1 DEF LinkInv
  <2>2. CASE ~twice[j]
    <3>1. Linked(From(inbound', j), Held(outbound[j]), client[j], streams[j], attempts[j],
                 carried[j])
      BY <1>1, <2>2, FewerLinked DEF LinkInv
    <3> QED BY <3>1 DEF LinkInv
  <2> QED BY <2>1, <2>2
<1> QED BY <1>2, <1>3

LEMMA ArrivesFrom ==
  ASSUME TypeInv, LinkAll, NEW k \in Keys, NEW kind, Arrives(k, kind)
  PROVE  /\ \A j \in Keys : From(inbound', j) \subseteq From(inbound, j) /\ InOrder(inbound', j)
         /\ Head(inbound) \in From(inbound, k) /\ Head(inbound).kind = kind
         /\ \A q \in From(inbound', k) : Before(Head(inbound), q)
<1>1. /\ inbound \in Seq(PacketsIn) /\ inbound # <<>> /\ inbound' = Tail(inbound)
      /\ Head(inbound).key = k /\ Head(inbound).kind = kind
  BY DEF Arrives, TypeInv, WireType
<1>2. \A j \in Keys : InOrder(inbound, j)
  BY DEF LinkAll, OrderInv
<1> QED BY <1>1, <1>2, TakenFrom

LEMMA SegmentHeld ==
  ASSUME TypeInv, NEW k \in Keys, NEW p \in PacketsOut, Send(k, <<p>>)
  PROVE  /\ Held(outbound'[k]) \subseteq Held(outbound[k]) \cup {p}
         /\ \A j \in Keys : j # k => outbound'[j] = outbound[j]
         /\ OutOrder(outbound[k]) /\ (\A q \in Held(outbound[k]) : q.ack.gen <= p.ack.gen)
              => OutOrder(outbound'[k])
<1>1. <<p>> \in Seq(PacketsOut) /\ \A i \in DOMAIN <<p>> : <<p>>[i] = p
  OBVIOUS
<1>2. /\ WireType /\ outbound[k] \in Seq(PacketsOut)
      /\ p.ack.gen \in Nat /\ (\A q \in Held(outbound[k]) : q.ack.gen \in Nat)
  BY DEF TypeInv, WireType, Held, PacketsOut, Position
<1>3. PICK rest \in Seq(PacketsOut) :
        /\ outbound'[k] = outbound[k] \o rest
        /\ \A i \in DOMAIN rest : \E q \in DOMAIN <<p>> : rest[i] = <<p>>[q]
  BY <1>1, <1>2, SendAppends
<1>4. \A q \in Held(rest) : q = p
  BY <1>1, <1>3 DEF Held
<1>5. /\ Held(outbound'[k]) \subseteq Held(outbound[k]) \cup {p}
      /\ OutOrder(outbound[k]) /\ (\A q \in Held(outbound[k]) : q.ack.gen <= p.ack.gen)
           => OutOrder(outbound'[k])
  <2> DEFINE g == p.ack.gen
             s == outbound[k]
  <2>1. g \in Nat /\ s \in Seq(PacketsOut) /\ \A q \in Held(rest) : q.ack.gen = g
    BY <1>2, <1>4
  <2> HIDE DEF g, s
  <2>2. /\ Held(s \o rest) \subseteq Held(s) \cup Held(rest)
        /\ OutOrder(s) /\ (\A q \in Held(s) : q.ack.gen <= g) => OutOrder(s \o rest)
    BY <2>1, SentOut
  <2> QED BY <1>3, <1>4, <2>2 DEF g, s
<1>6. \A j \in Keys : j # k => outbound'[j] = outbound[j]
  BY <1>1, <1>2, SendAppends
<1> QED BY <1>5, <1>6

(* A stream that is looked up is linked as it was.                         *)
LEMMA TouchedLinked ==
  ASSUME TypeInv, NEW k \in Keys, ~twice[k], LinkInv(k)
  PROVE  Linked(From(inbound, k), Held(outbound[k]), client[k], Touched(k), attempts[k], carried[k])
<1>0. Linked(From(inbound, k), Held(outbound[k]), client[k], streams[k], attempts[k], carried[k])
  BY DEF LinkInv
<1>1. Touched(k) \in StreamRecords
  BY TouchedIsStream DEF TypeInv
<1>2. CASE Exists(k)
  <2>1. streams[k] \in StreamRecords /\ Touched(k) = [streams[k] EXCEPT !.idle = 0]
    BY <1>2, TouchedIsStream, StreamIsNoneOrRecord DEF TypeInv
  <2>2. Alike(streams[k], Touched(k))
    BY <2>1, ActiveIsStream DEF Alike
  <2> QED BY <1>0, <1>1, <2>1, <2>2, AlikeLinked
<1>3. CASE ~Exists(k)
  <2>1. Touched(k) = FreshStream /\ streams[k] = NoStream
    BY <1>3, TouchedIsStream DEF TypeInv, Exists
  <2>2. ~FreshStream.connected /\ FreshStream.state # "Closed"
    BY DEF FreshStream
  <2> QED BY <1>0, <1>1, <2>1, <2>2, CreatedLinked
<1> QED BY <1>2, <1>3

LEMMA SynAckAcks ==
  ASSUME NEW seq \in Int, NEW ack \in Position
  PROVE  SynAck(seq, ack) \in PacketsOut /\ SynAck(seq, ack).ack = ack
         /\ SynAck(seq, ack).kind = "synack"
  BY SegmentIsPacket DEF SynAck

(* A packet is handled, and the stream t put in place.                     *)
LEMMA ProcessLink ==
  ASSUME TypeInv, LinkAll, NEW k \in Keys, NEW kind, Arrives(k, kind),
         NEW t \in StreamRecords, Put(k, t),
         UNCHANGED <<attempts, carried, twice, client>>,
         \A j \in Keys : j # k => outbound'[j] = outbound[j],
         ~twice[k] => Linked(From(inbound', k), Held(outbound'[k]), client[k], t, attempts[k],
                             carried[k])
  PROVE  LinkAll'
<1>1. \A j \in Keys : From(inbound', j) \subseteq From(inbound, j) /\ InOrder(inbound', j)
  BY ArrivesFrom
<1>2. streams'[k] = t /\ \A j \in Keys : j # k => streams'[j] = streams[j]
  BY PutStream DEF TypeInv
<1>3. OrderInv(k)'
  <2>1. Orderly(From(inbound, k), client[k], carried[k])
    BY DEF LinkAll, OrderInv
  <2>2. Orderly(From(inbound', k), client[k], carried[k])
    BY <1>1, <2>1, FewerOrderly
  <2> QED BY <1>1, <2>2 DEF OrderInv
<1>4. LinkInv(k)'
  BY <1>2 DEF LinkInv
<1> QED BY <1>1, <1>2, <1>3, <1>4, LinkStep

LEMMA HandleSynLink ==
  ASSUME TypeInv, TableInv, LinkAll, NEW k \in Keys, HandleSyn(k)
  PROVE  LinkAll'
<1> DEFINE s == Touched(k)
           p == Head(inbound)
           in == From(inbound, k)
           some == From(inbound', k)
           out == Held(outbound[k])
           c == client[k]
           carr == carried[k]
           tries == attempts[k]
           a == [id |-> attemptId + 1, gen |-> p.gen]
           synack == SynAck(s.vpn_seq - 1, s.client_seq)
<1>1. /\ Arrives(k, "syn") /\ UNCHANGED client
      /\ attempts \in [Keys -> SUBSET Attempts] /\ carried \in [Keys -> SUBSET Nat]
      /\ twice \in [Keys -> BOOLEAN] /\ outbound \in [Keys -> Seq(PacketsOut)]
  BY DEF HandleSyn, TypeInv, DaemonType, HistoryType, WireType
<1>2. /\ \A j \in Keys : From(inbound', j) \subseteq From(inbound, j) /\ InOrder(inbound', j)
      /\ p \in in /\ p.kind = "syn"
      /\ \A q \in some : Before(p, q)
  BY <1>1, ArrivesFrom
<1>3. /\ s \in StreamRecords /\ Shape(s, attemptId, tries, finSent[k])
  BY TouchedShape DEF TableInv
<1>4. Orderly(in, c, carr) /\ LinkInv(k)
  BY DEF LinkAll, OrderInv
<1>5. ~twice[k] => Linked(in, out, c, s, tries, carr)
  BY <1>4, TouchedLinked
<1>6. /\ in \in SUBSET PacketsIn /\ c \in ClientRecords /\ carr \in SUBSET Nat
      /\ tries \in SUBSET Attempts /\ p.gen \in 1..MaxGen
  BY <1>1, KeyTypes, ArrivesTakes DEF TypeInv
<1>7. \/ /\ RepeatsSyn(s) /\ Put(k, s) /\ Send(k, <<synack>>)
         /\ UNCHANGED <<attempts, attemptId, carried, twice>>
      \/ /\ Put(k, s)
         /\ UNCHANGED <<attempts, attemptId, outbound, carried, twice>>
      \/ /\ ~RepeatsSyn(s) /\ ~s.connecting
         /\ Put(k, [s EXCEPT !.connecting = TRUE])
         /\ attempts' = [attempts EXCEPT ![k] = @ \cup {a}]
         /\ carried' = [carried EXCEPT ![k] = @ \cup {p.gen}]
         /\ twice' = [twice EXCEPT ![k] =
              @ \/ (s.state = "Listen" /\ (p.gen \in carried[k] \/ attempts[k] # {}))]
         /\ UNCHANGED outbound
  BY DEF HandleSyn
<1> HIDE DEF s, p, a, synack
<1>8. CASE /\ RepeatsSyn(s) /\ Put(k, s) /\ Send(k, <<synack>>)
           /\ UNCHANGED <<attempts, attemptId, carried, twice>>
  <2>1. synack \in PacketsOut /\ synack.ack = s.client_seq
    BY <1>3, SynAckAcks DEF StreamRecords, synack
  <2>2. /\ Held(outbound'[k]) \subseteq out \cup {synack}
        /\ \A j \in Keys : j # k => outbound'[j] = outbound[j]
    BY <1>8, <2>1, SegmentHeld
  <2>3. ASSUME ~twice[k] PROVE Linked(some, Held(outbound'[k]), c, s, tries, carr)
    <3>1. s.connected /\ Holds(s)
      BY <1>3, <1>8, NoStreamIsNone DEF RepeatsSyn, Shape, Holds
    <3>2. tries = {} /\ Newest(s.client_seq.gen, carr)
      BY <1>5, <2>3, <3>1, HolderIsAlone
    <3>3. GivenUp(some, c, s, tries, carr)
      BY <3>1 DEF GivenUp
    <3>4. \A q \in {synack} : q.ack.gen \in carr /\ tries = {}
      BY <2>1, <3>2 DEF Newest
    <3>5. Linked(some, out \cup {synack}, c, s, tries, carr)
      BY <1>2, <1>5, <2>3, <3>2, <3>3, <3>4, StreamLinked
    <3> QED BY <2>2, <3>5, FewerLinked
  <2> QED BY <1>1, <1>3, <1>8, <2>2, <2>3, ProcessLink
<1>9. CASE /\ Put(k, s)
           /\ UNCHANGED <<attempts, attemptId, outbound, carried, twice>>
  <2>1. ASSUME ~twice[k] PROVE Linked(some, out, c, s, tries, carr)
    BY <1>2, <1>5, <2>1, FewerLinked
  <2> QED BY <1>1, <1>3, <1>9, <2>1, ProcessLink
<1>10. CASE /\ ~RepeatsSyn(s) /\ ~s.connecting
            /\ Put(k, [s EXCEPT !.connecting = TRUE])
            /\ attempts' = [attempts EXCEPT ![k] = @ \cup {a}]
            /\ carried' = [carried EXCEPT ![k] = @ \cup {p.gen}]
            /\ twice' = [twice EXCEPT ![k] =
                 @ \/ (s.state = "Listen" /\ (p.gen \in carried[k] \/ attempts[k] # {}))]
            /\ UNCHANGED outbound
  <2> DEFINE t == [s EXCEPT !.connecting = TRUE]
  <2>1. t \in StreamRecords /\ t.connected = s.connected /\ t.connecting = TRUE
    BY <1>3 DEF StreamRecords
  <2>2. streams'[k] = t /\ \A j \in Keys : j # k => streams'[j] = streams[j]
    BY <1>10, <2>1, PutStream DEF TypeInv
  <2> HIDE DEF t
  <2>3. /\ attempts'[k] = tries \cup {a} /\ carried'[k] = carr \cup {p.gen}
        /\ \A j \in Keys : j # k => attempts'[j] = attempts[j] /\ carried'[j] = carried[j]
                                    /\ twice'[j] = twice[j]
    BY <1>1, <1>10
  <2>4. ~twice'[k] => ~twice[k] /\ ~(s.state = "Listen" /\ (p.gen \in carr \/ tries # {}))
    BY <1>1, <1>10
  <2>5. OrderInv(k)'
    <3>1. Orderly(some, c, carr \cup {p.gen})
      BY <1>2, <1>4, SynOrderly
    <3> QED BY <1>1, <1>2, <2>3, <3>1 DEF OrderInv
  <2>6. LinkInv(k)'
    <3>1. CASE twice'[k]
      BY <3>1 DEF LinkInv
    <3>2. CASE ~twice'[k]
      <4>1. ~s.connected /\ s.state # "SynReceived"
        BY <1>10 DEF RepeatsSyn
      <4>2. Linked(in, out, c, s, tries, carr)
        BY <1>5, <2>4, <3>2
      <4>3. tries = {} /\ p.gen \notin carr
        BY <1>2, <1>3, <1>10, <2>4, <3>2, <4>1, <4>2, SynIsNew
      <4>4. a \in Attempts /\ a.gen = p.gen
        BY <1>6, Bounds DEF Attempts, TypeInv, DaemonType, a
      <4>5. Linked(some, out, c, t, {a}, carr \cup {p.gen})
        BY <1>2, <1>4, <1>6, <2>1, <4>1, <4>2, <4>3, <4>4, SynLinked
      <4>6. attempts'[k] = {a}
        BY <2>3, <4>3
      <4> QED BY <1>1, <1>10, <2>2, <2>3, <4>5, <4>6 DEF LinkInv
    <3> QED BY <3>1, <3>2
  <2> QED BY <1>1, <1>2, <1>10, <2>2, <2>3, <2>5, <2>6, LinkStep
<1> QED BY <1>7, <1>8, <1>9, <1>10

LEMMA HandleAckLink ==
  ASSUME TypeInv, TableInv, LinkAll, NEW k \in Keys, HandleAck(k)
  PROVE  LinkAll'
<1> DEFINE s == Touched(k)
           t == [s EXCEPT !.state = "Established"]
           some == From(inbound', k)
           out == Held(outbound[k])
           c == client[k]
           carr == carried[k]
           tries == attempts[k]
<1>1. PICK kind : Arrives(k, kind)
  BY DEF HandleAck
<1>2. UNCHANGED <<attempts, carried, twice, client, outbound>>
  BY DEF HandleAck, historyVars
<1>3. some \subseteq From(inbound, k)
  BY <1>1, ArrivesFrom
<1>4. s \in StreamRecords /\ Shape(s, attemptId, tries, finSent[k])
  BY TouchedShape DEF TableInv
<1>5. ~twice[k] => Linked(From(inbound, k), out, c, s, tries, carr)
  BY TouchedLinked DEF LinkAll
<1>6. Put(k, s) \/ (s.state = "SynReceived" /\ Put(k, t))
  BY DEF HandleAck
<1> HIDE DEF s
<1>7. CASE Put(k, s)
  <2>1. ASSUME ~twice[k] PROVE Linked(some, out, c, s, tries, carr)
    BY <1>3, <1>5, <2>1, FewerLinked
  <2> QED BY <1>1, <1>2, <1>4, <1>7, <2>1, ProcessLink
<1>8. CASE s.state = "SynReceived" /\ Put(k, t)
  <2>1. t \in StreamRecords /\ t.connected = s.connected /\ t.state = "Established"
        /\ t.client_seq = s.client_seq
    BY <1>4 DEF StreamRecords
  <2> HIDE DEF t
  <2>2. ASSUME ~twice[k] PROVE Linked(some, out, c, t, tries, carr)
    <3>1. Holds(s)
      BY <1>4, <1>8, NoStreamIsNone DEF Shape, Holds
    <3>2. tries = {} /\ Newest(s.client_seq.gen, carr)
      BY <1>5, <2>2, <3>1, HolderIsAlone
    <3>3. GivenUp(some, c, t, tries, carr)
      BY <2>1 DEF GivenUp
    <3>4. Linked(some, out \cup {}, c, t, tries, carr)
      BY <1>3, <1>5, <2>1, <2>2, <3>2, <3>3, StreamLinked
    <3> QED BY <3>4
  <2> QED BY <1>1, <1>2, <1>8, <2>1, <2>2, ProcessLink
<1> QED BY <1>6, <1>7, <1>8

(* What a packet of an open connection is answered with acknowledges the   *)
(* latest connection carried.                                              *)
LEMMA AnsweredLink ==
  ASSUME TypeInv, TableInv, LinkAll, NEW k \in Keys, NEW kind \in {"data", "fin"},
         Arrives(k, kind), NEW t \in StreamRecords, Put(k, t),
         t.client_seq.gen = Head(inbound).gen, t.connected = Touched(k).connected,
         kind = "data" => t.state = Touched(k).state,
         NEW p \in PacketsOut, p.ack.gen = Head(inbound).gen, Send(k, <<p>>),
         UNCHANGED <<attempts, carried, twice, client>>
  PROVE  LinkAll'
<1> DEFINE s == Touched(k)
           h == Head(inbound)
           in == From(inbound, k)
           some == From(inbound', k)
           out == Held(outbound[k])
           c == client[k]
           carr == carried[k]
           tries == attempts[k]
<1>1. /\ some \subseteq in /\ h \in in /\ h.kind = kind
      /\ \A q \in some : Before(h, q)
  BY ArrivesFrom
<1>2. /\ Held(outbound'[k]) \subseteq out \cup {p}
      /\ \A j \in Keys : j # k => outbound'[j] = outbound[j]
  BY SegmentHeld
<1>3. ASSUME ~twice[k] PROVE Linked(some, Held(outbound'[k]), c, t, tries, carr)
  <2>1. Linked(in, out, c, s, tries, carr) /\ Orderly(in, c, carr)
    BY <1>3, TouchedLinked DEF LinkAll, OrderInv
  <2>2. /\ in \in SUBSET PacketsIn /\ c \in ClientRecords /\ carr \in SUBSET Nat
        /\ tries \in SUBSET Attempts
    BY KeyTypes
  <2>3. tries = {} /\ Newest(h.gen, carr)
    BY <1>1, <2>1, <2>2, OpenedIsNewest DEF Opened
  <2>4. GivenUp(some, c, t, tries, carr)
    <3>1. CASE kind = "fin"
      BY <1>1, <2>1, <2>2, <3>1, FinGivesUp
    <3>2. CASE kind = "data"
      <4>1. s # NoStream
        BY TouchedIsStream, NoStreamIsNone DEF TypeInv
      <4> QED BY <1>1, <2>1, <3>2, <4>1 DEF Linked, GivenUp
    <3> QED BY <3>1, <3>2
  <2>5. \A q \in {p} : q.ack.gen \in carr /\ tries = {}
    BY <2>3 DEF Newest
  <2>6. Linked(some, out \cup {p}, c, t, tries, carr)
    BY <1>1, <2>1, <2>3, <2>4, <2>5, StreamLinked
  <2> QED BY <1>2, <2>6, FewerLinked
<1> QED BY <1>2, <1>3, ProcessLink

(* What the stream and the answer are to a packet of data or a FIN.        *)
LEMMA DataStream ==
  ASSUME TypeInv, NEW k \in Keys, HandleData(k)
  PROVE  LET h == Head(inbound)
             t == [Touched(k) EXCEPT !.client_seq = Offset(h.gen, h.unit + 1)]
             p == Segment("ack", t.vpn_seq, t.client_seq)
         IN
         /\ Arrives(k, "data") /\ Put(k, t) /\ t \in StreamRecords
         /\ t.connected = Touched(k).connected /\ t.state = Touched(k).state
         /\ t.vpn_seq = Touched(k).vpn_seq /\ t.socks = Touched(k).socks
         /\ t.client_seq.gen = h.gen
         /\ p \in PacketsOut /\ p.ack.gen = h.gen /\ p.kind = "ack" /\ Send(k, <<p>>)
<1> DEFINE h == Head(inbound)
           s == Touched(k)
           at == Offset(h.gen, h.unit + 1)
           t == [s EXCEPT !.client_seq = at]
           p == Segment("ack", t.vpn_seq, t.client_seq)
<1>1. Arrives(k, "data") /\ Put(k, t) /\ Send(k, <<p>>)
  BY DEF HandleData
<1>2. at \in Position /\ at.gen = h.gen
  <2>1. Arrives(k, "data")
    BY <1>1
  <2>2. h.gen \in Nat /\ h.unit + 1 \in Nat
    BY <2>1, ArrivesTakes, Bounds DEF TypeInv
  <2> QED BY <2>2, OffsetIsPosition
<1>3. s \in StreamRecords
  BY TouchedIsStream DEF TypeInv
<1> HIDE DEF s, at
<1>4. /\ t \in StreamRecords /\ t.client_seq = at /\ t.connected = s.connected
      /\ t.state = s.state /\ t.vpn_seq = s.vpn_seq /\ t.socks = s.socks
  BY <1>2, <1>3 DEF StreamRecords
<1>5. t.vpn_seq \in Int
  BY <1>4 DEF StreamRecords
<1> HIDE DEF t
<1>6. p \in PacketsOut /\ p.ack = at /\ p.kind = "ack"
  BY <1>2, <1>4, <1>5, SegmentIsPacket
<1> HIDE DEF p
<1> QED BY <1>1, <1>2, <1>4, <1>6 DEF s, at, t, p

LEMMA FinStream ==
  ASSUME TypeInv, NEW k \in Keys, HandleFin(k)
  PROVE  LET h == Head(inbound)
             f == [Touched(k) EXCEPT !.client_seq = Offset(h.gen, h.unit + 1),
                                     !.state = "Closed"]
             t == [f EXCEPT !.vpn_seq = @ + 1]
             p == Segment("finack", f.vpn_seq, f.client_seq)
         IN
         /\ Arrives(k, "fin") /\ Put(k, t) /\ t \in StreamRecords
         /\ t.connected = Touched(k).connected /\ t.state = "Closed"
         /\ t.socks = Touched(k).socks /\ t.client_seq.gen = h.gen
         /\ p \in PacketsOut /\ p.ack.gen = h.gen /\ p.kind = "finack" /\ Send(k, <<p>>)
<1> DEFINE h == Head(inbound)
           s == Touched(k)
           at == Offset(h.gen, h.unit + 1)
           f == [s EXCEPT !.client_seq = at, !.state = "Closed"]
           t == [f EXCEPT !.vpn_seq = @ + 1]
           p == Segment("finack", f.vpn_seq, f.client_seq)
<1>1. Arrives(k, "fin") /\ Put(k, t) /\ Send(k, <<p>>)
  BY DEF HandleFin
<1>2. at \in Position /\ at.gen = h.gen
  <2>1. Arrives(k, "fin")
    BY <1>1
  <2>2. h.gen \in Nat /\ h.unit + 1 \in Nat
    BY <2>1, ArrivesTakes, Bounds DEF TypeInv
  <2> QED BY <2>2, OffsetIsPosition
<1>3. s \in StreamRecords
  BY TouchedIsStream DEF TypeInv
<1> HIDE DEF s, at
<1>4. /\ f \in StreamRecords /\ f.client_seq = at /\ f.connected = s.connected
      /\ f.state = "Closed" /\ f.socks = s.socks
  <2> DEFINE g == [s EXCEPT !.client_seq = at]
  <2>1. /\ g \in StreamRecords /\ g.client_seq = at /\ g.connected = s.connected
        /\ g.socks = s.socks
    BY <1>2, <1>3 DEF StreamRecords
  <2>2. f = [g EXCEPT !.state = "Closed"]
    OBVIOUS
  <2> HIDE DEF f, g
  <2> QED BY <2>1, <2>2 DEF StreamRecords
<1> HIDE DEF f
<1>5. f.vpn_seq \in Int /\ f.vpn_seq + 1 \in Nat
  BY <1>4 DEF StreamRecords
<1>6. p \in PacketsOut /\ p.ack = at /\ p.kind = "finack"
  BY <1>2, <1>4, <1>5, SegmentIsPacket
<1> HIDE DEF p
<1>7. /\ t \in StreamRecords /\ t.client_seq = at /\ t.connected = s.connected
      /\ t.state = "Closed" /\ t.socks = s.socks
  <2> DEFINE v == f.vpn_seq + 1
  <2>1. v \in Nat /\ t = [f EXCEPT !.vpn_seq = v]
    BY <1>5
  <2> HIDE DEF v, t
  <2> QED BY <1>4, <2>1 DEF StreamRecords
<1> HIDE DEF t
<1> QED BY <1>1, <1>2, <1>6, <1>7 DEF s, at, f, t, p

LEMMA HandleDataLink ==
  ASSUME TypeInv, TableInv, LinkAll, NEW k \in Keys, HandleData(k)
  PROVE  LinkAll'
<1>1. UNCHANGED <<attempts, carried, twice, client>>
  BY DEF HandleData
<1> DEFINE h == Head(inbound)
           t == [Touched(k) EXCEPT !.client_seq = Offset(h.gen, h.unit + 1)]
           p == Segment("ack", t.vpn_seq, t.client_seq)
<1>2. /\ Arrives(k, "data") /\ Put(k, t) /\ t \in StreamRecords
      /\ t.connected = Touched(k).connected /\ t.state = Touched(k).state
      /\ t.client_seq.gen = h.gen
      /\ p \in PacketsOut /\ p.ack.gen = h.gen /\ Send(k, <<p>>)
  BY DataStream
<1> HIDE DEF t, p
<1> QED BY <1>1, <1>2, AnsweredLink

LEMMA HandleFinLink ==
  ASSUME TypeInv, TableInv, LinkAll, NEW k \in Keys, HandleFin(k)
  PROVE  LinkAll'
<1>1. UNCHANGED <<attempts, carried, twice, client>>
  BY DEF HandleFin
<1> DEFINE h == Head(inbound)
           f == [Touched(k) EXCEPT !.client_seq = Offset(h.gen, h.unit + 1), !.state = "Closed"]
           t == [f EXCEPT !.vpn_seq = @ + 1]
           p == Segment("finack", f.vpn_seq, f.client_seq)
<1>2. /\ Arrives(k, "fin") /\ Put(k, t) /\ t \in StreamRecords
      /\ t.connected = Touched(k).connected
      /\ t.client_seq.gen = h.gen
      /\ p \in PacketsOut /\ p.ack.gen = h.gen /\ Send(k, <<p>>)
  BY FinStream
<1> HIDE DEF f, t, p
<1> QED BY <1>1, <1>2, AnsweredLink

(* The other threads take no packet.                                       *)
LEMMA DaemonLink ==
  ASSUME LinkAll, NEW k \in Keys, UNCHANGED <<inbound, client, twice>>,
         \A j \in Keys : j # k =>
           /\ outbound'[j] = outbound[j] /\ streams'[j] = streams[j]
           /\ attempts'[j] = attempts[j] /\ carried'[j] = carried[j],
         carried'[k] \subseteq carried[k],
         ~twice[k] => Linked(From(inbound, k), Held(outbound'[k]), client[k], streams'[k],
                             attempts'[k], carried'[k])
  PROVE  LinkAll'
<1>1. \A j \in Keys : From(inbound', j) \subseteq From(inbound, j) /\ InOrder(inbound', j)
  BY DEF LinkAll, OrderInv
<1>2. OrderInv(k)'
  <2>1. Orderly(From(inbound, k), client[k], carried[k])
    BY DEF LinkAll, OrderInv
  <2>2. Orderly(From(inbound, k), client[k], carried'[k])
    BY <2>1, FewerOrderly
  <2> QED BY <1>1, <2>2 DEF OrderInv
<1>3. LinkInv(k)'
  BY DEF LinkInv
<1> QED BY <1>1, <1>2, <1>3, LinkStep

LEMMA ConnectFailedLink ==
  ASSUME TypeInv, LinkAll, NEW k \in Keys, NEW a \in attempts[k], ConnectFailed(k, a)
  PROVE  LinkAll'
<1> DEFINE in == From(inbound, k)
           out == Held(outbound[k])
           c == client[k]
           carr == carried[k]
           tries == attempts[k]
           s == streams[k]
           t == streams'[k]
<1>1. /\ attempts' = [attempts EXCEPT ![k] = @ \ {a}]
      /\ carried' = [carried EXCEPT ![k] = @ \ {a.gen}]
      /\ UNCHANGED <<inbound, outbound, client, twice>>
      /\ streams \in [Keys -> StreamRecords \cup {NoStream}]
      /\ attempts \in [Keys -> SUBSET Attempts] /\ carried \in [Keys -> SUBSET Nat]
  BY DEF ConnectFailed, TypeInv, DaemonType, HistoryType
<1>2. /\ attempts'[k] = tries \ {a} /\ carried'[k] = carr \ {a.gen}
      /\ \A j \in Keys : j # k => attempts'[j] = attempts[j] /\ carried'[j] = carried[j]
  BY <1>1
<1>3. /\ t # NoStream => s # NoStream /\ t.connected = s.connected
      /\ \A j \in Keys : j # k => streams'[j] = streams[j]
  <2>1. CASE s = NoStream
    BY <2>1 DEF ConnectFailed
  <2>2. CASE s # NoStream
    <3>1. streams' = [streams EXCEPT ![k] = [s EXCEPT !.connecting = FALSE]]
      BY <2>2 DEF ConnectFailed, Put
    <3>2. s \in StreamRecords
      BY <1>1, <2>2
    <3>3. [s EXCEPT !.connecting = FALSE].connected = s.connected
      BY <3>2 DEF StreamRecords
    <3> QED BY <1>1, <2>2, <3>1, <3>3
  <2> QED BY <2>1, <2>2
<1>4. ASSUME ~twice[k]
      PROVE  Linked(in, Held(outbound'[k]), c, t, attempts'[k], carried'[k])
  <2>1. /\ in \in SUBSET PacketsIn /\ c \in ClientRecords /\ carr \in SUBSET Nat
        /\ tries \in SUBSET Attempts
    BY KeyTypes
  <2>2. Orderly(in, c, carr) /\ Linked(in, out, c, s, tries, carr)
    BY <1>4 DEF LinkAll, OrderInv, LinkInv
  <2> HIDE DEF t, s, in, out, c, carr, tries
  <2>3. Linked(in, out, c, t, tries \ {a}, carr \ {a.gen})
    <3>1. a \in tries
      BY DEF tries
    <3> QED BY <1>3, <2>1, <2>2, <3>1, FailedLinked
  <2> QED BY <1>1, <1>2, <2>3 DEF out
<1> QED BY <1>1, <1>2, <1>3, <1>4, DaemonLink

LEMMA ConnectedLink ==
  ASSUME TypeInv, LinkAll, NEW k \in Keys, NEW a \in attempts[k], Connected(k, a)
  PROVE  LinkAll'
<1> DEFINE in == From(inbound, k)
           out == Held(outbound[k])
           c == client[k]
           carr == carried[k]
           tries == attempts[k]
           s == streams[k]
           t == streams'[k]
           synack == SynAck(Iss, Offset(a.gen, 1))
<1>1. /\ attempts' = [attempts EXCEPT ![k] = @ \ {a}]
      /\ UNCHANGED <<inbound, client, carried, twice>>
      /\ streams \in [Keys -> StreamRecords \cup {NoStream}]
      /\ attempts \in [Keys -> SUBSET Attempts]
  BY DEF Connected, TypeInv, DaemonType
<1>2. a \in Attempts /\ a.gen \in Nat
  BY <1>1, Bounds DEF Attempts
<1>3. synack \in PacketsOut /\ synack.ack.gen = a.gen
  <2>1. Offset(a.gen, 1) \in Position /\ Offset(a.gen, 1).gen = a.gen
    BY <1>2, OffsetIsPosition
  <2>2. Iss \in Int
    BY DEF Iss
  <2> QED BY <2>1, <2>2, SynAckAcks
<1>4. /\ attempts'[k] = tries \ {a}
      /\ \A j \in Keys : j # k => attempts'[j] = attempts[j]
  BY <1>1
<1>5. /\ t = NoStream \/ (t.connected /\ t.client_seq.gen = a.gen)
      /\ \A j \in Keys : j # k => streams'[j] = streams[j] /\ outbound'[j] = outbound[j]
      /\ Held(outbound'[k]) \subseteq out \cup {synack}
  <2>1. CASE s = NoStream /\ UNCHANGED <<streams, outbound, finSent>>
    BY <2>1
  <2>2. CASE s # NoStream /\ Put(k, TakenOver(s, a)) /\ Send(k, <<synack>>)
    <3>1. s \in StreamRecords
      BY <1>1, <2>2
    <3>0. Offset(a.gen, 1).gen = a.gen
      BY DEF Offset
    <3>2. /\ TakenOver(s, a) \in StreamRecords /\ TakenOver(s, a).connected
          /\ TakenOver(s, a).client_seq.gen = a.gen
      BY <1>2, <3>0, <3>1, TakenOverIsStream
    <3>3. t = TakenOver(s, a) /\ \A j \in Keys : j # k => streams'[j] = streams[j]
      BY <2>2, <3>2, PutStream DEF TypeInv
    <3>4. /\ Held(outbound'[k]) \subseteq out \cup {synack}
          /\ \A j \in Keys : j # k => outbound'[j] = outbound[j]
      <4> HIDE DEF synack
      <4> QED BY <1>3, <2>2, SegmentHeld
    <3> QED BY <3>2, <3>3, <3>4
  <2> QED BY <2>1, <2>2 DEF Connected
<1>6. ASSUME ~twice[k]
      PROVE  Linked(in, Held(outbound'[k]), c, t, attempts'[k], carried'[k])
  <2>1. Linked(in, out, c, s, tries, carr)
    BY <1>6 DEF LinkAll, LinkInv
  <2>2. \A q \in {synack} : q.ack.gen = a.gen
    BY <1>3
  <2>3. a \in tries
    OBVIOUS
  <2> HIDE DEF t, s, in, out, c, carr, tries, synack
  <2>4. Linked(in, out \cup {synack}, c, t, tries \ {a}, carr)
    BY <1>5, <2>1, <2>2, <2>3, SucceededLinked
  <2>5. Linked(in, Held(outbound'[k]), c, t, tries \ {a}, carr)
    BY <1>5, <2>4, FewerLinked
  <2> QED BY <1>1, <1>4, <2>5 DEF carr
<1> QED BY <1>1, <1>4, <1>5, <1>6, DaemonLink

(* What is written of a response acknowledges what its stream does.        *)
LEMMA ResponseHeld ==
  ASSUME TypeInv, NEW k \in Keys, Exists(k), Send(k, Sent(k))
  PROVE  /\ \A q \in Held(outbound'[k]) :
              q \in Held(outbound[k]) \/ \E i \in 1..Len(responses[k]) : q = Sent(k)[i]
         /\ \A j \in Keys : j # k => outbound'[j] = outbound[j]
         /\ OutOrder(outbound[k])
              /\ (\A q \in Held(outbound[k]) : q.ack.gen <= streams[k].client_seq.gen)
              => OutOrder(outbound'[k])
<1> DEFINE s == outbound[k]
           g == streams[k].client_seq.gen
<1>1. /\ Sent(k) \in Seq(PacketsOut) /\ DOMAIN Sent(k) = 1..Len(responses[k])
      /\ \A i \in DOMAIN Sent(k) : Sent(k)[i].ack = streams[k].client_seq
  BY SentArePackets DEF TypeInv
<1>2. WireType /\ s \in Seq(PacketsOut) /\ g \in Nat
  BY StreamIsNoneOrRecord DEF TypeInv, WireType, StreamRecords, Position
<1>3. PICK rest \in Seq(PacketsOut) :
        /\ outbound'[k] = s \o rest
        /\ \A i \in DOMAIN rest : \E q \in DOMAIN Sent(k) : rest[i] = Sent(k)[q]
  BY <1>1, <1>2, SendAppends
<1>4. \A q \in Held(rest) : \E i \in 1..Len(responses[k]) : q = Sent(k)[i]
  BY <1>1, <1>3 DEF Held
<1>5. \A q \in Held(rest) : q.ack.gen = g
  BY <1>1, <1>4
<1>6. \A j \in Keys : j # k => outbound'[j] = outbound[j]
  BY <1>1, <1>2, SendAppends
<1> HIDE DEF s, g
<1>7. /\ Held(s \o rest) \subseteq Held(s) \cup Held(rest)
      /\ OutOrder(s) /\ (\A q \in Held(s) : q.ack.gen <= g) => OutOrder(s \o rest)
  BY <1>2, <1>5, SentOut
<1>8. \A q \in Held(outbound'[k]) : q \in Held(s) \/ \E i \in 1..Len(responses[k]) : q = Sent(k)[i]
  BY <1>3, <1>4, <1>7
<1> QED BY <1>3, <1>6, <1>7, <1>8 DEF s, g

(* Every key is looked at.                                                 *)
LEMMA LoopLink ==
  ASSUME LinkAll, UNCHANGED <<inbound, outbound, client, attempts, carried, twice>>,
         \A k \in Keys : ~twice[k] =>
           Linked(From(inbound, k), Held(outbound[k]), client[k], streams'[k], attempts[k],
                  carried[k])
  PROVE  LinkAll'
  BY DEF LinkAll, OrderInv, LinkInv

LEMMA ReadSocketsLink ==
  ASSUME TypeInv, LinkAll, ReadSockets
  PROVE  LinkAll'
<1>1. UNCHANGED <<inbound, outbound, client, attempts, carried, twice>>
  BY ReadSocketsOf DEF historyVars
<1>2. ASSUME NEW k \in Keys, ~twice[k]
      PROVE  Linked(From(inbound, k), Held(outbound[k]), client[k], streams'[k], attempts[k],
                    carried[k])
  <2> DEFINE in == From(inbound, k)
             out == Held(outbound[k])
             c == client[k]
             carr == carried[k]
             tries == attempts[k]
             s == streams[k]
  <2>1. Linked(in, out, c, s, tries, carr)
    BY <1>2 DEF LinkAll, LinkInv
  <2>2. ASSUME Readable(k) PROVE s \in StreamRecords /\ s.connected
    BY <2>2, ReadableIsStream DEF TypeInv, Readable
  <2>3. CASE ReadsError(k)
    <3> DEFINE t == [s EXCEPT !.state = "Closed"]
    <3>1. s \in StreamRecords /\ s.connected /\ streams'[k] = t
      BY <2>2, <2>3 DEF ReadsError
    <3> HIDE DEF s, in, out, c, carr, tries
    <3>2. t \in StreamRecords /\ t.connected /\ t.client_seq = s.client_seq
      BY <3>1 DEF StreamRecords
    <3> HIDE DEF t
    <3>3. Holds(s)
      BY <3>1, NoStreamIsNone DEF Holds
    <3>4. tries = {} /\ Newest(s.client_seq.gen, carr)
      BY <2>1, <3>3, HolderIsAlone
    <3>5. GivenUp(in, c, t, tries, carr)
      BY <3>2 DEF GivenUp
    <3>6. Linked(in, out \cup {}, c, t, tries, carr)
      BY <2>1, <3>2, <3>4, <3>5, StreamLinked
    <3> QED BY <3>1, <3>6 DEF in, out, c, carr, tries
  <2>4. CASE \E n \in Nat : n > 0 /\ Reads(k, n)
    <3>1. PICK n \in Nat : Reads(k, n)
      BY <2>4
    <3> DEFINE t == [s EXCEPT !.idle = 0, !.socks.read = @ + n]
    <3>2. s \in StreamRecords /\ streams'[k] = t
      BY <2>2, <3>1 DEF Reads
    <3>3. t \in StreamRecords /\ Alike(s, t)
      BY <3>2, ReadIsStream DEF Alike
    <3> HIDE DEF s, t
    <3>4. Linked(in, out, c, t, tries, carr)
      BY <2>1, <3>2, <3>3, AlikeLinked
    <3> QED BY <3>2, <3>4
  <2>5. CASE ReadsNothing(k)
    BY <2>1, <2>5 DEF ReadsNothing
  <2> QED BY <2>3, <2>4, <2>5, ReadSocketsOf
<1> QED BY <1>1, <1>2, LoopLink

LEMMA CleanupLink ==
  ASSUME LinkAll, Cleanup
  PROVE  LinkAll'
<1>1. /\ UNCHANGED <<inbound, outbound, client, attempts, carried, twice>>
      /\ \A k \in Keys : streams'[k] \in {NoStream, streams[k]}
  BY DEF Cleanup, historyVars
<1>2. ASSUME NEW k \in Keys, ~twice[k]
      PROVE  Linked(From(inbound, k), Held(outbound[k]), client[k], streams'[k], attempts[k],
                    carried[k])
  <2>1. Linked(From(inbound, k), Held(outbound[k]), client[k], streams[k], attempts[k], carried[k])
    BY <1>2 DEF LinkAll, LinkInv
  <2>2. Linked(From(inbound, k), Held(outbound[k]), client[k], NoStream, attempts[k], carried[k])
    BY <2>1, ErasedLinked
  <2> QED BY <1>1, <2>1, <2>2
<1> QED BY <1>1, <1>2, LoopLink

LEMMA EndSendingLink ==
  ASSUME LinkAll, EndSending
  PROVE  LinkAll'
  BY DEF EndSending, historyVars, LinkAll, OrderInv, LinkInv

LEMMA IdleLink ==
  ASSUME TypeInv, LinkAll, NEW k \in Keys, Idle(k)
  PROVE  LinkAll'
<1> DEFINE s == streams[k]
           t == [s EXCEPT !.idle = @ + 1]
<1>1. /\ UNCHANGED <<inbound, outbound, client, attempts, carried, twice>> /\ Put(k, t)
      /\ s \in StreamRecords /\ s.idle < 2
  BY DEF Idle, historyVars, TypeInv, DaemonType
<1>2. t \in StreamRecords /\ Alike(s, t)
  <2> HIDE DEF s
  <2>1. s.idle + 1 \in 0..2
    BY <1>1 DEF StreamRecords
  <2> QED BY <1>1, <2>1 DEF StreamRecords, Alike
<1> HIDE DEF t
<1>3. streams'[k] = t /\ \A j \in Keys : j # k => streams'[j] = streams[j]
  BY <1>1, <1>2, PutStream DEF TypeInv
<1>4. ASSUME ~twice[k]
      PROVE  Linked(From(inbound, k), Held(outbound'[k]), client[k], streams'[k], attempts'[k],
                    carried'[k])
  <2>1. Linked(From(inbound, k), Held(outbound[k]), client[k], s, attempts[k], carried[k])
    BY <1>4 DEF LinkAll, LinkInv
  <2> HIDE DEF s
  <2>2. Linked(From(inbound, k), Held(outbound[k]), client[k], t, attempts[k], carried[k])
    BY <1>1, <1>2, <2>1, AlikeLinked
  <2> QED BY <1>1, <1>3, <2>2
<1> QED BY <1>1, <1>3, <1>4, DaemonLink

LEMMA RespondLink ==
  ASSUME TypeInv, TableInv, LinkAll, NEW k \in Keys, Respond(k)
  PROVE  LinkAll'
<1> DEFINE s == streams[k]
           t == [s EXCEPT !.vpn_seq = @ + Len(responses[k]), !.idle = 0]
           in == From(inbound, k)
           out == Held(outbound[k])
           c == client[k]
           carr == carried[k]
           tries == attempts[k]
<1>1. UNCHANGED <<inbound, client, attempts, carried, twice>>
  BY DEF Respond, historyVars
<1>2. Exists(k) /\ s.connected /\ s \in StreamRecords /\ Holds(s)
  <2>1. responses[k] # <<>> /\ ReadInv(k)
    BY DEF Respond, TableInv
  <2> QED BY <2>1, StreamIsNoneOrRecord DEF ReadInv, TypeInv, Exists, Holds
<1>3. CASE UNCHANGED <<streams, outbound>>
  <2>1. \A j \in Keys : ~twice[j] =>
           Linked(From(inbound, j), Held(outbound[j]), client[j], streams'[j], attempts[j],
                  carried[j])
    BY <1>3 DEF LinkAll, LinkInv
  <2> QED BY <1>1, <1>3, <2>1, LoopLink
<1>4. CASE Send(k, Sent(k)) /\ Put(k, t)
  <2>1. Len(responses[k]) \in Nat
    BY DEF TypeInv, DaemonType
  <2>2. t \in StreamRecords /\ t.connected = s.connected /\ t.client_seq = s.client_seq
        /\ Alike(s, t)
    BY <1>2, <2>1, AdvancedIsStream DEF Alike
  <2> HIDE DEF t
  <2>3. streams'[k] = t /\ \A j \in Keys : j # k => streams'[j] = streams[j]
    BY <1>4, <2>2, PutStream DEF TypeInv
  <2>4. /\ \A q \in Held(outbound'[k]) :
              q \in out \/ \E i \in 1..Len(responses[k]) : q = Sent(k)[i]
        /\ \A j \in Keys : j # k => outbound'[j] = outbound[j]
        /\ \A i \in 1..Len(responses[k]) : Sent(k)[i].ack = s.client_seq
    BY <1>2, <1>4, ResponseHeld, SentArePackets DEF TypeInv
  <2>5. ASSUME ~twice[k]
        PROVE  Linked(in, Held(outbound'[k]), c, streams'[k], attempts'[k], carried'[k])
    <3> DEFINE Q == {Sent(k)[i] : i \in 1..Len(responses[k])}
    <3>1. Linked(in, out, c, s, tries, carr)
      BY <2>5 DEF LinkAll, LinkInv
    <3>2. \A q \in Q : q.ack = s.client_seq
      BY <2>4
    <3>3. Held(outbound'[k]) \subseteq out \cup Q
      BY <2>4
    <3> HIDE DEF Q, s, in, out, c, carr, tries
    <3>4. tries = {} /\ Newest(s.client_seq.gen, carr)
      BY <1>2, <3>1, HolderIsAlone
    <3>5. GivenUp(in, c, t, tries, carr)
      BY <1>2, <2>2 DEF GivenUp
    <3>6. \A q \in Q : q.ack.gen \in carr /\ tries = {}
      BY <3>2, <3>4 DEF Newest
    <3>7. Linked(in, out \cup Q, c, t, tries, carr)
      BY <2>2, <3>1, <3>4, <3>5, <3>6, StreamLinked
    <3>8. Linked(in, Held(outbound'[k]), c, t, tries, carr)
      BY <3>3, <3>7, FewerLinked
    <3> QED BY <1>1, <2>3, <3>8 DEF tries, carr
  <2> QED BY <1>1, <2>3, <2>4, <2>5, DaemonLink
<1> QED BY <1>3, <1>4 DEF Respond, Sent

(* The client moves, and writes a packet or none.                          *)
LEMMA QuietLink ==
  ASSUME TypeInv, TypeInv', LinkAll, NEW k \in Keys, \A j \in Keys : j # k => client'[j] = client[j],
         UNCHANGED <<inbound, streams, attempts, carried, twice>>,
         \A j \in Keys : j # k => outbound'[j] = outbound[j],
         Held(outbound'[k]) \subseteq Held(outbound[k]),
         Move(client[k], client'[k], {}, Held(outbound[k]))
  PROVE  LinkAll'
<1> DEFINE in == From(inbound, k)
           out == Held(outbound[k])
           c == client[k]
           d == client'[k]
           carr == carried[k]
           tries == attempts[k]
           s == streams[k]
<1>1. /\ in \in SUBSET PacketsIn /\ out \in SUBSET PacketsOut /\ c \in ClientRecords
      /\ carr \in SUBSET Nat /\ tries \in SUBSET Attempts
  BY KeyTypes
<1>2. d \in ClientRecords
  BY DEF TypeInv, WireType
<1>3. Orderly(in, c, carr) /\ Move(c, d, {}, out) /\ \A j \in Keys : InOrder(inbound, j)
  BY DEF LinkAll, OrderInv
<1>4. ~twice[k] => Linked(in, out, c, s, tries, carr)
  BY DEF LinkAll, LinkInv
<1> HIDE DEF in, out, c, d, carr, tries, s
<1>5. Orderly(in \cup {}, d, carr)
  BY <1>1, <1>2, <1>3, MoveOrderly
<1>6. OrderInv(k)'
  BY <1>3, <1>5 DEF OrderInv, in, d, carr
<1>7. LinkInv(k)'
  <2>1. CASE twice[k]
    BY <2>1 DEF LinkInv
  <2>2. CASE ~twice[k]
    <3>1. Linked(in \cup {}, out, d, s, tries, carr)
      BY <1>1, <1>2, <1>3, <1>4, <2>2, MoveLinked
    <3>2. Linked(in, Held(outbound'[k]), d, s, tries, carr)
      BY <3>1, FewerLinked DEF out
    <3> QED BY <3>2 DEF LinkInv, in, d, carr, s, tries
  <2> QED BY <2>1, <2>2
<1> QED BY <1>3, <1>6, <1>7, LinkStep

LEMMA WritesLink ==
  ASSUME TypeInv, TypeInv', LinkAll, NEW k \in Keys, \A j \in Keys : j # k => client'[j] = client[j],
         UNCHANGED <<streams, attempts, carried, twice>>,
         NEW p \in PacketsIn, p.key = k, inbound' = Append(inbound, p),
         \A j \in Keys : j # k => outbound'[j] = outbound[j],
         Held(outbound'[k]) \subseteq Held(outbound[k]),
         Move(client[k], client'[k], {p}, Held(outbound[k]))
  PROVE  LinkAll'
<1> DEFINE in == From(inbound, k)
           out == Held(outbound[k])
           c == client[k]
           d == client'[k]
           carr == carried[k]
           tries == attempts[k]
           s == streams[k]
<1>1. /\ in \in SUBSET PacketsIn /\ out \in SUBSET PacketsOut /\ c \in ClientRecords
      /\ carr \in SUBSET Nat /\ tries \in SUBSET Attempts /\ inbound \in Seq(PacketsIn)
  BY KeyTypes
<1>2. d \in ClientRecords
  BY DEF TypeInv, WireType
<1>3. Orderly(in, c, carr) /\ Move(c, d, {p}, out) /\ \A j \in Keys : InOrder(inbound, j)
  BY DEF LinkAll, OrderInv
<1>4. ~twice[k] => Linked(in, out, c, s, tries, carr)
  BY DEF LinkAll, LinkInv
<1>5. \A j \in Keys : j # k => From(inbound', j) = From(inbound, j) /\ InOrder(inbound', j)
  BY <1>1, <1>3, WrittenTo
<1> HIDE DEF in, out, c, d, carr, tries, s
<1>6. Orderly(in \cup {p}, d, carr) /\ \A q \in in : Before(q, p)
  <2> DEFINE P == {p}
  <2>1. P \in SUBSET PacketsIn /\ p \in P /\ Move(c, d, P, out)
    BY <1>3
  <2> HIDE DEF P
  <2>2. Orderly(in \cup P, d, carr) /\ \A q \in in, x \in P : Before(q, x)
    BY <1>1, <1>2, <1>3, <2>1, MoveOrderly
  <2> QED BY <2>1, <2>2 DEF P
<1>7. From(inbound', k) \subseteq in \cup {p} /\ InOrder(inbound', k)
  BY <1>1, <1>3, <1>6, WrittenTo DEF in
<1>8. OrderInv(k)'
  <2>1. Orderly(From(inbound', k), d, carr)
    BY <1>6, <1>7, FewerOrderly
  <2> QED BY <1>7, <2>1 DEF OrderInv, d, carr
<1>9. LinkInv(k)'
  <2>1. CASE twice[k]
    BY <2>1 DEF LinkInv
  <2>2. CASE ~twice[k]
    <3>1. Linked(in \cup {p}, out, d, s, tries, carr)
      BY <1>1, <1>2, <1>3, <1>4, <2>2, MoveLinked
    <3>2. Linked(From(inbound', k), Held(outbound'[k]), d, s, tries, carr)
      BY <1>7, <3>1, FewerLinked DEF out
    <3> QED BY <3>2 DEF LinkInv, d, carr, s, tries
  <2> QED BY <2>1, <2>2
<1> QED BY <1>5, <1>8, <1>9, LinkStep

(* What a step writes agrees with how the client moves.                    *)
LEMMA WroteLink ==
  ASSUME TypeInv, TypeInv', LinkAll, NEW k \in Keys, \A j \in Keys : j # k => client'[j] = client[j],
         UNCHANGED <<streams, attempts, carried, twice>>,
         \A j \in Keys : j # k => outbound'[j] = outbound[j],
         Held(outbound'[k]) \subseteq Held(outbound[k]),
         Move(client[k], client'[k], {}, Held(outbound[k])),
         NEW kinds, Writes(k, kinds),
         \A kind \in kinds :
           /\ kind \in Opened <=> client'[k].phase # "synSent"
           /\ kind \in Opened => Told(client[k], client'[k], Held(outbound[k]))
  PROVE  LinkAll'
<1>1. PICK p \in PacketsIn : inbound' = Append(inbound, p) /\ p.key = k /\ p.kind \in kinds
                             /\ p.gen = client'[k].gen
  BY DEF Writes
<1>2. Move(client[k], client'[k], {p}, Held(outbound[k]))
  BY <1>1 DEF Move
<1> QED BY <1>1, <1>2, WritesLink

LEMMA ClientStepsLink ==
  ASSUME TypeInv, TypeInv', LinkAll, ClientSteps
  PROVE  LinkAll'
<1>1. UNCHANGED <<streams, attempts, carried, twice, outbound>>
  BY DEF ClientSteps, daemonVars, historyVars
<1>2. PICK k \in Keys : \/ ClientOpen(k) \/ ClientSend(k) \/ ClientClose(k)
                        \/ ClientRepeats(k) \/ ClientAborts(k)
  BY DEF ClientSteps
<1>3. client[k].gen \in Nat /\ "synSent" \notin Open /\ "closed" \notin Open
  BY Bounds DEF TypeInv, WireType, ClientRecords, Open
<1> DEFINE out == Held(outbound[k])
           c == client[k]
           d == client'[k]
<1>4. CASE ClientOpen(k)
  <2>1. /\ d.phase = "synSent" /\ d.gen = c.gen + 1 /\ Writes(k, {"syn"})
        /\ \A j \in Keys : j # k => client'[j] = client[j]
    BY <1>4, ClientOpenStep DEF ClientTyped
  <2>2. Move(c, d, {}, out)
    BY <1>3, <2>1 DEF Move
  <2>3. "syn" \notin Opened
    BY DEF Opened
  <2> QED BY <1>1, <2>1, <2>2, <2>3, WroteLink
<1>5. CASE ClientSend(k)
  <2>1. /\ c.phase = "established" /\ d.phase = "established" /\ d.gen = c.gen
        /\ Writes(k, {"data"}) /\ \A j \in Keys : j # k => client'[j] = client[j]
    BY <1>5, ClientSendStep DEF ClientTyped
  <2>2. Told(c, d, out)
    BY <2>1 DEF Told, Open
  <2>3. Move(c, d, {}, out)
    BY <1>3, <2>1, <2>2 DEF Move
  <2> QED BY <1>1, <2>1, <2>2, <2>3, WroteLink DEF Opened
<1>6. CASE ClientClose(k)
  <2>1. /\ c.phase \in Open /\ d.phase \in Open /\ d.gen = c.gen
        /\ Writes(k, {"fin"}) /\ \A j \in Keys : j # k => client'[j] = client[j]
    BY <1>6, ClientCloseStep DEF ClientTyped
  <2>2. Told(c, d, out)
    BY <2>1 DEF Told
  <2>3. Move(c, d, {}, out)
    BY <1>3, <2>1, <2>2 DEF Move
  <2> QED BY <1>1, <1>3, <2>1, <2>2, <2>3, WroteLink DEF Opened
<1>7. CASE ClientRepeats(k)
  <2>1. /\ d = c /\ \A j \in Keys : j # k => client'[j] = client[j]
        /\ \/ c.phase = "synSent" /\ Writes(k, {"syn"})
           \/ c.phase \in Open /\ Writes(k, {"data"})
    BY <1>7, ClientRepeatsStep
  <2>2. c.phase \in Open => Told(c, d, out)
    BY <2>1 DEF Told
  <2>3. Move(c, d, {}, out)
    BY <1>3, <2>1, <2>2 DEF Move
  <2>4. CASE c.phase = "synSent" /\ Writes(k, {"syn"})
    BY <1>1, <2>1, <2>3, <2>4, WroteLink DEF Opened
  <2>5. CASE c.phase \in Open /\ Writes(k, {"data"})
    BY <1>1, <1>3, <2>1, <2>2, <2>3, <2>5, WroteLink DEF Opened
  <2> QED BY <2>1, <2>4, <2>5
<1>8. CASE ClientAborts(k)
  <2>1. /\ d.phase = "closed" /\ d.gen = c.gen
        /\ \A j \in Keys : j # k => client'[j] = client[j]
        /\ UNCHANGED inbound \/ (c.phase \in Open /\ Writes(k, {"ack"}))
    BY <1>8, ClientAbortsStep DEF ClientTyped
  <2>2. c.phase \in Open => Told(c, d, out)
    BY <2>1 DEF Told
  <2>3. Move(c, d, {}, out)
    BY <1>3, <2>1, <2>2 DEF Move
  <2>4. CASE UNCHANGED inbound
    BY <1>1, <2>1, <2>3, <2>4, QuietLink
  <2>5. CASE c.phase \in Open /\ Writes(k, {"ack"})
    BY <1>1, <2>1, <2>2, <2>3, <2>5, WroteLink DEF Opened
  <2> QED BY <2>1, <2>4, <2>5
<1> QED BY <1>2, <1>4, <1>5, <1>6, <1>7, <1>8

LEMMA ClientReceiveLink ==
  ASSUME TypeInv, TypeInv', LinkAll, ClientReceive
  PROVE  LinkAll'
<1>1. UNCHANGED <<streams, attempts, carried, twice>>
  BY DEF ClientReceive, daemonVars, historyVars
<1>2. PICK k \in Keys :
        /\ outbound[k] # <<>>
        /\ outbound' = [outbound EXCEPT ![k] = Tail(@)]
        /\ \/ ReceiveSynAck(k, Head(outbound[k]))
           \/ ReceiveSegment(k, Head(outbound[k]))
  BY DEF ClientReceive
<1> DEFINE out == Held(outbound[k])
           c == client[k]
           d == client'[k]
           p == Head(outbound[k])
<1>3. /\ p \in PacketsOut /\ outbound'[k] = Tail(outbound[k])
      /\ \A j \in Keys : j # k => outbound'[j] = outbound[j]
  BY <1>2, ClientReceiveTakes
<1>4. Held(outbound'[k]) \subseteq out /\ p \in out
  <2>1. outbound[k] \in Seq(PacketsOut)
    BY DEF TypeInv, WireType
  <2> QED BY <1>2, <1>3, <2>1, TakenOut
<1>5. c.gen \in Nat /\ "synSent" \notin Open /\ "closed" \notin Open
  BY Bounds DEF TypeInv, WireType, ClientRecords, Open
<1> HIDE DEF p
<1>6. CASE ReceiveSynAck(k, p)
  <2>1. /\ d.gen = c.gen /\ \A j \in Keys : j # k => client'[j] = client[j]
        /\ \/ /\ c.phase = "synSent" /\ p.ack = Offset(c.gen, 1)
              /\ d.phase = "established" /\ Writes(k, {"ack"})
           \/ c.phase = "synSent" /\ UNCHANGED client /\ Writes(k, {"rst"})
           \/ c.phase # "synSent" /\ UNCHANGED <<client, inbound>>
    BY <1>3, <1>6, ReceiveSynAckStep DEF ClientTyped
  <2>2. CASE /\ c.phase = "synSent" /\ p.ack = Offset(c.gen, 1)
             /\ d.phase = "established" /\ Writes(k, {"ack"})
    <3>1. Told(c, d, out)
      BY <1>4, <2>1, <2>2 DEF Told, Offset
    <3>2. Move(c, d, {}, out)
      BY <1>5, <2>1, <2>2, <3>1 DEF Move
    <3> QED BY <1>1, <1>3, <1>4, <2>1, <2>2, <3>1, <3>2, WroteLink DEF Opened
  <2>3. CASE c.phase = "synSent" /\ UNCHANGED client /\ Writes(k, {"rst"})
    <3>1. Move(c, d, {}, out)
      BY <1>5, <2>3 DEF Move
    <3> QED BY <1>1, <1>3, <1>4, <2>1, <2>3, <3>1, WroteLink DEF Opened
  <2>4. CASE c.phase # "synSent" /\ UNCHANGED <<client, inbound>>
    <3>1. Move(c, d, {}, out)
      BY <1>5, <2>4 DEF Move, Told
    <3> QED BY <1>1, <1>3, <1>4, <2>1, <2>4, <3>1, QuietLink
  <2> QED BY <2>1, <2>2, <2>3, <2>4
<1>7. CASE ReceiveSegment(k, p)
  <2>1. /\ d.gen = c.gen /\ \A j \in Keys : j # k => client'[j] = client[j]
        /\ UNCHANGED inbound
        /\ (c.phase \in Open /\ d.phase \in {c.phase, "closed"}) \/ d = c
    BY <1>3, <1>7, ReceiveSegmentStep DEF ClientTyped, Takes
  <2>2. Move(c, d, {}, out)
    BY <1>5, <2>1 DEF Move, Told
  <2> QED BY <1>1, <1>3, <1>4, <2>1, <2>2, QuietLink
<1> QED BY <1>2, <1>6, <1>7 DEF p

LEMMA LinkSame ==
  ASSUME LinkAll, UNCHANGED vars
  PROVE  LinkAll'
  BY DEF vars, daemonVars, historyVars, LinkAll, OrderInv, LinkInv

LEMMA LinkInit == Init => LinkAll
<1> SUFFICES ASSUME Init, NEW k \in Keys PROVE OrderInv(k) /\ LinkInv(k)
  BY DEF LinkAll
<1>1. /\ inbound = <<>> /\ outbound[k] = <<>> /\ client[k].phase = "closed"
      /\ client[k].gen = 0 /\ streams[k] = NoStream /\ attempts[k] = {} /\ carried[k] = {}
  BY DEF Init
<1>2. From(inbound, k) = {} /\ Held(outbound[k]) = {} /\ InOrder(inbound, k)
  BY <1>1 DEF From, Held, InOrder
<1>3. OrderInv(k)
  BY <1>1, <1>2 DEF OrderInv, Orderly
<1>4. Linked({}, {}, client[k], NoStream, {}, {})
  BY <1>1 DEF Linked, Evidence, Trying, GivenUp, Holds, Open
<1> QED BY <1>1, <1>2, <1>3, <1>4 DEF LinkInv

LEMMA LinkNext ==
  TypeInv /\ TypeInv' /\ TableInv /\ LinkAll /\ [Next]_vars => LinkAll'
<1> SUFFICES ASSUME TypeInv, TypeInv', TableInv, LinkAll, [Next]_vars PROVE LinkAll'
  OBVIOUS
<1>1. CASE Handle
  BY <1>1, HandleSynLink, HandleAckLink, HandleDataLink, HandleFinLink DEF Handle
<1>2. CASE Connect
  BY <1>2, ConnectFailedLink, ConnectedLink DEF Connect
<1>3. CASE ResponseLoop
  BY <1>3, ReadSocketsLink, RespondLink, EndSendingLink, CleanupLink DEF ResponseLoop
<1>4. CASE \E k \in Keys : Idle(k)
  BY <1>4, IdleLink
<1>5. CASE ClientSteps
  BY <1>5, ClientStepsLink
<1>6. CASE ClientReceive
  BY <1>6, ClientReceiveLink
<1>7. CASE UNCHANGED vars
  BY <1>7, LinkSame
<1> QED BY <1>1, <1>2, <1>3, <1>4, <1>5, <1>6, <1>7 DEF Next

LEMMA LinkHolds == Spec => [](TypeInv /\ TableInv /\ LinkAll)
<1>1. TypeInv /\ TableInv /\ LinkAll /\ [Next]_vars => LinkAll'
  BY TypeNext, LinkNext
<1> QED BY <1>1, LinkInit, TableHolds, PTL DEF Spec

(* An established stream has a socket, so as long as its connection asked  *)
(* for one once no connect thread is left to take it over.                 *)
LEMMA EstablishedIsAlone ==
  ASSUME TypeInv, TableInv, LinkAll, NEW k \in Keys, streams[k].state = "Established", ~twice[k]
  PROVE  attempts[k] = {}
<1>1. Exists(k)
  BY NoStreamIsNone DEF Exists
<1>2. streams[k].connected
  BY <1>1 DEF TableInv, StreamInv, Shape
<1>3. Linked(From(inbound, k), Held(outbound[k]), client[k], streams[k], attempts[k], carried[k])
  BY DEF LinkAll, LinkInv
<1> QED BY <1>1, <1>2, <1>3, HolderIsAlone DEF Holds, Exists

Onward == {"Established", "Closed", "none"}

LEMMA HandleOnward ==
  ASSUME TypeInv, TableInv, Handle, NEW k \in Keys, streams[k].state = "Established"
  PROVE  streams'[k].state \in Onward
<1> DEFINE s == Touched(k)
<1>1. Exists(k) /\ streams[k] \in StreamRecords
  BY NoStreamIsNone, StreamIsNoneOrRecord DEF Exists, TypeInv
<1>2. s \in StreamRecords /\ s.state = "Established"
  BY <1>1, TouchedIsStream, ActiveIsStream DEF TypeInv
<1>3. PICK j \in Keys : HandleSyn(j) \/ HandleAck(j) \/ HandleData(j) \/ HandleFin(j)
  BY DEF Handle
<1>4. CASE j # k
  <2>1. \E t : Put(j, t)
    BY <1>3 DEF HandleSyn, HandleAck, HandleData, HandleFin
  <2>2. streams'[k] = streams[k]
    BY <1>4, <2>1 DEF Put, TypeInv, DaemonType
  <2> QED BY <2>2 DEF Onward
<1>5. CASE j = k
  <2>1. CASE HandleSyn(k)
    <3> DEFINE t == [s EXCEPT !.connecting = TRUE]
    <3>1. t \in StreamRecords /\ t.state = "Established"
      BY <1>2 DEF StreamRecords
    <3>2. Put(k, s) \/ Put(k, t)
      BY <2>1 DEF HandleSyn
    <3> HIDE DEF s, t
    <3>3. streams'[k] = s \/ streams'[k] = t
      BY <1>2, <3>1, <3>2, PutStream DEF TypeInv
    <3> QED BY <1>2, <3>1, <3>3 DEF Onward
  <2>2. CASE HandleAck(k)
    <3>1. Put(k, s)
      BY <1>2, <2>2 DEF HandleAck
    <3> HIDE DEF s
    <3> QED BY <1>2, <3>1, PutStream DEF Onward, TypeInv
  <2>3. CASE HandleData(k)
    <3> DEFINE t == [s EXCEPT !.client_seq = Offset(Head(inbound).gen, Head(inbound).unit + 1)]
    <3>1. Put(k, t) /\ t \in StreamRecords /\ t.state = s.state
      BY <2>3, DataStream
    <3> HIDE DEF s, t
    <3> QED BY <1>2, <3>1, PutStream DEF Onward, TypeInv
  <2>4. CASE HandleFin(k)
    <3> DEFINE f == [s EXCEPT !.client_seq = Offset(Head(inbound).gen, Head(inbound).unit + 1),
                              !.state = "Closed"]
               t == [f EXCEPT !.vpn_seq = @ + 1]
    <3>1. Put(k, t) /\ t \in StreamRecords /\ t.state = "Closed"
      BY <2>4, FinStream
    <3> HIDE DEF t
    <3> QED BY <3>1, PutStream DEF Onward, TypeInv
  <2> QED BY <1>3, <1>5, <2>1, <2>2, <2>3, <2>4
<1> QED BY <1>4, <1>5

LEMMA ConnectOnward ==
  ASSUME TypeInv, TableInv, LinkAll, Connect, NEW k \in Keys, streams[k].state = "Established",
         ~twice[k]
  PROVE  streams'[k].state \in Onward
<1>1. PICK j \in Keys : \E a \in attempts[j] : ConnectFailed(j, a) \/ Connected(j, a)
  BY DEF Connect
<1>2. j # k
  BY <1>1, EstablishedIsAlone
<1>3. UNCHANGED streams \/ \E t : Put(j, t)
  BY <1>1 DEF ConnectFailed, Connected
<1>4. streams'[k] = streams[k]
  BY <1>2, <1>3 DEF Put, TypeInv, DaemonType
<1> QED BY <1>4 DEF Onward

LEMMA LoopOnward ==
  ASSUME TypeInv, ResponseLoop, NEW k \in Keys, streams[k].state = "Established"
  PROVE  streams'[k].state \in Onward
<1> DEFINE s == streams[k]
<1>1. s \in StreamRecords
  BY NoStreamIsNone, StreamIsNoneOrRecord DEF Exists, TypeInv
<1>2. CASE ReadSockets
  <2>1. ReadsError(k) \/ (\E n \in Nat : Reads(k, n)) \/ ReadsNothing(k)
    BY <1>2, ReadSocketsOf
  <2>2. CASE ReadsError(k)
    BY <1>1, <2>2 DEF ReadsError, StreamRecords, Onward
  <2>3. CASE \E n \in Nat : Reads(k, n)
    <3>1. PICK n \in Nat : Reads(k, n)
      BY <2>3
    <3> DEFINE t == [s EXCEPT !.idle = 0, !.socks.read = @ + n]
    <3>2. streams'[k] = t
      BY <3>1 DEF Reads
    <3>3. t.state = s.state
      BY <1>1, ReadIsStream
    <3> HIDE DEF t
    <3> QED BY <3>2, <3>3 DEF Onward
  <2>4. CASE ReadsNothing(k)
    BY <2>4 DEF ReadsNothing, Onward
  <2> QED BY <2>1, <2>2, <2>3, <2>4
<1>3. CASE \E j \in Keys : Respond(j)
  <2>1. PICK j \in Keys : Respond(j)
    BY <1>3
  <2>2. CASE j # k
    <3>1. UNCHANGED streams \/ \E t : Put(j, t)
      BY <2>1 DEF Respond
    <3> QED BY <2>2, <3>1 DEF Put, TypeInv, DaemonType, Onward
  <2>3. CASE j = k
    <3> DEFINE t == [s EXCEPT !.vpn_seq = @ + Len(responses[k]), !.idle = 0]
    <3>1. UNCHANGED streams \/ Put(k, t)
      BY <2>1, <2>3 DEF Respond
    <3>2. Len(responses[k]) \in Nat
      BY DEF TypeInv, DaemonType
    <3>3. t \in StreamRecords /\ t.state = s.state
      BY <1>1, <3>2, AdvancedIsStream
    <3> HIDE DEF t
    <3> QED BY <3>1, <3>3, PutStream DEF Onward, TypeInv
  <2> QED BY <2>2, <2>3
<1>4. CASE EndSending
  BY <1>4 DEF EndSending, Onward
<1>5. CASE Cleanup
  <2>1. streams'[k] \in {NoStream, streams[k]}
    BY <1>5 DEF Cleanup
  <2> QED BY <2>1, NoStreamIsNone DEF Onward
<1> QED BY <1>2, <1>3, <1>4, <1>5 DEF ResponseLoop

(* An established stream is closed or erased and never falls back into the *)
(* handshake, as long as its connection does not ask for a second socket:  *)
(* no connect thread that is still in flight can take it over              *)
(* (packet_processor.cpp:205-222,236-237,289-315).                         *)
THEOREM EstablishedStaysHolds == Spec => EstablishedStays
<1>1. TypeInv /\ TableInv /\ LinkAll /\ [Next]_vars
        => [\A k \in Keys : streams[k].state = "Established" /\ ~twice[k]
              => streams'[k].state \in {"Established", "Closed", "none"}]_vars
  <2> SUFFICES ASSUME TypeInv, TableInv, LinkAll, [Next]_vars, NEW k \in Keys,
                      streams[k].state = "Established", ~twice[k]
               PROVE  streams'[k].state \in Onward
    BY DEF Onward
  <2>1. CASE Handle
    BY <2>1, HandleOnward
  <2>2. CASE Connect
    BY <2>2, ConnectOnward
  <2>3. CASE ResponseLoop
    BY <2>3, LoopOnward
  <2>4. CASE \E j \in Keys : Idle(j)
    <3>1. PICK j \in Keys : Idle(j)
      BY <2>4
    <3> DEFINE t == [streams[j] EXCEPT !.idle = @ + 1]
    <3>2. Put(j, t) /\ streams[j] \in StreamRecords
      BY <3>1 DEF Idle, TypeInv, DaemonType
    <3>3. t.state = streams[j].state
      BY <3>2 DEF StreamRecords
    <3> QED BY <3>2, <3>3 DEF Put, TypeInv, DaemonType, Onward
  <2>5. CASE UNCHANGED streams
    BY <2>5 DEF Onward
  <2>6. ClientSteps \/ ClientReceive \/ UNCHANGED vars => UNCHANGED streams
    BY DEF ClientSteps, ClientReceive, vars, daemonVars
  <2> QED BY <2>1, <2>2, <2>3, <2>4, <2>5, <2>6 DEF Next
<1> QED BY <1>1, LinkHolds, PTL DEF EstablishedStays, Spec

-----------------------------------------------------------------------------
(* The way down.  What was read and is yet to be sent is the tail of what  *)
(* the socket gave, and takes the numbers that follow the last one sent;   *)
(* so the number of a data packet is its place in what the socket gave.    *)
(* Every packet for one connection is of one socket, and a client that has *)
(* taken data of one finds no other's under way.                           *)
Reading(s, read) ==
  Holds(s) /\ s.state # "Closed" =>
    /\ s.vpn_seq + Len(read) = Iss + 1 + s.socks.read
    /\ \A i \in 1..Len(read) : read[i] = <<s.socks.id, s.socks.read - Len(read) + i>>

DataIn(out) == {q \in out : q.kind = "data"}

Numbered(out, s) ==
  /\ \A q \in DataIn(out) : q.unit[2] = q.seq - Iss
  /\ \A q, r \in DataIn(out) : q.ack.gen = r.ack.gen => q.unit[1] = r.unit[1]
  /\ Holds(s) => \A q \in DataIn(out) : q.ack.gen = s.client_seq.gen => q.unit[1] = s.socks.id

Received(out, c, s) ==
  /\ c.intact /\ (c.phase = "synSent" => c.from = 0)
  /\ c.phase \in Open => \A q \in out : q.ack.gen = c.gen
  /\ c.phase \in Open /\ c.from # 0 => /\ \A q \in DataIn(out) : q.unit[1] = c.from
                                       /\ Holds(s) => c.from = s.socks.id

DownInv(k) ==
  twice[k] \/ (/\ OutOrder(outbound[k])
               /\ Reading(streams[k], responses[k])
               /\ Numbered(Held(outbound[k]), streams[k])
               /\ Received(Held(outbound[k]), client[k], streams[k]))

DownAll == \A k \in Keys : DownInv(k)

SameSocket(s, t) ==
  Holds(t) => Holds(s) /\ t.client_seq.gen = s.client_seq.gen /\ t.socks.id = s.socks.id

SameNumbers(s, t) ==
  Holds(t) /\ t.state # "Closed" =>
    Holds(s) /\ s.state # "Closed" /\ t.vpn_seq = s.vpn_seq /\ t.socks = s.socks

(* The packets Q are written while the stream keeps its socket.            *)
LEMMA WrittenDown ==
  ASSUME NEW in, NEW out, NEW c, NEW s, NEW t, NEW tries, NEW carr, NEW Q,
         c.gen \in Nat, carr \in SUBSET Nat,
         Orderly(in, c, carr), Linked(in, out, c, s, tries, carr), SameSocket(s, t),
         Numbered(out, s), Received(out, c, s),
         \A q \in Q : Newest(q.ack.gen, carr),
         \A q \in DataIn(Q) : /\ Holds(t) /\ q.ack.gen = t.client_seq.gen
                              /\ q.unit[1] = t.socks.id /\ q.unit[2] = q.seq - Iss
  PROVE  Numbered(out \cup Q, t) /\ Received(out \cup Q, c, t)
<1>1. DataIn(out \cup Q) = DataIn(out) \cup DataIn(Q)
  BY DEF DataIn
<1>2. ASSUME NEW q \in DataIn(Q), NEW r \in DataIn(out), q.ack.gen = r.ack.gen
      PROVE  q.unit[1] = r.unit[1]
  BY <1>2 DEF Numbered, SameSocket
<1>3. Numbered(out \cup Q, t)
  <2>1. \A q \in DataIn(out \cup Q) : q.unit[2] = q.seq - Iss
    BY <1>1 DEF Numbered
  <2>2. \A q, r \in DataIn(out \cup Q) : q.ack.gen = r.ack.gen => q.unit[1] = r.unit[1]
    BY <1>1, <1>2 DEF Numbered
  <2>3. Holds(t) => \A q \in DataIn(out \cup Q) :
                       q.ack.gen = t.client_seq.gen => q.unit[1] = t.socks.id
    BY <1>1 DEF Numbered, SameSocket
  <2> QED BY <2>1, <2>2, <2>3 DEF Numbered
<1>4. ASSUME c.phase \in Open, NEW q \in Q PROVE q.ack.gen = c.gen
  <2>1. c.gen \in carr
    BY <1>4 DEF Linked, Evidence
  <2>2. c.gen <= q.ack.gen /\ q.ack.gen <= c.gen /\ q.ack.gen \in Nat
    BY <2>1 DEF Newest, Orderly
  <2> QED BY <2>2
<1>5. Received(out \cup Q, c, t)
  <2>1. ASSUME c.phase \in Open, c.from # 0
        PROVE  /\ \A q \in DataIn(out \cup Q) : q.unit[1] = c.from
               /\ Holds(t) => c.from = t.socks.id
    BY <1>1, <2>1 DEF Received, SameSocket
  <2> QED BY <1>4, <2>1 DEF Received
<1> QED BY <1>3, <1>5

LEMMA FewerDown ==
  ASSUME NEW out, NEW few, few \subseteq out, NEW c, NEW s, Numbered(out, s), Received(out, c, s)
  PROVE  Numbered(few, s) /\ Received(few, c, s)
<1>1. DataIn(few) \subseteq DataIn(out)
  BY DEF DataIn
<1> QED BY <1>1 DEF Numbered, Received

LEMMA SameReading ==
  ASSUME NEW s, NEW t, NEW read, Reading(s, read), SameNumbers(s, t)
  PROVE  Reading(t, read)
  BY DEF Reading, SameNumbers

(* A socket of its own for a connection no packet was written for.         *)
LEMMA TakenDown ==
  ASSUME NEW in, NEW out, NEW c, NEW s, NEW t, NEW tries, NEW carr, NEW Q, NEW a \in tries,
         c.gen \in Nat, carr \in SUBSET Nat,
         Orderly(in, c, carr), Linked(in, out, c, s, tries, carr),
         t = NoStream \/ t.client_seq.gen = a.gen,
         Numbered(out, s), Received(out, c, s), DataIn(Q) = {}
  PROVE  Numbered(out \cup Q, t) /\ Received(out \cup Q, c, t)
<1>1. DataIn(out \cup Q) = DataIn(out)
  BY DEF DataIn
<1>2. Newest(a.gen, carr) /\ (\A q \in out : q.ack.gen # a.gen) /\ (c.phase \in Open => c.gen # a.gen)
  BY DEF Linked, Trying
<1>3. c.phase \notin Open
  <2> SUFFICES ASSUME c.phase \in Open PROVE FALSE
    OBVIOUS
  <2>1. c.gen \in carr /\ c.gen <= a.gen /\ a.gen <= c.gen /\ a.gen \in Nat
    BY <1>2 DEF Linked, Evidence, Newest, Orderly
  <2> QED BY <1>2, <2>1
<1>4. Holds(t) => \A q \in DataIn(out) : q.ack.gen # t.client_seq.gen
  BY <1>2 DEF Holds, DataIn
<1>5. Numbered(out \cup Q, t)
  BY <1>1, <1>4 DEF Numbered
<1>6. Received(out \cup Q, c, t)
  BY <1>3 DEF Received
<1> QED BY <1>5, <1>6

(* A step of one key leaves the others as they are.                        *)
LEMMA DownStep ==
  ASSUME DownAll, NEW k \in Keys,
         \A j \in Keys : j # k =>
           /\ outbound'[j] = outbound[j] /\ client'[j] = client[j]
           /\ streams'[j] = streams[j] /\ responses'[j] = responses[j]
           /\ twice[j] => twice'[j],
         DownInv(k)'
  PROVE  DownAll'
<1> SUFFICES ASSUME NEW j \in Keys, j # k PROVE DownInv(j)'
  BY DEF DownAll
<1>1. DownInv(j)
  BY DEF DownAll
<1> QED BY <1>1 DEF DownInv

(* What a key is before a step of it, when no second socket was asked for. *)
LEMMA KeyIsLinked ==
  ASSUME TypeInv, LinkAll, DownAll, NEW k \in Keys, ~twice[k]
  PROVE  /\ Orderly(From(inbound, k), client[k], carried[k])
         /\ Linked(From(inbound, k), Held(outbound[k]), client[k], streams[k], attempts[k],
                   carried[k])
         /\ OutOrder(outbound[k]) /\ Reading(streams[k], responses[k])
         /\ Numbered(Held(outbound[k]), streams[k])
         /\ Received(Held(outbound[k]), client[k], streams[k])
         /\ client[k].gen \in Nat /\ carried[k] \in SUBSET Nat
         /\ \A g : Newest(g, carried[k]) => g \in Nat /\ \A q \in Held(outbound[k]) : q.ack.gen <= g
<1>1. client[k].gen \in Nat /\ carried[k] \in SUBSET Nat
  BY KeyTypes, Bounds DEF ClientRecords
<1>2. /\ Orderly(From(inbound, k), client[k], carried[k])
      /\ Linked(From(inbound, k), Held(outbound[k]), client[k], streams[k], attempts[k], carried[k])
  BY DEF LinkAll, OrderInv, LinkInv
<1>3. \A g : Newest(g, carried[k]) => g \in Nat /\ \A q \in Held(outbound[k]) : q.ack.gen <= g
  BY <1>1, <1>2 DEF Linked, Evidence, Newest
<1> QED BY <1>1, <1>2, <1>3 DEF DownAll, DownInv

(* The stream t is put in place, and p written or nothing.                 *)
LEMMA QuietDown ==
  ASSUME TypeInv, LinkAll, DownAll, NEW k \in Keys, NEW t \in StreamRecords, Put(k, t),
         UNCHANGED <<client, responses, outbound>>,
         \A j \in Keys : twice[j] => twice'[j],
         ~twice[k] => SameSocket(streams[k], t) /\ SameNumbers(streams[k], t)
  PROVE  DownAll'
<1>1. streams'[k] = t /\ \A j \in Keys : j # k => streams'[j] = streams[j]
  BY PutStream DEF TypeInv
<1>2. DownInv(k)'
  <2>1. CASE twice[k]
    BY <2>1 DEF DownInv
  <2>2. CASE ~twice[k]
    <3> DEFINE out == Held(outbound[k])
               s == streams[k]
               c == client[k]
    <3>1. Reading(t, responses[k])
      BY <2>2, KeyIsLinked, SameReading
    <3>2. Numbered(out \cup {}, t) /\ Received(out \cup {}, c, t)
      <4>1. \A q \in DataIn({}) : FALSE
        BY DEF DataIn
      <4> QED BY <2>2, <4>1, KeyIsLinked, WrittenDown
    <3>3. OutOrder(outbound[k]) /\ Numbered(out, t) /\ Received(out, c, t)
      BY <2>2, <3>2, KeyIsLinked
    <3> QED BY <1>1, <3>1, <3>3 DEF DownInv
  <2> QED BY <2>1, <2>2
<1> QED BY <1>1, <1>2, DownStep

LEMMA AnswerDown ==
  ASSUME TypeInv, LinkAll, DownAll, NEW k \in Keys, NEW t \in StreamRecords, Put(k, t),
         UNCHANGED <<client, responses>>,
         \A j \in Keys : twice[j] => twice'[j],
         NEW p \in PacketsOut, p.kind # "data", Send(k, <<p>>),
         ~twice[k] => /\ SameSocket(streams[k], t) /\ SameNumbers(streams[k], t)
                      /\ Newest(p.ack.gen, carried[k])
  PROVE  DownAll'
<1>1. streams'[k] = t /\ \A j \in Keys : j # k => streams'[j] = streams[j]
  BY PutStream DEF TypeInv
<1>2. /\ Held(outbound'[k]) \subseteq Held(outbound[k]) \cup {p}
      /\ \A j \in Keys : j # k => outbound'[j] = outbound[j]
      /\ OutOrder(outbound[k]) /\ (\A q \in Held(outbound[k]) : q.ack.gen <= p.ack.gen)
           => OutOrder(outbound'[k])
  BY SegmentHeld
<1>3. DownInv(k)'
  <2>1. CASE twice[k]
    BY <2>1 DEF DownInv
  <2>2. CASE ~twice[k]
    <3> DEFINE out == Held(outbound[k])
               c == client[k]
               Q == {p}
    <3>1. Reading(t, responses[k])
      BY <2>2, KeyIsLinked, SameReading
    <3>2. OutOrder(outbound'[k])
      BY <1>2, <2>2, KeyIsLinked
    <3>3. (\A q \in Q : Newest(q.ack.gen, carried[k])) /\ DataIn(Q) = {}
          /\ Held(outbound'[k]) \subseteq out \cup Q
      BY <1>2, <2>2 DEF DataIn
    <3> HIDE DEF Q
    <3>4. Numbered(out \cup Q, t) /\ Received(out \cup Q, c, t)
      BY <2>2, <3>3, KeyIsLinked, WrittenDown
    <3>5. Numbered(Held(outbound'[k]), t) /\ Received(Held(outbound'[k]), c, t)
      BY <3>3, <3>4, FewerDown
    <3> QED BY <1>1, <3>1, <3>2, <3>5 DEF DownInv
  <2> QED BY <2>1, <2>2
<1> QED BY <1>1, <1>2, <1>3, DownStep

(* A stream that is looked up, and changed in what does not matter here.   *)
LEMMA TouchedSame ==
  ASSUME TypeInv, NEW k \in Keys, NEW t \in StreamRecords,
         t.connected = Touched(k).connected, t.socks = Touched(k).socks,
         t.state # "Closed" => t.vpn_seq = Touched(k).vpn_seq /\ Touched(k).state # "Closed"
  PROVE  /\ SameNumbers(streams[k], t)
         /\ Holds(t) => Holds(Touched(k)) /\ Touched(k).client_seq = streams[k].client_seq
         /\ (Holds(t) => t.client_seq.gen = Touched(k).client_seq.gen) => SameSocket(streams[k], t)
<1> DEFINE s == streams[k]
           r == Touched(k)
<1>1. r \in StreamRecords /\ r # NoStream
  BY TouchedIsStream, NoStreamIsNone DEF TypeInv
<1>2. CASE Exists(k)
  <2>1. s \in StreamRecords /\ s # NoStream /\ r = [s EXCEPT !.idle = 0]
    BY <1>2, TouchedIsStream, StreamIsNoneOrRecord DEF TypeInv, Exists
  <2> HIDE DEF s, r
  <2>2. /\ r.connected = s.connected /\ r.state = s.state /\ r.client_seq = s.client_seq
        /\ r.vpn_seq = s.vpn_seq /\ r.socks = s.socks
    BY <2>1, ActiveIsStream
  <2> QED BY <1>1, <2>1, <2>2 DEF SameNumbers, SameSocket, Holds, s, r
<1>3. CASE ~Exists(k)
  <2>1. ~t.connected
    BY <1>3, TouchedIsStream DEF TypeInv, FreshStream
  <2> QED BY <2>1 DEF SameNumbers, SameSocket, Holds
<1> QED BY <1>2, <1>3

LEMMA HandleSynDown ==
  ASSUME TypeInv, TableInv, LinkAll, DownAll, NEW k \in Keys, HandleSyn(k)
  PROVE  DownAll'
<1> DEFINE s == Touched(k)
           u == [s EXCEPT !.connecting = TRUE]
           p == SynAck(s.vpn_seq - 1, s.client_seq)
<1>1. /\ s \in StreamRecords /\ Shape(s, attemptId, attempts[k], finSent[k])
      /\ UNCHANGED <<client, responses>> /\ twice \in [Keys -> BOOLEAN]
  BY TouchedShape DEF HandleSyn, TableInv, TypeInv, HistoryType
<1>2. \A j \in Keys : twice[j] => twice'[j]
  BY <1>1 DEF HandleSyn
<1>3. \/ RepeatsSyn(s) /\ Put(k, s) /\ Send(k, <<p>>)
      \/ Put(k, s) /\ UNCHANGED outbound
      \/ Put(k, u) /\ UNCHANGED outbound
  BY DEF HandleSyn
<1>4. SameSocket(streams[k], s) /\ SameNumbers(streams[k], s)
  BY <1>1, TouchedSame
<1>5. u \in StreamRecords /\ SameSocket(streams[k], u) /\ SameNumbers(streams[k], u)
  <2>1. /\ u \in StreamRecords /\ u.connected = s.connected /\ u.socks = s.socks
        /\ u.vpn_seq = s.vpn_seq /\ u.state = s.state /\ u.client_seq = s.client_seq
    BY <1>1 DEF StreamRecords
  <2> HIDE DEF u
  <2> QED BY <2>1, TouchedSame
<1>6. p \in PacketsOut /\ p.ack = s.client_seq /\ p.kind = "synack"
  BY <1>1, SynAckAcks DEF StreamRecords
<1>7. ~twice[k] => Linked(From(inbound, k), Held(outbound[k]), client[k], s, attempts[k], carried[k])
  BY TouchedLinked DEF LinkAll
<1> HIDE DEF s, u, p
<1>8. CASE RepeatsSyn(s) /\ Put(k, s) /\ Send(k, <<p>>)
  <2>1. Holds(s)
    BY <1>1, <1>8, NoStreamIsNone DEF RepeatsSyn, Shape, Holds
  <2>2. ~twice[k] => Newest(p.ack.gen, carried[k])
    BY <1>6, <1>7, <2>1, HolderIsAlone
  <2>3. p.kind # "data"
    BY <1>6
  <2> QED BY <1>1, <1>2, <1>4, <1>6, <1>8, <2>2, <2>3, AnswerDown
<1>9. CASE Put(k, s) /\ UNCHANGED outbound
  BY <1>1, <1>2, <1>4, <1>9, QuietDown
<1>10. CASE Put(k, u) /\ UNCHANGED outbound
  BY <1>1, <1>2, <1>5, <1>10, QuietDown
<1> QED BY <1>3, <1>8, <1>9, <1>10

LEMMA HandleAckDown ==
  ASSUME TypeInv, LinkAll, DownAll, NEW k \in Keys, HandleAck(k)
  PROVE  DownAll'
<1> DEFINE s == Touched(k)
           u == [s EXCEPT !.state = "Established"]
<1>1. s \in StreamRecords /\ UNCHANGED <<client, responses, outbound, twice>>
  BY TouchedIsStream DEF HandleAck, TypeInv, historyVars
<1>2. Put(k, s) \/ (s.state = "SynReceived" /\ Put(k, u))
  BY DEF HandleAck
<1>3. SameSocket(streams[k], s) /\ SameNumbers(streams[k], s)
  BY <1>1, TouchedSame
<1>4. CASE Put(k, s)
  <2> HIDE DEF s
  <2> QED BY <1>1, <1>3, <1>4, QuietDown
<1>5. CASE s.state = "SynReceived" /\ Put(k, u)
  <2>1. /\ u \in StreamRecords /\ u.connected = s.connected /\ u.socks = s.socks
        /\ u.vpn_seq = s.vpn_seq /\ s.state # "Closed" /\ u.client_seq = s.client_seq
    BY <1>1, <1>5 DEF StreamRecords
  <2> HIDE DEF u
  <2>2. SameSocket(streams[k], u) /\ SameNumbers(streams[k], u)
    BY <2>1, TouchedSame
  <2> QED BY <1>1, <1>5, <2>1, <2>2, QuietDown
<1> QED BY <1>2, <1>4, <1>5

(* Data and FINs are of the connection the stream is of, if it holds one.  *)
LEMMA AnsweredDown ==
  ASSUME TypeInv, LinkAll, DownAll, NEW k \in Keys, NEW kind \in {"data", "fin"},
         Arrives(k, kind), NEW t \in StreamRecords, Put(k, t),
         t.connected = Touched(k).connected, t.socks = Touched(k).socks,
         t.state # "Closed" => t.vpn_seq = Touched(k).vpn_seq /\ Touched(k).state # "Closed",
         t.client_seq.gen = Head(inbound).gen,
         NEW p \in PacketsOut, p.kind # "data", p.ack.gen = Head(inbound).gen, Send(k, <<p>>),
         UNCHANGED <<client, responses, twice>>
  PROVE  DownAll'
<1> DEFINE h == Head(inbound)
           in == From(inbound, k)
           out == Held(outbound[k])
           c == client[k]
           carr == carried[k]
           tries == attempts[k]
           s == Touched(k)
<1>1. h \in in /\ h.kind \in Opened
  BY ArrivesFrom DEF Opened
<1>2. /\ SameNumbers(streams[k], t) /\ (Holds(t) => Holds(s))
      /\ (Holds(t) => t.client_seq.gen = s.client_seq.gen) => SameSocket(streams[k], t)
  BY TouchedSame
<1>3. ASSUME ~twice[k]
      PROVE  Newest(h.gen, carr) /\ SameSocket(streams[k], t)
  <2>1. Linked(in, out, c, s, tries, carr) /\ Orderly(in, c, carr)
    BY <1>3, TouchedLinked DEF LinkAll, OrderInv
  <2>2. /\ in \in SUBSET PacketsIn /\ carr \in SUBSET Nat
        /\ tries \in SUBSET Attempts
    BY KeyTypes
  <2>3. Newest(h.gen, carr)
    BY <1>1, <2>1, <2>2, OpenedIsNewest
  <2>4. ASSUME Holds(t) PROVE t.client_seq.gen = s.client_seq.gen
    <3>1. Newest(s.client_seq.gen, carr)
      BY <1>2, <2>1, <2>4, HolderIsAlone
    <3>2. h.gen <= s.client_seq.gen /\ s.client_seq.gen <= h.gen
          /\ h.gen \in Nat /\ s.client_seq.gen \in Nat
      BY <2>2, <2>3, <3>1 DEF Newest
    <3> QED BY <3>2
  <2> QED BY <1>2, <2>3, <2>4
<1>4. ~twice[k] => /\ SameSocket(streams[k], t) /\ SameNumbers(streams[k], t)
                   /\ Newest(p.ack.gen, carried[k])
  BY <1>2, <1>3
<1>5. \A j \in Keys : twice[j] => twice'[j]
  OBVIOUS
<1> QED BY <1>4, <1>5, AnswerDown

LEMMA HandleDataDown ==
  ASSUME TypeInv, LinkAll, DownAll, NEW k \in Keys, HandleData(k)
  PROVE  DownAll'
<1>1. UNCHANGED <<client, responses, twice>>
  BY DEF HandleData
<1> DEFINE h == Head(inbound)
           t == [Touched(k) EXCEPT !.client_seq = Offset(h.gen, h.unit + 1)]
           p == Segment("ack", t.vpn_seq, t.client_seq)
<1>2. /\ Arrives(k, "data") /\ Put(k, t) /\ t \in StreamRecords
      /\ t.connected = Touched(k).connected /\ t.state = Touched(k).state
      /\ t.vpn_seq = Touched(k).vpn_seq /\ t.socks = Touched(k).socks
      /\ t.client_seq.gen = h.gen
      /\ p \in PacketsOut /\ p.ack.gen = h.gen /\ p.kind = "ack" /\ Send(k, <<p>>)
  BY DataStream
<1> HIDE DEF t, p
<1>3. p.kind # "data"
  BY <1>2
<1> QED BY <1>1, <1>2, <1>3, AnsweredDown

LEMMA HandleFinDown ==
  ASSUME TypeInv, LinkAll, DownAll, NEW k \in Keys, HandleFin(k)
  PROVE  DownAll'
<1>1. UNCHANGED <<client, responses, twice>>
  BY DEF HandleFin
<1> DEFINE h == Head(inbound)
           f == [Touched(k) EXCEPT !.client_seq = Offset(h.gen, h.unit + 1), !.state = "Closed"]
           t == [f EXCEPT !.vpn_seq = @ + 1]
           p == Segment("finack", f.vpn_seq, f.client_seq)
<1>2. /\ Arrives(k, "fin") /\ Put(k, t) /\ t \in StreamRecords
      /\ t.connected = Touched(k).connected /\ t.state = "Closed"
      /\ t.socks = Touched(k).socks /\ t.client_seq.gen = h.gen
      /\ p \in PacketsOut /\ p.ack.gen = h.gen /\ p.kind = "finack" /\ Send(k, <<p>>)
  BY FinStream
<1> HIDE DEF f, t, p
<1>3. p.kind # "data"
  BY <1>2
<1> QED BY <1>1, <1>2, <1>3, AnsweredDown

LEMMA ConnectFailedDown ==
  ASSUME TypeInv, LinkAll, DownAll, NEW k \in Keys, NEW a \in attempts[k], ConnectFailed(k, a)
  PROVE  DownAll'
<1> DEFINE s == streams[k]
           t == [s EXCEPT !.connecting = FALSE]
<1>1. UNCHANGED <<client, responses, outbound, twice>> /\ streams[k] \in StreamRecords \cup {NoStream}
  BY DEF ConnectFailed, TypeInv, DaemonType
<1>2. CASE s = NoStream
  <2>1. UNCHANGED streams
    BY <1>2 DEF ConnectFailed
  <2> QED BY <1>1, <2>1 DEF DownAll, DownInv
<1>3. CASE s # NoStream
  <2>1. Put(k, t) /\ s \in StreamRecords
    BY <1>1, <1>3 DEF ConnectFailed
  <2>2. /\ t \in StreamRecords /\ t.connected = s.connected /\ t.socks = s.socks
        /\ t.vpn_seq = s.vpn_seq /\ t.state = s.state /\ t.client_seq = s.client_seq
    BY <2>1 DEF StreamRecords
  <2> HIDE DEF t
  <2>3. SameSocket(streams[k], t) /\ SameNumbers(streams[k], t)
    BY <1>3, <2>2 DEF SameSocket, SameNumbers, Holds
  <2> QED BY <1>1, <2>1, <2>2, <2>3, QuietDown
<1> QED BY <1>2, <1>3

LEMMA ConnectedDown ==
  ASSUME TypeInv, TableInv, LinkAll, DownAll, NEW k \in Keys, NEW a \in attempts[k],
         Connected(k, a)
  PROVE  DownAll'
<1> DEFINE s == streams[k]
           t == TakenOver(s, a)
           p == SynAck(Iss, Offset(a.gen, 1))
           out == Held(outbound[k])
           c == client[k]
<1>1. /\ UNCHANGED <<client, responses, twice>> /\ s \in StreamRecords \cup {NoStream}
      /\ attempts \in [Keys -> SUBSET Attempts]
  BY DEF Connected, TypeInv, DaemonType
<1>2. a \in Attempts /\ a.gen \in Nat
  BY <1>1, Bounds DEF Attempts
<1>3. CASE UNCHANGED <<streams, outbound>>
  BY <1>1, <1>3 DEF DownAll, DownInv
<1>4. CASE s # NoStream /\ Put(k, t) /\ Send(k, <<p>>)
  <2>1. p \in PacketsOut /\ p.ack = Offset(a.gen, 1) /\ p.kind = "synack"
    <3>1. Offset(a.gen, 1) \in Position /\ Iss \in Int
      BY <1>2, OffsetIsPosition DEF Iss
    <3> QED BY <3>1, SynAckAcks
  <2>2. Offset(a.gen, 1).gen = a.gen
    BY DEF Offset
  <2>3. /\ t \in StreamRecords /\ t.connected /\ t.socks = [id |-> a.id, read |-> 0]
        /\ t.client_seq = Offset(a.gen, 1) /\ t.vpn_seq = Iss + 1
    BY <1>1, <1>2, <1>4, TakenOverIsStream
  <2> HIDE DEF t, p
  <2>4. streams'[k] = t /\ \A j \in Keys : j # k => streams'[j] = streams[j]
    BY <1>4, <2>3, PutStream DEF TypeInv
  <2>5. /\ Held(outbound'[k]) \subseteq out \cup {p}
        /\ \A j \in Keys : j # k => outbound'[j] = outbound[j]
        /\ OutOrder(outbound[k]) /\ (\A q \in Held(outbound[k]) : q.ack.gen <= p.ack.gen)
             => OutOrder(outbound'[k])
    BY <1>4, <2>1, SegmentHeld
  <2>6. DownInv(k)'
    <3>1. CASE twice[k]
      BY <1>1, <3>1 DEF DownInv
    <3>2. CASE ~twice[k]
      <4>1. Linked(From(inbound, k), out, c, s, attempts[k], carried[k])
        BY <3>2 DEF LinkAll, LinkInv
      <4>2. Newest(a.gen, carried[k]) /\ ~s.connected
        BY <1>4, <4>1 DEF Linked, Trying
      <4>3. responses[k] = <<>>
        BY <4>2 DEF TableInv, ReadInv
      <4>4. Reading(t, responses[k])
        <5>1. Len(responses[k]) = 0 /\ t.socks.read = 0 /\ Iss + 1 \in Nat
          BY <2>3, <4>3 DEF Iss
        <5> QED BY <2>3, <5>1 DEF Reading
      <4>5. OutOrder(outbound'[k])
        BY <2>1, <2>2, <2>5, <3>2, <4>2, KeyIsLinked
      <4> DEFINE Q == {p}
      <4>6. DataIn(Q) = {} /\ Held(outbound'[k]) \subseteq out \cup Q
        BY <2>1, <2>5 DEF DataIn
      <4> HIDE DEF Q
      <4>7. Numbered(out \cup Q, t) /\ Received(out \cup Q, c, t)
        BY <2>2, <2>3, <3>2, <4>6, KeyIsLinked, TakenDown
      <4>8. Numbered(Held(outbound'[k]), t) /\ Received(Held(outbound'[k]), c, t)
        BY <4>6, <4>7, FewerDown
      <4> QED BY <1>1, <2>4, <4>4, <4>5, <4>8 DEF DownInv
    <3> QED BY <3>1, <3>2
  <2> QED BY <1>1, <2>4, <2>5, <2>6, DownStep
<1> QED BY <1>3, <1>4 DEF Connected

(* Every key is looked at, and none written to.                            *)
LEMMA LoopDown ==
  ASSUME TypeInv, LinkAll, DownAll, UNCHANGED <<outbound, client, twice>>,
         \A k \in Keys : ~twice[k] => /\ SameSocket(streams[k], streams'[k])
                                      /\ Reading(streams'[k], responses'[k])
  PROVE  DownAll'
<1> SUFFICES ASSUME NEW k \in Keys, ~twice[k] PROVE DownInv(k)'
  BY DEF DownAll, DownInv
<1> DEFINE out == Held(outbound[k])
           c == client[k]
           t == streams'[k]
<1>1. \A q \in DataIn({}) : FALSE
  BY DEF DataIn
<1>2. SameSocket(streams[k], t) /\ Reading(t, responses'[k])
  OBVIOUS
<1> HIDE DEF t
<1>3. Numbered(out \cup {}, t) /\ Received(out \cup {}, c, t)
  BY <1>1, <1>2, KeyIsLinked, WrittenDown
<1>4. Numbered(out, t) /\ Received(out, c, t) /\ OutOrder(outbound[k])
  BY <1>3, KeyIsLinked
<1> QED BY <1>2, <1>4 DEF DownInv, t

LEMMA ReadSocketsDown ==
  ASSUME TypeInv, TableInv, LinkAll, DownAll, ReadSockets
  PROVE  DownAll'
<1>1. loop = "read" /\ UNCHANGED <<outbound, client, twice>>
  BY ReadSocketsOf DEF historyVars
<1>2. ASSUME NEW k \in Keys, ~twice[k]
      PROVE  SameSocket(streams[k], streams'[k]) /\ Reading(streams'[k], responses'[k])
  <2> DEFINE s == streams[k]
  <2>1. responses[k] = <<>> /\ Reading(s, responses[k])
    BY <1>1, <1>2, KeyIsLinked DEF TableInv, ReadInv
  <2>2. ASSUME Readable(k) PROVE s \in StreamRecords /\ Holds(s) /\ s.state # "Closed"
    BY <2>2, ReadableIsStream DEF TypeInv, Readable, Holds
  <2>3. CASE ReadsError(k)
    <3> DEFINE t == [s EXCEPT !.state = "Closed"]
    <3>1. s \in StreamRecords /\ Holds(s) /\ streams'[k] = t
      BY <2>2, <2>3 DEF ReadsError
    <3>2. t.state = "Closed" /\ t.client_seq = s.client_seq /\ t.socks = s.socks
      BY <3>1 DEF StreamRecords
    <3> HIDE DEF t
    <3> QED BY <3>1, <3>2 DEF SameSocket, Reading
  <2>4. CASE \E n \in Nat : n > 0 /\ Reads(k, n)
    <3>1. PICK n \in Nat : Reads(k, n)
      BY <2>4
    <3> DEFINE t == [s EXCEPT !.idle = 0, !.socks.read = @ + n]
               read == [i \in 1..n |-> <<s.socks.id, s.socks.read + i>>]
    <3>2. /\ s \in StreamRecords /\ Holds(s) /\ s.state # "Closed" /\ streams'[k] = t
          /\ responses'[k] = read
      BY <2>2, <3>1 DEF Reads
    <3>3. /\ t \in StreamRecords /\ t.client_seq = s.client_seq /\ t.vpn_seq = s.vpn_seq
          /\ t.socks.id = s.socks.id /\ t.socks.read = s.socks.read + n
          /\ s.socks.read \in Nat /\ s.vpn_seq \in Nat
      BY <3>2, ReadIsStream DEF StreamRecords
    <3>4. s.vpn_seq + 0 = Iss + 1 + s.socks.read
      BY <2>1, <3>2 DEF Reading
    <3>5. Len(read) = n
      OBVIOUS
    <3>6. \A i \in 1..n : read[i] = <<s.socks.id, s.socks.read + i>>
      OBVIOUS
    <3> HIDE DEF s, t, read
    <3>7. t.vpn_seq + Len(read) = Iss + 1 + t.socks.read
      BY <3>3, <3>4, <3>5 DEF Iss
    <3>8. \A i \in 1..n : t.socks.read - Len(read) + i = s.socks.read + i
      BY <3>3, <3>5
    <3>9. \A i \in 1..Len(read) : read[i] = <<t.socks.id, t.socks.read - Len(read) + i>>
      BY <3>3, <3>5, <3>6, <3>8
    <3> QED BY <3>2, <3>3, <3>7, <3>9 DEF SameSocket, Reading, s
  <2>5. CASE ReadsNothing(k)
    BY <2>1, <2>5 DEF ReadsNothing, SameSocket
  <2> QED BY <2>3, <2>4, <2>5, ReadSocketsOf
<1> QED BY <1>1, <1>2, LoopDown

LEMMA RespondDown ==
  ASSUME TypeInv, TableInv, LinkAll, DownAll, NEW k \in Keys, Respond(k)
  PROVE  DownAll'
<1> DEFINE s == streams[k]
           L == Len(responses[k])
           t == [s EXCEPT !.vpn_seq = @ + Len(responses[k]), !.idle = 0]
           out == Held(outbound[k])
           c == client[k]
<1>1. /\ UNCHANGED <<client, twice>> /\ responses' = [responses EXCEPT ![k] = <<>>]
      /\ responses \in [Keys -> Seq(Nat \X Nat)]
  BY DEF Respond, historyVars, TypeInv, DaemonType
<1>2. /\ responses'[k] = <<>> /\ L \in Nat
      /\ \A j \in Keys : j # k => responses'[j] = responses[j]
  BY <1>1
<1>3. Exists(k) /\ s \in StreamRecords /\ Holds(s)
  <2>1. responses[k] # <<>> /\ ReadInv(k)
    BY DEF Respond, TableInv
  <2> QED BY <2>1, StreamIsNoneOrRecord DEF ReadInv, TypeInv, Exists, Holds
<1>4. CASE s.state \in {"none", "Closed"} /\ UNCHANGED <<streams, outbound>>
  <2>1. s.state = "Closed"
    BY <1>3, <1>4 DEF StreamRecords
  <2>2. DownInv(k)'
    <3>1. Reading(s, <<>>)
      BY <2>1 DEF Reading
    <3>2. DownInv(k)
      BY DEF DownAll
    <3> QED BY <1>1, <1>2, <1>4, <3>1, <3>2 DEF DownInv
  <2> QED BY <1>1, <1>2, <1>4, <2>2, DownStep
<1>5. CASE s.state \notin {"none", "Closed"} /\ Send(k, Sent(k)) /\ Put(k, t)
  <2>1. /\ t \in StreamRecords /\ t.connected = s.connected /\ t.client_seq = s.client_seq
        /\ t.state = s.state /\ t.vpn_seq = s.vpn_seq + L /\ t.socks = s.socks
    BY <1>2, <1>3, AdvancedIsStream
  <2> HIDE DEF t
  <2>2. streams'[k] = t /\ \A j \in Keys : j # k => streams'[j] = streams[j]
    BY <1>5, <2>1, PutStream DEF TypeInv
  <2>3. Holds(t) /\ s.vpn_seq \in Nat /\ s.socks.read \in Nat
    BY <1>3, <2>1, NoStreamIsNone DEF Holds, StreamRecords
  <2>4. /\ \A q \in Held(outbound'[k]) :
              q \in out \/ \E i \in 1..L : q = Sent(k)[i]
        /\ \A j \in Keys : j # k => outbound'[j] = outbound[j]
        /\ OutOrder(outbound[k]) /\ (\A q \in out : q.ack.gen <= s.client_seq.gen)
             => OutOrder(outbound'[k])
    BY <1>3, <1>5, ResponseHeld
  <2>5. \A i \in 1..L : /\ Sent(k)[i].seq = s.vpn_seq + i - 1 /\ Sent(k)[i].ack = s.client_seq
                        /\ Sent(k)[i].unit = responses[k][i]
    BY <1>3, SentArePackets DEF TypeInv
  <2>6. DownInv(k)'
    <3>1. CASE twice[k]
      BY <1>1, <3>1 DEF DownInv
    <3>2. CASE ~twice[k]
      <4> DEFINE Q == {Sent(k)[i] : i \in 1..L}
      <4>1. Linked(From(inbound, k), out, c, s, attempts[k], carried[k])
        BY <3>2 DEF LinkAll, LinkInv
      <4>2. Newest(s.client_seq.gen, carried[k])
        BY <1>3, <4>1, HolderIsAlone
      <4>3. OutOrder(outbound'[k])
        BY <2>4, <3>2, <4>2, KeyIsLinked
      <4>4. /\ s.vpn_seq + L = Iss + 1 + s.socks.read
            /\ \A i \in 1..L : responses[k][i] = <<s.socks.id, s.socks.read - L + i>>
        BY <1>3, <1>5, <3>2, KeyIsLinked DEF Reading
      <4>5. \A q \in Q : /\ q.ack = s.client_seq
                         /\ q.unit[1] = s.socks.id /\ q.unit[2] = q.seq - Iss
        <5> SUFFICES ASSUME NEW i \in 1..L
                     PROVE  /\ Sent(k)[i].ack = s.client_seq
                            /\ Sent(k)[i].unit[1] = s.socks.id
                            /\ Sent(k)[i].unit[2] = Sent(k)[i].seq - Iss
          OBVIOUS
        <5>1. Sent(k)[i].unit = <<s.socks.id, s.socks.read - L + i>>
          BY <2>5, <4>4
        <5>2. s.socks.read - L + i = (s.vpn_seq + i - 1) - Iss
          <6> DEFINE r == s.socks.read
                     v == s.vpn_seq
          <6>1. r \in Nat /\ v \in Nat /\ L \in Nat /\ i \in Int /\ v + L = Iss + 1 + r
            BY <1>2, <2>3, <4>4
          <6> HIDE DEF r, v, L
          <6>2. r - L + i = (v + i - 1) - Iss
            BY <6>1 DEF Iss
          <6> QED BY <6>2 DEF r, v
        <5> QED BY <2>5, <5>1, <5>2
      <4>6. Held(outbound'[k]) \subseteq out \cup Q
        BY <2>4
      <4> HIDE DEF Q
      <4>7. Reading(t, <<>>)
        <5>1. Len(<<>>) = 0 /\ t.vpn_seq + 0 = Iss + 1 + t.socks.read
          BY <1>2, <2>1, <2>3, <4>4
        <5> QED BY <5>1 DEF Reading
      <4>8. SameSocket(s, t)
        BY <1>3, <2>1 DEF SameSocket
      <4>9. \A q \in DataIn(Q) : /\ Holds(t) /\ q.ack.gen = t.client_seq.gen
                                 /\ q.unit[1] = t.socks.id /\ q.unit[2] = q.seq - Iss
        BY <2>1, <2>3, <4>5 DEF DataIn
      <4>10. \A q \in Q : Newest(q.ack.gen, carried[k])
        BY <4>2, <4>5
      <4>11. Numbered(out \cup Q, t) /\ Received(out \cup Q, c, t)
        BY <3>2, <4>8, <4>9, <4>10, KeyIsLinked, WrittenDown
      <4>12. Numbered(Held(outbound'[k]), t) /\ Received(Held(outbound'[k]), c, t)
        BY <4>6, <4>11, FewerDown
      <4> QED BY <1>1, <1>2, <2>2, <4>3, <4>7, <4>12 DEF DownInv
    <3> QED BY <3>1, <3>2
  <2> QED BY <1>1, <1>2, <2>2, <2>4, <2>6, DownStep
<1> QED BY <1>4, <1>5 DEF Respond, Sent

LEMMA EndSendingDown ==
  ASSUME DownAll, EndSending
  PROVE  DownAll'
  BY DEF EndSending, historyVars, DownAll, DownInv

LEMMA CleanupDown ==
  ASSUME TypeInv, LinkAll, DownAll, Cleanup
  PROVE  DownAll'
<1>1. /\ UNCHANGED <<outbound, client, responses, twice>>
      /\ \A k \in Keys : streams'[k] \in {NoStream, streams[k]}
  BY DEF Cleanup, historyVars
<1>2. ASSUME NEW k \in Keys, ~twice[k]
      PROVE  SameSocket(streams[k], streams'[k]) /\ Reading(streams'[k], responses'[k])
  <2>1. Reading(streams[k], responses[k])
    BY <1>2, KeyIsLinked
  <2> QED BY <1>1, <2>1 DEF SameSocket, Reading, Holds
<1> QED BY <1>1, <1>2, LoopDown

LEMMA IdleDown ==
  ASSUME TypeInv, LinkAll, DownAll, NEW k \in Keys, Idle(k)
  PROVE  DownAll'
<1> DEFINE s == streams[k]
           t == [s EXCEPT !.idle = @ + 1]
<1>1. /\ UNCHANGED <<outbound, client, responses, twice>> /\ Put(k, t)
      /\ s \in StreamRecords /\ s.idle < 2 /\ s # NoStream
  BY DEF Idle, historyVars, TypeInv, DaemonType
<1>2. /\ t \in StreamRecords /\ t.connected = s.connected /\ t.state = s.state
      /\ t.client_seq = s.client_seq /\ t.vpn_seq = s.vpn_seq /\ t.socks = s.socks
  <2> HIDE DEF s
  <2>1. s.idle + 1 \in 0..2
    BY <1>1 DEF StreamRecords
  <2> QED BY <1>1, <2>1 DEF StreamRecords
<1> HIDE DEF t
<1>3. SameSocket(streams[k], t) /\ SameNumbers(streams[k], t)
  BY <1>1, <1>2 DEF SameSocket, SameNumbers, Holds
<1> QED BY <1>1, <1>2, <1>3, QuietDown

(* The client goes on with its connection, gives it up or opens another.   *)
GoesOn(c, d) ==
  /\ d.intact = c.intact
  /\ d.phase = "synSent" => d.from = 0
  /\ d.phase \in Open => c.phase \in Open /\ d.gen = c.gen /\ d.from = c.from

LEMMA GoneOnDown ==
  ASSUME DownAll, NEW k \in Keys, \A j \in Keys : j # k => client'[j] = client[j],
         UNCHANGED <<streams, responses, twice>>,
         \A j \in Keys : j # k => outbound'[j] = outbound[j],
         Held(outbound'[k]) \subseteq Held(outbound[k]),
         OutOrder(outbound[k]) => OutOrder(outbound'[k]),
         ~twice[k] => GoesOn(client[k], client'[k])
  PROVE  DownAll'
<1>1. DownInv(k)'
  <2>1. CASE twice[k]
    BY <2>1 DEF DownInv
  <2>2. CASE ~twice[k]
    <3> DEFINE out == Held(outbound[k])
               few == Held(outbound'[k])
               c == client[k]
               d == client'[k]
               s == streams[k]
    <3>1. /\ OutOrder(outbound[k]) /\ Reading(s, responses[k])
          /\ Numbered(out, s) /\ Received(out, c, s)
      BY <2>2 DEF DownAll, DownInv
    <3>2. few \subseteq out /\ GoesOn(c, d)
      BY <2>2
    <3> HIDE DEF out, few, c, d, s
    <3>3. Numbered(few, s) /\ Received(few, c, s)
      BY <3>1, <3>2, FewerDown
    <3>4. Received(few, d, s)
      BY <3>2, <3>3 DEF Received, GoesOn
    <3> QED BY <3>1, <3>3, <3>4 DEF DownInv, out, few, c, d, s
  <2> QED BY <2>1, <2>2
<1> QED BY <1>1, DownStep

LEMMA ClientStepsDown ==
  ASSUME TypeInv, LinkAll, DownAll, ClientSteps
  PROVE  DownAll'
<1>1. UNCHANGED <<streams, responses, twice, outbound>>
  BY DEF ClientSteps, daemonVars, historyVars
<1>2. PICK k \in Keys : \/ ClientOpen(k) \/ ClientSend(k) \/ ClientClose(k)
                        \/ ClientRepeats(k) \/ ClientAborts(k)
  BY DEF ClientSteps
<1> DEFINE c == client[k]
           d == client'[k]
<1>3. "synSent" \notin Open /\ "closed" \notin Open /\ "established" \in Open
      /\ "synSent" # "closed"
  BY DEF Open
<1>4. ~twice[k] => (c.phase = "synSent" => c.from = 0)
  BY KeyIsLinked DEF Received
<1>5. /\ \A j \in Keys : j # k => client'[j] = client[j]
      /\ ~twice[k] => GoesOn(c, d)
  <2>1. CASE ClientOpen(k)
    BY <1>3, <2>1, ClientOpenStep DEF ClientTyped, GoesOn
  <2>2. CASE ClientSend(k)
    BY <1>3, <2>2, ClientSendStep DEF ClientTyped, GoesOn
  <2>3. CASE ClientClose(k)
    BY <1>3, <2>3, ClientCloseStep DEF ClientTyped, GoesOn
  <2>4. CASE ClientRepeats(k)
    BY <1>4, <2>4, ClientRepeatsStep DEF GoesOn
  <2>5. CASE ClientAborts(k)
    BY <1>3, <2>5, ClientAbortsStep DEF ClientTyped, GoesOn
  <2> QED BY <1>2, <2>1, <2>2, <2>3, <2>4, <2>5
<1> QED BY <1>1, <1>5, GoneOnDown

(* The SYN-ACK that opens the client's connection is for the latest        *)
(* connection, so what follows it in the ring is of that one too.          *)
LEMMA OpenedDown ==
  ASSUME NEW in, NEW seq \in Seq(PacketsOut), seq # <<>>, NEW c, NEW d, NEW s, NEW tries, NEW carr,
         c.gen \in Nat, Orderly(in, c, carr), Linked(in, Held(seq), c, s, tries, carr),
         OutOrder(seq), Received(Held(seq), c, s),
         c.phase = "synSent", Head(seq).ack.gen = c.gen,
         d.gen = c.gen, d.from = c.from, d.intact = c.intact, d.phase = "established"
  PROVE  Received(Held(Tail(seq)), d, s)
<1>1. /\ Held(Tail(seq)) \subseteq Held(seq)
      /\ \A q \in Held(Tail(seq)) : Head(seq).ack.gen <= q.ack.gen
  BY TakenOut
<1>2. ASSUME NEW q \in Held(Tail(seq)) PROVE q.ack.gen = d.gen
  <2>1. q.ack.gen \in carr /\ c.gen <= q.ack.gen
    BY <1>1 DEF Linked, Evidence
  <2>2. q.ack.gen <= c.gen /\ q.ack.gen \in Nat
    BY <1>1, <2>1 DEF Orderly, Held, PacketsOut, Position
  <2> QED BY <2>1, <2>2
<1>3. d.from = 0 /\ d.intact
  BY DEF Received
<1> QED BY <1>2, <1>3 DEF Received

(* The next segment is of the socket the client reads from, if it reads,   *)
(* and its place is the client's own.                                      *)
LEMMA TakenDataDown ==
  ASSUME NEW in, NEW out, NEW few, few \subseteq out, NEW c, NEW d, NEW s, NEW tries, NEW carr,
         c.gen \in Nat, carr \in SUBSET Nat,
         Orderly(in, c, carr), Linked(in, out, c, s, tries, carr),
         Numbered(out, s), Received(out, c, s), NEW p \in out,
         c.phase \in Open, p.seq = c.rcv, p.kind = "data",
         d.phase = c.phase, d.gen = c.gen, d.from = p.unit[1],
         d.intact = (c.intact /\ c.from \in {0, p.unit[1]} /\ p.unit[2] = c.rcv - Iss)
  PROVE  Received(few, d, s)
<1>1. p \in DataIn(out) /\ DataIn(few) \subseteq DataIn(out) /\ c.phase # "synSent"
  BY DEF DataIn, Open
<1>2. p.unit[2] = c.rcv - Iss
  BY <1>1 DEF Numbered
<1>3. c.from \in {0, p.unit[1]}
  BY <1>1 DEF Received
<1>4. d.intact
  BY <1>2, <1>3 DEF Received
<1>5. \A q \in out : q.ack.gen = c.gen
  BY DEF Received
<1>6. \A q \in DataIn(few) : q.unit[1] = d.from
  BY <1>1, <1>5 DEF Numbered, DataIn
<1>7. ASSUME Holds(s) PROVE d.from = s.socks.id
  <2>1. c.gen \in carr /\ Newest(s.client_seq.gen, carr)
    BY <1>7 DEF Linked, Evidence
  <2>2. c.gen <= s.client_seq.gen /\ s.client_seq.gen <= c.gen /\ s.client_seq.gen \in Nat
    BY <2>1 DEF Newest, Orderly
  <2>3. p.ack.gen = s.client_seq.gen
    BY <1>5, <2>2
  <2> QED BY <1>1, <1>7, <2>3 DEF Numbered
<1> QED BY <1>1, <1>4, <1>5, <1>6, <1>7 DEF Received

LEMMA ClientReceiveDown ==
  ASSUME TypeInv, LinkAll, DownAll, ClientReceive
  PROVE  DownAll'
<1>1. UNCHANGED <<streams, responses, twice>>
  BY DEF ClientReceive, daemonVars, historyVars
<1>2. PICK k \in Keys :
        /\ outbound[k] # <<>>
        /\ outbound' = [outbound EXCEPT ![k] = Tail(@)]
        /\ \/ ReceiveSynAck(k, Head(outbound[k]))
           \/ ReceiveSegment(k, Head(outbound[k]))
  BY DEF ClientReceive
<1> DEFINE seq == outbound[k]
           c == client[k]
           d == client'[k]
           s == streams[k]
           p == Head(seq)
<1>3. /\ p \in PacketsOut /\ outbound'[k] = Tail(seq) /\ seq # <<>> /\ seq \in Seq(PacketsOut)
      /\ \A j \in Keys : j # k => outbound'[j] = outbound[j]
  BY <1>2, ClientReceiveTakes DEF TypeInv, WireType
<1>4. /\ Held(Tail(seq)) \subseteq Held(seq) /\ p \in Held(seq)
      /\ OutOrder(seq) => OutOrder(Tail(seq))
  BY <1>3, TakenOut
<1>5. "synSent" \notin Open /\ "closed" \notin Open /\ "synSent" # "closed"
  BY DEF Open
<1>6. ~twice[k] =>
        /\ Orderly(From(inbound, k), c, carried[k])
        /\ Linked(From(inbound, k), Held(seq), c, s, attempts[k], carried[k])
        /\ OutOrder(seq) /\ Reading(s, responses[k])
        /\ Numbered(Held(seq), s) /\ Received(Held(seq), c, s)
        /\ c.gen \in Nat /\ carried[k] \in SUBSET Nat
  BY KeyIsLinked
<1>7. ASSUME \A j \in Keys : j # k => client'[j] = client[j],
             ~twice[k] => Received(Held(Tail(seq)), d, s)
      PROVE  DownAll'
  <2>1. DownInv(k)'
    <3>1. CASE twice[k]
      BY <1>1, <3>1 DEF DownInv
    <3>2. CASE ~twice[k]
      <4>1. Numbered(Held(Tail(seq)), s)
        BY <1>4, <1>6, <3>2, FewerDown
      <4> QED BY <1>1, <1>3, <1>4, <1>6, <1>7, <3>2, <4>1 DEF DownInv
    <3> QED BY <3>1, <3>2
  <2> QED BY <1>1, <1>3, <1>7, <2>1, DownStep
<1>8. ASSUME \A j \in Keys : j # k => client'[j] = client[j], ~twice[k] => GoesOn(c, d)
      PROVE  DownAll'
  BY <1>1, <1>3, <1>4, <1>8, GoneOnDown
<1>9. ASSUME d = c PROVE ~twice[k] => GoesOn(c, d)
  BY <1>6, <1>9 DEF GoesOn, Received
<1> HIDE DEF p, seq
<1>10. CASE ReceiveSynAck(k, p)
  <2>1. /\ d.gen = c.gen /\ d.from = c.from /\ d.intact = c.intact
        /\ \A j \in Keys : j # k => client'[j] = client[j]
        /\ \/ /\ c.phase = "synSent" /\ p.ack = Offset(c.gen, 1)
              /\ d.phase = "established"
           \/ d = c
    BY <1>3, <1>10, ReceiveSynAckStep DEF ClientTyped
  <2>2. CASE c.phase = "synSent" /\ p.ack = Offset(c.gen, 1) /\ d.phase = "established"
    <3>1. p.ack.gen = c.gen
      BY <2>2 DEF Offset
    <3>2. ~twice[k] => Received(Held(Tail(seq)), d, s)
      BY <1>3, <1>6, <2>1, <2>2, <3>1, OpenedDown DEF p
    <3> QED BY <1>7, <2>1, <3>2
  <2>3. CASE d = c
    BY <1>8, <1>9, <2>1, <2>3
  <2> QED BY <2>1, <2>2, <2>3
<1>11. CASE ReceiveSegment(k, p)
  <2>1. /\ d.gen = c.gen /\ \A j \in Keys : j # k => client'[j] = client[j]
        /\ \/ Takes(k, p)
           \/ /\ c.phase \in Open /\ d.phase \in {c.phase, "closed"}
              /\ d.from = c.from /\ d.intact = c.intact
           \/ d = c
    BY <1>3, <1>11, ReceiveSegmentStep DEF ClientTyped
  <2>2. CASE Takes(k, p)
    <3>1. /\ c.phase \in Open /\ p.seq = c.rcv /\ p.kind = "data"
          /\ d.phase = c.phase /\ d.from = p.unit[1]
          /\ d.intact = (c.intact /\ c.from \in {0, p.unit[1]} /\ p.unit[2] = c.rcv - Iss)
      BY <2>2 DEF Takes
    <3>2. ~twice[k] => Received(Held(Tail(seq)), d, s)
      BY <1>4, <1>6, <2>1, <3>1, TakenDataDown
    <3> QED BY <1>7, <2>1, <3>2
  <2>3. CASE /\ c.phase \in Open /\ d.phase \in {c.phase, "closed"}
             /\ d.from = c.from /\ d.intact = c.intact
    <3>1. GoesOn(c, d)
      BY <1>5, <2>1, <2>3 DEF GoesOn
    <3> QED BY <1>8, <2>1, <3>1
  <2>4. CASE d = c
    BY <1>8, <1>9, <2>1, <2>4
  <2> QED BY <2>1, <2>2, <2>3, <2>4
<1> QED BY <1>2, <1>10, <1>11 DEF p, seq

LEMMA DownInit == Init => DownAll
<1> SUFFICES ASSUME Init, NEW k \in Keys PROVE DownInv(k)
  BY DEF DownAll
<1>1. /\ outbound[k] = <<>> /\ client[k].phase = "closed" /\ client[k].intact = TRUE
      /\ streams[k] = NoStream
  BY DEF Init
<1>2. Held(outbound[k]) = {} /\ OutOrder(outbound[k]) /\ ~Holds(streams[k])
  BY <1>1 DEF Held, OutOrder, Holds
<1>3. Reading(streams[k], responses[k])
  BY <1>2 DEF Reading
<1>4. Numbered({}, streams[k])
  BY <1>2 DEF Numbered, DataIn
<1>5. Received({}, client[k], streams[k])
  BY <1>1 DEF Received, Open
<1> QED BY <1>2, <1>3, <1>4, <1>5 DEF DownInv

LEMMA DownNext ==
  TypeInv /\ TableInv /\ LinkAll /\ DownAll /\ [Next]_vars => DownAll'
<1> SUFFICES ASSUME TypeInv, TableInv, LinkAll, DownAll, [Next]_vars PROVE DownAll'
  OBVIOUS
<1>1. CASE Handle
  BY <1>1, HandleSynDown, HandleAckDown, HandleDataDown, HandleFinDown DEF Handle
<1>2. CASE Connect
  BY <1>2, ConnectFailedDown, ConnectedDown DEF Connect
<1>3. CASE ResponseLoop
  BY <1>3, ReadSocketsDown, RespondDown, EndSendingDown, CleanupDown DEF ResponseLoop
<1>4. CASE \E k \in Keys : Idle(k)
  BY <1>4, IdleDown
<1>5. CASE ClientSteps
  BY <1>5, ClientStepsDown
<1>6. CASE ClientReceive
  BY <1>6, ClientReceiveDown
<1>7. CASE UNCHANGED vars
  BY <1>7 DEF vars, daemonVars, historyVars, DownAll, DownInv
<1> QED BY <1>1, <1>2, <1>3, <1>4, <1>5, <1>6, <1>7 DEF Next

(* A client reads what one server connection sent, from its first segment  *)
(* on and without a hole, whatever fails and whatever the adapter drops,   *)
(* as long as its connection does not ask for a second socket: what was    *)
(* read before the lock was released is dropped once the stream is closed, *)
(* a stream with something left to send is not taken over, and no number   *)
(* is used twice (packet_processor.cpp:214-228,240-256,323-362).           *)
THEOREM DownstreamIntactHolds == Spec => []DownstreamIntact
<1>1. TypeInv /\ TableInv /\ LinkAll /\ DownAll /\ [Next]_vars => DownAll'
  BY DownNext
<1>2. DownAll => DownstreamIntact
  BY DEF DownAll, DownInv, Received, DownstreamIntact
<1> QED BY <1>1, <1>2, DownInit, LinkHolds, PTL DEF Spec

=============================================================================
