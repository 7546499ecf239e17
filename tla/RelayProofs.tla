---------------------------- MODULE RelayProofs ----------------------------
(***************************************************************************)
(* The parts of the relay that share no state: a SOCKS connection, the     *)
(* handles of the adapter, the DNS queries, and the bytes of the packets   *)
(* that are built.                                                         *)
(***************************************************************************)
EXTENDS Dns, Socks5, Wintun, SequenceTheorems, TLAPS

-----------------------------------------------------------------------------
(* The SOCKS connection.  What was taken from the socket is known exactly  *)
(* before each answer is read: nothing before the first one, and the two   *)
(* bytes of the first one before the second, since recv(2) never takes a   *)
(* byte more.                                                              *)
ExactlyTaken ==
  /\ at \in {"start", "greet", "method"} => recvd = 0 /\ answers["reply"] = "none"
  /\ at \in {"start", "greet"} => sent = 0 /\ answers["method"] = "none"
  /\ at = "method" => sent = IF answers["method"] = "none" THEN 0 ELSE MethodLen
  /\ at \in {"request", "reply"} => recvd = MethodLen /\ answers["method"] = "granted"
  /\ at = "request" => answers["reply"] = "none"
  /\ at \in {"request", "reply"} /\ answers["reply"] = "none" => sent = MethodLen

SocksInv == S5TypeOK /\ ExactlyTaken /\ ConnectIsTrue

LEMMA Lengths ==
  /\ ReplyLen \in Nat /\ BufLen \in Nat /\ MinReply \in Nat /\ MaxData \in Nat
  /\ MethodLen \in Nat /\ DataStart \in Nat /\ MethodLen <= DataStart
  BY LenAssumption DEF MethodLen, DataStart

LEMMA SocksInvInit == S5Init => SocksInv
<1> SUFFICES ASSUME S5Init PROVE SocksInv
  OBVIOUS
<1> USE Lengths DEF S5Init
<1>1. S5TypeOK
  <2>1. sent \in 0..(DataStart + MaxData) /\ recvd \in 0..sent
    OBVIOUS
  <2>2. answers \in [{"method", "reply"} -> {"none", "granted", "refused"}]
    OBVIOUS
  <2> QED BY <2>1, <2>2 DEF S5TypeOK
<1>2. ExactlyTaken /\ ConnectIsTrue
  BY DEF ExactlyTaken, ConnectIsTrue, OpenMeansGranted, SocketFollows
<1> QED BY <1>1, <1>2 DEF SocksInv

(* recv() takes something of what is there, and no more than was asked.    *)
LEMMA TakesSome ==
  ASSUME S5TypeOK, NEW n \in Nat, Takes(n)
  PROVE  recvd' \in 1..sent /\ recvd < recvd' /\ recvd' <= recvd + n /\ recvd < sent
  BY Lengths DEF S5TypeOK, Takes

LEMMA SocksInvStep == SocksInv /\ [S5Next]_s5Vars => SocksInv'
<1> SUFFICES ASSUME SocksInv, [S5Next]_s5Vars PROVE SocksInv'
  OBVIOUS
<1> USE Lengths
<1> USE DEF SocksInv, S5TypeOK, ExactlyTaken, ConnectIsTrue, OpenMeansGranted, SocketFollows
<1>1. CASE Dial
  BY <1>1 DEF Dial, Fail
<1>2. CASE SendRequest
  BY <1>2 DEF SendRequest, Pass, Fail
<1>3. CASE Handshake
  <2>1. CASE Takes(MethodLen) /\ IF recvd' = MethodLen /\ answers["method"] = "granted"
                                   THEN Pass("request") ELSE Fail
    <3>1. recvd' \in 1..sent
      BY <2>1, TakesSome
    <3> QED BY <1>3, <2>1, <3>1 DEF Handshake, Pass, Fail
  <2>2. CASE AtEnd /\ Fail /\ UNCHANGED recvd
    BY <1>3, <2>2 DEF Handshake, Fail
  <2> QED BY <1>3, <2>1, <2>2 DEF Handshake
<1>4. CASE ConnectReply
  <2>1. CASE Takes(BufLen) /\ IF recvd' - recvd >= MinReply /\ SecondByteGrants
                                THEN at' = "open" /\ sock' = "nonblocking" ELSE Fail
    <3>1. recvd' \in 1..sent
      BY <2>1, TakesSome
    <3>2. CASE at' = "open" /\ sock' = "nonblocking" /\ SecondByteGrants
      <4>1. answers["method"] = "granted" /\ answers["reply"] = "granted"
        BY <1>4, <3>2 DEF ConnectReply, SecondByteGrants
      <4>2. answers' = [a \in {"method", "reply"} |-> "granted"]
        BY <1>4, <4>1 DEF ConnectReply
      <4> QED BY <1>4, <3>1, <3>2, <4>2 DEF ConnectReply
    <3>3. CASE Fail
      BY <1>4, <3>1, <3>3 DEF ConnectReply, Fail
    <3> QED BY <2>1, <3>2, <3>3
  <2>2. CASE AtEnd /\ Fail /\ UNCHANGED recvd
    BY <1>4, <2>2 DEF ConnectReply, Fail
  <2> QED BY <1>4, <2>1, <2>2 DEF ConnectReply
<1>5. CASE ReceivePacket
  <2>1. recvd' \in 1..sent
    BY <1>5, TakesSome DEF ReceivePacket
  <2> QED BY <1>5, <2>1 DEF ReceivePacket
<1>6. CASE Close
  BY <1>6 DEF Close, Fail
<1>7. CASE TorAnswers("method")
  BY <1>7 DEF TorAnswers, Asked, Answers
<1>8. CASE TorAnswers("reply")
  BY <1>8 DEF TorAnswers, Asked, Answers, DataStart
<1>9. CASE ServerSends
  BY <1>9 DEF ServerSends
<1>10. CASE Closes
  BY <1>10 DEF Closes
<1>11. CASE UNCHANGED s5Vars
  BY <1>11 DEF s5Vars
<1> QED BY <1>1, <1>2, <1>3, <1>4, <1>5, <1>6, <1>7, <1>8, <1>9, <1>10, <1>11
        DEF S5Next, S5Step

(* connect() succeeds only if Tor granted this very request, and leaves a  *)
(* non-blocking socket; one that failed or was closed leaves none, however *)
(* TCP cuts the answers, whenever Tor refuses or closes, and for answers   *)
(* and buffers of every length (socks5.cpp:19-93,113-118).                 *)
THEOREM ConnectIsTrueHolds == S5Spec => []ConnectIsTrue
<1>1. SocksInv => ConnectIsTrue
  BY DEF SocksInv
<1> QED BY <1>1, SocksInvInit, SocksInvStep, PTL DEF S5Spec

-----------------------------------------------------------------------------
(* The handles of the adapter.  Which of them are open says exactly where  *)
(* the worker is.                                                          *)
HandlesFollowWorker ==
  /\ session <=> worker \in {"serve", "end"}
  /\ adapter <=> worker \in {"start", "serve", "end", "close"}
  /\ worker \in {"create", "start", "serve", "end", "close"} => module
  /\ worker \in {"load", "gone"} => ~module

WintunInv == WtTypeOK /\ HandlesFollowWorker

LEMMA WintunInvInit == WtInit => WintunInv
<1> SUFFICES ASSUME WtInit PROVE WintunInv
  OBVIOUS
<1>1. /\ ring \in Seq([by : Senders, sent : BOOLEAN]) /\ Len(ring) <= MaxRing
      /\ sender \in [Senders -> {"idle", "filling"}]
  BY WtAssumption DEF WtInit
<1>2. WtTypeOK
  <2>1. module \in BOOLEAN /\ adapter \in BOOLEAN /\ session \in BOOLEAN
    BY Zenon DEF WtInit
  <2>2. held \in 0..1 /\ exports \subseteq Exports
    BY SMT DEF WtInit
  <2>3. worker = "load"
    BY DEF WtInit
  <2> QED BY <1>1, <2>1, <2>2, <2>3 DEF WtTypeOK
<1>3. HandlesFollowWorker
  <2>1. worker = "load" /\ ~module /\ ~adapter /\ ~session
    BY DEF WtInit
  <2> QED BY <2>1 DEF HandlesFollowWorker
<1> QED BY <1>2, <1>3 DEF WintunInv

LEMMA WintunInvStep == WintunInv /\ [WtNext]_wtVars => WintunInv'
<1> SUFFICES ASSUME WintunInv, [WtNext]_wtVars PROVE WintunInv'
  OBVIOUS
<1> USE WtAssumption DEF WintunInv, WtTypeOK, HandlesFollowWorker
<1>1. CASE Load
  BY <1>1 DEF Load, Go, Needed, Exports
<1>2. CASE CreateAdapter
  <2>1. WtTypeOK'
    BY <1>2 DEF CreateAdapter, Go
  <2>2. HandlesFollowWorker'
    BY <1>2 DEF CreateAdapter, Go
  <2> QED BY <2>1, <2>2
<1>3. CASE StartSession
  <2>1. WtTypeOK'
    BY <1>3 DEF StartSession, Go
  <2>2. HandlesFollowWorker'
    BY <1>3 DEF StartSession, Go
  <2> QED BY <2>1, <2>2
<1>4. CASE EndSession
  <2>1. ring' \in Seq([by : Senders, sent : BOOLEAN]) /\ Len(ring') <= MaxRing
    BY <1>4 DEF EndSession
  <2>2. WtTypeOK'
    BY <1>4, <2>1 DEF EndSession, Go
  <2>3. HandlesFollowWorker'
    BY <1>4 DEF EndSession, Go
  <2> QED BY <2>2, <2>3
<1>5. CASE CloseAdapter
  BY <1>5 DEF CloseAdapter, Go
<1>6. CASE FreeModule
  BY <1>6 DEF FreeModule, Go
<1>7. CASE Stop
  BY <1>7 DEF Stop, Go
<1>8. CASE TakePacket
  BY <1>8 DEF TakePacket
<1>9. CASE CompleteReceive
  BY <1>9 DEF CompleteReceive
<1>10. CASE Deliver
  <2>1. /\ Tail(ring) \in Seq([by : Senders, sent : BOOLEAN])
        /\ Len(Tail(ring)) <= MaxRing
    BY <1>10 DEF Deliver
  <2> QED BY <1>10, <2>1 DEF Deliver
<1>11. ASSUME NEW s \in Senders, Allocate(s) PROVE WintunInv'
  <2> DEFINE place == [by |-> s, sent |-> FALSE]
  <2>1. /\ Append(ring, place) \in Seq([by : Senders, sent : BOOLEAN])
        /\ Len(Append(ring, place)) <= MaxRing
    BY <1>11 DEF Allocate
  <2> QED BY <1>11, <2>1 DEF Allocate
<1>12. ASSUME NEW s \in Senders, SendPacket(s) PROVE WintunInv'
  <2> DEFINE Place == [by : Senders, sent : BOOLEAN]
  <2>1. /\ ring' \in [1..Len(ring) -> Place]
        /\ Len(ring) \in Nat
    <3>1. ASSUME NEW i \in 1..Len(ring)
          PROVE  (IF ring[i].by = s /\ "send" \in exports THEN [ring[i] EXCEPT !.sent = TRUE]
                  ELSE ring[i]) \in Place
      <4>1. ring[i] \in Place
        <5>1. ring \in Seq(Place)
          OBVIOUS
        <5> QED BY <5>1, ElementOfSeq
      <4> QED BY <4>1
    <3> QED BY <1>12, <3>1 DEF SendPacket
  <2>2. ring' \in Seq([by : Senders, sent : BOOLEAN]) /\ Len(ring') = Len(ring)
    BY <2>1
  <2>3. sender' \in [Senders -> {"idle", "filling"}]
    BY <1>12 DEF SendPacket
  <2>4. WtTypeOK'
    BY <1>12, <2>2, <2>3 DEF SendPacket
  <2>5. HandlesFollowWorker'
    BY <1>12 DEF SendPacket
  <2> QED BY <2>4, <2>5
<1>13. CASE UNCHANGED wtVars
  BY <1>13 DEF wtVars
<1> QED BY <1>1, <1>2, <1>3, <1>4, <1>5, <1>6, <1>7, <1>8, <1>9, <1>10, <1>11, <1>12, <1>13
        DEF WtNext, WorkerCalls

(* Through every failure of the start-up and on the way out, whatever the  *)
(* packet threads do meanwhile, no session outlives its adapter, no        *)
(* adapter the library, and no library the worker (service.cpp:224-248;    *)
(* wintun.cpp:11-15,72-76,91-95).                                          *)
THEOREM HandlesNestedHolds == WtSpec => []HandlesNested
<1>1. WintunInv => HandlesNested
  BY DEF WintunInv, WtTypeOK, HandlesFollowWorker, HandlesNested
<1> QED BY <1>1, WintunInvInit, WintunInvStep, PTL DEF WtSpec

-----------------------------------------------------------------------------
(* The packets that carry a DNS query and its answer.                      *)

LEMMA BaseIsNat == Base \in Nat
  BY DEF Base

LEMMA WordsBelowBase ==
  /\ \A n \in Nat : n < Base => n % Base = n
  /\ \A n \in 0..(Base - 1) : n \in Nat
<1>1. ASSUME NEW n \in Nat, n < Base PROVE n % Base = n
  BY <1>1, SMT DEF Base
<1>2. ASSUME NEW n \in 0..(Base - 1) PROVE n \in Nat
  BY BaseIsNat
<1> QED BY <1>1, <1>2

LEMMA PairLayout ==
  ASSUME NEW x \in Nat, NEW y \in Nat
  PROVE  <<x, y>> \in Seq(Nat) /\ Len(<<x, y>>) = 2 /\ <<x, y>>[1] = x /\ <<x, y>>[2] = y
  OBVIOUS

LEMMA AppendReads ==
  ASSUME NEW s \in Seq(Nat), NEW y \in Nat
  PROVE  /\ Append(s, y) \in Seq(Nat) /\ Len(Append(s, y)) = Len(s) + 1
         /\ \A j \in 1..Len(s) : Append(s, y)[j] = s[j]
         /\ Append(s, y)[Len(s) + 1] = y
  BY AppendProperties

LEMMA AppendedPair ==
  ASSUME NEW x \in Nat, NEW y \in Nat
  PROVE  Append(<<x>>, y) = <<x, y>>
<1> DEFINE before == <<x>>
           after == <<x, y>>
           longer == Append(before, y)
<1>1. before \in Seq(Nat) /\ Len(before) = 1 /\ before[1] = x
  OBVIOUS
<1>2. after \in Seq(Nat) /\ Len(after) = 2 /\ after[1] = x /\ after[2] = y
  BY PairLayout
<1> HIDE DEF before, after
<1>3. /\ longer \in Seq(Nat) /\ Len(longer) = Len(before) + 1
      /\ \A j \in 1..Len(before) : longer[j] = before[j]
      /\ longer[Len(before) + 1] = y
  BY <1>1, AppendReads
<1> HIDE DEF longer
<1>4. 1 \in 1..Len(before) /\ Len(before) + 1 = 2
  BY <1>1
<1>5. \A j \in 1..2 : j = 1 \/ j = 2
  OBVIOUS
<1>6. Len(longer) = Len(after)
  BY <1>1, <1>2, <1>3, <1>4
<1>7. longer[1] = after[1] /\ longer[2] = after[2]
  BY <1>1, <1>2, <1>3, <1>4
<1>8. \A j \in 1..Len(longer) : longer[j] = after[j]
  <2>1. Len(longer) = 2
    BY <1>2, <1>6
  <2> QED BY <1>5, <1>7, <2>1
<1>9. longer = after
  BY <1>2, <1>3, <1>6, <1>8, SeqEqual
<1> QED BY <1>9 DEF before, after, longer

LEMMA TwoLayout ==
  ASSUME NEW n \in Nat
  PROVE  /\ Two(n) \in Seq(Nat) /\ Len(Two(n)) = 2
         /\ 256 * Two(n)[1] + Two(n)[2] = n
<1> DEFINE x == n \div 256
           y == n % 256
<1>1. x \in Nat /\ y \in Nat
  BY SMT
<1>2. n = y + x * 256
  BY SMT
<1>3. 256 * x + y = n
  BY <1>1, <1>2
<1>4. Two(n) = <<x, y>>
  BY DEF Two
<1> HIDE DEF x, y
<1>5. Two(n) \in Seq(Nat) /\ Len(Two(n)) = 2 /\ Two(n)[1] = x /\ Two(n)[2] = y
  BY <1>1, <1>4, PairLayout
<1> QED BY <1>3, <1>5

LEMMA AddressLayout ==
  ASSUME NEW a \in Address
  PROVE  a \in Seq(Nat) /\ Len(a) = 4
<1>1. a \in [1..4 -> Nat] /\ 4 \in Nat
  BY DEF Address, Byte
<1>2. a \in Seq(Nat)
  BY <1>1, SeqDef
<1> DEFINE n == Len(a)
<1>3. n \in Nat /\ 1..n = 1..4
  BY <1>1, <1>2, LenProperties
<1> HIDE DEF n
<1>4. 4 \in 1..n /\ ~(5 \in 1..n)
  BY <1>3
<1>5. n = 4
  BY <1>3, <1>4
<1> QED BY <1>2, <1>5 DEF n

(* Behind its first k elements, p reads a.                                 *)
Reads(p, k, a) ==
  k \in Nat /\ k + Len(a) <= Len(p) /\ \A i \in 1..Len(a) : p[k + i] = a[i]

LEMMA JoinedReads ==
  ASSUME NEW a \in Seq(Nat), NEW b \in Seq(Nat)
  PROVE  /\ a \o b \in Seq(Nat) /\ Len(a \o b) = Len(a) + Len(b)
         /\ Reads(a \o b, 0, a) /\ Reads(a \o b, Len(a), b)
<1> DEFINE m == Len(a)
           n == Len(b)
           c == a \o b
<1>1. /\ c \in Seq(Nat) /\ Len(c) = m + n /\ m \in Nat /\ n \in Nat
      /\ \A i \in 1..(m + n) : c[i] = IF i <= m THEN a[i] ELSE b[i - m]
  BY ConcatProperties
<1> HIDE DEF c, m, n
<1>2. \A i \in 1..m : c[0 + i] = a[i]
  BY <1>1
<1>3. \A i \in 1..n : c[m + i] = b[i]
  <2> TAKE i \in 1..n
  <2>1. m + i \in 1..(m + n) /\ ~(m + i <= m) /\ (m + i) - m = i
    BY <1>1
  <2> QED BY <1>1, <2>1
<1>4. 0 + m <= Len(c) /\ m + n <= Len(c)
  BY <1>1
<1> QED BY <1>1, <1>2, <1>3, <1>4 DEF Reads, c, m, n

LEMMA JoinedKeeps ==
  ASSUME NEW a \in Seq(Nat), NEW b \in Seq(Nat), NEW c \in Seq(Nat), NEW k, Reads(a, k, c)
  PROVE  Reads(a \o b, k, c)
<1> DEFINE m == Len(a)
           n == Len(b)
           l == Len(c)
           ab == a \o b
<1>1. /\ Len(ab) = m + n /\ m \in Nat /\ n \in Nat /\ l \in Nat
      /\ \A i \in 1..(m + n) : ab[i] = IF i <= m THEN a[i] ELSE b[i - m]
  BY ConcatProperties
<1>2. k \in Nat /\ k + l <= m /\ \A i \in 1..l : a[k + i] = c[i]
  BY DEF Reads
<1> HIDE DEF ab, m, n, l
<1>3. \A i \in 1..l : ab[k + i] = c[i]
  <2> TAKE i \in 1..l
  <2>1. k + i \in 1..(m + n) /\ k + i <= m
    BY <1>1, <1>2
  <2> QED BY <1>1, <1>2, <2>1
<1>4. k + l <= Len(ab)
  BY <1>1, <1>2
<1> QED BY <1>2, <1>3, <1>4 DEF Reads, ab, l

LEMMA HeaderLayout ==
  ASSUME NEW total \in Nat, NEW protocol \in Nat,
         NEW src \in Address, NEW dst \in Address
  PROVE  LET h == IPHeader(total, protocol, src, dst) IN
         /\ h \in Seq(Nat) /\ Len(h) = 20
         /\ Reads(h, 0, <<69, 0>>) /\ Reads(h, 2, Two(total % Base))
         /\ Reads(h, 12, src) /\ Reads(h, 16, dst)
<1> DEFINE a == <<69, 0>>
           b == Two(total % Base)
           c == <<0, 0, 64, 0, 64, protocol, 0, 0>>
           ab == a \o b
           abc == ab \o c
           left == abc \o src
           h == left \o dst
<1>1. a \in Seq(Nat) /\ Len(a) = 2
  OBVIOUS
<1>2. b \in Seq(Nat) /\ Len(b) = 2
  <2>1. total % Base \in Nat
    BY SMT DEF Base
  <2> QED BY <2>1, TwoLayout
<1>3. c \in Seq(Nat) /\ Len(c) = 8
  OBVIOUS
<1>4. src \in Seq(Nat) /\ Len(src) = 4 /\ dst \in Seq(Nat) /\ Len(dst) = 4
  BY AddressLayout
<1>5. h = IPHeader(total, protocol, src, dst)
  BY DEF IPHeader
<1> HIDE DEF a, b, c, h
<1>6. ab \in Seq(Nat) /\ Len(ab) = 4 /\ Reads(ab, 0, a) /\ Reads(ab, 2, b)
  <2>1. ab \in Seq(Nat) /\ Len(ab) = Len(a) + Len(b) /\ Reads(ab, 0, a) /\ Reads(ab, 2, b)
    BY <1>1, <1>2, JoinedReads
  <2> QED BY <1>1, <1>2, <2>1
<1> HIDE DEF ab
<1>7. abc \in Seq(Nat) /\ Len(abc) = 12 /\ Reads(abc, 0, a) /\ Reads(abc, 2, b)
  <2>1. abc \in Seq(Nat) /\ Len(abc) = Len(ab) + Len(c)
    BY <1>3, <1>6, JoinedReads
  <2>2. Reads(abc, 0, a) /\ Reads(abc, 2, b)
    BY <1>1, <1>2, <1>3, <1>6, JoinedKeeps
  <2> QED BY <1>3, <1>6, <2>1, <2>2
<1> HIDE DEF abc
<1>8. /\ left \in Seq(Nat) /\ Len(left) = 16
      /\ Reads(left, 0, a) /\ Reads(left, 2, b) /\ Reads(left, 12, src)
  <2>1. left \in Seq(Nat) /\ Len(left) = Len(abc) + Len(src) /\ Reads(left, 12, src)
    BY <1>4, <1>7, JoinedReads
  <2>2. Reads(left, 0, a) /\ Reads(left, 2, b)
    BY <1>1, <1>2, <1>4, <1>7, JoinedKeeps
  <2> QED BY <1>4, <1>7, <2>1, <2>2
<1> HIDE DEF left
<1>9. /\ h \in Seq(Nat) /\ Len(h) = 20 /\ Reads(h, 0, a) /\ Reads(h, 2, b)
      /\ Reads(h, 12, src) /\ Reads(h, 16, dst)
  <2>1. h \in Seq(Nat) /\ Len(h) = Len(left) + Len(dst) /\ Reads(h, 16, dst)
    BY <1>4, <1>8, JoinedReads DEF h
  <2>2. Reads(h, 0, a) /\ Reads(h, 2, b) /\ Reads(h, 12, src)
    BY <1>1, <1>2, <1>4, <1>8, JoinedKeeps DEF h
  <2> QED BY <1>4, <1>8, <2>1, <2>2
<1> QED BY <1>5, <1>9 DEF a, b

(* What is built of a query's parts is read as these parts, and its length *)
(* field is its length.                                                    *)
LEMMA BuiltIsRead ==
  ASSUME NEW src \in Address, NEW sport \in 0..(Base - 1),
         NEW dst \in Address, NEW dport \in 0..(Base - 1),
         NEW payload \in Seq(Nat), Len(payload) + 28 < Base
  PROVE  LET p == buildUDPPacket(src, sport, dst, dport, payload) IN
         /\ At(p, 3) = Len(p)
         /\ ParseUDP(p) = [src |-> src, sport |-> sport, dst |-> dst, dport |-> dport,
                           payload |-> payload]
<1> DEFINE n == Len(payload)
           a == <<69, 0>>
           t == Two(28 + n)
           s == Two(sport)
           d == Two(dport)
           l == Two(8 + n)
           zero == <<0, 0>>
           h == IPHeader(28 + n, 17, src, dst)
           p1 == h \o s
           p2 == p1 \o d
           p3 == p2 \o l
           p4 == p3 \o zero
           p == p4 \o payload
<1>1. /\ n \in Nat /\ sport \in Nat /\ dport \in Nat /\ 28 + n \in Nat /\ 8 + n \in Nat
      /\ (28 + n) % Base = 28 + n /\ (8 + n) % Base = 8 + n
  <2>1. n \in Nat /\ n + 28 < Base
    OBVIOUS
  <2> HIDE DEF n
  <2>2. 28 + n \in Nat /\ 8 + n \in Nat /\ 28 + n < Base /\ 8 + n < Base
    BY <2>1, BaseIsNat
  <2> QED BY <2>1, <2>2, WordsBelowBase
<1>2. /\ t \in Seq(Nat) /\ Len(t) = 2 /\ 256 * t[1] + t[2] = 28 + n
      /\ s \in Seq(Nat) /\ Len(s) = 2 /\ 256 * s[1] + s[2] = sport
      /\ d \in Seq(Nat) /\ Len(d) = 2 /\ 256 * d[1] + d[2] = dport
      /\ l \in Seq(Nat) /\ Len(l) = 2 /\ 256 * l[1] + l[2] = 8 + n
  <2> HIDE DEF n
  <2> QED BY <1>1, TwoLayout
<1>3. zero \in Seq(Nat) /\ Len(zero) = 2 /\ a \in Seq(Nat) /\ Len(a) = 2 /\ a[1] = 69
  OBVIOUS
<1>4. /\ src \in Seq(Nat) /\ Len(src) = 4 /\ dst \in Seq(Nat) /\ Len(dst) = 4
      /\ payload \in Seq(Nat) /\ Len(payload) = n
  BY AddressLayout
<1>5. /\ h \in Seq(Nat) /\ Len(h) = 20
      /\ Reads(h, 0, a) /\ Reads(h, 2, t) /\ Reads(h, 12, src) /\ Reads(h, 16, dst)
  <2> HIDE DEF n
  <2>1. /\ h \in Seq(Nat) /\ Len(h) = 20
        /\ Reads(h, 0, <<69, 0>>) /\ Reads(h, 2, Two((28 + n) % Base))
        /\ Reads(h, 12, src) /\ Reads(h, 16, dst)
    BY <1>1, HeaderLayout
  <2> QED BY <1>1, <2>1
<1>6. p = buildUDPPacket(src, sport, dst, dport, payload)
  BY <1>1 DEF buildUDPPacket
<1> HIDE DEF n, a, t, s, d, l, zero, h, p
<1> DEFINE Header(q) == Reads(q, 0, a) /\ Reads(q, 2, t) /\ Reads(q, 12, src) /\ Reads(q, 16, dst)
<1>7. ASSUME NEW q \in Seq(Nat), NEW r \in Seq(Nat), Header(q)
      PROVE  Header(q \o r)
  BY <1>2, <1>3, <1>4, <1>7, JoinedKeeps
<1> HIDE DEF Header
<1>10. Header(h)
  BY <1>5 DEF Header
<1>11. p1 \in Seq(Nat) /\ Len(p1) = 22 /\ Header(p1) /\ Reads(p1, 20, s)
  <2>1. p1 \in Seq(Nat) /\ Len(p1) = Len(h) + Len(s) /\ Reads(p1, 20, s)
    BY <1>2, <1>5, JoinedReads
  <2>2. Header(p1)
    BY <1>2, <1>5, <1>7, <1>10
  <2> QED BY <1>2, <1>5, <2>1, <2>2
<1> HIDE DEF p1
<1>12. p2 \in Seq(Nat) /\ Len(p2) = 24 /\ Header(p2) /\ Reads(p2, 20, s) /\ Reads(p2, 22, d)
  <2>1. p2 \in Seq(Nat) /\ Len(p2) = Len(p1) + Len(d) /\ Reads(p2, 22, d)
    BY <1>2, <1>11, JoinedReads
  <2>2. Header(p2)
    BY <1>2, <1>7, <1>11
  <2>3. Reads(p2, 20, s)
    BY <1>2, <1>11, JoinedKeeps
  <2> QED BY <1>2, <1>11, <2>1, <2>2, <2>3
<1> HIDE DEF p2
<1>13. /\ p3 \in Seq(Nat) /\ Len(p3) = 26 /\ Header(p3)
       /\ Reads(p3, 20, s) /\ Reads(p3, 22, d) /\ Reads(p3, 24, l)
  <2>1. p3 \in Seq(Nat) /\ Len(p3) = Len(p2) + Len(l) /\ Reads(p3, 24, l)
    BY <1>2, <1>12, JoinedReads
  <2>2. Header(p3)
    BY <1>2, <1>7, <1>12
  <2>3. Reads(p3, 20, s) /\ Reads(p3, 22, d)
    BY <1>2, <1>12, JoinedKeeps
  <2> QED BY <1>2, <1>12, <2>1, <2>2, <2>3
<1> HIDE DEF p3
<1>14. /\ p4 \in Seq(Nat) /\ Len(p4) = 28 /\ Header(p4)
       /\ Reads(p4, 20, s) /\ Reads(p4, 22, d) /\ Reads(p4, 24, l)
  <2>1. p4 \in Seq(Nat) /\ Len(p4) = Len(p3) + Len(zero) /\ Reads(p4, 26, zero)
    <3>1. zero \in Seq(Nat) /\ Len(p3) = 26 /\ p3 \in Seq(Nat)
      BY <1>3, <1>13
    <3> QED BY <3>1, JoinedReads
  <2>2. Header(p4)
    BY <1>3, <1>7, <1>13
  <2>3. Reads(p4, 20, s) /\ Reads(p4, 22, d) /\ Reads(p4, 24, l)
    BY <1>2, <1>3, <1>13, JoinedKeeps
  <2> QED BY <1>3, <1>13, <2>1, <2>2, <2>3
<1> HIDE DEF p4
<1>15. /\ p \in Seq(Nat) /\ Len(p) = 28 + n /\ Header(p)
       /\ Reads(p, 20, s) /\ Reads(p, 22, d) /\ Reads(p, 24, l) /\ Reads(p, 28, payload)
  <2>1. p \in Seq(Nat) /\ Len(p) = Len(p4) + Len(payload) /\ Reads(p, 28, payload)
    BY <1>4, <1>14, JoinedReads DEF p
  <2>2. Header(p)
    BY <1>4, <1>7, <1>14 DEF p
  <2>3. Reads(p, 20, s) /\ Reads(p, 22, d) /\ Reads(p, 24, l)
    BY <1>2, <1>4, <1>14, JoinedKeeps DEF p
  <2> QED BY <1>1, <1>4, <1>14, <2>1, <2>2, <2>3
<1>16. ASSUME NEW c \in Seq(Nat), Len(c) = 2, NEW k, Reads(p, k, c)
       PROVE  k \in Nat /\ p[k + 1] = c[1] /\ p[k + 2] = c[2]
  BY <1>16 DEF Reads
<1>17. /\ p[1] = 69
       /\ At(p, 3) = Len(p) /\ At(p, 21) = sport /\ At(p, 23) = dport /\ At(p, 25) = 8 + n
  <2>1. p[0 + 1] = a[1] /\ p[2 + 1] = t[1] /\ p[2 + 2] = t[2]
    BY <1>2, <1>3, <1>15, <1>16 DEF Header
  <2>2. /\ p[20 + 1] = s[1] /\ p[20 + 2] = s[2] /\ p[22 + 1] = d[1] /\ p[22 + 2] = d[2]
        /\ p[24 + 1] = l[1] /\ p[24 + 2] = l[2]
    BY <1>2, <1>15, <1>16
  <2>3. /\ p[1] = a[1] /\ p[3] = t[1] /\ p[4] = t[2] /\ p[21] = s[1] /\ p[22] = s[2]
        /\ p[23] = d[1] /\ p[24] = d[2] /\ p[25] = l[1] /\ p[26] = l[2]
    BY <2>1, <2>2
  <2>4. /\ At(p, 3) = 256 * p[3] + p[4] /\ At(p, 21) = 256 * p[21] + p[22]
        /\ At(p, 23) = 256 * p[23] + p[24] /\ At(p, 25) = 256 * p[25] + p[26]
    BY DEF At
  <2> QED BY <1>2, <1>3, <1>15, <2>3, <2>4
<1>18. HeaderLen(p) = 20
  <2>1. 4 * (69 % 16) = 20
    BY SMT
  <2> QED BY <1>17, <2>1 DEF HeaderLen
<1>19. ASSUME NEW c \in Seq(Nat), NEW k, Reads(p, k, c)
       PROVE  SubSeq(p, k + 1, k + Len(c)) = c
  <2> DEFINE m == Len(c)
             N == Len(p)
  <2>1. m \in Nat /\ N \in Nat /\ c = [i \in 1..m |-> c[i]]
    BY <1>15
  <2>2. k \in Nat /\ k + m <= N /\ \A i \in 1..m : p[k + i] = c[i]
    BY <1>19 DEF Reads
  <2> DEFINE q == SubSeq(p, k + 1, k + m)
  <2> HIDE DEF m, N
  <2>3. \A i \in (k + 1)..(k + m) : p[i] \in Nat
    <3> TAKE i \in (k + 1)..(k + m)
    <3>1. i \in 1..N
      BY <2>1, <2>2
    <3> QED BY <1>15, <3>1 DEF N
  <2>4. k + 1 \in Int /\ k + m \in Int
    BY <2>1, <2>2
  <2>5. /\ q \in Seq(Nat)
        /\ Len(q) = IF k + 1 <= k + m THEN (k + m) - (k + 1) + 1 ELSE 0
        /\ \A i \in 1..((k + m) - (k + 1) + 1) : q[i] = p[(k + 1) + i - 1]
    BY <2>3, <2>4, SubSeqProperties
  <2> HIDE DEF q
  <2>6. Len(q) = m
    BY <2>1, <2>2, <2>5
  <2>7. \A i \in 1..m : q[i] = c[i]
    <3> TAKE i \in 1..m
    <3>1. i \in 1..((k + m) - (k + 1) + 1) /\ (k + 1) + i - 1 = k + i
      BY <2>1, <2>2
    <3> QED BY <2>2, <2>5, <3>1
  <2>8. q = c
    BY <2>5, <2>6, <2>7, SeqEqual DEF m
  <2> QED BY <2>8 DEF q, m
<1>20. SubSeq(p, 13, 16) = src /\ SubSeq(p, 17, 20) = dst /\ SubSeq(p, 29, 28 + n) = payload
  <2>1. /\ SubSeq(p, 12 + 1, 12 + Len(src)) = src /\ SubSeq(p, 16 + 1, 16 + Len(dst)) = dst
        /\ SubSeq(p, 28 + 1, 28 + Len(payload)) = payload
    BY <1>4, <1>15, <1>19 DEF Header
  <2> QED BY <1>4, <2>1
<1>21. ParseUDP(p) = [src |-> src, sport |-> sport, dst |-> dst, dport |-> dport,
                      payload |-> payload]
  <2>1. 20 + (8 + n) = 28 + n
    BY <1>1
  <2>2. /\ HeaderLen(p) + 1 = 21 /\ HeaderLen(p) + 3 = 23 /\ HeaderLen(p) + 5 = 25
        /\ HeaderLen(p) + 9 = 29 /\ HeaderLen(p) + At(p, 25) = 28 + n
    BY <1>17, <1>18, <2>1
  <2>3. /\ ParseUDP(p).src = src /\ ParseUDP(p).dst = dst
        /\ ParseUDP(p).sport = sport /\ ParseUDP(p).dport = dport
        /\ ParseUDP(p).payload = payload
    BY <1>17, <1>20, <2>2 DEF ParseUDP
  <2>4. ParseUDP(p) = [src |-> ParseUDP(p).src, dst |-> ParseUDP(p).dst,
                       sport |-> ParseUDP(p).sport, dport |-> ParseUDP(p).dport,
                       payload |-> ParseUDP(p).payload]
    BY DEF ParseUDP
  <2> QED BY <2>3, <2>4
<1> QED BY <1>6, <1>17, <1>21

(* What a thread works on is the query it was started for, the answer it   *)
(* has is to this query, and so is every answer that was injected.         *)
Parts(i) == [src |-> queried[i].client.ip, sport |-> queried[i].client.port,
             dst |-> queried[i].server, dport |-> 53, payload |-> <<i>>]

ThreadInv(i) ==
  /\ threads[i].at \in {"none", "resolve", "await", "reply", "ended"}
  /\ threads[i].at # "none" => i \in DOMAIN queried
  /\ threads[i].at \in {"resolve", "await", "reply"} => threads[i].packet = Parts(i)
  /\ threads[i].at = "resolve" =>
       threads[i] = [at |-> "resolve", packet |-> Parts(i),
                     tor_dns_port |-> threads[i].tor_dns_port]
  /\ threads[i].at = "reply" => threads[i].answer = <<i, 1>>

DnsInv ==
  /\ DOMAIN threads = Ids /\ threads = [i \in Ids |-> threads[i]]
  /\ DOMAIN queried \subseteq Ids /\ \A i \in DOMAIN queried : queried[i] \in Questions
  /\ \A i \in Ids : ThreadInv(i)
  /\ \A t \in tor : t.socket \in Ids /\ t.query = <<t.socket>>
  /\ AnswersMatch

LEMMA QueryIsRead ==
  ASSUME NEW i \in Ids, NEW q \in Questions
  PROVE  ParseUDP(Query(i, q)) = [src |-> q.client.ip, sport |-> q.client.port,
                                  dst |-> q.server, dport |-> 53, payload |-> <<i>>]
<1>1. /\ q.client.ip \in Address /\ q.client.port \in 0..(Base - 1) /\ q.server \in Address
      /\ i \in Nat
  BY DnsAssumption DEF Questions, Byte
<1>2. <<i>> \in Seq(Nat) /\ Len(<<i>>) = 1
  BY <1>1
<1>3. 1 + 28 < Base /\ 53 \in 0..(Base - 1)
  BY SMT DEF Base
<1> DEFINE w == <<i>>
           from == q.client.ip
           to == q.server
           port == q.client.port
<1>4. /\ from \in Address /\ to \in Address /\ port \in 0..(Base - 1)
      /\ w \in Seq(Nat) /\ Len(w) + 28 < Base
  BY <1>1, <1>2, <1>3
<1> HIDE DEF w, from, to, port
<1>5. ParseUDP(buildUDPPacket(from, port, to, 53, w))
        = [src |-> from, sport |-> port, dst |-> to, dport |-> 53, payload |-> w]
  BY <1>3, <1>4, BuiltIsRead
<1> QED BY <1>5 DEF w, from, to, port, Query

LEMMA ReplyIsRead ==
  ASSUME NEW i \in Ids, NEW q \in Questions
  PROVE  LET r == buildUDPPacket(q.server, 53, q.client.ip, q.client.port, <<i, 1>>) IN
         /\ At(r, 3) = Len(r)
         /\ ParseUDP(r) = [src |-> q.server, sport |-> 53, dst |-> q.client.ip,
                           dport |-> q.client.port, payload |-> <<i, 1>>]
<1>1. /\ q.client.ip \in Address /\ q.client.port \in 0..(Base - 1) /\ q.server \in Address
      /\ i \in Nat
  BY DnsAssumption DEF Questions, Byte
<1>2. <<i, 1>> \in Seq(Nat) /\ Len(<<i, 1>>) = 2
  BY <1>1
<1>3. 2 + 28 < Base /\ 53 \in 0..(Base - 1)
  BY SMT DEF Base
<1> DEFINE w == <<i, 1>>
           from == q.server
           to == q.client.ip
           port == q.client.port
<1>4. /\ from \in Address /\ to \in Address /\ port \in 0..(Base - 1)
      /\ w \in Seq(Nat) /\ Len(w) + 28 < Base
  BY <1>1, <1>2, <1>3
<1> HIDE DEF w, from, to, port
<1>5. LET r == buildUDPPacket(from, 53, to, port, w) IN
      /\ At(r, 3) = Len(r)
      /\ ParseUDP(r) = [src |-> from, sport |-> 53, dst |-> to, dport |-> port,
                        payload |-> w]
  BY <1>3, <1>4, BuiltIsRead
<1> QED BY <1>5 DEF w, from, to, port

LEMMA DnsInvInit == DnsInit => DnsInv
  BY DEF DnsInit, DnsInv, ThreadInv, AnswersMatch

(* Answers stay answers while nothing is asked.                            *)
LEMMA EndKeepsInv ==
  ASSUME DnsInv, NEW i \in Ids, threads[i].at # "none", threads' = Ended(i),
         UNCHANGED <<tor, queried>>, AnswersMatch'
  PROVE  DnsInv'
<1>1. /\ DOMAIN threads' = Ids /\ threads' = [j \in Ids |-> threads'[j]]
      /\ \A j \in Ids : threads'[j] = IF j = i THEN [at |-> "ended"] ELSE threads[j]
  BY DEF DnsInv, Ended
<1>2. ASSUME NEW j \in Ids PROVE ThreadInv(j)'
  BY <1>1 DEF DnsInv, ThreadInv, Parts
<1> QED BY <1>1, <1>2 DEF DnsInv

LEMMA DnsInvStep ==
  ASSUME "portReused" \notin DnsFaults
  PROVE  DnsInv /\ [DnsNext]_dnsVars => DnsInv'
<1> SUFFICES ASSUME DnsInv, [DnsNext]_dnsVars PROVE DnsInv'
  OBVIOUS
<1>1. CASE Intercept
  <2>1. PICK i \in Ids, q \in Questions, port \in UdpPorts :
          /\ i \notin DOMAIN queried
          /\ queried' = [j \in DOMAIN queried \cup {i} |-> IF j = i THEN q ELSE queried[j]]
          /\ threads' = [threads EXCEPT ![i] =
               [at |-> "resolve", packet |-> ParseUDP(Query(i, q)), tor_dns_port |-> port]]
    BY <1>1 DEF Intercept
  <2>2. UNCHANGED <<tor, replies>>
    BY <1>1 DEF Intercept
  <2>3. /\ DOMAIN queried' = DOMAIN queried \cup {i} /\ queried'[i] = q
        /\ \A j \in DOMAIN queried : queried'[j] = queried[j] /\ j # i
    BY <2>1
  <2>4. /\ DOMAIN threads' = Ids /\ threads' = [j \in Ids |-> threads'[j]]
        /\ \A j \in Ids : j # i => threads'[j] = threads[j]
        /\ threads'[i] = [at |-> "resolve", packet |-> ParseUDP(Query(i, q)),
                          tor_dns_port |-> port]
    BY <2>1 DEF DnsInv
  <2>5. ASSUME NEW j \in Ids PROVE ThreadInv(j)'
    <3>1. CASE j = i
      <4>1. threads'[j].packet = Parts(j)'
        BY <2>3, <2>4, <3>1, QueryIsRead DEF Parts
      <4> QED BY <2>3, <2>4, <3>1, <4>1 DEF ThreadInv
    <3>2. CASE j # i
      BY <2>3, <2>4, <3>2 DEF DnsInv, ThreadInv, Parts
    <3> QED BY <3>1, <3>2
  <2>6. AnswersMatch'
    BY <2>2, <2>3 DEF DnsInv, AnswersMatch
  <2> QED BY <2>2, <2>3, <2>4, <2>5, <2>6 DEF DnsInv
<1>2. ASSUME NEW i \in Ids, Resolve(i) PROVE DnsInv'
  <2>0. AnswersMatch' /\ threads[i].at = "resolve" /\ UNCHANGED queried
    BY <1>2 DEF Resolve, DnsInv, AnswersMatch
  <2>1. CASE /\ threads' = [threads EXCEPT ![i].at = "await"]
             /\ tor' = tor \cup (IF threads[i].tor_dns_port # DnsPort THEN {}
                                 ELSE {[socket |-> i, query |-> threads[i].packet.payload]})
    <3>1. threads[i].packet = Parts(i) /\ i \in DOMAIN queried
      BY <2>0 DEF DnsInv, ThreadInv
    <3>2. /\ DOMAIN threads' = Ids /\ threads' = [j \in Ids |-> threads'[j]]
          /\ \A j \in Ids : j # i => threads'[j] = threads[j]
          /\ threads'[i] = [threads[i] EXCEPT !.at = "await"]
      BY <2>1 DEF DnsInv
    <3>3. ASSUME NEW t \in tor' PROVE t.socket \in Ids /\ t.query = <<t.socket>>
      <4>1. threads[i].packet.payload = <<i>>
        BY <3>1 DEF Parts
      <4> QED BY <2>1, <4>1 DEF DnsInv
    <3>4. ASSUME NEW j \in Ids PROVE ThreadInv(j)'
      <4>1. CASE j = i
        <5>1. threads[i] = [at |-> "resolve", packet |-> Parts(i),
                            tor_dns_port |-> threads[i].tor_dns_port]
          BY <2>0 DEF DnsInv, ThreadInv
        <5>2. threads'[i].at = "await" /\ threads'[i].packet = Parts(i)
          BY <3>2, <5>1
        <5> QED BY <2>0, <3>1, <4>1, <5>2 DEF ThreadInv, Parts
      <4>2. CASE j # i
        BY <2>0, <3>2, <4>2 DEF DnsInv, ThreadInv, Parts
      <4> QED BY <4>1, <4>2
    <3> QED BY <2>0, <3>2, <3>3, <3>4 DEF DnsInv
  <2>2. CASE threads' = Ended(i) /\ UNCHANGED tor
    BY <2>0, <2>2, EndKeepsInv
  <2> QED BY <1>2, <2>1, <2>2 DEF Resolve
<1>3. CASE TorResolves
  <2>1. PICK t \in tor, i \in Ids :
          /\ t.socket = i
          /\ tor' = tor \ {t}
          /\ threads' = IF threads[i].at # "await" THEN threads
                        ELSE [threads EXCEPT ![i] = [at |-> "reply", packet |-> @.packet,
                                                     answer |-> Append(t.query, 1)]]
          /\ UNCHANGED <<replies, queried>>
    BY <1>3 DEF TorResolves
  <2>2. AnswersMatch'
    BY <2>1 DEF DnsInv, AnswersMatch
  <2>3. t.query = <<i>> /\ Append(t.query, 1) = <<i, 1>>
    <3>1. t.query = <<i>>
      BY <2>1 DEF DnsInv
    <3>2. Append(<<i>>, 1) = <<i, 1>>
      <4>1. i \in Nat /\ 1 \in Nat
        BY DnsAssumption DEF Byte
      <4> QED BY <4>1, AppendedPair
    <3> QED BY <3>1, <3>2
  <2>4. CASE threads[i].at # "await"
    BY <2>1, <2>2, <2>4 DEF DnsInv, ThreadInv, Parts
  <2>5. CASE threads[i].at = "await"
    <3>1. /\ DOMAIN threads' = Ids /\ threads' = [j \in Ids |-> threads'[j]]
          /\ \A j \in Ids : j # i => threads'[j] = threads[j]
          /\ threads'[i].at = "reply" /\ threads'[i].packet = threads[i].packet
          /\ threads'[i].answer = Append(t.query, 1)
      BY <2>1, <2>5 DEF DnsInv
    <3>2. ASSUME NEW j \in Ids PROVE ThreadInv(j)'
      BY <2>1, <2>3, <2>5, <3>1 DEF DnsInv, ThreadInv, Parts
    <3> QED BY <2>1, <2>2, <3>1, <3>2 DEF DnsInv
  <2> QED BY <2>4, <2>5
<1>4. ASSUME NEW i \in Ids, GiveUp(i) PROVE DnsInv'
  <2>1. AnswersMatch' /\ threads[i].at # "none"
    BY <1>4 DEF GiveUp, DnsInv, AnswersMatch
  <2> QED BY <1>4, <2>1, EndKeepsInv DEF GiveUp
<1>5. ASSUME NEW i \in Ids, Reply(i) PROVE DnsInv'
  <2>1. threads[i].at = "reply" /\ threads' = Ended(i) /\ UNCHANGED <<tor, queried>>
    BY <1>5 DEF Reply
  <2>2. /\ i \in DOMAIN queried /\ queried[i] \in Questions
        /\ threads[i].packet = Parts(i) /\ threads[i].answer = <<i, 1>>
    BY <2>1 DEF DnsInv, ThreadInv
  <2> DEFINE q == queried[i]
             r == buildUDPPacket(q.server, 53, q.client.ip, q.client.port, <<i, 1>>)
  <2>3. ReplyPacket(threads[i].packet, threads[i].answer) = r
    BY <2>2 DEF ReplyPacket, Parts
  <2>4. /\ At(r, 3) = Len(r)
        /\ ParseUDP(r) = [src |-> q.server, sport |-> 53, dst |-> q.client.ip,
                          dport |-> q.client.port, payload |-> <<i, 1>>]
    BY <2>2, ReplyIsRead
  <2> HIDE DEF r
  <2>5. replies' \subseteq replies \cup {r}
    BY <1>5, <2>3 DEF Reply
  <2>6. AnswersMatch'
    BY <2>1, <2>2, <2>4, <2>5 DEF DnsInv, AnswersMatch
  <2> QED BY <2>1, <2>6, EndKeepsInv
<1>6. CASE UNCHANGED dnsVars
  BY <1>6 DEF dnsVars, DnsInv, ThreadInv, Parts, AnswersMatch
<1> QED BY <1>1, <1>2, <1>3, <1>4, <1>5, <1>6 DEF DnsNext, ThreadStep

(* However many queries are under way, and however late, reordered or lost *)
(* their answers are, what is injected for a client is, by its addresses,  *)
(* ports, length and payload, the answer to a query of that client, from   *)
(* the server it asked; as long as no socket is given the port of another  *)
(* that was closed before its answer came (packet_processor.cpp:258-282,   *)
(* dns_interceptor.cpp:23-46).  Nothing is claimed of the header checksum, *)
(* which the code leaves zero (packet_processor.cpp:137-138).              *)
THEOREM AnswersMatchHolds ==
  ASSUME "portReused" \notin DnsFaults
  PROVE  DnsSpec => []AnswersMatch
<1>1. DnsInv => AnswersMatch
  BY DEF DnsInv
<1> QED BY <1>1, DnsInvInit, DnsInvStep, PTL DEF DnsSpec

-----------------------------------------------------------------------------
(* The arithmetic of checksum() for every sum it can have.                 *)
LEMMA FoldOfSum ==
  ASSUME NEW n \in Nat, n < Base * Base
  PROVE  Fold(n) \in Nat /\ Fold(n) < 2 * Base - 1
  BY SMT DEF Base, Fold

LEMMA FoldOfFold ==
  ASSUME NEW n \in Nat, n < 2 * Base - 1
  PROVE  Fold(n) \in Nat /\ Fold(n) < Base
  BY SMT DEF Base, Fold

LEMMA FoldOfWord ==
  ASSUME NEW n \in Nat, n < Base
  PROVE  Fold(n) = n
  BY SMT DEF Base, Fold

(* checksum() folds while anything is left above 16 bits; a sum of 32 bits *)
(* is done after two folds, so Folded is where the loop stops, whatever    *)
(* was summed up (packet_processor.cpp:35-37).                             *)
THEOREM FoldedIsFinal ==
  ASSUME NEW n \in Nat, n < Base * Base
  PROVE  Folded(n) \in Nat /\ Folded(n) < Base /\ Fold(Folded(n)) = Folded(n)
<1>1. Folded(n) \in Nat /\ Folded(n) < Base
  BY FoldOfSum, FoldOfFold DEF Folded
<1> QED BY <1>1, FoldOfWord

LEMMA FoldKeepsResidue ==
  ASSUME NEW n \in Nat
  PROVE  \E k \in Nat : n = Fold(n) + k * (Base - 1)
<1>1. n \div Base \in Nat /\ n = Fold(n) + (n \div Base) * (Base - 1)
  BY SMT DEF Base, Fold
<1> QED BY <1>1

(* Whatever the sum of a packet's words is, together with the checksum it  *)
(* is a multiple of 65535, which is what a receiver asks of a packet       *)
(* (packet_processor.cpp:30-39).                                           *)
THEOREM ComplementCancels ==
  ASSUME NEW n \in Nat, n < Base * Base
  PROVE  \E k \in Nat : n + ((Base - 1) - Folded(n)) = k * (Base - 1)
<1>1. Fold(n) \in Nat /\ Folded(n) \in Nat
  BY FoldOfSum, FoldedIsFinal
<1>2. PICK k1 \in Nat : n = Fold(n) + k1 * (Base - 1)
  BY FoldKeepsResidue
<1>3. PICK k2 \in Nat : Fold(n) = Folded(n) + k2 * (Base - 1)
  BY <1>1, FoldKeepsResidue DEF Folded
<1>4. /\ k1 + k2 + 1 \in Nat
      /\ n + ((Base - 1) - Folded(n)) = (k1 + k2 + 1) * (Base - 1)
  BY <1>1, <1>2, <1>3, SMT DEF Base
<1> QED BY <1>4
=============================================================================
