--------------------------- MODULE UpstreamProofs ---------------------------
(***************************************************************************)
(* The way up: what a client believes acknowledged was sent on, all of it  *)
(* on one SOCKS connection.                                                *)
(*                                                                         *)
(* A packet acknowledges what its stream has handled.  The stream of a     *)
(* connection hands on what it handles, in the order it was written, as    *)
(* long as it holds a socket.  One that does not acknowledges as well,     *)
(* but under numbers no client waits for: its numbers start at 0, not at   *)
(* 1000, and only a FIN takes one.                                         *)
(***************************************************************************)
EXTENDS PacketProcessorProofs

(* The segments of the connection of c up to m went out on one socket.     *)
Passed(fw, c, id, m) == \A n \in 1..c.sent : n <= m => <<c.gen, n, id>> \in fw

Reached(fw, c, ids, m) == \E id \in 1..ids : Passed(fw, c, id, m)

Serves(s, c) == Holds(s) /\ s.client_seq.gen = c.gen

(* What the client was told, and what it is about to be told.              *)
Honest(q, c, fw, ids) ==
  IF q.kind = "synack" THEN q.seq >= Iss
  ELSE q.seq > Iss /\ q.ack.gen = c.gen => Reached(fw, c, ids, q.ack.off - 1)

Confirms(out, c, fw, ids) ==
  /\ c.una <= c.sent /\ (c.una # 0 => Reached(fw, c, ids, c.una))
  /\ c.phase \in Open => c.rcv > Iss
  /\ \A q \in out : Honest(q, c, fw, ids)

(* The stream of a connection has handed on what it would acknowledge.     *)
Feeds(c, s, fw) ==
  /\ Holds(s) => s.vpn_seq > Iss
  /\ Serves(s, c) => Passed(fw, c, s.socks.id, s.client_seq.off - 1)

(* Nothing is acknowledged before it is written.                           *)
Growing == {"synSent", "established"}

Within(out, c, s) ==
  /\ c.phase = "synSent" => c.sent = 0
  /\ c.phase \in Growing =>
       /\ \A q \in out : q.ack.gen = c.gen => q.ack.off <= c.sent + 1
       /\ Serves(s, c) => s.client_seq.off <= c.sent + 1

Units(in, c) ==
  \A p \in in : p.gen = c.gen =>
    /\ p.kind = "data" => p.unit <= c.sent
    /\ p.kind = "fin" => c.sent < p.unit /\ c.phase # "established"

(* A segment not yet handed on is ahead of whatever follows it.            *)
Carries(p, k, g) == p.key = k /\ p.gen = g /\ p.kind \in {"data", "fin"}

IsUnit(p, k, g, n) == p.key = k /\ p.gen = g /\ p.kind = "data" /\ p.unit = n

Ahead(s, k, g, i, n) == \E j \in DOMAIN s : j < i /\ IsUnit(s[j], k, g, n)

InLine(seq, k, c, s, fw) ==
  Serves(s, c) =>
    /\ \A i \in DOMAIN seq : Carries(seq[i], k, c.gen) =>
         \A n \in 1..c.sent : n < seq[i].unit =>
           <<c.gen, n, s.socks.id>> \in fw \/ Ahead(seq, k, c.gen, i, n)
    /\ c.phase \in Open => \A n \in 1..c.sent :
         <<c.gen, n, s.socks.id>> \in fw \/ Ahead(seq, k, c.gen, Len(seq) + 1, n)

(* The numbers a stream without a socket has taken, and the FINs that may  *)
(* take more.                                                              *)
FinsOf(s, k) == {i \in DOMAIN s : s[i].key = k /\ s[i].kind = "fin"}

Used(s) == IF s # NoStream /\ ~s.connected THEN s.vpn_seq ELSE 0

FinsMade(out, c) ==
  CASE c.phase = "established" -> 0
    [] c.phase = "finSent" -> 1
    [] c.phase = "synSent" -> IF \E q \in out : q.ack.gen = c.gen THEN 0 ELSE 2
    [] c.phase \in {"finSentTwice", "closed"} -> 2

Spent(seq, k, out, c, s) == Used(s) + Cardinality(FinsOf(seq, k)) <= FinsMade(out, c)

Up(seq, k, out, c, s, fw, ids) ==
  /\ Confirms(out, c, fw, ids)
  /\ Feeds(c, s, fw)
  /\ Within(out, c, s)
  /\ Units(From(seq, k), c)
  /\ InLine(seq, k, c, s, fw)
  /\ Spent(seq, k, out, c, s)

UpInv(k) ==
  twice[k] \/ Up(inbound, k, Held(outbound[k]), client[k], streams[k], forwarded[k], attemptId)

UpAll == \A k \in Keys : UpInv(k)

-----------------------------------------------------------------------------
(* Lemmas about the packets in line.                                       *)

LEMMA FinsAreFinite ==
  ASSUME NEW S, NEW s \in Seq(S), NEW k
  PROVE  /\ IsFiniteSet(FinsOf(s, k)) /\ FinsOf(s, k) \subseteq 1..Len(s)
         /\ Cardinality(FinsOf(s, k)) \in Nat
<1>1. Len(s) \in Nat /\ DOMAIN s = 1..Len(s) /\ FinsOf(s, k) \subseteq 1..Len(s)
  BY LenProperties DEF FinsOf
<1>2. IsFiniteSet(1..Len(s))
  BY <1>1, FS_Interval
<1>3. IsFiniteSet(FinsOf(s, k))
  BY <1>1, <1>2, FS_Subset
<1> QED BY <1>1, <1>3, FS_CardinalityType

(* A FIN that is written is one more, any other packet none.               *)
LEMMA FinsAppended ==
  ASSUME NEW S, NEW s \in Seq(S), NEW k, NEW p \in S
  PROVE  /\ ~(p.key = k /\ p.kind = "fin") => FinsOf(Append(s, p), k) = FinsOf(s, k)
         /\ Cardinality(FinsOf(Append(s, p), k)) <= Cardinality(FinsOf(s, k)) + 1
<1> DEFINE t == Append(s, p)
           n == Len(s) + 1
<1>1. /\ Len(s) \in Nat /\ DOMAIN s = 1..Len(s) /\ DOMAIN t = 1..n
      /\ \A i \in DOMAIN s : t[i] = s[i]
      /\ t[n] = p
  BY AppendedTo
<1> HIDE DEF t
<1>2. \A i \in 1..n : i = n \/ i \in DOMAIN s
  BY <1>1
<1>3. n \notin DOMAIN s /\ n \in 1..n /\ DOMAIN s \subseteq 1..n
  BY <1>1
<1> HIDE DEF n
<1>4. CASE p.key = k /\ p.kind = "fin"
  <2>1. FinsOf(t, k) = FinsOf(s, k) \cup {n}
    BY <1>1, <1>2, <1>3, <1>4 DEF FinsOf
  <2>2. n \notin FinsOf(s, k)
    BY <1>3 DEF FinsOf
  <2>3. Cardinality(FinsOf(s, k) \cup {n}) = Cardinality(FinsOf(s, k)) + 1
    BY <2>2, FinsAreFinite, FS_AddElement
  <2>4. Cardinality(FinsOf(s, k)) \in Nat
    BY FinsAreFinite
  <2> QED BY <1>4, <2>1, <2>3, <2>4 DEF t
<1>5. CASE ~(p.key = k /\ p.kind = "fin")
  <2>1. FinsOf(t, k) = FinsOf(s, k)
    BY <1>1, <1>2, <1>3, <1>5 DEF FinsOf
  <2>2. Cardinality(FinsOf(s, k)) \in Nat
    BY FinsAreFinite
  <2> QED BY <2>1, <2>2 DEF t
<1> QED BY <1>4, <1>5

LEMMA FinsTaken ==
  ASSUME NEW S, NEW s \in Seq(S), s # <<>>, NEW k
  PROVE  /\ Cardinality(FinsOf(Tail(s), k)) <= Cardinality(FinsOf(s, k))
         /\ Head(s).key = k /\ Head(s).kind = "fin"
              => Cardinality(FinsOf(Tail(s), k)) + 1 <= Cardinality(FinsOf(s, k))
<1> DEFINE t == Tail(s)
           A == FinsOf(t, k)
           B == FinsOf(s, k)
           f == [i \in A |-> i + 1]
<1>1. /\ t \in Seq(S) /\ Head(s) = s[1] /\ 1 \in DOMAIN s
      /\ \A i \in DOMAIN t : i \in Nat /\ i > 0 /\ i + 1 \in DOMAIN s /\ t[i] = s[i + 1]
  BY TailIsShorter
<1>2. IsFiniteSet(A) /\ IsFiniteSet(B) /\ Cardinality(A) \in Nat /\ Cardinality(B) \in Nat
  BY <1>1, FinsAreFinite
<1> HIDE DEF t
<1>3. \A i \in A : i \in Nat /\ i > 0 /\ i + 1 \in B /\ i + 1 # 1
  BY <1>1 DEF FinsOf
<1>4. 1 \in B <=> Head(s).key = k /\ Head(s).kind = "fin"
  BY <1>1 DEF FinsOf
<1> HIDE DEF A, B
<1>5. ASSUME NEW C, IsFiniteSet(C), \A i \in A : i + 1 \in C
      PROVE  Cardinality(A) <= Cardinality(C)
  <2>1. f \in [A -> C]
    BY <1>5
  <2>2. \A i, j \in A : f[i] = f[j] => i = j
    BY <1>3
  <2>3. f \in Injection(A, C)
    BY <2>1, <2>2 DEF Injection, IsInjective
  <2> QED BY <1>5, <2>3, FS_Injection
<1>6. Cardinality(A) <= Cardinality(B)
  BY <1>2, <1>3, <1>5
<1>7. ASSUME 1 \in B PROVE Cardinality(A) + 1 <= Cardinality(B)
  <2> DEFINE C == B \ {1}
  <2>1. IsFiniteSet(C) /\ Cardinality(C) = Cardinality(B) - 1
    BY <1>2, <1>7, FS_RemoveElement
  <2>2. \A i \in A : i + 1 \in C
    BY <1>3
  <2> HIDE DEF C
  <2>3. Cardinality(A) <= Cardinality(C)
    BY <1>5, <2>1, <2>2
  <2>4. Cardinality(C) \in Nat
    BY <2>1, FS_CardinalityType
  <2> QED BY <1>2, <2>1, <2>3, <2>4
<1> QED BY <1>4, <1>6, <1>7 DEF A, B, t

LEMMA FinsAreFrom ==
  ASSUME NEW s \in Seq(PacketsIn), NEW k \in Keys, \A p \in From(s, k) : p.kind # "fin"
  PROVE  FinsOf(s, k) = {} /\ Cardinality(FinsOf(s, k)) = 0
<1>1. \A i \in DOMAIN s : s[i] \in PacketsIn
  BY ElementOfSeq, LenProperties
<1>2. FinsOf(s, k) = {}
  BY <1>1 DEF FinsOf, From
<1> QED BY <1>2, FS_EmptySet

(* Line up: a packet is taken, or written.                                 *)
LEMMA AheadTaken ==
  ASSUME NEW S, NEW s \in Seq(S), s # <<>>, NEW k, NEW g, NEW i \in Nat, NEW n,
         Ahead(s, k, g, i + 1, n)
  PROVE  IsUnit(Head(s), k, g, n) \/ Ahead(Tail(s), k, g, i, n)
<1>1. /\ Len(s) \in Nat /\ Head(s) = s[1]
      /\ DOMAIN s = 1..Len(s) /\ DOMAIN Tail(s) = 1..(Len(s) - 1)
      /\ \A j \in DOMAIN Tail(s) : Tail(s)[j] = s[j + 1]
  BY TailIsShorter
<1>2. PICK j \in DOMAIN s : j < i + 1 /\ IsUnit(s[j], k, g, n)
  BY DEF Ahead
<1>3. CASE j = 1
  BY <1>1, <1>2, <1>3
<1>4. CASE j # 1
  <2> DEFINE x == j - 1
  <2>1. x \in DOMAIN Tail(s) /\ x + 1 = j /\ x < i
    BY <1>1, <1>2, <1>4
  <2>2. Tail(s)[x] = s[j]
    BY <1>1, <2>1
  <2> HIDE DEF x
  <2> QED BY <1>2, <2>1, <2>2 DEF Ahead
<1> QED BY <1>3, <1>4

LEMMA AheadAppended ==
  ASSUME NEW S, NEW s \in Seq(S), NEW p \in S, NEW k, NEW g, NEW n
  PROVE  /\ \A i \in Nat : Ahead(s, k, g, i, n) => Ahead(Append(s, p), k, g, i, n)
         /\ Ahead(s, k, g, Len(s) + 1, n) => Ahead(Append(s, p), k, g, Len(Append(s, p)) + 1, n)
         /\ IsUnit(p, k, g, n) => Ahead(Append(s, p), k, g, Len(Append(s, p)) + 1, n)
<1> DEFINE t == Append(s, p)
           m == Len(s) + 1
<1>1. /\ Len(s) \in Nat /\ DOMAIN s = 1..Len(s) /\ DOMAIN t = 1..m /\ m \in Nat
      /\ \A i \in DOMAIN s : t[i] = s[i]
      /\ t[m] = p /\ Len(t) = m
  BY AppendedTo
<1> HIDE DEF t
<1>2. m \in DOMAIN t /\ m < Len(t) + 1 /\ \A j \in DOMAIN s : j \in DOMAIN t /\ j < Len(t) + 1
  BY <1>1
<1> HIDE DEF m
<1>3. \A i \in Nat : Ahead(s, k, g, i, n) => Ahead(t, k, g, i, n)
  BY <1>1, <1>2 DEF Ahead
<1>4. Ahead(s, k, g, Len(s) + 1, n) => Ahead(t, k, g, Len(t) + 1, n)
  BY <1>1, <1>2 DEF Ahead
<1>5. IsUnit(p, k, g, n) => Ahead(t, k, g, Len(t) + 1, n)
  BY <1>1, <1>2 DEF Ahead
<1> QED BY <1>3, <1>4, <1>5 DEF t

-----------------------------------------------------------------------------
(* Lemmas about the parts of the invariant.                                *)

LEMMA PassedMore ==
  ASSUME NEW c, NEW fw, NEW more, fw \subseteq more, NEW ids \in Nat, NEW later \in Nat,
         ids <= later, NEW m
  PROVE  /\ \A id : Passed(fw, c, id, m) => Passed(more, c, id, m)
         /\ Reached(fw, c, ids, m) => Reached(more, c, later, m)
<1>1. \A id : Passed(fw, c, id, m) => Passed(more, c, id, m)
  BY DEF Passed
<1>2. \A id \in 1..ids : id \in 1..later
  OBVIOUS
<1> QED BY <1>1, <1>2 DEF Reached

LEMMA ConfirmsMore ==
  ASSUME NEW c, NEW fw, NEW more, fw \subseteq more, NEW ids \in Nat, NEW later \in Nat,
         ids <= later, NEW out, NEW Q, NEW some, some \subseteq out \cup Q,
         Confirms(out, c, fw, ids), \A q \in Q : Honest(q, c, more, later)
  PROVE  Confirms(some, c, more, later)
<1>1. \A m : Reached(fw, c, ids, m) => Reached(more, c, later, m)
  BY PassedMore
<1>2. \A q \in out : Honest(q, c, more, later)
  BY <1>1 DEF Confirms, Honest
<1> QED BY <1>1, <1>2 DEF Confirms

(* The packets that are left in line.                                      *)
LEMMA InLineTaken ==
  ASSUME NEW seq \in Seq(PacketsIn), seq # <<>>, NEW k, NEW c, c.sent \in Nat,
         NEW s, NEW t, NEW fw, NEW more, fw \subseteq more,
         Serves(t, c) => Serves(s, c) /\ t.socks.id = s.socks.id,
         Serves(t, c) => \A n \in 1..c.sent :
           IsUnit(Head(seq), k, c.gen, n) => <<c.gen, n, t.socks.id>> \in more,
         InLine(seq, k, c, s, fw)
  PROVE  InLine(Tail(seq), k, c, t, more)
<1> SUFFICES ASSUME Serves(t, c)
             PROVE  /\ \A i \in DOMAIN Tail(seq) : Carries(Tail(seq)[i], k, c.gen) =>
                         \A n \in 1..c.sent : n < Tail(seq)[i].unit =>
                           \/ <<c.gen, n, t.socks.id>> \in more
                           \/ Ahead(Tail(seq), k, c.gen, i, n)
                    /\ c.phase \in Open => \A n \in 1..c.sent :
                         \/ <<c.gen, n, t.socks.id>> \in more
                         \/ Ahead(Tail(seq), k, c.gen, Len(Tail(seq)) + 1, n)
  BY DEF InLine
<1>1. /\ Len(seq) \in Nat /\ Len(seq) > 0 /\ Len(Tail(seq)) = Len(seq) - 1
      /\ \A i \in DOMAIN Tail(seq) : /\ i \in Nat /\ i + 1 \in DOMAIN seq
                                     /\ Tail(seq)[i] = seq[i + 1]
  BY TailIsShorter
<1>2. ASSUME NEW i \in Nat, NEW n \in 1..c.sent, Ahead(seq, k, c.gen, i + 1, n)
      PROVE  <<c.gen, n, t.socks.id>> \in more \/ Ahead(Tail(seq), k, c.gen, i, n)
  BY <1>2, AheadTaken
<1>3. ASSUME NEW n, <<c.gen, n, s.socks.id>> \in fw PROVE <<c.gen, n, t.socks.id>> \in more
  BY <1>3
<1>4. ASSUME NEW i \in DOMAIN Tail(seq), Carries(Tail(seq)[i], k, c.gen),
             NEW n \in 1..c.sent, n < Tail(seq)[i].unit
      PROVE  <<c.gen, n, t.socks.id>> \in more \/ Ahead(Tail(seq), k, c.gen, i, n)
  <2> DEFINE x == i + 1
  <2>1. x \in DOMAIN seq /\ Tail(seq)[i] = seq[x] /\ i \in Nat
    BY <1>1
  <2> HIDE DEF x
  <2>2. <<c.gen, n, s.socks.id>> \in fw \/ Ahead(seq, k, c.gen, x, n)
    BY <1>4, <2>1 DEF InLine
  <2> QED BY <1>2, <1>3, <2>1, <2>2 DEF x
<1>5. ASSUME c.phase \in Open, NEW n \in 1..c.sent
      PROVE  \/ <<c.gen, n, t.socks.id>> \in more
             \/ Ahead(Tail(seq), k, c.gen, Len(Tail(seq)) + 1, n)
  <2>1. <<c.gen, n, s.socks.id>> \in fw \/ Ahead(seq, k, c.gen, Len(seq) + 1, n)
    BY <1>5 DEF InLine
  <2> DEFINE i == Len(Tail(seq)) + 1
  <2>2. i \in Nat /\ i = Len(seq)
    BY <1>1
  <2> HIDE DEF i
  <2> QED BY <1>2, <1>3, <2>1, <2>2 DEF i
<1> QED BY <1>4, <1>5

LEMMA InLineKept ==
  ASSUME NEW seq, NEW k, NEW c, NEW s, NEW t, NEW fw, NEW more, fw \subseteq more,
         Serves(t, c) => Serves(s, c) /\ t.socks.id = s.socks.id,
         InLine(seq, k, c, s, fw)
  PROVE  InLine(seq, k, c, t, more)
<1>1. ASSUME Serves(t, c), NEW n, <<c.gen, n, s.socks.id>> \in fw
      PROVE  <<c.gen, n, t.socks.id>> \in more
  BY <1>1
<1> QED BY <1>1 DEF InLine

LEMMA UsedIsNat ==
  ASSUME NEW s \in StreamRecords \cup {NoStream}
  PROVE  Used(s) \in Nat /\ (Holds(s) => Used(s) = 0)
<1>1. s # NoStream => s.vpn_seq \in Nat
  BY DEF StreamRecords
<1> QED BY <1>1 DEF Used, Holds

LEMMA FinsMadeOf ==
  ASSUME NEW c \in ClientRecords, NEW out
  PROVE  /\ FinsMade(out, c) \in 0..2
         /\ \A few : (c.phase = "synSent" /\ (\E q \in few : q.ack.gen = c.gen)
                        => \E q \in out : q.ack.gen = c.gen)
              => FinsMade(out, c) <= FinsMade(few, c)
<1>1. c.phase \in {"closed", "synSent", "established", "finSent", "finSentTwice"}
  BY DEF ClientRecords, Open
<1>2. FinsMade(out, c) \in 0..2
  BY <1>1 DEF FinsMade
<1>3. ASSUME NEW few, c.phase = "synSent" /\ (\E q \in few : q.ack.gen = c.gen)
                        => \E q \in out : q.ack.gen = c.gen
      PROVE  FinsMade(out, c) <= FinsMade(few, c)
  BY <1>1, <1>3 DEF FinsMade
<1> QED BY <1>2, <1>3

LEMMA SpentMore ==
  ASSUME NEW c \in ClientRecords, NEW seq \in Seq(PacketsIn), NEW next \in Seq(PacketsIn),
         NEW k, NEW out, NEW some, NEW s \in StreamRecords \cup {NoStream},
         NEW t \in StreamRecords \cup {NoStream}, Spent(seq, k, out, c, s),
         Used(t) + Cardinality(FinsOf(next, k)) <= Used(s) + Cardinality(FinsOf(seq, k)),
         \/ c.phase = "synSent" /\ (\E q \in some : q.ack.gen = c.gen)
              => \E q \in out : q.ack.gen = c.gen
         \/ Used(t) = 0 /\ Cardinality(FinsOf(next, k)) = 0
  PROVE  Spent(next, k, some, c, t)
<1> DEFINE a == Used(t) + Cardinality(FinsOf(next, k))
           b == Used(s) + Cardinality(FinsOf(seq, k))
           v == FinsMade(out, c)
           w == FinsMade(some, c)
<1>1. a \in Nat /\ b \in Nat
  BY UsedIsNat, FinsAreFinite
<1>2. v \in 0..2 /\ w \in 0..2
  BY FinsMadeOf
<1>3. v <= w \/ a = 0
  BY FinsMadeOf
<1>4. b <= v /\ a <= b
  BY DEF Spent
<1>5. a <= w
  <2> HIDE DEF a, b, v, w
  <2> QED BY <1>1, <1>2, <1>3, <1>4
<1> QED BY <1>5 DEF Spent

-----------------------------------------------------------------------------
(* What the daemon does to a key.                                          *)

LEMMA DaemonUp ==
  ASSUME NEW c, NEW s, NEW t, NEW k, NEW ids \in Nat, NEW later \in Nat, ids <= later,
         NEW fw, NEW more, fw \subseteq more,
         NEW out, NEW Q, NEW some, some \subseteq out \cup Q,
         NEW seq, NEW next, From(next, k) \subseteq From(seq, k),
         Up(seq, k, out, c, s, fw, ids),
         \A q \in Q : /\ Honest(q, c, more, later)
                      /\ c.phase \in Growing /\ q.ack.gen = c.gen => q.ack.off <= c.sent + 1,
         Feeds(c, t, more),
         c.phase \in Growing /\ Serves(t, c) => t.client_seq.off <= c.sent + 1,
         InLine(next, k, c, t, more),
         Spent(next, k, some, c, t)
  PROVE  Up(next, k, some, c, t, more, later)
<1>1. Confirms(some, c, more, later)
  BY ConfirmsMore DEF Up
<1>2. Within(some, c, t)
  BY DEF Up, Within
<1>3. Units(From(next, k), c)
  BY DEF Up, Units
<1> QED BY <1>1, <1>2, <1>3 DEF Up

(* The same, when nothing is taken from the line nor handed on.            *)
LEMMA SameLineUp ==
  ASSUME NEW c, NEW s, NEW t, NEW k, NEW ids \in Nat, NEW fw, NEW out, NEW Q, NEW some,
         some \subseteq out \cup Q, NEW seq, Up(seq, k, out, c, s, fw, ids),
         \A q \in Q : /\ Honest(q, c, fw, ids)
                      /\ c.phase \in Growing /\ q.ack.gen = c.gen => q.ack.off <= c.sent + 1,
         Feeds(c, t, fw),
         c.phase \in Growing /\ Serves(t, c) => t.client_seq.off <= c.sent + 1,
         InLine(seq, k, c, t, fw), Spent(seq, k, some, c, t)
  PROVE  Up(seq, k, some, c, t, fw, ids)
<1>1. ids <= ids /\ fw \subseteq fw /\ From(seq, k) \subseteq From(seq, k)
  OBVIOUS
<1>2. Confirms(some, c, fw, ids)
  BY <1>1, ConfirmsMore DEF Up
<1>3. Within(some, c, t)
  BY DEF Up, Within
<1> QED BY <1>2, <1>3 DEF Up

(* A stream that is what it was to its client, or given up.                *)
Kept(s, t) ==
  /\ Holds(t) => /\ Holds(s) /\ t.client_seq = s.client_seq /\ t.socks.id = s.socks.id
                 /\ s.vpn_seq <= t.vpn_seq
  /\ Used(t) <= Used(s)

(* It writes packets only while it holds a socket, of its own numbers.     *)
Voiced(q, t, ids) ==
  /\ Holds(t) /\ q.ack = t.client_seq /\ t.socks.id \in 1..ids
  /\ IF q.kind = "synack" THEN q.seq >= Iss ELSE q.seq > Iss

LEMMA KeptFeeds ==
  ASSUME NEW c, NEW s \in StreamRecords \cup {NoStream}, NEW t \in StreamRecords \cup {NoStream},
         NEW fw, Feeds(c, s, fw), Kept(s, t)
  PROVE  Feeds(c, t, fw)
<1>1. Holds(t) => t.vpn_seq > Iss
  <2> SUFFICES ASSUME Holds(t) PROVE t.vpn_seq > Iss
    OBVIOUS
  <2>1. s.vpn_seq \in Nat /\ t.vpn_seq \in Nat
    BY DEF Kept, Holds, StreamRecords
  <2> QED BY <2>1 DEF Feeds, Kept, Iss
<1>2. Serves(t, c) => Serves(s, c) /\ t.socks.id = s.socks.id /\ t.client_seq = s.client_seq
  BY DEF Serves, Kept
<1> QED BY <1>1, <1>2 DEF Feeds

LEMMA KeptUp ==
  ASSUME NEW c \in ClientRecords, NEW k \in Keys,
         NEW s \in StreamRecords \cup {NoStream}, NEW t \in StreamRecords \cup {NoStream},
         NEW ids \in Nat, NEW later \in Nat, ids <= later, NEW fw,
         NEW out, NEW Q, NEW some, some \subseteq out \cup Q,
         NEW seq \in Seq(PacketsIn), NEW next \in Seq(PacketsIn),
         Up(seq, k, out, c, s, fw, ids), Kept(s, t),
         \/ next = seq
         \/ seq # <<>> /\ next = Tail(seq) /\ ~(Head(seq).key = k /\ Head(seq).kind = "data"),
         \A q \in Q : Voiced(q, t, later),
         c.phase = "synSent" /\ Serves(t, c) => \A p \in From(seq, k) : p.kind # "fin"
  PROVE  Up(next, k, some, c, t, fw, later)
<1>1. Serves(t, c) => Serves(s, c) /\ t.socks.id = s.socks.id /\ t.client_seq = s.client_seq
  BY DEF Serves, Kept
<1>2. Feeds(c, t, fw)
  BY KeptFeeds DEF Up
<1>3. c.phase \in Growing /\ Serves(t, c) => t.client_seq.off <= c.sent + 1
  BY <1>1 DEF Up, Within
<1>4. \A q \in Q : /\ Honest(q, c, fw, later)
                   /\ c.phase \in Growing /\ q.ack.gen = c.gen => q.ack.off <= c.sent + 1
  <2> SUFFICES ASSUME NEW q \in Q
               PROVE  /\ Honest(q, c, fw, later)
                      /\ c.phase \in Growing /\ q.ack.gen = c.gen => q.ack.off <= c.sent + 1
    OBVIOUS
  <2>1. Holds(t) /\ q.ack = t.client_seq /\ t.socks.id \in 1..later
    BY DEF Voiced
  <2>2. q.ack.gen = c.gen => Serves(t, c)
    BY <2>1 DEF Serves
  <2>3. q.ack.gen = c.gen => Reached(fw, c, later, q.ack.off - 1)
    BY <1>2, <2>1, <2>2 DEF Feeds, Reached
  <2> QED BY <1>3, <2>1, <2>2, <2>3 DEF Honest, Voiced
<1>5. From(next, k) \subseteq From(seq, k)
  <2>1. seq # <<>> => From(Tail(seq), k) \subseteq From(seq, k)
    BY TakenFrom
  <2> QED BY <2>1
<1>6. InLine(next, k, c, t, fw)
  <2>1. InLine(seq, k, c, s, fw) /\ c.sent \in Nat
    BY DEF Up, ClientRecords
  <2>2. CASE next = seq
    BY <1>1, <2>1, <2>2, InLineKept
  <2>3. CASE seq # <<>> /\ next = Tail(seq) /\ ~(Head(seq).key = k /\ Head(seq).kind = "data")
    <3>1. \A n : ~IsUnit(Head(seq), k, c.gen, n)
      BY <2>3 DEF IsUnit
    <3> QED BY <1>1, <2>1, <2>3, <3>1, InLineTaken
  <2> QED BY <2>2, <2>3
<1>7. Spent(next, k, some, c, t)
  <2> DEFINE a == Cardinality(FinsOf(next, k))
             b == Cardinality(FinsOf(seq, k))
             u == Used(t)
             v == Used(s)
  <2>1. a \in Nat /\ b \in Nat /\ u \in Nat /\ v \in Nat
    BY FinsAreFinite, UsedIsNat
  <2>2. a <= b
    <3>1. CASE next = seq
      <4>1. a = b
        BY <3>1
      <4> QED BY <2>1, <4>1
    <3>2. CASE seq # <<>> /\ next = Tail(seq)
      BY <3>2, FinsTaken
    <3> QED BY <3>1, <3>2
  <2>3. u <= v
    BY DEF Kept
  <2>4. u + a <= v + b
    <3> HIDE DEF a, b, u, v
    <3> QED BY <2>1, <2>2, <2>3
  <2>5. ASSUME c.phase = "synSent", NEW q \in some, q.ack.gen = c.gen, q \notin out
        PROVE  u = 0 /\ a = 0
    <3>1. q \in Q /\ Serves(t, c)
      BY <2>5 DEF Voiced, Serves
    <3>2. \A p \in From(next, k) : p.kind # "fin"
      BY <1>5, <2>5, <3>1
    <3> QED BY <3>1, <3>2, FinsAreFrom, UsedIsNat DEF Serves
  <2>6. \/ c.phase = "synSent" /\ (\E q \in some : q.ack.gen = c.gen)
             => \E q \in out : q.ack.gen = c.gen
        \/ Used(t) = 0 /\ Cardinality(FinsOf(next, k)) = 0
    BY <2>5
  <2>7. Used(t) + Cardinality(FinsOf(next, k)) <= Used(s) + Cardinality(FinsOf(seq, k))
    BY <2>4
  <2>8. Spent(seq, k, out, c, s)
    BY DEF Up
  <2> QED BY <2>6, <2>7, <2>8, SpentMore
<1> QED BY <1>2, <1>3, <1>4, <1>5, <1>6, <1>7, DaemonUp, ZenonT(30)

(* A connection is open to its client before the daemon hears of its end.  *)
LEMMA NoneOpened ==
  ASSUME NEW in \in SUBSET PacketsIn, NEW out, NEW c, NEW s, NEW tries, NEW carr,
         c.gen \in Nat, Orderly(in, c, carr), Linked(in, out, c, s, tries, carr),
         c.phase = "synSent", Serves(s, c) \/ c.gen \in carr, NEW p \in in
  PROVE  p.kind \notin Opened
<1>1. c.gen \in carr
  BY DEF Serves, Linked, Evidence, Newest
<1>2. c.gen <= p.gen /\ p.gen \in Nat
  BY <1>1, Bounds DEF Orderly, PacketsIn
<1>3. p.kind \in Opened => p.gen < c.gen
  BY DEF Orderly
<1> QED BY <1>2, <1>3

(* What a key is before a step of it.                                      *)
LEMMA KeyIsUp ==
  ASSUME TypeInv, LinkAll, UpAll, NEW k \in Keys, ~twice[k]
  PROVE  /\ Up(inbound, k, Held(outbound[k]), client[k], streams[k], forwarded[k], attemptId)
         /\ Orderly(From(inbound, k), client[k], carried[k])
         /\ Linked(From(inbound, k), Held(outbound[k]), client[k], streams[k], attempts[k],
                   carried[k])
         /\ From(inbound, k) \in SUBSET PacketsIn /\ Held(outbound[k]) \in SUBSET PacketsOut
         /\ client[k] \in ClientRecords /\ client[k].gen \in Nat /\ client[k].sent \in Nat
         /\ carried[k] \in SUBSET Nat /\ attempts[k] \in SUBSET Attempts
         /\ inbound \in Seq(PacketsIn) /\ streams[k] \in StreamRecords \cup {NoStream}
         /\ attemptId \in Nat
<1>1. /\ client[k] \in ClientRecords /\ client[k].gen \in Nat /\ client[k].sent \in Nat
      /\ carried[k] \in SUBSET Nat
      /\ From(inbound, k) \in SUBSET PacketsIn /\ Held(outbound[k]) \in SUBSET PacketsOut
      /\ attempts[k] \in SUBSET Attempts /\ inbound \in Seq(PacketsIn)
  BY KeyTypes, Bounds DEF ClientRecords
<1>2. streams[k] \in StreamRecords \cup {NoStream} /\ attemptId \in Nat
  BY Bounds DEF TypeInv, DaemonType
<1> QED BY <1>1, <1>2 DEF LinkAll, OrderInv, LinkInv, UpAll, UpInv

(* A step that leaves the stream of a key what it was to its client, or    *)
(* gives it up, and hands nothing on.                                      *)
LeftAlone(k) ==
  /\ client'[k] = client[k] /\ forwarded'[k] = forwarded[k]
  /\ Kept(streams[k], streams'[k])
  /\ \/ inbound' = inbound
     \/ /\ inbound # <<>> /\ inbound' = Tail(inbound)
        /\ ~(Head(inbound).key = k /\ Head(inbound).kind = "data")
  /\ \A q \in Held(outbound'[k]) :
       q \in Held(outbound[k]) \/ Voiced(q, streams'[k], attemptId')

LEMMA LeftAloneUp ==
  ASSUME TypeInv, TypeInv', LinkAll, UpAll, NEW k \in Keys, twice[k] => twice'[k],
         attemptId <= attemptId', LeftAlone(k)
  PROVE  UpInv(k)'
<1> SUFFICES ASSUME ~twice[k]
             PROVE  Up(inbound', k, Held(outbound'[k]), client'[k], streams'[k], forwarded'[k],
                       attemptId')
  BY DEF UpInv
<1> DEFINE c == client[k]
           s == streams[k]
           t == streams'[k]
           fw == forwarded[k]
           out == Held(outbound[k])
           some == Held(outbound'[k])
           ids == attemptId
           later == attemptId'
           seq == inbound
           next == inbound'
           Q == {q \in some : Voiced(q, t, later)}
<1>1. /\ Up(seq, k, out, c, s, fw, ids) /\ c \in ClientRecords
      /\ Orderly(From(seq, k), c, carried[k]) /\ c.gen \in Nat
      /\ Linked(From(seq, k), out, c, s, attempts[k], carried[k])
      /\ From(seq, k) \in SUBSET PacketsIn
      /\ seq \in Seq(PacketsIn) /\ s \in StreamRecords \cup {NoStream} /\ ids \in Nat
  BY KeyIsUp
<1>2. next \in Seq(PacketsIn) /\ t \in StreamRecords \cup {NoStream} /\ later \in Nat
  BY Bounds DEF TypeInv, WireType, DaemonType
<1>3. /\ client'[k] = c /\ forwarded'[k] = fw /\ Kept(s, t)
      /\ \/ next = seq
         \/ seq # <<>> /\ next = Tail(seq) /\ ~(Head(seq).key = k /\ Head(seq).kind = "data")
  BY DEF LeftAlone
<1>4. some \subseteq out \cup Q /\ \A q \in Q : Voiced(q, t, later)
  BY DEF LeftAlone
<1>5. ids <= later
  OBVIOUS
<1> HIDE DEF c, s, t, fw, out, some, ids, later, seq, next, Q
<1>6. c.phase = "synSent" /\ Serves(t, c) => \A p \in From(seq, k) : p.kind # "fin"
  <2> SUFFICES ASSUME c.phase = "synSent", Serves(t, c), NEW p \in From(seq, k)
               PROVE  p.kind # "fin"
    OBVIOUS
  <2>1. Serves(s, c)
    BY <1>3 DEF Serves, Kept
  <2>2. p.kind \notin Opened
    BY <1>1, <2>1, NoneOpened
  <2> QED BY <2>2 DEF Opened
<1>7. Up(next, k, some, c, t, fw, later)
  BY <1>1, <1>2, <1>3, <1>4, <1>5, <1>6, KeptUp, ZenonT(30)
<1> QED BY <1>3, <1>7 DEF some, t, later, next

(* Streams that are kept.                                                  *)
LEMMA AlikeIsKept ==
  ASSUME NEW s \in StreamRecords \cup {NoStream}, NEW t \in StreamRecords \cup {NoStream},
         t # NoStream => /\ s # NoStream /\ t.connected = s.connected
                         /\ t.client_seq = s.client_seq /\ t.socks.id = s.socks.id
                         /\ t.vpn_seq = s.vpn_seq
  PROVE  Kept(s, t)
<1>1. s # NoStream => s.vpn_seq \in Nat
  BY DEF StreamRecords
<1>2. t # NoStream => t.vpn_seq <= s.vpn_seq /\ s.vpn_seq <= t.vpn_seq
  BY <1>1
<1>3. Holds(t) => /\ Holds(s) /\ t.client_seq = s.client_seq /\ t.socks.id = s.socks.id
                  /\ s.vpn_seq <= t.vpn_seq
  BY <1>2 DEF Holds
<1>4. Used(t) <= Used(s)
  <2>1. CASE t # NoStream /\ ~t.connected
    BY <1>2, <2>1 DEF Used
  <2>2. CASE ~(t # NoStream /\ ~t.connected)
    <3>1. Used(t) = 0
      BY <2>2 DEF Used
    <3> QED BY <3>1, UsedIsNat
  <2> QED BY <2>1, <2>2
<1> QED BY <1>3, <1>4 DEF Kept

LEMMA TouchedIsKept ==
  ASSUME TypeInv, NEW k \in Keys, NEW t \in StreamRecords,
         t.connected = Touched(k).connected, t.socks = Touched(k).socks,
         t.vpn_seq = Touched(k).vpn_seq, t.client_seq = Touched(k).client_seq
  PROVE  Kept(streams[k], t)
<1>1. streams[k] \in StreamRecords \cup {NoStream}
  BY DEF TypeInv, DaemonType
<1>2. CASE Exists(k)
  <2> DEFINE s == streams[k]
             r == Touched(k)
  <2>1. s \in StreamRecords /\ s # NoStream /\ r = [s EXCEPT !.idle = 0]
    BY <1>2, TouchedIsStream, StreamIsNoneOrRecord DEF TypeInv, Exists
  <2> HIDE DEF s, r
  <2>2. /\ r.connected = s.connected /\ r.client_seq = s.client_seq
        /\ r.vpn_seq = s.vpn_seq /\ r.socks = s.socks
    BY <2>1, ActiveIsStream
  <2>3. Kept(s, t)
    BY <2>1, <2>2, AlikeIsKept DEF r
  <2> QED BY <2>3 DEF s
<1>3. CASE ~Exists(k)
  <2>1. ~t.connected /\ t.vpn_seq = 0
    BY <1>3, TouchedIsStream DEF TypeInv, FreshStream
  <2>2. Used(t) = 0 /\ ~Holds(t)
    BY <2>1 DEF Used, Holds
  <2> QED BY <1>1, <2>2, UsedIsNat DEF Kept
<1> QED BY <1>2, <1>3

(* A step that concerns another key.                                       *)
LEMMA OtherIsLeft ==
  ASSUME TypeInv, NEW k \in Keys, client'[k] = client[k], forwarded'[k] = forwarded[k],
         streams'[k] = streams[k], outbound'[k] = outbound[k],
         \/ inbound' = inbound
         \/ inbound # <<>> /\ inbound' = Tail(inbound) /\ Head(inbound).key # k
  PROVE  LeftAlone(k)
<1>1. streams[k] \in StreamRecords \cup {NoStream}
  BY DEF TypeInv, DaemonType
<1>2. Kept(streams[k], streams'[k])
  BY <1>1, AlikeIsKept
<1> QED BY <1>2 DEF LeftAlone

(* A step of the daemon for one key: the stream t is put in place, and     *)
(* packets written.                                                        *)
LEMMA ServedUp ==
  ASSUME TypeInv, TypeInv', LinkAll, UpAll, NEW k \in Keys,
         UNCHANGED client, \A j \in Keys : j # k => forwarded'[j] = forwarded[j],
         \A j \in Keys : j # k => streams'[j] = streams[j],
         \A j \in Keys : j # k => outbound'[j] = outbound[j],
         inbound' = inbound \/ \E kind : Arrives(k, kind),
         \A j \in Keys : twice[j] => twice'[j], attemptId <= attemptId',
         ~twice[k] => UpInv(k)'
  PROVE  UpAll'
<1> SUFFICES ASSUME NEW j \in Keys PROVE UpInv(j)'
  BY DEF UpAll
<1>1. CASE j = k
  <2>1. twice[k] => UpInv(k)'
    BY DEF UpInv
  <2> QED BY <1>1, <2>1
<1>2. CASE j # k
  <2>1. LeftAlone(j)
    BY <1>2, OtherIsLeft DEF Arrives
  <2> QED BY <2>1, LeftAloneUp
<1> QED BY <1>1, <1>2

(* The stream is kept, and p written or nothing.                           *)
LEMMA QuietUp ==
  ASSUME TypeInv, TypeInv', LinkAll, UpAll, NEW k \in Keys, NEW t \in StreamRecords, Put(k, t),
         UNCHANGED <<client, forwarded, outbound>>,
         inbound' = inbound \/ \E kind : kind # "data" /\ Arrives(k, kind),
         \A j \in Keys : twice[j] => twice'[j], attemptId <= attemptId',
         Kept(streams[k], t)
  PROVE  UpAll'
<1>1. streams'[k] = t /\ \A j \in Keys : j # k => streams'[j] = streams[j]
  BY PutStream DEF TypeInv
<1>2. LeftAlone(k)
  BY <1>1 DEF LeftAlone, Arrives
<1>3. UpInv(k)'
  BY <1>2, LeftAloneUp
<1> QED BY <1>1, <1>3, ServedUp

LEMMA AnswerUp ==
  ASSUME TypeInv, TypeInv', LinkAll, UpAll, NEW k \in Keys, NEW t \in StreamRecords, Put(k, t),
         UNCHANGED <<client, forwarded>>,
         inbound' = inbound \/ \E kind : kind # "data" /\ Arrives(k, kind),
         \A j \in Keys : twice[j] => twice'[j], attemptId <= attemptId',
         Kept(streams[k], t),
         NEW p \in PacketsOut, Send(k, <<p>>), ~twice[k] => Voiced(p, t, attemptId')
  PROVE  UpAll'
<1>1. streams'[k] = t /\ \A j \in Keys : j # k => streams'[j] = streams[j]
  BY PutStream DEF TypeInv
<1>2. /\ Held(outbound'[k]) \subseteq Held(outbound[k]) \cup {p}
      /\ \A j \in Keys : j # k => outbound'[j] = outbound[j]
  BY SegmentHeld
<1>3. ASSUME ~twice[k] PROVE UpInv(k)'
  <2>1. LeftAlone(k)
    BY <1>1, <1>2, <1>3 DEF LeftAlone, Arrives
  <2> QED BY <2>1, LeftAloneUp
<1> QED BY <1>1, <1>2, <1>3, ServedUp

(* A stream that holds a socket has numbers of its own to write.           *)
LEMMA HolderHasNumbers ==
  ASSUME TypeInv, LinkAll, UpAll, NEW k \in Keys, ~twice[k],
         NEW t \in StreamRecords \cup {NoStream}, Kept(streams[k], t), Holds(t)
  PROVE  t.vpn_seq \in Nat /\ t.vpn_seq > Iss
<1>1. Feeds(client[k], streams[k], forwarded[k]) /\ streams[k] \in StreamRecords \cup {NoStream}
  BY KeyIsUp DEF Up
<1>2. Feeds(client[k], t, forwarded[k])
  BY <1>1, KeptFeeds
<1> QED BY <1>2 DEF Feeds, Holds, StreamRecords

LEMMA HandleSynUp ==
  ASSUME TypeInv, TypeInv', TableInv, LinkAll, UpAll, NEW k \in Keys, HandleSyn(k)
  PROVE  UpAll'
<1> DEFINE s == Touched(k)
           u == [s EXCEPT !.connecting = TRUE]
           p == SynAck(s.vpn_seq - 1, s.client_seq)
<1>1. /\ s \in StreamRecords /\ Shape(s, attemptId, attempts[k], finSent[k])
      /\ UNCHANGED <<client, forwarded>> /\ Arrives(k, "syn")
  BY TouchedShape DEF HandleSyn, TableInv
<1>2. (\A j \in Keys : twice[j] => twice'[j]) /\ attemptId <= attemptId'
  BY DEF HandleSyn, TypeInv, HistoryType, DaemonType
<1>3. \/ RepeatsSyn(s) /\ Put(k, s) /\ Send(k, <<p>>) /\ UNCHANGED attemptId
      \/ Put(k, s) /\ UNCHANGED outbound
      \/ Put(k, u) /\ UNCHANGED outbound
  BY DEF HandleSyn
<1>4. Kept(streams[k], s)
  BY <1>1, TouchedIsKept
<1>5. u \in StreamRecords /\ Kept(streams[k], u)
  <2>1. /\ u \in StreamRecords /\ u.connected = s.connected /\ u.socks = s.socks
        /\ u.vpn_seq = s.vpn_seq /\ u.client_seq = s.client_seq
    BY <1>1 DEF StreamRecords
  <2> HIDE DEF u
  <2> QED BY <2>1, TouchedIsKept
<1>6. "syn" # "data" /\ s.vpn_seq - 1 \in Int /\ s.client_seq \in Position
  BY <1>1 DEF StreamRecords
<1>7. CASE RepeatsSyn(s) /\ Put(k, s) /\ Send(k, <<p>>) /\ UNCHANGED attemptId
  <2>1. Holds(s)
    BY <1>1, <1>7, NoStreamIsNone DEF RepeatsSyn, Shape, Holds
  <2>2. p \in PacketsOut /\ p.ack = s.client_seq /\ p.kind = "synack" /\ p.seq = s.vpn_seq - 1
    BY <1>6, SegmentIsPacket DEF SynAck
  <2>3. ASSUME ~twice[k] PROVE Voiced(p, s, attemptId')
    <3>1. s.vpn_seq \in Nat /\ s.vpn_seq > Iss
      BY <1>1, <1>4, <2>1, <2>3, HolderHasNumbers
    <3>2. p.seq >= Iss
      BY <2>2, <3>1 DEF Iss
    <3> QED BY <1>1, <1>7, <2>1, <2>2, <3>2 DEF Voiced, Shape, Holds
  <2> HIDE DEF p, s
  <2> QED BY <1>1, <1>2, <1>4, <1>6, <1>7, <2>2, <2>3, AnswerUp
<1> HIDE DEF s, u
<1>8. CASE Put(k, s) /\ UNCHANGED outbound
  BY <1>1, <1>2, <1>4, <1>6, <1>8, QuietUp
<1>9. CASE Put(k, u) /\ UNCHANGED outbound
  BY <1>1, <1>2, <1>5, <1>6, <1>9, QuietUp
<1> QED BY <1>3, <1>7, <1>8, <1>9

LEMMA HandleAckUp ==
  ASSUME TypeInv, TypeInv', LinkAll, UpAll, NEW k \in Keys, HandleAck(k)
  PROVE  UpAll'
<1> DEFINE s == Touched(k)
           u == [s EXCEPT !.state = "Established"]
<1>1. /\ s \in StreamRecords /\ UNCHANGED <<client, forwarded, outbound, twice, attemptId>>
      /\ attemptId \in Nat
  BY TouchedIsStream, Bounds DEF HandleAck, TypeInv, historyVars, DaemonType
<1>2. /\ Put(k, s) \/ Put(k, u)
      /\ \E kind : kind # "data" /\ Arrives(k, kind)
  BY DEF HandleAck
<1>3. Kept(streams[k], s)
  BY <1>1, TouchedIsKept
<1>4. u \in StreamRecords /\ Kept(streams[k], u)
  <2>1. /\ u \in StreamRecords /\ u.connected = s.connected /\ u.socks = s.socks
        /\ u.vpn_seq = s.vpn_seq /\ u.client_seq = s.client_seq
    BY <1>1 DEF StreamRecords
  <2> HIDE DEF u
  <2> QED BY <2>1, TouchedIsKept
<1> HIDE DEF s, u
<1>5. attemptId <= attemptId' /\ \A j \in Keys : twice[j] => twice'[j]
  BY <1>1
<1> QED BY <1>1, <1>2, <1>3, <1>4, <1>5, QuietUp

LEMMA ConnectFailedUp ==
  ASSUME TypeInv, TypeInv', LinkAll, UpAll, NEW k \in Keys, NEW a \in attempts[k],
         ConnectFailed(k, a)
  PROVE  UpAll'
<1> DEFINE s == streams[k]
           t == [s EXCEPT !.connecting = FALSE]
<1>1. /\ UNCHANGED <<client, forwarded, outbound, twice, attemptId, inbound>>
      /\ s \in StreamRecords \cup {NoStream} /\ attemptId \in Nat
  BY Bounds DEF ConnectFailed, TypeInv, DaemonType
<1>2. attemptId <= attemptId' /\ \A j \in Keys : twice[j] => twice'[j]
  BY <1>1
<1>3. CASE s = NoStream
  <2>1. UNCHANGED streams
    BY <1>3 DEF ConnectFailed
  <2> QED BY <1>1, <2>1 DEF UpAll, UpInv
<1>4. CASE s # NoStream
  <2>1. Put(k, t) /\ s \in StreamRecords
    BY <1>1, <1>4 DEF ConnectFailed
  <2>2. /\ t \in StreamRecords /\ t.connected = s.connected /\ t.socks = s.socks
        /\ t.vpn_seq = s.vpn_seq /\ t.client_seq = s.client_seq
    BY <2>1 DEF StreamRecords
  <2> HIDE DEF t
  <2>3. Kept(s, t)
    BY <1>1, <1>4, <2>2, AlikeIsKept
  <2> QED BY <1>1, <1>2, <2>1, <2>2, <2>3, QuietUp
<1> QED BY <1>3, <1>4

LEMMA IdleUp ==
  ASSUME TypeInv, TypeInv', LinkAll, UpAll, NEW k \in Keys, Idle(k)
  PROVE  UpAll'
<1> DEFINE s == streams[k]
           t == [s EXCEPT !.idle = @ + 1]
<1>1. /\ UNCHANGED <<client, forwarded, outbound, twice, attemptId, inbound>> /\ Put(k, t)
      /\ s \in StreamRecords /\ s.idle < 2 /\ s # NoStream /\ attemptId \in Nat
  BY Bounds DEF Idle, historyVars, TypeInv, DaemonType
<1>2. /\ t \in StreamRecords /\ t.connected = s.connected
      /\ t.client_seq = s.client_seq /\ t.vpn_seq = s.vpn_seq /\ t.socks = s.socks
  <2> HIDE DEF s
  <2>1. s.idle + 1 \in 0..2
    BY <1>1 DEF StreamRecords
  <2> QED BY <1>1, <2>1 DEF StreamRecords
<1> HIDE DEF t
<1>3. Kept(s, t)
  BY <1>1, <1>2, AlikeIsKept
<1>4. attemptId <= attemptId' /\ \A j \in Keys : twice[j] => twice'[j]
  BY <1>1
<1> QED BY <1>1, <1>2, <1>3, <1>4, QuietUp

(* Every key is looked at, and none written to.                            *)
LEMMA LoopUp ==
  ASSUME TypeInv, TypeInv', LinkAll, UpAll,
         UNCHANGED <<inbound, outbound, client, forwarded, twice, attemptId>>,
         \A k \in Keys : Kept(streams[k], streams'[k])
  PROVE  UpAll'
<1>1. attemptId <= attemptId'
  BY Bounds DEF TypeInv, DaemonType
<1>2. \A k \in Keys : LeftAlone(k)
  BY DEF LeftAlone
<1> QED BY <1>1, <1>2, LeftAloneUp DEF UpAll

LEMMA ReadSocketsUp ==
  ASSUME TypeInv, TypeInv', LinkAll, UpAll, ReadSockets
  PROVE  UpAll'
<1>1. UNCHANGED <<inbound, outbound, client, forwarded, twice, attemptId>>
  BY DEF ReadSockets, historyVars
<1>2. ASSUME NEW k \in Keys PROVE Kept(streams[k], streams'[k])
  <2> DEFINE s == streams[k]
  <2>1. s \in StreamRecords \cup {NoStream} /\ streams'[k] \in StreamRecords \cup {NoStream}
    BY DEF TypeInv, DaemonType
  <2>2. ASSUME Readable(k) PROVE s \in StreamRecords /\ s # NoStream
    BY <2>2, ReadableIsStream DEF TypeInv, Readable
  <2>3. CASE ReadsError(k)
    <3> DEFINE t == [s EXCEPT !.state = "Closed"]
    <3>1. s \in StreamRecords /\ s # NoStream /\ streams'[k] = t
      BY <2>2, <2>3 DEF ReadsError
    <3>2. /\ t.connected = s.connected /\ t.client_seq = s.client_seq /\ t.socks = s.socks
          /\ t.vpn_seq = s.vpn_seq
      BY <3>1 DEF StreamRecords
    <3> HIDE DEF t
    <3> QED BY <2>1, <3>1, <3>2, AlikeIsKept
  <2>4. CASE \E n \in Nat : n > 0 /\ Reads(k, n)
    <3>1. PICK n \in Nat : Reads(k, n)
      BY <2>4
    <3> DEFINE t == [s EXCEPT !.idle = 0, !.socks.read = @ + n]
    <3>2. s \in StreamRecords /\ s # NoStream /\ streams'[k] = t
      BY <2>2, <3>1 DEF Reads
    <3>3. /\ t.connected = s.connected /\ t.client_seq = s.client_seq
          /\ t.vpn_seq = s.vpn_seq /\ t.socks.id = s.socks.id
      BY <3>2, ReadIsStream
    <3> HIDE DEF t, s
    <3> QED BY <2>1, <3>2, <3>3, AlikeIsKept DEF s
  <2>5. CASE ReadsNothing(k)
    BY <2>1, <2>5, AlikeIsKept DEF ReadsNothing
  <2> QED BY <2>3, <2>4, <2>5, ReadSocketsOf
<1> QED BY <1>1, <1>2, LoopUp

LEMMA CleanupUp ==
  ASSUME TypeInv, TypeInv', LinkAll, UpAll, Cleanup
  PROVE  UpAll'
<1>1. /\ UNCHANGED <<inbound, outbound, client, forwarded, twice, attemptId>>
      /\ \A k \in Keys : streams'[k] \in {NoStream, streams[k]}
  BY DEF Cleanup, historyVars
<1>2. ASSUME NEW k \in Keys PROVE Kept(streams[k], streams'[k])
  <2>1. streams[k] \in StreamRecords \cup {NoStream} /\ streams'[k] \in StreamRecords \cup {NoStream}
    BY DEF TypeInv, DaemonType
  <2> QED BY <1>1, <2>1, AlikeIsKept
<1> QED BY <1>1, <1>2, LoopUp

LEMMA EndSendingUp ==
  ASSUME UpAll, EndSending
  PROVE  UpAll'
  BY DEF EndSending, historyVars, UpAll, UpInv

LEMMA RespondUp ==
  ASSUME TypeInv, TypeInv', TableInv, LinkAll, UpAll, NEW k \in Keys, Respond(k)
  PROVE  UpAll'
<1> DEFINE s == streams[k]
           L == Len(responses[k])
           t == [s EXCEPT !.vpn_seq = @ + Len(responses[k]), !.idle = 0]
<1>1. /\ UNCHANGED <<inbound, client, forwarded, twice, attemptId>> /\ attemptId \in Nat
      /\ L \in Nat
  BY Bounds DEF Respond, historyVars, TypeInv, DaemonType
<1>2. s \in StreamRecords /\ Holds(s) /\ s # NoStream /\ s.socks.id \in 1..attemptId /\ Exists(k)
  <2>1. responses[k] # <<>> /\ ReadInv(k) /\ StreamInv(k)
    BY DEF Respond, TableInv
  <2> QED BY <2>1, StreamIsNoneOrRecord DEF ReadInv, StreamInv, Shape, TypeInv, Exists, Holds
<1>3. CASE UNCHANGED <<streams, outbound>>
  BY <1>1, <1>3 DEF UpAll, UpInv
<1>4. CASE Send(k, Sent(k)) /\ Put(k, t)
  <2>1. /\ t \in StreamRecords /\ t.connected = s.connected /\ t.client_seq = s.client_seq
        /\ t.vpn_seq = s.vpn_seq + L /\ t.socks = s.socks
    BY <1>1, <1>2, AdvancedIsStream
  <2> HIDE DEF t
  <2>2. streams'[k] = t /\ \A j \in Keys : j # k => streams'[j] = streams[j]
    BY <1>4, <2>1, PutStream DEF TypeInv
  <2>3. Holds(t) /\ s.vpn_seq \in Nat /\ Kept(s, s)
    BY <1>2, <2>1, NoStreamIsNone, AlikeIsKept DEF Holds, StreamRecords
  <2>4. /\ \A q \in Held(outbound'[k]) : q \in Held(outbound[k]) \/ \E i \in 1..L : q = Sent(k)[i]
        /\ \A j \in Keys : j # k => outbound'[j] = outbound[j]
    BY <1>2, <1>4, ResponseHeld
  <2>5. \A i \in 1..L : /\ Sent(k)[i].seq = s.vpn_seq + i - 1 /\ Sent(k)[i].ack = s.client_seq
                        /\ Sent(k)[i].kind = "data"
    BY <1>2, SentArePackets DEF TypeInv
  <2>6. Kept(s, t)
    <3>1. s.vpn_seq <= t.vpn_seq
      BY <1>1, <2>1, <2>3
    <3>2. Used(t) = 0 /\ Used(s) = 0
      BY <1>2, <2>1, <2>3, UsedIsNat
    <3> QED BY <1>2, <2>1, <2>3, <3>1, <3>2 DEF Kept
  <2>7. ASSUME ~twice[k], NEW i \in 1..L PROVE Voiced(Sent(k)[i], t, attemptId)
    <3>1. s.vpn_seq > Iss
      BY <1>2, <2>3, <2>7, HolderHasNumbers
    <3>2. Sent(k)[i].seq > Iss
      <4>1. s.vpn_seq + i - 1 > Iss
        BY <2>3, <3>1 DEF Iss
      <4> QED BY <2>5, <4>1
    <3> QED BY <1>2, <2>1, <2>3, <2>5, <3>2 DEF Voiced
  <2>8. attemptId <= attemptId' /\ \A j \in Keys : twice[j] => twice'[j]
    BY <1>1
  <2>9. ASSUME ~twice[k] PROVE UpInv(k)'
    <3>1. LeftAlone(k)
      <4>1. \A q \in Held(outbound'[k]) :
              q \in Held(outbound[k]) \/ Voiced(q, streams'[k], attemptId')
        BY <1>1, <2>2, <2>4, <2>7, <2>9
      <4> QED BY <1>1, <2>2, <2>6, <4>1 DEF LeftAlone
    <3> QED BY <2>8, <3>1, LeftAloneUp
  <2> QED BY <1>1, <2>2, <2>4, <2>8, <2>9, ServedUp
<1> QED BY <1>3, <1>4 DEF Respond, Sent

(* The segment at the head of the line follows all that was handed on.     *)
LEMMA HeadPassed ==
  ASSUME NEW seq \in Seq(PacketsIn), seq # <<>>, NEW k, NEW c \in ClientRecords, NEW r,
         NEW fw, NEW more, fw \subseteq more, InLine(seq, k, c, r, fw), Serves(r, c),
         Carries(Head(seq), k, c.gen), Head(seq).unit \in Nat,
         Head(seq).kind = "data" => <<c.gen, Head(seq).unit, r.socks.id>> \in more,
         Head(seq).kind = "fin" => c.sent < Head(seq).unit
  PROVE  Passed(more, c, r.socks.id, Head(seq).unit)
<1> DEFINE h == Head(seq)
           one == 1
<1>1. one \in DOMAIN seq /\ seq[one] = h /\ \A j \in DOMAIN seq : ~(j < one)
  BY TailIsShorter
<1>2. h.kind \in {"data", "fin"} /\ c.sent \in Nat
  BY DEF Carries, ClientRecords
<1> HIDE DEF h, one
<1>3. \A n \in 1..c.sent : n < h.unit => <<c.gen, n, r.socks.id>> \in more
  <2>1. \A n : ~Ahead(seq, k, c.gen, one, n)
    BY <1>1 DEF Ahead
  <2> QED BY <1>1, <2>1 DEF InLine, h
<1>4. SUFFICES ASSUME NEW n \in 1..c.sent, n <= h.unit
               PROVE  <<c.gen, n, r.socks.id>> \in more
  BY DEF Passed, h
<1>5. CASE n < h.unit
  BY <1>3, <1>5
<1>6. CASE ~(n < h.unit)
  <2>1. n = h.unit
    BY <1>4, <1>6 DEF h
  <2>2. h.kind = "data"
    BY <1>2, <2>1 DEF h
  <2> QED BY <2>1, <2>2 DEF h
<1> QED BY <1>5, <1>6

(* A stream without a socket does not get to the numbers clients wait for. *)
LEMMA UsedIsLow ==
  ASSUME NEW seq \in Seq(PacketsIn), NEW k, NEW out, NEW c \in ClientRecords,
         NEW s \in StreamRecords, ~s.connected, Spent(seq, k, out, c, s)
  PROVE  ~(s.vpn_seq > Iss)
<1>1. s # NoStream /\ s.vpn_seq \in Nat
  BY NoStreamIsNone DEF StreamRecords
<1>2. Used(s) = s.vpn_seq
  BY <1>1 DEF Used
<1> DEFINE f == Cardinality(FinsOf(seq, k))
           m == FinsMade(out, c)
<1>3. f \in Nat /\ m \in 0..2
  BY FinsAreFinite, FinsMadeOf
<1>4. s.vpn_seq + f <= m
  BY <1>2 DEF Spent
<1> HIDE DEF f, m
<1> QED BY <1>1, <1>3, <1>4 DEF Iss

(* Data or a FIN is handled by the stream r, which becomes t, and p is the *)
(* answer.                                                                 *)
LEMMA HandedUp ==
  ASSUME NEW c \in ClientRecords, NEW k \in Keys, NEW r \in StreamRecords, NEW t \in StreamRecords,
         NEW ids \in Nat, NEW fw, NEW more, fw \subseteq more,
         NEW out, NEW p, NEW some, some \subseteq out \cup {p},
         NEW seq \in Seq(PacketsIn), seq # <<>>,
         Up(seq, k, out, c, r, fw, ids),
         Head(seq).key = k, Head(seq).kind \in {"data", "fin"},
         t.connected = r.connected, t.socks = r.socks,
         t.vpn_seq = IF Head(seq).kind = "fin" THEN r.vpn_seq + 1 ELSE r.vpn_seq,
         t.client_seq.gen = Head(seq).gen, t.client_seq.off = Head(seq).unit + 1,
         r.connected => r.client_seq.gen = Head(seq).gen /\ r.socks.id \in 1..ids,
         c.phase = "synSent" => Head(seq).gen # c.gen,
         r.connected /\ Head(seq).kind = "data" =>
           <<Head(seq).gen, Head(seq).unit, r.socks.id>> \in more,
         p.kind # "synack", p.seq = r.vpn_seq, p.ack = t.client_seq
  PROVE  Up(Tail(seq), k, some, c, t, more, ids)
<1> DEFINE h == Head(seq)
           next == Tail(seq)
<1>1. /\ Confirms(out, c, fw, ids) /\ Feeds(c, r, fw) /\ Within(out, c, r)
      /\ Units(From(seq, k), c) /\ InLine(seq, k, c, r, fw) /\ Spent(seq, k, out, c, r)
  BY DEF Up
<1>2. h \in PacketsIn /\ next \in Seq(PacketsIn)
  BY TailIsShorter
<1>3. h \in From(seq, k) /\ From(next, k) \subseteq From(seq, k)
  BY TakenFrom
<1>4. /\ h.unit \in Nat /\ c.sent \in Nat
      /\ t.client_seq.off - 1 = h.unit /\ p.ack.off - 1 = h.unit /\ p.ack.gen = h.gen
  <2>1. h.unit \in Nat /\ c.sent \in Nat
    BY <1>2 DEF PacketsIn, ClientRecords
  <2>2. t.client_seq.off = h.unit + 1
    OBVIOUS
  <2>3. p.ack.off = t.client_seq.off /\ p.ack.gen = h.gen
    OBVIOUS
  <2> DEFINE n == h.unit
             m == t.client_seq.off
  <2>4. n \in Nat /\ m = n + 1
    BY <2>1, <2>2
  <2> HIDE DEF n, m
  <2>5. m - 1 = n
    BY <2>4
  <2> QED BY <2>1, <2>3, <2>5 DEF n, m
<1>5. r # NoStream /\ t # NoStream /\ r.vpn_seq \in Nat
  BY NoStreamIsNone DEF StreamRecords
<1>6. Holds(t) => Holds(r) /\ r.client_seq.gen = h.gen
  BY <1>5 DEF Holds
<1>7. Serves(t, c) => Serves(r, c) /\ h.gen = c.gen /\ t.socks.id = r.socks.id
  BY <1>6 DEF Serves
<1>8. h.gen = c.gen => /\ h.kind = "data" => h.unit <= c.sent
                       /\ h.kind = "fin" => c.sent < h.unit /\ c.phase # "established"
  BY <1>1, <1>3 DEF Units
<1>9. ASSUME h.gen = c.gen, r.connected
      PROVE  Passed(more, c, r.socks.id, h.unit) /\ Reached(more, c, ids, h.unit)
  <2>1. Serves(r, c) /\ Carries(h, k, c.gen)
    BY <1>5, <1>9 DEF Serves, Holds, Carries
  <2>2. Passed(more, c, r.socks.id, h.unit)
    BY <1>1, <1>4, <1>8, <1>9, <2>1, HeadPassed
  <2> QED BY <1>9, <2>2 DEF Reached
<1>10. c.phase \in Growing /\ h.gen = c.gen => h.unit + 1 <= c.sent + 1
  BY <1>4, <1>8 DEF Growing
<1>11. Honest(p, c, more, ids)
  <2>1. ASSUME p.seq > Iss, p.ack.gen = c.gen PROVE Reached(more, c, ids, p.ack.off - 1)
    <3>1. r.connected
      BY <1>1, <2>1, UsedIsLow
    <3>2. p.ack.off - 1 = h.unit /\ h.gen = c.gen
      BY <1>4, <2>1
    <3> QED BY <1>9, <3>1, <3>2
  <2> QED BY <2>1 DEF Honest
<1>12. Feeds(c, t, more)
  <2>1. Holds(t) => t.vpn_seq > Iss
    BY <1>1, <1>5, <1>6 DEF Feeds, Iss
  <2>2. ASSUME Serves(t, c) PROVE Passed(more, c, t.socks.id, t.client_seq.off - 1)
    <3>1. h.gen = c.gen /\ r.connected /\ t.client_seq.off - 1 = h.unit
      BY <1>4, <1>7, <2>2 DEF Serves, Holds
    <3> QED BY <1>9, <3>1
  <2> QED BY <2>1, <2>2 DEF Feeds
<1>13. c.phase \in Growing /\ Serves(t, c) => t.client_seq.off <= c.sent + 1
  BY <1>7, <1>10
<1>14. InLine(next, k, c, t, more)
  <2>1. Serves(t, c) => \A n \in 1..c.sent :
          IsUnit(h, k, c.gen, n) => <<c.gen, n, t.socks.id>> \in more
    BY <1>7 DEF IsUnit, Serves, Holds
  <2> HIDE DEF h, next
  <2> QED BY <1>1, <1>4, <1>7, <2>1, InLineTaken DEF h, next
<1>15. Spent(next, k, some, c, t)
  <2> DEFINE a == Cardinality(FinsOf(next, k))
             b == Cardinality(FinsOf(seq, k))
  <2>1. a \in Nat /\ b \in Nat /\ a <= b /\ (h.kind = "fin" => a + 1 <= b)
    BY <1>2, FinsAreFinite, FinsTaken
  <2>2. Used(r) \in Nat
    BY UsedIsNat
  <2>3. Used(t) = IF h.kind = "fin" /\ ~r.connected THEN Used(r) + 1 ELSE Used(r)
    BY <1>5 DEF Used
  <2>4. Used(t) + a <= Used(r) + b
    <3> HIDE DEF a, b, h
    <3> QED BY <2>1, <2>2, <2>3
  <2>5. c.phase = "synSent" /\ (\E q \in some : q.ack.gen = c.gen)
          => \E q \in out : q.ack.gen = c.gen
    OBVIOUS
  <2> QED BY <1>1, <1>2, <2>4, <2>5, SpentMore
<1> DEFINE Q == {p}
<1>16. \A q \in Q : /\ Honest(q, c, more, ids)
                    /\ c.phase \in Growing /\ q.ack.gen = c.gen => q.ack.off <= c.sent + 1
  BY <1>10, <1>11
<1>17. ids <= ids /\ some \subseteq out \cup Q
  OBVIOUS
<1> HIDE DEF h, next, Q
<1>18. Up(next, k, some, c, t, more, ids)
  BY <1>3, <1>12, <1>13, <1>14, <1>15, <1>16, <1>17, DaemonUp, ZenonT(30)
<1> QED BY <1>18 DEF next

(* The numbers of the stream and of the answer, for data and for a FIN.    *)
LEMMA DataAnswer ==
  ASSUME TypeInv, NEW k \in Keys, HandleData(k)
  PROVE  LET h == Head(inbound)
             t == [Touched(k) EXCEPT !.client_seq = Offset(h.gen, h.unit + 1)]
             p == Segment("ack", t.vpn_seq, t.client_seq)
         IN
         /\ t.client_seq.off = h.unit + 1
         /\ p.seq = Touched(k).vpn_seq /\ p.ack = t.client_seq
<1> DEFINE h == Head(inbound)
           s == Touched(k)
           at == Offset(h.gen, h.unit + 1)
           t == [s EXCEPT !.client_seq = at]
           p == Segment("ack", t.vpn_seq, t.client_seq)
<1>1. at.off = h.unit + 1
  BY DEF Offset
<1>2. s \in StreamRecords
  BY TouchedIsStream DEF TypeInv
<1> HIDE DEF s, at
<1>3. t.client_seq = at /\ t.vpn_seq = s.vpn_seq
  BY <1>2 DEF StreamRecords
<1> HIDE DEF t
<1>4. p.seq = t.vpn_seq /\ p.ack = t.client_seq
  BY DEF Segment
<1> HIDE DEF p
<1> QED BY <1>1, <1>3, <1>4 DEF s, at, t, p

LEMMA FinAnswer ==
  ASSUME TypeInv, NEW k \in Keys, HandleFin(k)
  PROVE  LET h == Head(inbound)
             f == [Touched(k) EXCEPT !.client_seq = Offset(h.gen, h.unit + 1),
                                     !.state = "Closed"]
             t == [f EXCEPT !.vpn_seq = @ + 1]
             p == Segment("finack", f.vpn_seq, f.client_seq)
         IN
         /\ t.client_seq.off = h.unit + 1 /\ t.vpn_seq = Touched(k).vpn_seq + 1
         /\ p.seq = Touched(k).vpn_seq /\ p.ack = t.client_seq
<1> DEFINE h == Head(inbound)
           s == Touched(k)
           at == Offset(h.gen, h.unit + 1)
           f == [s EXCEPT !.client_seq = at, !.state = "Closed"]
           t == [f EXCEPT !.vpn_seq = @ + 1]
           p == Segment("finack", f.vpn_seq, f.client_seq)
<1>1. at.off = h.unit + 1
  BY DEF Offset
<1>2. s \in StreamRecords
  BY TouchedIsStream DEF TypeInv
<1> HIDE DEF s, at
<1>3. f.client_seq = at /\ f.vpn_seq = s.vpn_seq /\ t.client_seq = at /\ t.vpn_seq = s.vpn_seq + 1
  BY <1>2 DEF StreamRecords
<1>4. p.seq = f.vpn_seq /\ p.ack = f.client_seq
  BY DEF Segment
<1> HIDE DEF f, t, p
<1> QED BY <1>1, <1>3, <1>4 DEF s, at, f, t, p

LEMMA AnsweredUp ==
  ASSUME TypeInv, TypeInv', TableInv, LinkAll, UpAll, NEW k \in Keys, NEW kind \in {"data", "fin"},
         Arrives(k, kind), NEW t \in StreamRecords, Put(k, t),
         t.connected = Touched(k).connected, t.socks = Touched(k).socks,
         t.vpn_seq = IF kind = "fin" THEN Touched(k).vpn_seq + 1 ELSE Touched(k).vpn_seq,
         t.client_seq.gen = Head(inbound).gen, t.client_seq.off = Head(inbound).unit + 1,
         NEW p \in PacketsOut, p.kind # "synack", p.seq = Touched(k).vpn_seq,
         p.ack = t.client_seq, Send(k, <<p>>),
         UNCHANGED <<client, twice, attemptId>>,
         \A j \in Keys : j # k => forwarded'[j] = forwarded[j],
         forwarded[k] \subseteq forwarded'[k],
         t.connected /\ kind = "data" =>
           <<Head(inbound).gen, Head(inbound).unit, t.socks.id>> \in forwarded'[k]
  PROVE  UpAll'
<1> DEFINE seq == inbound
           h == Head(seq)
           in == From(seq, k)
           out == Held(outbound[k])
           some == Held(outbound'[k])
           c == client[k]
           r == Touched(k)
           fw == forwarded[k]
           more == forwarded'[k]
           ids == attemptId
<1>1. streams'[k] = t /\ \A j \in Keys : j # k => streams'[j] = streams[j]
  BY PutStream DEF TypeInv
<1>2. /\ some \subseteq out \cup {p}
      /\ \A j \in Keys : j # k => outbound'[j] = outbound[j]
  BY SegmentHeld
<1>3. ids <= attemptId' /\ ids \in Nat /\ \A j \in Keys : twice[j] => twice'[j]
  BY Bounds DEF TypeInv, DaemonType
<1>4. /\ seq # <<>> /\ inbound' = Tail(seq) /\ h.key = k /\ h.kind = kind
      /\ h \in in /\ h.kind \in Opened
  BY ArrivesFrom DEF Arrives, Opened
<1>5. r \in StreamRecords /\ Shape(r, ids, attempts[k], finSent[k])
  BY TouchedShape DEF TableInv
<1>6. /\ t.vpn_seq = IF h.kind = "fin" THEN r.vpn_seq + 1 ELSE r.vpn_seq
      /\ r.connected /\ h.kind = "data" => <<h.gen, h.unit, r.socks.id>> \in more
      /\ h.kind \in {"data", "fin"} /\ fw \subseteq more
      /\ t.connected = r.connected /\ t.socks = r.socks
      /\ t.client_seq.gen = h.gen /\ t.client_seq.off = h.unit + 1
      /\ p.kind # "synack" /\ p.seq = r.vpn_seq /\ p.ack = t.client_seq
  BY <1>4
<1> HIDE DEF in, out, some, c, r, fw, more, ids, seq
<1>7. ASSUME ~twice[k] PROVE Up(Tail(seq), k, some, c, t, more, ids)
  <2>1. /\ Up(seq, k, out, c, streams[k], fw, ids) /\ c \in ClientRecords /\ c.gen \in Nat
        /\ in \in SUBSET PacketsIn /\ carried[k] \in SUBSET Nat /\ attempts[k] \in SUBSET Attempts
        /\ seq \in Seq(PacketsIn) /\ streams[k] \in StreamRecords \cup {NoStream}
    BY <1>7, KeyIsUp DEF in, out, c, fw, ids, seq
  <2>2. Linked(in, out, c, r, attempts[k], carried[k]) /\ Orderly(in, c, carried[k])
    BY <1>7, TouchedLinked DEF LinkAll, OrderInv, in, out, c, r, seq
  <2>3. Newest(h.gen, carried[k])
    BY <1>4, <2>1, <2>2, OpenedIsNewest
  <2>4. r.connected => r.client_seq.gen = h.gen /\ r.socks.id \in 1..ids
    <3> SUFFICES ASSUME r.connected PROVE r.client_seq.gen = h.gen /\ r.socks.id \in 1..ids
      OBVIOUS
    <3>1. Holds(r)
      BY <1>5, NoStreamIsNone DEF Holds
    <3>2. Newest(r.client_seq.gen, carried[k])
      BY <2>2, <3>1, HolderIsAlone
    <3>3. h.gen <= r.client_seq.gen /\ r.client_seq.gen <= h.gen
          /\ h.gen \in Nat /\ r.client_seq.gen \in Nat
      BY <2>1, <2>3, <3>2 DEF Newest
    <3> QED BY <1>5, <3>3 DEF Shape
  <2>5. c.phase = "synSent" => h.gen # c.gen
    <3>1. c.phase = "synSent" => h.gen < c.gen
      BY <1>4, <2>2 DEF Orderly
    <3> QED BY <2>1, <3>1
  <2>6. Kept(streams[k], r)
    BY <1>5, TouchedIsKept DEF r
  <2>7. Up(seq, k, out, c, r, fw, ids)
    <3> DEFINE Q == {}
    <3>1. (\A q \in Q : Voiced(q, r, ids)) /\ out \subseteq out \cup Q /\ ids <= ids
      BY <1>3
    <3>2. c.phase = "synSent" /\ Serves(r, c) => \A q \in in : q.kind # "fin"
      BY <2>1, <2>2, NoneOpened DEF Opened
    <3>3. r \in StreamRecords \cup {NoStream}
      BY <1>5
    <3> HIDE DEF Q
    <3> QED BY <1>3, <2>1, <2>6, <3>1, <3>2, <3>3, KeptUp, ZenonT(30) DEF in
  <2> QED BY <1>2, <1>3, <1>4, <1>5, <1>6, <2>1, <2>4, <2>5, <2>7, HandedUp, ZenonT(30)
<1>8. ~twice[k] => UpInv(k)'
  BY <1>1, <1>3, <1>4, <1>7 DEF UpInv, some, c, more, ids, seq
<1> QED BY <1>1, <1>2, <1>3, <1>8, ServedUp DEF ids

LEMMA HandleDataUp ==
  ASSUME TypeInv, TypeInv', TableInv, LinkAll, UpAll, "sendBlocks" \notin PpFaults,
         NEW k \in Keys, HandleData(k)
  PROVE  UpAll'
<1> DEFINE h == Head(inbound)
           t == [Touched(k) EXCEPT !.client_seq = Offset(h.gen, h.unit + 1)]
           p == Segment("ack", t.vpn_seq, t.client_seq)
<1>1. /\ UNCHANGED <<client, twice, attemptId>>
      /\ \/ /\ t.connected
            /\ forwarded' = [forwarded EXCEPT ![k] = @ \cup {<<h.gen, h.unit, t.socks.id>>}]
         \/ ~t.connected /\ UNCHANGED forwarded
  BY DEF HandleData
<1>2. /\ Arrives(k, "data") /\ Put(k, t) /\ t \in StreamRecords
      /\ t.connected = Touched(k).connected /\ t.socks = Touched(k).socks
      /\ t.vpn_seq = Touched(k).vpn_seq /\ t.client_seq.gen = h.gen
      /\ p \in PacketsOut /\ p.kind = "ack" /\ Send(k, <<p>>)
  BY DataStream
<1>3. t.client_seq.off = h.unit + 1 /\ p.seq = Touched(k).vpn_seq /\ p.ack = t.client_seq
  BY DataAnswer
<1> HIDE DEF t, p
<1>4. /\ \A j \in Keys : j # k => forwarded'[j] = forwarded[j]
      /\ forwarded[k] \subseteq forwarded'[k]
      /\ t.connected => <<h.gen, h.unit, t.socks.id>> \in forwarded'[k]
  BY <1>1 DEF TypeInv, HistoryType
<1>5. /\ p.kind # "synack" /\ "data" \in {"data", "fin"}
      /\ t.vpn_seq = IF "data" = "fin" THEN Touched(k).vpn_seq + 1 ELSE Touched(k).vpn_seq
  BY <1>2
<1> QED BY <1>1, <1>2, <1>3, <1>4, <1>5, AnsweredUp

LEMMA HandleFinUp ==
  ASSUME TypeInv, TypeInv', TableInv, LinkAll, UpAll, NEW k \in Keys, HandleFin(k)
  PROVE  UpAll'
<1> DEFINE h == Head(inbound)
           f == [Touched(k) EXCEPT !.client_seq = Offset(h.gen, h.unit + 1), !.state = "Closed"]
           t == [f EXCEPT !.vpn_seq = @ + 1]
           p == Segment("finack", f.vpn_seq, f.client_seq)
<1>1. UNCHANGED <<client, twice, attemptId, forwarded>>
  BY DEF HandleFin
<1>2. /\ Arrives(k, "fin") /\ Put(k, t) /\ t \in StreamRecords
      /\ t.connected = Touched(k).connected /\ t.socks = Touched(k).socks
      /\ t.client_seq.gen = h.gen
      /\ p \in PacketsOut /\ p.kind = "finack" /\ Send(k, <<p>>)
  BY FinStream
<1>3. /\ t.client_seq.off = h.unit + 1 /\ t.vpn_seq = Touched(k).vpn_seq + 1
      /\ p.seq = Touched(k).vpn_seq /\ p.ack = t.client_seq
  BY FinAnswer
<1> HIDE DEF f, t, p
<1>4. /\ p.kind # "synack" /\ "fin" \in {"data", "fin"} /\ "fin" # "data"
      /\ t.vpn_seq = IF "fin" = "fin" THEN Touched(k).vpn_seq + 1 ELSE Touched(k).vpn_seq
      /\ forwarded[k] \subseteq forwarded'[k]
      /\ \A j \in Keys : j # k => forwarded'[j] = forwarded[j]
  BY <1>1, <1>2, <1>3
<1> QED BY <1>1, <1>2, <1>3, <1>4, AnsweredUp

(* A socket of its own for a connection of which nothing is in line yet.   *)
LEMMA TakenUp ==
  ASSUME NEW c \in ClientRecords, c.gen \in Nat, NEW k \in Keys,
         NEW s \in StreamRecords \cup {NoStream}, NEW t \in StreamRecords,
         NEW ids \in Nat, NEW fw, NEW out, NEW p, NEW some, some \subseteq out \cup {p},
         NEW seq \in Seq(PacketsIn), From(seq, k) \in SUBSET PacketsIn,
         NEW tries, NEW carr \in SUBSET Nat, NEW a \in tries,
         Up(seq, k, out, c, s, fw, ids), Orderly(From(seq, k), c, carr),
         Linked(From(seq, k), out, c, s, tries, carr),
         t.connected, t.vpn_seq = Iss + 1, t.client_seq.gen = a.gen, t.client_seq.off = 1,
         p.kind = "synack", p.seq = Iss, p.ack = t.client_seq
  PROVE  Up(seq, k, some, c, t, fw, ids)
<1> DEFINE in == From(seq, k)
           Q == {p}
<1>1. /\ \A q \in in : q.kind \in Opened => q.gen # a.gen
      /\ c.phase \in Open => c.gen # a.gen
      /\ a.gen \in carr
  BY DEF Linked, Trying, Newest
<1>2. c.sent \in Nat
  BY DEF ClientRecords
<1>3. t # NoStream
  BY NoStreamIsNone
<1>4. \A q \in Q : /\ Honest(q, c, fw, ids)
                   /\ c.phase \in Growing /\ q.ack.gen = c.gen => q.ack.off <= c.sent + 1
  BY <1>2 DEF Honest, Iss
<1>5. Feeds(c, t, fw)
  BY <1>2 DEF Feeds, Passed, Iss
<1>6. c.phase \in Growing /\ Serves(t, c) => t.client_seq.off <= c.sent + 1
  BY <1>2
<1>7. InLine(seq, k, c, t, fw)
  <2> SUFFICES ASSUME Serves(t, c)
               PROVE  /\ \A i \in DOMAIN seq : ~Carries(seq[i], k, c.gen)
                      /\ c.phase \notin Open
    BY DEF InLine
  <2>1. a.gen = c.gen
    BY DEF Serves
  <2>2. \A i \in DOMAIN seq : seq[i] \in PacketsIn
    BY ElementOfSeq, LenProperties
  <2>3. ASSUME NEW i \in DOMAIN seq, Carries(seq[i], k, c.gen) PROVE FALSE
    <3>1. seq[i] \in in /\ seq[i].kind \in Opened /\ seq[i].gen = a.gen
      BY <2>1, <2>2, <2>3 DEF Carries, From, Opened
    <3> QED BY <1>1, <3>1
  <2> QED BY <1>1, <2>1, <2>3
<1>8. Spent(seq, k, some, c, t)
  <2> DEFINE f == Cardinality(FinsOf(seq, k))
  <2>1. f \in Nat /\ Used(s) \in Nat
    BY FinsAreFinite, UsedIsNat
  <2>2. Used(t) = 0
    BY DEF Used
  <2>3. Used(t) + f <= Used(s) + f
    <3> HIDE DEF f
    <3> QED BY <2>1, <2>2
  <2>4. ASSUME c.phase = "synSent", a.gen = c.gen PROVE f = 0
    <3>1. \A q \in in : q.kind \notin Opened
      BY <1>1, <2>4, NoneOpened
    <3>2. \A q \in in : q.kind # "fin"
      BY <3>1 DEF Opened
    <3> QED BY <3>2, FinsAreFrom
  <2>5. \/ c.phase = "synSent" /\ (\E q \in some : q.ack.gen = c.gen)
             => \E q \in out : q.ack.gen = c.gen
        \/ Used(t) = 0 /\ Cardinality(FinsOf(seq, k)) = 0
    BY <2>2, <2>4
  <2>6. Spent(seq, k, out, c, s) /\ t \in StreamRecords \cup {NoStream}
    BY DEF Up
  <2> QED BY <2>3, <2>5, <2>6, SpentMore
<1>9. some \subseteq out \cup Q
  OBVIOUS
<1> HIDE DEF in, Q
<1> QED BY <1>4, <1>5, <1>6, <1>7, <1>8, <1>9, SameLineUp

LEMMA ConnectedUp ==
  ASSUME TypeInv, TypeInv', LinkAll, UpAll, NEW k \in Keys, NEW a \in attempts[k],
         Connected(k, a)
  PROVE  UpAll'
<1> DEFINE s == streams[k]
           t == TakenOver(s, a)
           p == SynAck(Iss, Offset(a.gen, 1))
           out == Held(outbound[k])
           some == Held(outbound'[k])
           c == client[k]
           fw == forwarded[k]
           ids == attemptId
           seq == inbound
<1>1. /\ UNCHANGED <<client, twice, inbound, forwarded, attemptId>>
      /\ s \in StreamRecords \cup {NoStream} /\ attempts \in [Keys -> SUBSET Attempts]
      /\ attemptId \in Nat
  BY Bounds DEF Connected, TypeInv, DaemonType
<1>2. a \in Attempts /\ a.gen \in Nat
  BY <1>1, Bounds DEF Attempts
<1>3. CASE UNCHANGED <<streams, outbound>>
  BY <1>1, <1>3 DEF UpAll, UpInv
<1>4. CASE s # NoStream /\ Put(k, t) /\ Send(k, <<p>>)
  <2>1. Offset(a.gen, 1) \in Position /\ Iss \in Int
    BY <1>2, OffsetIsPosition DEF Iss
  <2>2. p \in PacketsOut /\ p.ack = Offset(a.gen, 1) /\ p.kind = "synack" /\ p.seq = Iss
    BY <2>1, SegmentIsPacket DEF SynAck
  <2>3. Offset(a.gen, 1).gen = a.gen /\ Offset(a.gen, 1).off = 1
    BY DEF Offset
  <2>4. /\ t \in StreamRecords /\ t.connected
        /\ t.client_seq = Offset(a.gen, 1) /\ t.vpn_seq = Iss + 1
    BY <1>1, <1>2, <1>4, TakenOverIsStream
  <2> HIDE DEF t, p
  <2>5. streams'[k] = t /\ \A j \in Keys : j # k => streams'[j] = streams[j]
    BY <1>4, <2>4, PutStream DEF TypeInv
  <2>6. /\ some \subseteq out \cup {p}
        /\ \A j \in Keys : j # k => outbound'[j] = outbound[j]
    BY <1>4, <2>2, SegmentHeld
  <2>7. ASSUME ~twice[k] PROVE Up(seq, k, some, c, t, fw, ids)
    <3>1. /\ Up(seq, k, out, c, s, fw, ids) /\ c \in ClientRecords /\ c.gen \in Nat
          /\ From(seq, k) \in SUBSET PacketsIn /\ carried[k] \in SUBSET Nat
          /\ seq \in Seq(PacketsIn) /\ ids \in Nat
          /\ Orderly(From(seq, k), c, carried[k])
          /\ Linked(From(seq, k), out, c, s, attempts[k], carried[k])
      BY <2>7, KeyIsUp
    <3>2. t.client_seq.gen = a.gen /\ t.client_seq.off = 1 /\ p.ack = t.client_seq
      BY <2>2, <2>3, <2>4
    <3> HIDE DEF s, out, some, c, fw, ids, seq
    <3> QED BY <1>1, <2>2, <2>4, <2>6, <3>1, <3>2, TakenUp, ZenonT(30)
  <2>8. ~twice[k] => UpInv(k)'
    BY <1>1, <2>5, <2>7 DEF UpInv
  <2>9. attemptId <= attemptId' /\ \A j \in Keys : twice[j] => twice'[j]
    BY <1>1
  <2> QED BY <1>1, <2>5, <2>6, <2>8, <2>9, ServedUp
<1> QED BY <1>3, <1>4 DEF Connected

-----------------------------------------------------------------------------
(* What the client does to a key: the connection goes from c to d, and a   *)
(* packet is written at the end of the line.                               *)

LEMMA AppendedFrom ==
  ASSUME NEW s \in Seq(PacketsIn), NEW p \in PacketsIn, NEW k, NEW q \in From(Append(s, p), k)
  PROVE  q \in From(s, k) \/ (q = p /\ p.key = k)
<1> DEFINE t == Append(s, p)
           n == Len(s) + 1
<1>1. /\ Len(s) \in Nat /\ DOMAIN s = 1..Len(s) /\ DOMAIN t = 1..n
      /\ \A i \in DOMAIN s : t[i] = s[i]
      /\ t[n] = p
  BY AppendedTo
<1> HIDE DEF t
<1>2. \A i \in 1..n : i = n \/ i \in DOMAIN s
  BY <1>1
<1> HIDE DEF n
<1>3. q \in PacketsIn /\ q.key = k /\ \E i \in DOMAIN t : t[i] = q
  BY DEF From, t
<1>4. PICK i \in DOMAIN t : t[i] = q
  BY <1>3
<1> QED BY <1>1, <1>2, <1>3, <1>4 DEF From

(* A packet joins the line whose segments are all handed on, or ahead of   *)
(* it.                                                                     *)
LEMMA InLineWritten ==
  ASSUME NEW seq \in Seq(PacketsIn), NEW p \in PacketsIn, NEW k, NEW c, NEW d,
         c.sent \in Nat, d.sent \in Nat, d.gen = c.gen, c.phase \in Open,
         NEW s, NEW fw, InLine(seq, k, c, s, fw),
         \A i \in DOMAIN seq : Carries(seq[i], k, c.gen) /\ c.sent < d.sent =>
           seq[i].unit <= c.sent,
         \A n \in 1..d.sent : n < p.unit => n <= c.sent,
         \A n \in 1..d.sent : n <= c.sent \/ IsUnit(p, k, c.gen, n)
  PROVE  InLine(Append(seq, p), k, d, s, fw)
<1> DEFINE next == Append(seq, p)
           g == c.gen
           id == s.socks.id
           z == Len(seq) + 1
<1> SUFFICES ASSUME Serves(s, c)
             PROVE  /\ \A i \in DOMAIN next : Carries(next[i], k, g) =>
                         \A n \in 1..d.sent : n < next[i].unit =>
                           <<g, n, id>> \in fw \/ Ahead(next, k, g, i, n)
                    /\ \A n \in 1..d.sent :
                         <<g, n, id>> \in fw \/ Ahead(next, k, g, Len(next) + 1, n)
  BY DEF InLine, Serves
<1>1. /\ Len(seq) \in Nat /\ DOMAIN seq = 1..Len(seq) /\ DOMAIN next = 1..z
      /\ \A i \in DOMAIN seq : next[i] = seq[i]
      /\ next[z] = p
  BY AppendedTo
<1>2. z \in Nat /\ \A i \in 1..z : i \in Nat /\ (i = z \/ i \in DOMAIN seq)
  BY <1>1
<1>3. \A n : /\ \A i \in Nat : Ahead(seq, k, g, i, n) => Ahead(next, k, g, i, n)
             /\ Ahead(seq, k, g, z, n) => Ahead(next, k, g, Len(next) + 1, n)
             /\ IsUnit(p, k, g, n) => Ahead(next, k, g, Len(next) + 1, n)
  BY AheadAppended
<1>4. \A n \in 1..d.sent : n <= c.sent => n \in 1..c.sent
  OBVIOUS
<1>5. \A n \in 1..c.sent : <<g, n, id>> \in fw \/ Ahead(seq, k, g, z, n)
  BY DEF InLine
<1>6. ASSUME NEW i \in DOMAIN seq, Carries(seq[i], k, g), NEW n \in 1..c.sent, n < seq[i].unit
      PROVE  <<g, n, id>> \in fw \/ Ahead(seq, k, g, i, n)
  BY <1>6 DEF InLine
<1> HIDE DEF next, g, id, z
<1>7. ASSUME NEW i \in DOMAIN next, Carries(next[i], k, g), NEW n \in 1..d.sent, n < next[i].unit
      PROVE  <<g, n, id>> \in fw \/ Ahead(next, k, g, i, n)
  <2>1. CASE i = z
    <3>1. n \in 1..c.sent
      BY <1>1, <1>4, <1>7, <2>1
    <3> QED BY <1>2, <1>3, <1>5, <2>1, <3>1
  <2>2. CASE i \in DOMAIN seq
    <3>1. next[i] = seq[i] /\ i \in Nat
      BY <1>1, <2>2
    <3>2. n <= c.sent
      <4>1. CASE c.sent < d.sent
        <5>1. seq[i].unit <= c.sent
          BY <1>7, <2>2, <3>1, <4>1 DEF g
        <5>2. seq[i] \in PacketsIn
          BY <1>1, <2>2, ElementOfSeq
        <5>3. seq[i].unit \in Nat
          BY <5>2 DEF PacketsIn
        <5> QED BY <1>7, <3>1, <5>1, <5>3
      <4>2. CASE ~(c.sent < d.sent)
        BY <4>2
      <4> QED BY <4>1, <4>2
    <3>3. <<g, n, id>> \in fw \/ Ahead(seq, k, g, i, n)
      BY <1>4, <1>6, <1>7, <2>2, <3>1, <3>2
    <3> QED BY <1>3, <3>1, <3>3
  <2> QED BY <1>1, <1>2, <2>1, <2>2
<1>8. ASSUME NEW n \in 1..d.sent
      PROVE  <<g, n, id>> \in fw \/ Ahead(next, k, g, Len(next) + 1, n)
  BY <1>3, <1>4, <1>5 DEF g
<1> QED BY <1>7, <1>8

(* A packet that carries nothing joins it.                                 *)
LEMMA InLineEmpty ==
  ASSUME NEW seq \in Seq(PacketsIn), NEW p \in PacketsIn, NEW k, NEW c, NEW d,
         d.sent = c.sent, d.gen = c.gen, ~Carries(p, k, c.gen),
         d.phase \in Open => c.phase \in Open \/ c.sent = 0,
         NEW s, NEW fw, InLine(seq, k, c, s, fw)
  PROVE  /\ InLine(seq, k, d, s, fw)
         /\ InLine(Append(seq, p), k, d, s, fw)
<1> DEFINE next == Append(seq, p)
           g == c.gen
           id == s.socks.id
           z == Len(seq) + 1
<1>1. InLine(seq, k, d, s, fw)
  <2>1. c.sent = 0 => 1..c.sent = {}
    OBVIOUS
  <2> QED BY <2>1 DEF InLine, Serves
<1> SUFFICES ASSUME Serves(s, d)
             PROVE  /\ \A i \in DOMAIN next : Carries(next[i], k, g) =>
                         \A n \in 1..c.sent : n < next[i].unit =>
                           <<g, n, id>> \in fw \/ Ahead(next, k, g, i, n)
                    /\ d.phase \in Open => \A n \in 1..c.sent :
                         <<g, n, id>> \in fw \/ Ahead(next, k, g, Len(next) + 1, n)
  BY <1>1 DEF InLine
<1>2. /\ Len(seq) \in Nat /\ DOMAIN seq = 1..Len(seq) /\ DOMAIN next = 1..z
      /\ \A i \in DOMAIN seq : next[i] = seq[i]
      /\ next[z] = p
  BY AppendedTo
<1>3. \A i \in 1..z : i \in Nat /\ (i = z \/ i \in DOMAIN seq)
  BY <1>2
<1>4. \A n : /\ \A i \in Nat : Ahead(seq, k, g, i, n) => Ahead(next, k, g, i, n)
             /\ Ahead(seq, k, g, z, n) => Ahead(next, k, g, Len(next) + 1, n)
  BY AheadAppended
<1>5. ASSUME NEW i \in DOMAIN seq, Carries(seq[i], k, g), NEW n \in 1..c.sent, n < seq[i].unit
      PROVE  <<g, n, id>> \in fw \/ Ahead(seq, k, g, i, n)
  BY <1>1, <1>5 DEF InLine
<1>6. d.phase \in Open =>
        \A n \in 1..c.sent : <<g, n, id>> \in fw \/ Ahead(seq, k, g, z, n)
  BY <1>1 DEF InLine
<1> HIDE DEF next, id, z
<1>7. \A i \in DOMAIN next : Carries(next[i], k, g) => i \in DOMAIN seq /\ next[i] = seq[i]
  BY <1>2, <1>3
<1> HIDE DEF g
<1> QED BY <1>2, <1>3, <1>4, <1>5, <1>6, <1>7

(* The connection goes on, or is given up, and nothing is sent on it.      *)
Onwards(in, out, few, c, d, fw, ids) ==
  /\ d.gen = c.gen /\ d.sent = c.sent
  /\ d.una <= d.sent /\ (d.una # 0 => Reached(fw, c, ids, d.una))
  /\ d.phase \in Open => d.rcv > Iss /\ (c.phase \in Open \/ c.sent = 0)
  /\ d.phase \in Growing => c.phase \in Growing
  /\ d.phase = "synSent" => c.phase = "synSent"
  /\ d.phase = "established" =>
       c.phase = "established" \/ \A p \in in : p.gen = c.gen => p.kind # "fin"
  /\ FinsMade(out, c) <= FinsMade(few, d)

LEMMA OnwardsUp ==
  ASSUME NEW seq \in Seq(PacketsIn), NEW next, NEW k,
         NEW out, NEW few, few \subseteq out, NEW c, NEW d, NEW fw, NEW ids \in Nat,
         c.sent \in Nat, NEW s \in StreamRecords \cup {NoStream},
         FinsMade(out, c) \in Nat, FinsMade(few, d) \in Nat,
         \/ next = seq
         \/ \E p \in PacketsIn : /\ next = Append(seq, p)
                                /\ ~(p.key = k /\ p.kind \in {"data", "fin"}),
         Up(seq, k, out, c, s, fw, ids), Onwards(From(seq, k), out, few, c, d, fw, ids)
  PROVE  Up(next, k, few, d, s, fw, ids)
<1>1. d.gen = c.gen /\ d.sent = c.sent
  BY DEF Onwards
<1>2. \A id, m : Passed(fw, d, id, m) <=> Passed(fw, c, id, m)
  BY <1>1 DEF Passed
<1>3. \A m : Reached(fw, d, ids, m) <=> Reached(fw, c, ids, m)
  BY <1>2 DEF Reached
<1>4. Confirms(few, d, fw, ids)
  BY <1>1, <1>3 DEF Up, Confirms, Honest, Onwards
<1>5. Feeds(d, s, fw)
  BY <1>1, <1>2 DEF Up, Feeds, Serves
<1>6. Within(few, d, s)
  BY <1>1 DEF Up, Within, Serves, Onwards
<1>7. \A q \in From(next, k) : q \in From(seq, k) \/ q.kind \notin {"data", "fin"}
  BY AppendedFrom
<1>8. Units(From(next, k), d)
  <2>1. \A q \in From(seq, k) : q.gen = c.gen =>
          /\ q.kind = "data" => q.unit <= c.sent
          /\ q.kind = "fin" => c.sent < q.unit /\ c.phase # "established"
    BY DEF Up, Units
  <2> QED BY <1>1, <1>7, <2>1 DEF Units, Onwards
<1>9. InLine(next, k, d, s, fw)
  <2>1. InLine(seq, k, c, s, fw) /\ (d.phase \in Open => c.phase \in Open \/ c.sent = 0)
    BY DEF Up, Onwards
  <2>2. CASE next = seq
    <3>1. c.sent = 0 => 1..c.sent = {}
      OBVIOUS
    <3> QED BY <1>1, <2>1, <2>2, <3>1 DEF InLine, Serves
  <2>3. ASSUME NEW p \in PacketsIn, next = Append(seq, p),
               ~(p.key = k /\ p.kind \in {"data", "fin"})
        PROVE  InLine(next, k, d, s, fw)
    <3>1. ~Carries(p, k, c.gen)
      BY <2>3 DEF Carries
    <3> QED BY <1>1, <2>1, <2>3, <3>1, InLineEmpty
  <2> QED BY <2>2, <2>3
<1>10. Spent(next, k, few, d, s)
  <2>1. FinsOf(next, k) = FinsOf(seq, k)
    <3>1. ASSUME NEW p \in PacketsIn, ~(p.key = k /\ p.kind = "fin")
          PROVE  FinsOf(Append(seq, p), k) = FinsOf(seq, k)
      BY <3>1, FinsAppended
    <3>2. ASSUME NEW p \in PacketsIn, next = Append(seq, p),
                 ~(p.key = k /\ p.kind \in {"data", "fin"})
          PROVE  FinsOf(next, k) = FinsOf(seq, k)
      <4>1. ~(p.key = k /\ p.kind = "fin")
        BY <3>2
      <4> QED BY <3>1, <3>2, <4>1
    <3> QED BY <3>2
  <2> DEFINE a == Used(s)
             b == Cardinality(FinsOf(seq, k))
             v == FinsMade(out, c)
             w == FinsMade(few, d)
  <2>2. a \in Nat /\ b \in Nat /\ v \in Nat /\ w \in Nat
    BY UsedIsNat, FinsAreFinite
  <2>3. a + b <= v /\ v <= w
    BY DEF Up, Spent, Onwards
  <2>4. a + b <= w
    <3> HIDE DEF a, b, v, w
    <3> QED BY <2>2, <2>3
  <2> QED BY <2>1, <2>4 DEF Spent
<1> QED BY <1>4, <1>5, <1>6, <1>8, <1>9, <1>10 DEF Up

(* An open connection writes a segment, the next or one that was not       *)
(* acknowledged.                                                           *)
Sends(c, d, p, k) ==
  /\ p.kind = "data" /\ p.key = k /\ p.gen = c.gen /\ p.unit \in 1..d.sent
  /\ d.phase = c.phase /\ d.gen = c.gen /\ d.una = c.una /\ d.rcv = c.rcv
  /\ c.phase \in Open
  /\ d.sent # c.sent => c.phase = "established" /\ d.sent = c.sent + 1 /\ p.unit = d.sent

LEMMA SendsUp ==
  ASSUME NEW seq \in Seq(PacketsIn), NEW p \in PacketsIn, NEW k,
         NEW out \in SUBSET PacketsOut, NEW c, NEW d, NEW fw, NEW ids \in Nat,
         c.sent \in Nat, c.una \in Nat, NEW s \in StreamRecords \cup {NoStream},
         Up(seq, k, out, c, s, fw, ids), Sends(c, d, p, k)
  PROVE  Up(Append(seq, p), k, out, d, s, fw, ids)
<1> DEFINE next == Append(seq, p)
<1>1. d.gen = c.gen /\ d.phase = c.phase /\ d.una = c.una /\ d.rcv = c.rcv
  BY DEF Sends
<1>2. d.sent \in Nat /\ c.sent <= d.sent /\ (d.sent = c.sent \/ c.phase = "established")
  BY DEF Sends
<1>3. ASSUME NEW id, NEW m \in Int, m <= c.sent
      PROVE  Passed(fw, c, id, m) => Passed(fw, d, id, m)
  <2>1. \A n \in 1..d.sent : n <= m => n \in 1..c.sent
    BY <1>2, <1>3
  <2> QED BY <1>1, <2>1 DEF Passed
<1>4. ASSUME NEW m \in Int, m <= c.sent
      PROVE  Reached(fw, c, ids, m) => Reached(fw, d, ids, m)
  BY <1>3, <1>4 DEF Reached
<1>5. /\ \A q \in out : q.ack.gen = c.gen => q.ack.off <= c.sent + 1 \/ c.sent = d.sent
      /\ Serves(s, c) => s.client_seq.off <= c.sent + 1 \/ c.sent = d.sent
  BY <1>2 DEF Up, Within, Growing
<1>6. \A q \in out : q.ack.off \in Nat
  BY DEF PacketsOut, Position
<1>7. Confirms(out, d, fw, ids)
  <2>1. Confirms(out, c, fw, ids)
    BY DEF Up
  <2>2. d.una <= d.sent
    BY <1>1, <1>2, <2>1 DEF Confirms
  <2>3. d.una # 0 => Reached(fw, d, ids, d.una)
    <3>1. c.una \in Int /\ c.una <= c.sent
      BY <2>1 DEF Confirms
    <3> QED BY <1>1, <1>4, <2>1, <3>1 DEF Confirms
  <2>4. ASSUME NEW q \in out PROVE Honest(q, d, fw, ids)
    <3>1. Honest(q, c, fw, ids)
      BY <2>1 DEF Confirms
    <3>2. CASE q.kind = "synack" \/ q.ack.gen # c.gen
      BY <1>1, <3>1, <3>2 DEF Honest
    <3>3. CASE q.kind # "synack" /\ q.ack.gen = c.gen
      <4> DEFINE m == q.ack.off - 1
      <4>1. m \in Int
        BY <1>6
      <4>2. CASE m <= c.sent
        <5>1. q.seq > Iss => Reached(fw, c, ids, m)
          BY <3>1, <3>3 DEF Honest
        <5> HIDE DEF m
        <5>2. q.seq > Iss => Reached(fw, d, ids, m)
          BY <1>4, <4>1, <4>2, <5>1
        <5> QED BY <3>3, <5>2 DEF Honest, m
      <4>3. CASE ~(m <= c.sent)
        <5>1. d.sent = c.sent
          BY <1>5, <1>6, <3>3, <4>3
        <5>2. Reached(fw, c, ids, m) => Reached(fw, d, ids, m)
          BY <1>1, <5>1 DEF Reached, Passed
        <5> HIDE DEF m
        <5> QED BY <1>1, <3>1, <3>3, <5>2 DEF Honest, m
      <4> QED BY <4>2, <4>3
    <3> QED BY <3>2, <3>3
  <2>5. d.phase \in Open => d.rcv > Iss
    BY <1>1, <2>1 DEF Confirms
  <2> QED BY <2>2, <2>3, <2>4, <2>5 DEF Confirms
<1>8. Feeds(d, s, fw)
  <2>1. Feeds(c, s, fw)
    BY DEF Up
  <2>2. ASSUME Serves(s, c) PROVE Passed(fw, d, s.socks.id, s.client_seq.off - 1)
    <3> DEFINE m == s.client_seq.off - 1
               id == s.socks.id
    <3>1. s.client_seq.off \in Nat /\ m \in Int
      BY <2>2 DEF Serves, Holds, StreamRecords, Position
    <3>2. Passed(fw, c, id, m)
      BY <2>1, <2>2 DEF Feeds
    <3>3. CASE m <= c.sent
      <4> HIDE DEF m, id
      <4>1. Passed(fw, d, id, m)
        BY <1>3, <3>1, <3>2, <3>3
      <4> QED BY <4>1 DEF m, id
    <3>4. CASE ~(m <= c.sent)
      <4>1. d.sent = c.sent
        BY <1>5, <2>2, <3>1, <3>4
      <4> QED BY <1>1, <3>2, <4>1 DEF Passed
    <3> QED BY <3>3, <3>4
  <2> QED BY <1>1, <2>1, <2>2 DEF Feeds, Serves
<1>9. Within(out, d, s)
  <2>1. c.phase # "synSent"
    BY DEF Sends, Open
  <2>2. c.phase \in Growing => \A q \in out : q.ack.gen = c.gen => q.ack.off <= d.sent + 1
    BY <1>2, <1>6 DEF Up, Within
  <2>3. Serves(s, c) => s.client_seq.off \in Nat
    BY DEF Serves, Holds, StreamRecords, Position
  <2>4. c.phase \in Growing /\ Serves(s, c) => s.client_seq.off <= d.sent + 1
    BY <1>2, <2>3 DEF Up, Within
  <2> QED BY <1>1, <2>1, <2>2, <2>4 DEF Within, Serves
<1>10. \A q \in From(next, k) : q \in From(seq, k) \/ q = p
  BY AppendedFrom
<1>11. \A q \in From(seq, k) : q.gen = c.gen =>
         /\ q.kind = "data" => q.unit <= c.sent
         /\ q.kind = "fin" => c.sent < q.unit /\ c.phase # "established"
  BY DEF Up, Units
<1>12. Units(From(next, k), d)
  <2>1. ASSUME NEW q \in From(seq, k), q.gen = c.gen
        PROVE  /\ q.kind = "data" => q.unit <= d.sent
               /\ q.kind = "fin" => d.sent < q.unit /\ d.phase # "established"
    <3>1. q.unit \in Nat
      BY DEF From, PacketsIn
    <3> QED BY <1>1, <1>2, <1>11, <2>1, <3>1
  <2>2. p.kind = "data" /\ p.unit <= d.sent
    BY DEF Sends
  <2> QED BY <1>1, <1>10, <2>1, <2>2 DEF Units
<1>13. InLine(next, k, d, s, fw)
  <2>1. ASSUME NEW i \in DOMAIN seq, Carries(seq[i], k, c.gen), c.sent < d.sent
        PROVE  seq[i].unit <= c.sent
    <3>1. c.phase = "established"
      BY <1>2, <2>1
    <3>2. seq[i] \in From(seq, k)
      BY <2>1, ElementOfSeq, LenProperties DEF Carries, From
    <3> QED BY <1>11, <2>1, <3>1, <3>2 DEF Carries
  <2>2. \A n \in 1..d.sent : n < p.unit => n <= c.sent
    BY <1>2 DEF Sends
  <2>3. \A n \in 1..d.sent : n <= c.sent \/ IsUnit(p, k, c.gen, n)
    BY <1>2 DEF Sends, IsUnit
  <2>4. InLine(seq, k, c, s, fw) /\ c.phase \in Open
    BY DEF Up, Sends
  <2> QED BY <1>1, <1>2, <2>1, <2>2, <2>3, <2>4, InLineWritten
<1>14. Spent(next, k, out, d, s)
  <2>1. FinsOf(next, k) = FinsOf(seq, k)
    BY FinsAppended DEF Sends
  <2>2. FinsMade(out, d) = FinsMade(out, c)
    BY <1>1 DEF FinsMade
  <2> QED BY <2>1, <2>2 DEF Up, Spent
<1> QED BY <1>7, <1>8, <1>9, <1>12, <1>13, <1>14 DEF Up

(* An open connection is closed, by a FIN or by another.                   *)
Closes(c, d, p, k) ==
  /\ p.kind = "fin" /\ p.key = k /\ p.gen = c.gen /\ p.unit = c.sent + 1
  /\ d.gen = c.gen /\ d.sent = c.sent /\ d.una = c.una /\ d.rcv = c.rcv
  /\ \/ c.phase = "established" /\ d.phase = "finSent"
     \/ c.phase = "finSent" /\ d.phase = "finSentTwice"

LEMMA ClosesUp ==
  ASSUME NEW seq \in Seq(PacketsIn), NEW p \in PacketsIn, NEW k,
         NEW out, NEW c, NEW d, NEW fw, NEW ids \in Nat,
         c.sent \in Nat, NEW s \in StreamRecords \cup {NoStream},
         Up(seq, k, out, c, s, fw, ids), Closes(c, d, p, k)
  PROVE  Up(Append(seq, p), k, out, d, s, fw, ids)
<1> DEFINE next == Append(seq, p)
<1>1. /\ d.gen = c.gen /\ d.sent = c.sent /\ d.una = c.una /\ d.rcv = c.rcv
      /\ c.phase \in Open /\ d.phase \in Open /\ d.phase \notin Growing
      /\ d.phase # "established" /\ d.phase # "synSent"
  BY DEF Closes, Open, Growing
<1>2. \A id, m : Passed(fw, d, id, m) <=> Passed(fw, c, id, m)
  BY <1>1 DEF Passed
<1>3. \A m : Reached(fw, d, ids, m) <=> Reached(fw, c, ids, m)
  BY <1>2 DEF Reached
<1>4. Confirms(out, d, fw, ids)
  BY <1>1, <1>3 DEF Up, Confirms, Honest
<1>5. Feeds(d, s, fw)
  BY <1>1, <1>2 DEF Up, Feeds, Serves
<1>6. Within(out, d, s)
  BY <1>1 DEF Within
<1>7. Units(From(next, k), d)
  <2>1. \A q \in From(next, k) : q \in From(seq, k) \/ q = p
    BY AppendedFrom
  <2>2. p.kind = "fin" /\ d.sent < p.unit
    BY <1>1 DEF Closes
  <2>3. \A q \in From(seq, k) : q.gen = d.gen =>
          /\ q.kind = "data" => q.unit <= d.sent
          /\ q.kind = "fin" => d.sent < q.unit
    BY <1>1 DEF Up, Units
  <2> QED BY <1>1, <2>1, <2>2, <2>3 DEF Units
<1>8. InLine(next, k, d, s, fw)
  <2>1. InLine(seq, k, c, s, fw)
    BY DEF Up
  <2>2. /\ \A n \in 1..d.sent : n <= c.sent
        /\ ~(c.sent < d.sent)
    BY <1>1
  <2> QED BY <1>1, <2>1, <2>2, InLineWritten
<1>9. Spent(next, k, out, d, s)
  <2> DEFINE a == Used(s)
             b == Cardinality(FinsOf(seq, k))
             b1 == Cardinality(FinsOf(next, k))
             v == FinsMade(out, c)
             w == FinsMade(out, d)
  <2>1. a \in Nat /\ b \in Nat /\ b1 \in Nat
    <3>1. next \in Seq(PacketsIn)
      BY AppendedTo
    <3> HIDE DEF next
    <3> QED BY <3>1, UsedIsNat, FinsAreFinite
  <2>2. b1 <= b + 1
    BY FinsAppended
  <2>3. v \in Nat /\ w = v + 1
    BY DEF FinsMade, Closes
  <2>4. a + b <= v
    BY DEF Up, Spent
  <2>5. a + b1 <= w
    <3> HIDE DEF a, b, b1, v, w
    <3> QED BY <2>1, <2>2, <2>3, <2>4
  <2> QED BY <2>5 DEF Spent
<1> QED BY <1>4, <1>5, <1>6, <1>7, <1>8, <1>9 DEF Up

(* Another connection is opened, of which nothing is known yet.            *)
Opens(c, d, p, k) ==
  /\ p.kind = "syn" /\ p.key = k
  /\ d.phase = "synSent" /\ d.gen = c.gen + 1 /\ d.sent = 0 /\ d.una = 0

LEMMA OpensUp ==
  ASSUME NEW seq \in Seq(PacketsIn), NEW p \in PacketsIn, NEW k,
         NEW out, NEW c \in ClientRecords, c.gen \in Nat, NEW d, NEW fw, NEW ids \in Nat,
         NEW s \in StreamRecords \cup {NoStream}, NEW tries, NEW carr \in SUBSET Nat,
         Up(seq, k, out, c, s, fw, ids), Opens(c, d, p, k),
         Orderly(From(seq, k), c, carr), Linked(From(seq, k), out, c, s, tries, carr)
  PROVE  Up(Append(seq, p), k, out, d, s, fw, ids)
<1> DEFINE next == Append(seq, p)
<1>1. d.phase \notin Open /\ d.phase # "established" /\ d.gen > c.gen
  BY DEF Opens, Open
<1>2. d.gen \notin carr
  BY <1>1 DEF Orderly, Opens
<1>3. \A q \in out : q.ack.gen # d.gen
  BY <1>2 DEF Linked, Evidence
<1>4. ~Serves(s, d)
  BY <1>2 DEF Serves, Linked, Evidence, Newest
<1>5. Confirms(out, d, fw, ids)
  <2>1. \A q \in out : Honest(q, c, fw, ids)
    BY DEF Up, Confirms
  <2>2. \A q \in out : Honest(q, d, fw, ids)
    BY <1>3, <2>1 DEF Honest
  <2>3. d.una = 0 /\ d.una <= d.sent
    BY DEF Opens
  <2> QED BY <1>1, <2>2, <2>3 DEF Confirms
<1>6. Feeds(d, s, fw)
  BY <1>4 DEF Up, Feeds
<1>7. Within(out, d, s)
  BY <1>3, <1>4 DEF Within, Opens
<1>8. Units(From(next, k), d)
  <2>1. \A q \in From(next, k) : q \in From(seq, k) \/ q.kind = "syn"
    BY AppendedFrom DEF Opens
  <2>2. ASSUME NEW q \in From(seq, k) PROVE q.gen # d.gen
    <3>1. q.gen <= c.gen
      BY DEF Orderly
    <3>2. q \in PacketsIn
      BY DEF From
    <3>3. q.gen \in Nat
      BY <3>2, Bounds DEF PacketsIn
    <3> QED BY <1>1, <3>1, <3>3 DEF Opens
  <2> QED BY <2>1, <2>2 DEF Units
<1>9. InLine(next, k, d, s, fw)
  BY <1>4 DEF InLine
<1>10. Spent(next, k, out, d, s)
  <2>1. FinsOf(next, k) = FinsOf(seq, k)
    BY FinsAppended DEF Opens
  <2> DEFINE a == Used(s)
             b == Cardinality(FinsOf(seq, k))
             v == FinsMade(out, c)
  <2>2. a \in Nat /\ b \in Nat /\ v \in 0..2
    BY UsedIsNat, FinsAreFinite, FinsMadeOf
  <2>3. a + b <= v
    BY DEF Up, Spent
  <2>4. FinsMade(out, d) = 2
    BY <1>3 DEF FinsMade, Opens
  <2>5. a + b <= 2
    <3> HIDE DEF a, b, v
    <3> QED BY <2>2, <2>3
  <2> QED BY <2>1, <2>4, <2>5 DEF Spent
<1> QED BY <1>5, <1>6, <1>7, <1>8, <1>9, <1>10 DEF Up

-----------------------------------------------------------------------------
(* The steps of the client.                                                *)

LEMMA ReachedLess ==
  ASSUME NEW fw, NEW c, NEW ids, NEW m \in Int, NEW n \in Int, n <= m, Reached(fw, c, ids, m)
  PROVE  Reached(fw, c, ids, n)
<1>1. ASSUME NEW id, Passed(fw, c, id, m) PROVE Passed(fw, c, id, n)
  <2>1. \A i \in 1..c.sent : i <= n => i <= m
    OBVIOUS
  <2> QED BY <1>1, <2>1 DEF Passed
<1> QED BY <1>1 DEF Reached

LEMMA ClientOpenMoves ==
  ASSUME TypeInv, NEW k \in Keys, ClientOpen(k)
  PROVE  \E p \in PacketsIn : inbound' = Append(inbound, p) /\ Opens(client[k], client'[k], p, k)
<1>1. /\ ClientTyped(k) /\ client'[k].phase = "synSent" /\ client'[k].gen = client[k].gen + 1
      /\ Writes(k, {"syn"})
  BY ClientOpenStep
<1>2. client'[k].sent = 0 /\ client'[k].una = 0
  BY DEF ClientOpen, TypeInv, WireType
<1> QED BY <1>1, <1>2 DEF Writes, Opens

LEMMA ClientSendMoves ==
  ASSUME TypeInv, NEW k \in Keys, ClientSend(k)
  PROVE  \E p \in PacketsIn : inbound' = Append(inbound, p) /\ Sends(client[k], client'[k], p, k)
<1> DEFINE c == client[k]
           d == client'[k]
           p == Packet(k, "data", c.sent + 1)
<1>1. /\ ClientTyped(k) /\ c.phase = "established" /\ d.phase = "established" /\ d.gen = c.gen
  BY ClientSendStep
<1>2. c \in ClientRecords /\ c.sent \in Nat /\ WireType
  BY DEF TypeInv, WireType, ClientRecords
<1>3. d = [c EXCEPT !.sent = @ + 1] /\ Emits(<<p>>)
  BY DEF TypeInv, WireType, ClientSend
<1>4. d.sent = c.sent + 1 /\ d.una = c.una /\ d.rcv = c.rcv
  <2> HIDE DEF c, d
  <2> QED BY <1>2, <1>3 DEF ClientRecords
<1>5. d.gen > 0 /\ c.sent + 1 \in Nat /\ client' \in [Keys -> ClientRecords]
  BY <1>1, <1>2 DEF ClientTyped
<1>6. p \in PacketsIn /\ p.key = k /\ p.kind = "data" /\ p.gen = d.gen /\ p.unit = c.sent + 1
  BY <1>5, PacketIsPacket
<1> HIDE DEF p
<1>7. inbound' = Append(inbound, p)
  BY <1>2, <1>3, <1>6, EmitsAppends
<1>8. p.unit \in 1..d.sent /\ c.phase \in Open
  BY <1>1, <1>2, <1>4, <1>6 DEF Open
<1>9. Sends(c, d, p, k)
  BY <1>1, <1>4, <1>6, <1>8 DEF Sends
<1> QED BY <1>6, <1>7, <1>9

LEMMA ClientCloseMoves ==
  ASSUME TypeInv, NEW k \in Keys, ClientClose(k)
  PROVE  \E p \in PacketsIn : inbound' = Append(inbound, p) /\ Closes(client[k], client'[k], p, k)
<1> DEFINE c == client[k]
           d == client'[k]
           p == Packet(k, "fin", c.sent + 1)
<1>1. ClientTyped(k) /\ d.gen = c.gen /\ d.phase \in Open
  BY ClientCloseStep
<1>2. c \in ClientRecords /\ c.sent \in Nat /\ WireType
  BY DEF TypeInv, WireType, ClientRecords
<1>3. Emits(<<p>>)
  BY DEF ClientClose
<1>4. PICK ph : /\ d = [c EXCEPT !.phase = ph]
                /\ \/ c.phase = "established" /\ ph = "finSent"
                   \/ c.phase = "finSent" /\ ph = "finSentTwice"
  BY DEF TypeInv, WireType, ClientClose
<1>5. d.phase = ph /\ d.sent = c.sent /\ d.una = c.una /\ d.rcv = c.rcv
  <2> HIDE DEF c, d
  <2> QED BY <1>2, <1>4 DEF ClientRecords
<1>6. d.gen > 0 /\ c.sent + 1 \in Nat /\ client' \in [Keys -> ClientRecords]
  BY <1>1, <1>2 DEF ClientTyped, Open
<1>7. p \in PacketsIn /\ p.key = k /\ p.kind = "fin" /\ p.gen = d.gen /\ p.unit = c.sent + 1
  BY <1>6, PacketIsPacket
<1> HIDE DEF p
<1>8. inbound' = Append(inbound, p)
  BY <1>2, <1>3, <1>7, EmitsAppends
<1>9. Closes(c, d, p, k)
  BY <1>1, <1>4, <1>5, <1>7 DEF Closes
<1> QED BY <1>7, <1>8, <1>9

LEMMA ClientRepeatsMoves ==
  ASSUME TypeInv, NEW k \in Keys, ClientRepeats(k)
  PROVE  /\ UNCHANGED client
         /\ \E p \in PacketsIn :
              /\ inbound' = Append(inbound, p) /\ p.key = k
              /\ p.kind = "syn" \/ Sends(client[k], client[k], p, k)
<1>1. /\ UNCHANGED client
      /\ \/ client[k].phase = "synSent" /\ Writes(k, {"syn"})
         \/ client[k].phase \in Open /\ Writes(k, {"data"})
  BY ClientRepeatsStep
<1>2. CASE client[k].phase = "synSent"
  BY <1>1, <1>2 DEF Writes, Open
<1>3. CASE client[k].phase # "synSent"
  <2> DEFINE c == client[k]
  <2>1. c.phase \in Open
    BY <1>1, <1>3
  <2>2. PICK n \in (c.una + 1)..c.sent : Emits(<<Packet(k, "data", n)>>)
    BY <1>3 DEF ClientRepeats
  <2>3. c.una \in Nat /\ c.sent \in Nat /\ WireType /\ c.gen > 0
    BY <2>1 DEF TypeInv, WireType, ClientRecords, Open
  <2>4. n \in Nat /\ n \in 1..c.sent
    BY <2>3
  <2> DEFINE p == Packet(k, "data", n)
  <2>5. p \in PacketsIn /\ p.key = k /\ p.kind = "data" /\ p.gen = c.gen /\ p.unit = n
    <3>1. client' \in [Keys -> ClientRecords] /\ client'[k].gen > 0 /\ client'[k].gen = c.gen
      BY <1>1, <2>3 DEF WireType
    <3> QED BY <2>4, <3>1, PacketIsPacket
  <2>6. Emits(<<p>>)
    BY <2>2
  <2> HIDE DEF p
  <2>7. inbound' = Append(inbound, p)
    BY <2>3, <2>5, <2>6, EmitsAppends
  <2>8. Sends(c, c, p, k)
    BY <2>1, <2>4, <2>5 DEF Sends
  <2> QED BY <1>1, <2>5, <2>7, <2>8
<1> QED BY <1>2, <1>3

LEMMA ClientAbortsMoves ==
  ASSUME TypeInv, NEW k \in Keys, ClientAborts(k)
  PROVE  /\ client'[k].phase = "closed" /\ client'[k].gen = client[k].gen
         /\ client'[k].sent = client[k].sent /\ client'[k].una = client[k].una
         /\ \/ UNCHANGED inbound
            \/ \E p \in PacketsIn : inbound' = Append(inbound, p) /\ p.key = k /\ p.kind = "ack"
<1>1. /\ client'[k].phase = "closed" /\ client'[k].gen = client[k].gen
      /\ UNCHANGED inbound \/ Writes(k, {"ack"})
  BY ClientAbortsStep
<1>2. client[k] \in ClientRecords
  BY DEF TypeInv, WireType
<1>3. client'[k] = [client[k] EXCEPT !.phase = "closed"]
  BY DEF TypeInv, WireType, ClientAborts
<1>4. client'[k].sent = client[k].sent /\ client'[k].una = client[k].una
  BY <1>2, <1>3 DEF ClientRecords
<1> QED BY <1>1, <1>4 DEF Writes

(* The SYN-ACK of its connection opens it to the client.                   *)
LEMMA ReceiveSynAckMoves ==
  ASSUME TypeInv, NEW k \in Keys, NEW q \in PacketsOut, ReceiveSynAck(k, q)
  PROVE  \/ UNCHANGED <<client, inbound>>
         \/ /\ UNCHANGED client
            /\ \E p \in PacketsIn : inbound' = Append(inbound, p) /\ p.key = k /\ p.kind = "rst"
         \/ /\ client[k].phase = "synSent" /\ q.kind = "synack" /\ q.ack.gen = client[k].gen
            /\ client'[k].phase = "established" /\ client'[k].gen = client[k].gen
            /\ client'[k].sent = client[k].sent /\ client'[k].una = client[k].una
            /\ client'[k].rcv = q.seq + 1
            /\ \E p \in PacketsIn : inbound' = Append(inbound, p) /\ p.key = k /\ p.kind = "ack"
<1> DEFINE c == client[k]
           d == client'[k]
<1>1. /\ d.gen = c.gen /\ q.kind = "synack"
      /\ \/ /\ c.phase = "synSent" /\ q.ack = Offset(c.gen, 1)
            /\ d.phase = "established" /\ d.rcv = q.seq + 1 /\ Writes(k, {"ack"})
         \/ UNCHANGED client /\ Writes(k, {"rst"})
         \/ UNCHANGED <<client, inbound>>
  BY ReceiveSynAckStep DEF ReceiveSynAck
<1>2. CASE /\ c.phase = "synSent" /\ q.ack = Offset(c.gen, 1)
           /\ d.phase = "established" /\ d.rcv = q.seq + 1 /\ Writes(k, {"ack"})
  <2>1. c \in ClientRecords
    BY DEF TypeInv, WireType
  <2>2. d = [c EXCEPT !.phase = "established", !.rcv = q.seq + 1]
    BY <1>2 DEF TypeInv, WireType, ReceiveSynAck
  <2>3. d.sent = c.sent /\ d.una = c.una
    <3> HIDE DEF c, d
    <3> QED BY <2>1, <2>2 DEF ClientRecords
  <2>4. q.ack.gen = c.gen
    BY <1>2 DEF Offset
  <2> QED BY <1>1, <1>2, <2>3, <2>4 DEF Writes
<1> QED BY <1>1, <1>2 DEF Writes

(* The next segment may confirm what was sent before.                      *)
LEMMA ReceiveSegmentMoves ==
  ASSUME TypeInv, NEW k \in Keys, NEW q \in PacketsOut, ReceiveSegment(k, q)
  PROVE  \/ client'[k] = client[k]
         \/ /\ q.kind # "synack" /\ q.seq = client[k].rcv /\ client[k].phase \in Open
            /\ client'[k].phase \in {client[k].phase, "closed"}
            /\ client'[k].gen = client[k].gen /\ client'[k].sent = client[k].sent
            /\ client'[k].rcv \in {client[k].rcv, client[k].rcv + 1}
            /\ \/ client'[k].una = client[k].una
               \/ /\ q.ack.gen = client[k].gen /\ client'[k].una \in Nat
                  /\ client'[k].una <= client[k].sent /\ client'[k].una <= q.ack.off - 1
<1> DEFINE c == client[k]
           d == client'[k]
           acked == IF q.ack.gen # c.gen THEN 0 ELSE q.ack.off - 1
           una == IF acked > c.una THEN (IF acked > c.sent THEN c.sent ELSE acked) ELSE c.una
<1>1. /\ client \in [Keys -> ClientRecords] /\ c \in ClientRecords
      /\ c.una \in Nat /\ c.sent \in Nat /\ q.ack.off \in Nat
      /\ q.kind \in {"synack", "ack", "finack", "data"}
  BY DEF TypeInv, WireType, PacketsOut, ClientRecords, Position
<1>2. \/ una = c.una
      \/ q.ack.gen = c.gen /\ una \in Nat /\ una <= c.sent /\ una <= q.ack.off - 1
  BY <1>1
<1>3. q.kind # "synack"
  BY DEF ReceiveSegment
<1> DEFINE e == [c EXCEPT !.una = una]
           data == [c EXCEPT !.una = una, !.rcv = @ + 1, !.from = q.unit[1],
                             !.intact = /\ @
                                        /\ c.from \in {0, q.unit[1]}
                                        /\ q.unit[2] = c.rcv - Iss]
           fin == [c EXCEPT !.una = una, !.phase = IF acked > c.sent THEN "closed" ELSE @]
<1>4. \/ /\ c.phase \in Open /\ q.seq = c.rcv
         /\ client' = [client EXCEPT ![k] = CASE q.kind = "data" -> data
                                              [] q.kind = "ack" -> e
                                              [] q.kind = "finack" -> fin]
      \/ UNCHANGED client
  BY DEF ReceiveSegment
<1>5. \/ c.phase \in Open /\ q.seq = c.rcv /\ (d = data \/ d = e \/ d = fin)
      \/ d = c
  <2> HIDE DEF data, e, fin
  <2> QED BY <1>1, <1>3, <1>4
<1> HIDE DEF acked, una
<1>6. /\ e.una = una /\ e.gen = c.gen /\ e.sent = c.sent /\ e.rcv = c.rcv /\ e.phase = c.phase
  BY <1>1 DEF ClientRecords
<1>7. /\ data.una = una /\ data.gen = c.gen /\ data.sent = c.sent /\ data.rcv = c.rcv + 1
      /\ data.phase = c.phase
  BY <1>1 DEF ClientRecords
<1>8. /\ fin.una = una /\ fin.gen = c.gen /\ fin.sent = c.sent /\ fin.rcv = c.rcv
      /\ fin.phase \in {c.phase, "closed"}
  BY <1>1 DEF ClientRecords
<1> HIDE DEF data, e, fin, c, d
<1> QED BY <1>2, <1>3, <1>5, <1>6, <1>7, <1>8 DEF c, d

(* A step of the client of one key: the connections of the others are what *)
(* they were.                                                              *)
LEMMA ClientUp ==
  ASSUME TypeInv, TypeInv', LinkAll, UpAll, NEW k \in Keys,
         \A j \in Keys : j # k => client'[j] = client[j] /\ outbound'[j] = outbound[j],
         UNCHANGED <<streams, forwarded, twice, attemptId>>,
         \/ inbound' = inbound
         \/ \E p \in PacketsIn : p.key = k /\ inbound' = Append(inbound, p),
         ~twice[k] => Up(inbound', k, Held(outbound'[k]), client'[k], streams[k], forwarded[k],
                         attemptId)
  PROVE  UpAll'
<1> SUFFICES ASSUME NEW j \in Keys PROVE UpInv(j)'
  BY DEF UpAll
<1>1. CASE j = k
  BY <1>1 DEF UpInv
<1>2. CASE j # k
  <2> SUFFICES ASSUME ~twice[j]
               PROVE  Up(inbound', j, Held(outbound[j]), client[j], streams[j], forwarded[j],
                         attemptId)
    BY <1>2 DEF UpInv
  <2> DEFINE out == Held(outbound[j])
             c == client[j]
             s == streams[j]
             fw == forwarded[j]
             ids == attemptId
             seq == inbound
             next == inbound'
  <2>1. /\ Up(seq, j, out, c, s, fw, ids) /\ c \in ClientRecords /\ c.sent \in Nat
        /\ seq \in Seq(PacketsIn) /\ s \in StreamRecords \cup {NoStream} /\ ids \in Nat
    BY KeyIsUp
  <2>2. \/ next = seq
        \/ \E p \in PacketsIn : /\ next = Append(seq, p)
                                /\ ~(p.key = j /\ p.kind \in {"data", "fin"})
    BY <1>2
  <2>3. FinsMade(out, c) \in Nat /\ FinsMade(out, c) <= FinsMade(out, c)
    BY <2>1, FinsMadeOf
  <2>4. Onwards(From(seq, j), out, out, c, c, fw, ids)
    <3> HIDE DEF out, c, fw, ids, seq, s
    <3> QED BY <2>1, <2>3 DEF Onwards, Up, Confirms
  <2>5. out \subseteq out
    OBVIOUS
  <2> HIDE DEF out, c, s, fw, ids, seq, next
  <2>6. Up(next, j, out, c, s, fw, ids)
    BY <2>1, <2>2, <2>3, <2>4, <2>5, OnwardsUp
  <2> QED BY <2>6 DEF out, c, s, fw, ids, next
<1> QED BY <1>1, <1>2

LEMMA ClientStepsUp ==
  ASSUME TypeInv, TypeInv', LinkAll, UpAll, ClientSteps
  PROVE  UpAll'
<1>1. UNCHANGED <<streams, outbound, forwarded, twice, attemptId>>
  BY DEF ClientSteps, daemonVars, historyVars
<1>2. PICK k \in Keys : \/ ClientOpen(k) \/ ClientSend(k) \/ ClientClose(k)
                        \/ ClientRepeats(k) \/ ClientAborts(k)
  BY DEF ClientSteps
<1> DEFINE out == Held(outbound[k])
           c == client[k]
           d == client'[k]
           s == streams[k]
           fw == forwarded[k]
           ids == attemptId
           seq == inbound
           next == inbound'
           carr == carried[k]
           tries == attempts[k]
<1>3. ~twice[k] =>
        /\ Up(seq, k, out, c, s, fw, ids) /\ Orderly(From(seq, k), c, carr)
        /\ Linked(From(seq, k), out, c, s, tries, carr)
        /\ Confirms(out, c, fw, ids)
  BY KeyIsUp DEF Up
<1>4. /\ c \in ClientRecords /\ d \in ClientRecords /\ c.gen \in Nat
      /\ c.sent \in Nat /\ c.una \in Nat
      /\ carr \in SUBSET Nat /\ out \in SUBSET PacketsOut
      /\ seq \in Seq(PacketsIn) /\ s \in StreamRecords \cup {NoStream} /\ ids \in Nat
  <2>1. c \in ClientRecords /\ d \in ClientRecords
    BY DEF TypeInv, WireType
  <2>2. c.gen \in Nat /\ c.sent \in Nat /\ c.una \in Nat
    BY <2>1, Bounds DEF ClientRecords
  <2>3. s \in StreamRecords \cup {NoStream} /\ ids \in Nat
    BY Bounds DEF TypeInv, DaemonType
  <2> QED BY <2>1, <2>2, <2>3, KeyTypes
<1>5. \A j \in Keys : j # k => client'[j] = client[j]
  BY <1>2, ClientOpenStep, ClientSendStep, ClientCloseStep, ClientRepeatsStep, ClientAbortsStep
     DEF ClientTyped
<1>6. ASSUME \/ next = seq
             \/ \E p \in PacketsIn : p.key = k /\ next = Append(seq, p),
             ~twice[k] => Up(next, k, out, d, s, fw, ids)
      PROVE  UpAll'
  BY <1>1, <1>5, <1>6, ClientUp
<1>7. ASSUME Onwards(From(seq, k), out, out, c, d, fw, ids), ~twice[k],
             \/ next = seq
             \/ \E p \in PacketsIn : /\ next = Append(seq, p)
                                     /\ ~(p.key = k /\ p.kind \in {"data", "fin"})
      PROVE  Up(next, k, out, d, s, fw, ids)
  <2>1. FinsMade(out, c) \in Nat /\ FinsMade(out, d) \in Nat /\ out \subseteq out
    BY <1>4, FinsMadeOf
  <2> HIDE DEF out, c, d, s, fw, ids, seq, next
  <2> QED BY <1>3, <1>4, <1>7, <2>1, OnwardsUp
<1>8. CASE ClientOpen(k)
  <2>1. PICK p \in PacketsIn : next = Append(seq, p) /\ Opens(c, d, p, k)
    BY <1>8, ClientOpenMoves
  <2>2. ~twice[k] => Up(next, k, out, d, s, fw, ids)
    <3> HIDE DEF out, c, d, s, fw, ids, seq, next, carr, tries
    <3> QED BY <1>3, <1>4, <2>1, OpensUp
  <2> QED BY <1>6, <2>1, <2>2 DEF Opens
<1>9. CASE ClientSend(k)
  <2>1. PICK p \in PacketsIn : next = Append(seq, p) /\ Sends(c, d, p, k)
    BY <1>9, ClientSendMoves
  <2>2. ~twice[k] => Up(next, k, out, d, s, fw, ids)
    <3> HIDE DEF out, c, d, s, fw, ids, seq, next
    <3> QED BY <1>3, <1>4, <2>1, SendsUp
  <2> QED BY <1>6, <2>1, <2>2 DEF Sends
<1>10. CASE ClientClose(k)
  <2>1. PICK p \in PacketsIn : next = Append(seq, p) /\ Closes(c, d, p, k)
    BY <1>10, ClientCloseMoves
  <2>2. ~twice[k] => Up(next, k, out, d, s, fw, ids)
    <3> HIDE DEF out, c, d, s, fw, ids, seq, next
    <3> QED BY <1>3, <1>4, <2>1, ClosesUp
  <2> QED BY <1>6, <2>1, <2>2 DEF Closes
<1>11. CASE ClientRepeats(k)
  <2>1. PICK p \in PacketsIn : /\ next = Append(seq, p) /\ p.key = k
                               /\ p.kind = "syn" \/ Sends(c, c, p, k)
    BY <1>11, ClientRepeatsMoves
  <2>2. d = c
    BY <1>11, ClientRepeatsMoves
  <2>3. ASSUME ~twice[k], p.kind = "syn" PROVE Up(next, k, out, d, s, fw, ids)
    <3>1. FinsMade(out, c) \in 0..2 /\ FinsMade(out, c) <= FinsMade(out, c)
      BY <1>4, FinsMadeOf
    <3>2. Onwards(From(seq, k), out, out, c, d, fw, ids)
      BY <1>3, <1>4, <2>2, <2>3, <3>1 DEF Onwards, Confirms
    <3> QED BY <1>7, <2>1, <2>3, <3>2
  <2>4. ASSUME ~twice[k], Sends(c, d, p, k) PROVE Up(next, k, out, d, s, fw, ids)
    <3> HIDE DEF out, c, d, s, fw, ids, seq, next
    <3> QED BY <1>3, <1>4, <2>1, <2>4, SendsUp
  <2>5. ~twice[k] => Up(next, k, out, d, s, fw, ids)
    BY <2>1, <2>2, <2>3, <2>4
  <2> QED BY <1>6, <2>1, <2>5
<1>12. CASE ClientAborts(k)
  <2>1. /\ d.phase = "closed" /\ d.gen = c.gen /\ d.sent = c.sent /\ d.una = c.una
        /\ \/ next = seq
           \/ \E p \in PacketsIn : next = Append(seq, p) /\ p.key = k /\ p.kind = "ack"
    BY <1>12, ClientAbortsMoves
  <2>2. ASSUME ~twice[k] PROVE Up(next, k, out, d, s, fw, ids)
    <3>1. FinsMade(out, c) \in 0..2 /\ FinsMade(out, d) = 2
      <4>1. FinsMade(out, c) \in 0..2
        BY <1>4, FinsMadeOf
      <4>2. FinsMade(out, d) = 2
        BY <2>1 DEF FinsMade
      <4> QED BY <4>1, <4>2
    <3>2. "closed" \notin Open /\ "closed" \notin Growing
      BY DEF Open, Growing
    <3>3. Onwards(From(seq, k), out, out, c, d, fw, ids)
      <4> HIDE DEF out, c, d, fw, ids, seq
      <4> QED BY <1>3, <2>1, <2>2, <3>1, <3>2 DEF Onwards, Confirms
    <3> QED BY <1>7, <2>1, <2>2, <3>3
  <2> QED BY <1>6, <2>1, <2>2
<1> QED BY <1>2, <1>8, <1>9, <1>10, <1>11, <1>12

(* What the client makes of a packet it receives.                          *)
LEMMA SameOnwards ==
  ASSUME NEW in, NEW out, NEW few, few \subseteq out, NEW c \in ClientRecords,
         NEW fw, NEW ids, Confirms(out, c, fw, ids)
  PROVE  Onwards(in, out, few, c, c, fw, ids)
<1>1. FinsMade(out, c) <= FinsMade(few, c)
  BY FinsMadeOf
<1> QED BY <1>1 DEF Onwards, Confirms

LEMMA OpenedOnwards ==
  ASSUME NEW in, NEW out, NEW few, NEW c \in ClientRecords, NEW d \in ClientRecords,
         NEW fw, NEW ids, NEW s, NEW carr, Orderly(in, c, carr), c.gen \in Nat,
         in \in SUBSET PacketsIn,
         Confirms(out, c, fw, ids), Within(out, c, s), NEW q \in out, q.seq \in Int,
         c.phase = "synSent", q.kind = "synack", q.ack.gen = c.gen,
         d.phase = "established", d.gen = c.gen, d.sent = c.sent, d.una = c.una,
         d.rcv = q.seq + 1
  PROVE  Onwards(in, out, few, c, d, fw, ids)
<1>1. c.sent = 0 /\ d.una <= d.sent /\ (d.una # 0 => Reached(fw, c, ids, d.una))
  BY DEF Within, Confirms
<1>2. d.rcv > Iss
  BY DEF Confirms, Honest, Iss
<1>3. \A p \in in : p.gen = c.gen => p.kind # "fin"
  BY DEF Orderly, Opened
<1>4. FinsMade(out, c) = 0 /\ FinsMade(few, d) = 0
  BY DEF FinsMade
<1> QED BY <1>1, <1>2, <1>3, <1>4 DEF Onwards, Growing

LEMMA ConfirmedOnwards ==
  ASSUME NEW in, NEW out, NEW few, NEW c \in ClientRecords, NEW d \in ClientRecords,
         NEW fw, NEW ids, Confirms(out, c, fw, ids), NEW q \in out, q.ack.off \in Nat,
         q.kind # "synack", q.seq = c.rcv, c.phase \in Open, c.rcv \in Int,
         d.phase \in {c.phase, "closed"}, d.gen = c.gen, d.sent = c.sent,
         d.rcv \in {c.rcv, c.rcv + 1},
         \/ d.una = c.una
         \/ q.ack.gen = c.gen /\ d.una \in Nat /\ d.una <= c.sent /\ d.una <= q.ack.off - 1
  PROVE  Onwards(in, out, few, c, d, fw, ids)
<1>1. d.una <= d.sent
  BY DEF Confirms
<1>2. c.rcv > Iss /\ d.rcv > Iss
  BY DEF Confirms, Iss
<1>3. d.una # 0 => Reached(fw, c, ids, d.una)
  <2>1. CASE d.una = c.una
    BY <2>1 DEF Confirms
  <2>2. CASE q.ack.gen = c.gen /\ d.una \in Nat /\ d.una <= q.ack.off - 1
    <3> DEFINE m == q.ack.off - 1
    <3>1. m \in Int /\ d.una \in Int /\ d.una <= m
      BY <2>2
    <3>2. Reached(fw, c, ids, m)
      BY <1>2, <2>2 DEF Confirms, Honest
    <3> HIDE DEF m
    <3> QED BY <3>1, <3>2, ReachedLess
  <2> QED BY <2>1, <2>2
<1>4. /\ d.phase # "synSent" /\ (d.phase \in Growing => c.phase \in Growing)
      /\ d.phase = "established" => c.phase = "established"
  BY DEF Open, Growing
<1>5. FinsMade(out, c) <= FinsMade(few, d)
  BY DEF FinsMade, Open
<1> QED BY <1>1, <1>2, <1>3, <1>4, <1>5 DEF Onwards

LEMMA ClientReceiveUp ==
  ASSUME TypeInv, TypeInv', LinkAll, UpAll, ClientReceive
  PROVE  UpAll'
<1>1. UNCHANGED <<streams, forwarded, twice, attemptId>>
  BY DEF ClientReceive, daemonVars, historyVars
<1>2. PICK k \in Keys :
        /\ outbound[k] # <<>>
        /\ outbound' = [outbound EXCEPT ![k] = Tail(@)]
        /\ \/ ReceiveSynAck(k, Head(outbound[k]))
           \/ ReceiveSegment(k, Head(outbound[k]))
  BY DEF ClientReceive
<1> DEFINE out == Held(outbound[k])
           few == Held(outbound'[k])
           c == client[k]
           d == client'[k]
           s == streams[k]
           fw == forwarded[k]
           ids == attemptId
           seq == inbound
           next == inbound'
           carr == carried[k]
           q == Head(outbound[k])
<1>3. /\ q \in PacketsOut /\ outbound'[k] = Tail(outbound[k])
      /\ \A j \in Keys : j # k => outbound'[j] = outbound[j]
  BY <1>2, ClientReceiveTakes
<1>4. few \subseteq out /\ q \in out
  <2>1. outbound[k] \in Seq(PacketsOut)
    BY DEF TypeInv, WireType
  <2> QED BY <1>2, <1>3, <2>1, TakenOut
<1> HIDE DEF q
<1>5. \A j \in Keys : j # k => client'[j] = client[j]
  BY <1>2, <1>3, ReceiveSynAckStep, ReceiveSegmentStep DEF ClientTyped, q
<1>6. ~twice[k] =>
        /\ Up(seq, k, out, c, s, fw, ids) /\ Orderly(From(seq, k), c, carr)
        /\ Confirms(out, c, fw, ids) /\ Within(out, c, s)
        /\ From(seq, k) \in SUBSET PacketsIn
  BY KeyIsUp DEF Up
<1>7. /\ c \in ClientRecords /\ d \in ClientRecords /\ c.gen \in Nat /\ c.sent \in Nat
      /\ c.rcv \in Int /\ q.seq \in Int /\ q.ack.off \in Nat
      /\ seq \in Seq(PacketsIn) /\ s \in StreamRecords \cup {NoStream} /\ ids \in Nat
  <2>1. c \in ClientRecords /\ d \in ClientRecords /\ seq \in Seq(PacketsIn)
    BY DEF TypeInv, WireType
  <2>2. c.gen \in Nat /\ c.sent \in Nat /\ c.rcv \in Int
    BY <2>1, Bounds DEF ClientRecords
  <2>3. s \in StreamRecords \cup {NoStream} /\ ids \in Nat
    BY Bounds DEF TypeInv, DaemonType
  <2>4. q.seq \in Int /\ q.ack.off \in Nat
    BY <1>3 DEF PacketsOut, Position
  <2> QED BY <2>1, <2>2, <2>3, <2>4
<1>8. ASSUME ~twice[k] => Onwards(From(seq, k), out, few, c, d, fw, ids),
             \/ next = seq
             \/ \E p \in PacketsIn : /\ next = Append(seq, p) /\ p.key = k
                                     /\ p.kind \in {"ack", "rst"}
      PROVE  UpAll'
  <2>1. FinsMade(out, c) \in Nat /\ FinsMade(few, d) \in Nat
    BY <1>7, FinsMadeOf
  <2>2. \/ next = seq
        \/ \E p \in PacketsIn : /\ next = Append(seq, p)
                                /\ ~(p.key = k /\ p.kind \in {"data", "fin"})
    BY <1>8
  <2>3. ~twice[k] => Up(next, k, few, d, s, fw, ids)
    <3> HIDE DEF out, few, c, d, s, fw, ids, seq, next
    <3> QED BY <1>4, <1>6, <1>7, <1>8, <2>1, <2>2, OnwardsUp
  <2>4. \/ next = seq
        \/ \E p \in PacketsIn : p.key = k /\ next = Append(seq, p)
    BY <1>8
  <2> QED BY <1>1, <1>3, <1>5, <2>3, <2>4, ClientUp
<1>9. ~twice[k] => Onwards(From(seq, k), out, few, c, c, fw, ids)
  <2> HIDE DEF out, few, c, fw, ids, seq
  <2> QED BY <1>4, <1>6, <1>7, SameOnwards
<1>10. CASE ReceiveSynAck(k, q)
  <2>1. \/ d = c /\ next = seq
        \/ /\ d = c
           /\ \E p \in PacketsIn : next = Append(seq, p) /\ p.key = k /\ p.kind = "rst"
        \/ /\ c.phase = "synSent" /\ q.kind = "synack" /\ q.ack.gen = c.gen
           /\ d.phase = "established" /\ d.gen = c.gen /\ d.sent = c.sent /\ d.una = c.una
           /\ d.rcv = q.seq + 1
           /\ \E p \in PacketsIn : next = Append(seq, p) /\ p.key = k /\ p.kind = "ack"
    BY <1>3, <1>10, ReceiveSynAckMoves
  <2>2. ~twice[k] => Onwards(From(seq, k), out, few, c, d, fw, ids)
    <3>1. CASE d = c
      BY <1>9, <3>1
    <3>2. CASE d # c
      <4> HIDE DEF out, few, c, d, s, fw, ids, seq, next, carr
      <4> QED BY <1>4, <1>6, <1>7, <2>1, <3>2, OpenedOnwards
    <3> QED BY <3>1, <3>2
  <2>3. \/ next = seq
        \/ \E p \in PacketsIn : /\ next = Append(seq, p) /\ p.key = k
                                /\ p.kind \in {"ack", "rst"}
    BY <2>1
  <2> QED BY <1>8, <2>2, <2>3
<1>11. CASE ReceiveSegment(k, q)
  <2>1. \/ d = c
        \/ /\ q.kind # "synack" /\ q.seq = c.rcv /\ c.phase \in Open
           /\ d.phase \in {c.phase, "closed"} /\ d.gen = c.gen /\ d.sent = c.sent
           /\ d.rcv \in {c.rcv, c.rcv + 1}
           /\ \/ d.una = c.una
              \/ /\ q.ack.gen = c.gen /\ d.una \in Nat
                 /\ d.una <= c.sent /\ d.una <= q.ack.off - 1
    BY <1>3, <1>11, ReceiveSegmentMoves
  <2>2. ~twice[k] => Onwards(From(seq, k), out, few, c, d, fw, ids)
    <3>1. CASE d = c
      BY <1>9, <3>1
    <3>2. CASE d # c
      <4> HIDE DEF out, few, c, d, s, fw, ids, seq, next, carr
      <4> QED BY <1>4, <1>6, <1>7, <2>1, <3>2, ConfirmedOnwards
    <3> QED BY <3>1, <3>2
  <2>3. next = seq
    BY <1>11 DEF ReceiveSegment
  <2> QED BY <1>8, <2>2, <2>3
<1> QED BY <1>2, <1>10, <1>11 DEF q

LEMMA UpInit == Init => UpAll
<1> SUFFICES ASSUME Init, NEW k \in Keys PROVE UpInv(k)
  BY DEF UpAll
<1>1. /\ inbound = <<>> /\ outbound[k] = <<>> /\ streams[k] = NoStream
      /\ client[k].phase = "closed" /\ client[k].sent = 0 /\ client[k].una = 0
  BY DEF Init
<1> DEFINE c == client[k]
           s == streams[k]
<1>2. Held(outbound[k]) = {} /\ From(inbound, k) = {} /\ FinsOf(inbound, k) = {}
  BY <1>1 DEF Held, From, FinsOf
<1>3. ~Serves(s, c) /\ ~Holds(s) /\ Used(s) = 0
  BY <1>1 DEF Serves, Holds, Used
<1>4. c.phase \notin Open /\ c.phase \notin Growing /\ c.phase # "synSent"
  BY <1>1 DEF Open, Growing
<1>5. Confirms({}, c, forwarded[k], attemptId) /\ Within({}, c, s) /\ Units({}, c)
  BY <1>1, <1>4 DEF Confirms, Within, Units
<1>6. Feeds(c, s, forwarded[k]) /\ InLine(inbound, k, c, s, forwarded[k])
  BY <1>3 DEF Feeds, InLine
<1>7. Spent(inbound, k, {}, c, s)
  <2>1. FinsMade({}, c) = 2
    BY <1>1 DEF FinsMade
  <2> QED BY <1>2, <1>3, <2>1, FS_EmptySet DEF Spent
<1> QED BY <1>2, <1>5, <1>6, <1>7 DEF UpInv, Up

LEMMA UpNext ==
  ASSUME "sendBlocks" \notin PpFaults
  PROVE  TypeInv /\ TypeInv' /\ TableInv /\ LinkAll /\ UpAll /\ [Next]_vars => UpAll'
<1> SUFFICES ASSUME TypeInv, TypeInv', TableInv, LinkAll, UpAll, [Next]_vars PROVE UpAll'
  OBVIOUS
<1>1. CASE Handle
  BY <1>1, HandleSynUp, HandleAckUp, HandleDataUp, HandleFinUp DEF Handle
<1>2. CASE Connect
  BY <1>2, ConnectFailedUp, ConnectedUp DEF Connect
<1>3. CASE ResponseLoop
  BY <1>3, ReadSocketsUp, RespondUp, EndSendingUp, CleanupUp DEF ResponseLoop
<1>4. CASE \E k \in Keys : Idle(k)
  BY <1>4, IdleUp
<1>5. CASE ClientSteps
  BY <1>5, ClientStepsUp
<1>6. CASE ClientReceive
  BY <1>6, ClientReceiveUp
<1>7. CASE UNCHANGED vars
  BY <1>7 DEF vars, daemonVars, historyVars, UpAll, UpInv
<1> QED BY <1>1, <1>2, <1>3, <1>4, <1>5, <1>6, <1>7 DEF Next

(* What a client believes acknowledged was sent on, all of it on one SOCKS *)
(* connection, although data is acknowledged before it is sent, by streams *)
(* that hold no socket too, and streams are erased under the client; as    *)
(* long as its connection does not ask for a second socket, and provided   *)
(* no send of the daemon would block: its result is ignored, so data that  *)
(* did not fit the socket's buffer is acknowledged and lost                *)
(* (packet_processor.cpp:240-249,289-315).                                 *)
THEOREM AckedIsForwardedHolds ==
  ASSUME "sendBlocks" \notin PpFaults
  PROVE  Spec => []AckedIsForwarded
<1>1. TypeInv /\ TypeInv' /\ TableInv /\ LinkAll /\ UpAll /\ [Next]_vars => UpAll'
  BY UpNext
<1>2. TypeInv /\ UpAll => AckedIsForwarded
  <2> SUFFICES ASSUME TypeInv, UpAll, NEW k \in Keys, ~twice[k], client[k].una # 0
               PROVE  \E id \in 1..attemptId : \A n \in 1..client[k].una :
                        <<client[k].gen, n, id>> \in forwarded[k]
    BY DEF AckedIsForwarded
  <2> DEFINE c == client[k]
  <2>1. /\ c.una <= c.sent /\ Reached(forwarded[k], c, attemptId, c.una)
        /\ c.una \in Nat /\ c.sent \in Nat
    BY DEF UpAll, UpInv, Up, Confirms, TypeInv, WireType, ClientRecords
  <2>2. \A n \in 1..c.una : n \in 1..c.sent /\ n <= c.una
    BY <2>1
  <2> QED BY <2>1, <2>2 DEF Reached, Passed
<1> QED BY <1>1, <1>2, UpInit, LinkHolds, PTL DEF Spec
=============================================================================
