-------------------------- MODULE TorControlProofs --------------------------
(***************************************************************************)
(* The daemon on Tor's control port: however a reply is cut into pieces,   *)
(* and whatever failed before, it is taken for the answer to the command   *)
(* it answers, and what the daemon then reports of Tor is true.            *)
(*                                                                         *)
(* ChannelInv says that the pieces on the way and those put together are   *)
(* those of one reply, whose end alone send() takes for an end; TruthInv   *)
(* what an answer that is on the way says of Tor.                          *)
(***************************************************************************)
EXTENDS TorControl, SequenceTheorems, TLAPS

PieceRecords == [to : Commands, end : {"more", "ok", "error", "odd"},
                 value : SUBSET (Countries \cup {"100"})]

(* The command each place asks.                                            *)
CmdAt == [authenticate |-> "AUTHENTICATE", bootstrap |-> "bootstrap", exits |-> "ns",
          codes |-> "ns", cities |-> "ns", change |-> "ExitNodes",
          strict |-> "StrictNodes", newnym |-> "NEWNYM"]

(* What is left of one reply: a line that ends it, before it at most one   *)
(* that does not.                                                          *)
OneReply ==
  /\ Len(wire) <= 2 /\ Len(response) <= 1 /\ Len(wire) + Len(response) <= 2
  /\ \A i \in DOMAIN response : response[i].end \in {"more", "odd"}
  /\ wire # <<>> => wire[Len(wire)].end \in {"ok", "error", "odd"}
  /\ Len(wire) = 2 => wire[1].end = "more" /\ wire[2].end = "ok"
  /\ wire # <<>> /\ response # <<>> => response[1].end = "more" /\ wire[1].end = "ok"
  /\ \A p \in Pieces : p.to = asking.cmd

Typed == wire \in Seq(PieceRecords) /\ response \in Seq(PieceRecords) /\ Len(response) <= 2

Waiting ==
  /\ at \in DOMAIN CmdAt /\ asking.cmd = CmdAt[at]
  /\ at = "change" => asking.arg \in Countries
  /\ OneReply
  /\ request # Nothing => request = asking /\ wire = <<>> /\ response = <<>>

ChannelInv ==
  /\ Typed
  /\ at \in {"connect", "serving"} => asking = Nothing
  /\ at = "change" => asking # Nothing
  /\ asking = Nothing => wire = <<>> /\ request = Nothing
  /\ asking # Nothing => Waiting
  /\ request # Nothing => sock \in {"open", "authed"}

Answered == \E p \in Pieces : p.end = "ok"

(* A finished bootstrap that is on the way is true, and an answer to       *)
(* change_city's first command says that Tor has made the change.          *)
TruthInv ==
  /\ WaitedMeansBooted
  /\ \A p \in Pieces : p.to = "bootstrap" /\ "100" \in p.value => booted
  /\ torAt # "gone" =>
       IF at = "change" /\ Answered THEN exitNodes = asking.arg ELSE chosen = exitNodes

TcInv == TcTypeOK /\ ChannelInv /\ TruthInv

LEMMA PiecesDo ==
  ASSUME Typed
  PROVE  /\ Pieces \subseteq PieceRecords
         /\ Len(wire) \in Nat /\ Len(response) \in Nat
         /\ DOMAIN wire = 1..Len(wire) /\ DOMAIN response = 1..Len(response)
         /\ \A i \in 1..Len(wire) : wire[i] \in PieceRecords /\ wire[i] \in Pieces
         /\ \A i \in 1..Len(response) : response[i] \in PieceRecords /\ response[i] \in Pieces
         /\ wire # <<>> <=> Len(wire) >= 1
         /\ response # <<>> <=> Len(response) >= 1
BY LenProperties, ElementOfSeq, EmptySeq DEF Typed, Pieces

(* One recv: the pieces are those that were there, in their order, and the *)
(* reply is complete exactly when none of them is left on the connection.  *)
LEMMA ReceiveDoes ==
  ASSUME TcInv, Receive
  PROVE  /\ Typed' /\ Pieces' \subseteq Pieces /\ response' # <<>> /\ request = Nothing
         /\ response'[1] \in Pieces
         /\ \/ /\ Complete(response') /\ wire' = <<>> /\ Continue(response')
               /\ Succeeded(response') <=> Answered
            \/ /\ ~Complete(response') /\ UNCHANGED <<asking, at, userVars>>
               /\ OneReply' /\ (Answered' <=> Answered)
<1> USE DEF TcInv, ChannelInv, Waiting
<1>1. PICK n \in 1..Len(wire) : /\ wire' = SubSeq(wire, n + 1, Len(wire))
                               /\ response' = response \o SubSeq(wire, 1, n)
  BY DEF Receive
<1>2. /\ Typed /\ asking # Nothing /\ wire # <<>> /\ OneReply /\ request = Nothing
      /\ UNCHANGED request
  BY DEF Receive
<1>3. /\ Len(wire) \in {1, 2} /\ Len(response) \in {0, 1} /\ n \in {1, 2}
      /\ Len(wire) + Len(response) <= 2 /\ n <= Len(wire)
      /\ wire \in Seq(PieceRecords) /\ response \in Seq(PieceRecords)
  BY <1>1, <1>2, PiecesDo DEF OneReply, Typed
<1>4. /\ wire' \in Seq(PieceRecords)
      /\ Len(wire') = Len(wire) - n
      /\ \A i \in 1..(Len(wire) - n) : wire'[i] = wire[n + i]
  <2>1. \A i \in (n + 1)..Len(wire) : wire[i] \in PieceRecords
    BY <1>3, PiecesDo DEF Typed
  <2> QED
    BY <1>1, <1>3, <2>1, SubSeqProperties
<1>5. /\ SubSeq(wire, 1, n) \in Seq(PieceRecords)
      /\ Len(SubSeq(wire, 1, n)) = n
      /\ \A i \in 1..n : SubSeq(wire, 1, n)[i] = wire[i]
  <2>1. \A i \in 1..n : wire[i] \in PieceRecords
    BY <1>3, PiecesDo DEF Typed
  <2> QED
    BY <1>3, <2>1, SubSeqProperties
<1>6. /\ response' \in Seq(PieceRecords)
      /\ Len(response') = Len(response) + n
      /\ \A i \in 1..(Len(response) + n) :
           response'[i] = IF i <= Len(response) THEN response[i] ELSE wire[i - Len(response)]
  <2>1. /\ response \o SubSeq(wire, 1, n) \in Seq(PieceRecords)
        /\ Len(response \o SubSeq(wire, 1, n)) = Len(response) + n
        /\ \A i \in 1..(Len(response) + n) : (response \o SubSeq(wire, 1, n))[i] =
             IF i <= Len(response) THEN response[i] ELSE SubSeq(wire, 1, n)[i - Len(response)]
    BY <1>3, <1>5, ConcatProperties
  <2>2. \A i \in 1..(Len(response) + n) : i > Len(response) => i - Len(response) \in 1..n
    BY <1>3
  <2> QED
    BY <1>1, <1>3, <1>5, <2>1, <2>2
<1>7. Typed' /\ response' # <<>> /\ (wire' = <<>> <=> n = Len(wire))
  <2>1. Len(response') <= 2 /\ Len(response') # 0
    BY <1>3, <1>6
  <2>2. response' # <<>> /\ (wire' = <<>> <=> Len(wire') = 0)
    <3>1. ASSUME NEW s \in Seq(PieceRecords) PROVE s = <<>> <=> Len(s) = 0
      BY EmptySeq
    <3> QED
      BY <1>4, <1>6, <2>1, <3>1
  <2>3. wire' = <<>> <=> n = Len(wire)
    BY <1>3, <1>4, <2>2
  <2> QED
    BY <1>4, <1>6, <2>1, <2>2, <2>3 DEF Typed
<1>8. Pieces' \subseteq Pieces
  <2>1. \A i \in DOMAIN wire' : wire'[i] \in Pieces
    <3>1. DOMAIN wire' = 1..(Len(wire) - n)
      BY <1>4, LenProperties
    <3>2. \A i \in 1..(Len(wire) - n) : n + i \in 1..Len(wire)
      BY <1>3
    <3> QED
      BY <1>2, <1>4, <3>1, <3>2, PiecesDo
  <2>2. \A i \in DOMAIN response' : response'[i] \in Pieces
    <3>1. DOMAIN response' = 1..(Len(response) + n)
      BY <1>6, LenProperties
    <3>2. \A i \in 1..(Len(response) + n) :
            IF i <= Len(response) THEN i \in 1..Len(response)
            ELSE i - Len(response) \in 1..Len(wire)
      BY <1>3
    <3> QED
      BY <1>2, <1>6, <3>1, <3>2, PiecesDo
  <2> QED
    BY <2>1, <2>2 DEF Pieces
<1>9. response'[1] \in Pieces
  BY <1>2, <1>3, <1>6, PiecesDo
<1>10. Answered <=> wire[Len(wire)].end = "ok"
  <2>1. \A i \in 1..Len(response) : response[i].end # "ok"
    BY <1>2, PiecesDo DEF OneReply
  <2>2. \A i \in 1..Len(wire) : wire[i].end = "ok" => i = Len(wire)
    BY <1>2, <1>3 DEF OneReply
  <2>3. wire[Len(wire)] \in Pieces
    BY <1>2, <1>3, PiecesDo
  <2> QED
    BY <1>2, <2>1, <2>2, <2>3, PiecesDo DEF Answered, Pieces
<1>11. Complete(response') => Continue(response')
  BY DEF Receive
<1>12. ~Complete(response') => UNCHANGED <<asking, at, userVars>>
  BY DEF Receive
<1>13. CASE n = Len(wire) /\ ~(response = <<>> /\ wire[Len(wire)].end = "odd")
  <2>1. response'[Len(response')] = wire[Len(wire)]
    BY <1>3, <1>6, <1>13
  <2>2. Complete(response')
    <3>1. CASE wire[Len(wire)].end = "ok"
      BY <1>7, <2>1, <3>1 DEF Complete
    <3>2. CASE wire[Len(wire)].end # "ok"
      <4>1. Len(wire) = 1 /\ response = <<>> /\ wire[1].end = "error"
        BY <1>2, <1>3, <1>13, <3>2 DEF OneReply
      <4>2. response'[1].end = "error"
        BY <1>6, <1>13, <4>1, EmptySeq
      <4> QED
        BY <1>7, <4>2 DEF Complete
    <3> QED
      BY <3>1, <3>2
  <2>3. Succeeded(response') <=> Answered
    BY <1>7, <1>10, <2>1 DEF Succeeded
  <2> QED
    BY <1>2, <1>7, <1>8, <1>9, <1>11, <1>13, <2>2, <2>3
<1>14. CASE n = Len(wire) /\ response = <<>> /\ wire[Len(wire)].end = "odd"
  <2>1. Len(wire) = 1 /\ Len(response) = 0
    BY <1>2, <1>3, <1>14, EmptySeq DEF OneReply
  <2>2. Len(response') = 1 /\ response'[1] = wire[1] /\ wire' = <<>> /\ Len(wire') = 0
    BY <1>4, <1>6, <1>7, <1>14, <2>1
  <2>3. ~Complete(response')
    BY <1>14, <2>1, <2>2 DEF Complete
  <2>4. ~Answered /\ ~Answered'
    BY <1>8, <1>10, <1>14 DEF Answered
  <2>5. OneReply'
    <3>1. DOMAIN response' = {1}
      BY <1>7, <2>2, LenProperties DEF Typed
    <3>2. \A p \in Pieces' : p.to = asking'.cmd
      BY <1>2, <1>8, <1>12, <2>3 DEF OneReply
    <3> QED
      BY <1>14, <2>1, <2>2, <3>1, <3>2 DEF OneReply
  <2> QED
    BY <1>2, <1>7, <1>8, <1>9, <1>12, <2>3, <2>4, <2>5
<1>15. CASE n # Len(wire)
  <2>1. Len(wire) = 2 /\ n = 1 /\ Len(response) = 0
    <3> DEFINE k == Len(wire)
               r == Len(response)
    <3>1. k \in {1, 2} /\ n \in {1, 2} /\ n <= k /\ n # k /\ r \in {0, 1} /\ k + r <= 2
      BY <1>3, <1>15
    <3> HIDE DEF k, r
    <3>2. k = 2 /\ n = 1 /\ r = 0
      BY <3>1
    <3> QED
      BY <3>2 DEF k, r
  <2>2. /\ Len(response') = 1 /\ response'[1] = wire[1] /\ response'[1].end = "more"
        /\ Len(wire') = 1 /\ wire'[1] = wire[2] /\ wire'[1].end = "ok"
    BY <1>2, <1>4, <1>6, <2>1 DEF OneReply
  <2>3. ~Complete(response')
    BY <2>2 DEF Complete
  <2>4. DOMAIN response' = {1} /\ DOMAIN wire' = {1}
    BY <1>7, <2>2, LenProperties DEF Typed
  <2>5. Answered /\ Answered'
    BY <1>2, <1>10, <2>1, <2>2, <2>4 DEF OneReply, Answered, Pieces
  <2>6. OneReply'
    <3>1. \A p \in Pieces' : p.to = asking'.cmd
      BY <1>2, <1>8, <1>12, <2>3 DEF OneReply
    <3> QED
      BY <2>2, <2>4, <3>1 DEF OneReply
  <2> QED
    BY <1>2, <1>7, <1>8, <1>9, <1>12, <2>3, <2>5, <2>6
<1> QED
  BY <1>13, <1>14, <1>15

-----------------------------------------------------------------------------
LEMMA NothingIsRequest ==
  /\ Nothing \in Requests
  /\ \A r \in Requests : r.cmd \in Commands => r # Nothing
BY DEF Nothing, Requests, Commands

(* The types of what a step of the channel leaves.                         *)
LEMMA TypedLens ==
  ASSUME Typed, wire = <<>> \/ OneReply
  PROVE  /\ {Len(wire), Len(response)} \subseteq 0..2
         /\ \A p \in Pieces : p.to \in Commands /\ p.end \in {"more", "ok", "error", "odd"}
<1>1. \A p \in Pieces : p.to \in Commands /\ p.end \in {"more", "ok", "error", "odd"}
  BY PiecesDo DEF PieceRecords
<1>2. Len(wire) \in 0..2
  BY PiecesDo, EmptySeq DEF OneReply
<1>3. Len(response) \in 0..2
  BY PiecesDo DEF Typed
<1> QED
  BY <1>1, <1>2, <1>3

Rest == /\ torAt \in {"starting", "listening", "gone"} /\ cookie \in {"none", "stale", "fresh"}
        /\ {booted, late, waited} \subseteq BOOLEAN
        /\ {consensus, codes} \subseteq SUBSET Countries
        /\ {exitNodes, chosen} \subseteq Countries \cup {NoCountry}
        /\ sock \in {"none", "unconnected", "open", "authed", "closed"} /\ at \in Places
        /\ {request, asking} \subseteq Requests

LEMMA TypeOf == Rest /\ Typed /\ (wire = <<>> \/ OneReply) => TcTypeOK
BY TypedLens DEF Rest, TcTypeOK

LEMMA TypeOfNext == (Rest /\ Typed /\ (wire = <<>> \/ OneReply) => TcTypeOK)'
BY TypeOf, PTL

LEMMA RestOf == TcInv => Rest /\ Typed /\ (wire = <<>> \/ OneReply)
BY DEF TcInv, TcTypeOK, Rest, ChannelInv, Waiting

LEMMA NoPieces ==
  wire = <<>> /\ response = <<>> =>
    /\ Pieces = {} /\ Len(wire) = 0 /\ Len(response) = 0
    /\ DOMAIN wire = {} /\ DOMAIN response = {}
<1>1. wire = <<>> /\ response = <<>> =>
        DOMAIN wire = {} /\ DOMAIN response = {} /\ Len(wire) = 0 /\ Len(response) = 0
  OBVIOUS
<1> QED
  BY <1>1 DEF Pieces

LEMMA NoPiecesNext ==
  (wire = <<>> /\ response = <<>> =>
     /\ Pieces = {} /\ Len(wire) = 0 /\ Len(response) = 0
     /\ DOMAIN wire = {} /\ DOMAIN response = {})'
BY NoPieces, PTL

LEMMA TcInitInv == TcInit => TcInv
<1> SUFFICES ASSUME TcInit PROVE TcInv
  OBVIOUS
<1>1. wire = <<>> /\ response = <<>> /\ asking = Nothing /\ request = Nothing
  BY DEF TcInit
<1>2. Typed
  BY <1>1, EmptySeq DEF Typed
<1>3. Rest
  BY <1>1, NothingIsRequest DEF TcInit, Rest, Places
<1>4. ChannelInv
  BY <1>1, <1>2 DEF TcInit, ChannelInv
<1>5. TruthInv
  BY <1>1, NoPieces DEF TcInit, TruthInv, WaitedMeansBooted, Answered
<1> QED
  BY <1>1, <1>2, <1>3, <1>4, <1>5, TypeOf DEF TcInv

(* When send() returns, what the daemon makes of the reply is true of Tor, *)
(* and nothing of the reply is left.                                       *)
LEMMA ContinueKeeps ==
  ASSUME TcInv, asking # Nothing, NEW r, Continue(r), Typed',
         r # <<>> => r[1] \in Pieces, Succeeded(r) <=> Answered,
         UNCHANGED <<torVars, sock, request, late>>, request = Nothing, wire' = <<>>,
         Pieces' \subseteq Pieces
  PROVE  TcInv'
<1> USE DEF torVars, userVars
<1>1. Rest /\ Waiting /\ TruthInv
  BY RestOf DEF TcInv, ChannelInv
<1>2. at \in DOMAIN CmdAt /\ asking.cmd = CmdAt[at]
  BY <1>1 DEF Waiting
<1>3. asking' = Nothing
  BY DEF Continue
<1>4. /\ at' \in {"bootstrap", "exits", "codes", "serving", "strict", "newnym"}
      /\ waited' \in BOOLEAN /\ (waited' => booted)
      /\ codes' \in SUBSET Countries
      /\ chosen' \in Countries \cup {NoCountry}
      /\ torAt # "gone" => chosen' = exitNodes
  <2> USE DEF Goes, Rest
  <2>1. CASE at = "authenticate"
    BY <1>1, <2>1 DEF Continue, TruthInv, WaitedMeansBooted
  <2>2. CASE at = "bootstrap"
    <3>1. BootstrapReply(r)
      BY <2>2 DEF Continue
    <3>2. asking.cmd = "bootstrap"
      BY <1>2, <2>2 DEF CmdAt
    <3>3. r # <<>> /\ "100" \in r[1].value => booted
      BY <1>1, <3>2 DEF Waiting, OneReply, TruthInv
    <3> QED
      BY <1>1, <2>2, <3>1, <3>3 DEF BootstrapReply, TruthInv
  <2>3. CASE at \in {"exits", "codes", "cities"}
    <3>1. NsReply(r)
      BY <2>3 DEF Continue
    <3>2. CountriesIn(r) \in SUBSET Countries
      BY DEF CountriesIn
    <3> QED
      BY <1>1, <2>3, <3>1, <3>2 DEF NsReply, TruthInv, WaitedMeansBooted
  <2>4. CASE at \in {"change", "strict", "newnym"}
    <3>1. ChangeReply(r)
      BY <2>4 DEF Continue
    <3>2. at = "change" => asking.arg \in Countries
      BY <1>1 DEF Waiting
    <3>3. CASE at = "change" /\ Answered
      BY <1>1, <3>1, <3>2, <3>3 DEF ChangeReply, TruthInv, WaitedMeansBooted
    <3>4. CASE ~(at = "change" /\ Answered)
      BY <1>1, <2>4, <3>1, <3>4 DEF ChangeReply, TruthInv, WaitedMeansBooted
    <3> QED
      BY <3>3, <3>4
  <2> QED
    BY <1>2, <2>1, <2>2, <2>3, <2>4 DEF CmdAt
<1>5. Rest'
  BY <1>1, <1>3, <1>4, NothingIsRequest DEF Rest, Places
<1>6. ChannelInv'
  BY <1>3, <1>4 DEF ChannelInv
<1>7. TruthInv'
  <2>1. \A p \in Pieces' : p.to = "bootstrap" /\ "100" \in p.value => booted
    BY <1>1 DEF TruthInv
  <2>2. at' # "change" /\ UNCHANGED <<booted, torAt, exitNodes>>
    BY <1>4
  <2>3. waited' => booted
    BY <1>4
  <2>4. torAt # "gone" => chosen' = exitNodes
    BY <1>4
  <2> QED
    BY <2>1, <2>2, <2>3, <2>4 DEF TruthInv, WaitedMeansBooted
<1> QED
  BY <1>5, <1>6, <1>7, TypeOfNext DEF TcInv

LEMMA ReceiveKeeps == TcInv /\ Receive => TcInv'
<1> SUFFICES ASSUME TcInv, Receive PROVE TcInv'
  OBVIOUS
<1>1. asking # Nothing /\ UNCHANGED <<torVars, sock, request, late>>
  BY DEF Receive
<1>2. CASE Complete(response')
  BY <1>1, <1>2, ReceiveDoes, ContinueKeeps
<1>3. CASE ~Complete(response')
  <2>1. /\ UNCHANGED <<asking, at, userVars>> /\ OneReply' /\ (Answered' <=> Answered)
        /\ Typed' /\ Pieces' \subseteq Pieces /\ request = Nothing
    BY <1>3, ReceiveDoes
  <2>2. Rest'
    BY <1>1, <2>1, RestOf DEF Rest, torVars, userVars
  <2>3. ChannelInv'
    BY <1>1, <2>1 DEF TcInv, ChannelInv, Waiting
  <2>4. TruthInv'
    BY <1>1, <2>1 DEF TcInv, TruthInv, WaitedMeansBooted, torVars, userVars
  <2> QED
    BY <2>1, <2>2, <2>3, <2>4, TypeOfNext DEF TcInv
<1> QED
  BY <1>2, <1>3

LEMMA ReceiveNothingKeeps == TcInv /\ ReceiveNothing => TcInv'
<1> SUFFICES ASSUME TcInv, ReceiveNothing PROVE TcInv'
  OBVIOUS
<1>1. /\ asking # Nothing /\ UNCHANGED <<torVars, sock, request, wire, response, late>>
      /\ Continue(<<>>) /\ wire = <<>>
  BY DEF ReceiveNothing
<1>2. Typed /\ Waiting /\ request = Nothing
  BY DEF TcInv, ChannelInv, ReceiveNothing
<1>3. Typed' /\ Pieces' = Pieces /\ wire' = <<>>
  BY <1>1, <1>2 DEF Typed, Pieces
<1>4. ~Answered
  BY <1>1, <1>2, PiecesDo, EmptySeq DEF Waiting, OneReply, Answered, Pieces
<1>5. ~Succeeded(<<>>)
  BY DEF Succeeded
<1> QED
  BY <1>1, <1>2, <1>3, <1>4, <1>5, ContinueKeeps

(* A command is sent into a channel that is empty.                         *)
LEMMA SendKeeps ==
  ASSUME TcInv, NEW r \in Requests, Send(r), at' \in DOMAIN CmdAt, r.cmd = CmdAt[at'],
         at' = "change" => r.arg \in Countries, UNCHANGED <<torVars, late, userVars>>
  PROVE  TcInv'
<1> USE DEF torVars, userVars
<1>1. /\ asking = Nothing /\ asking' = r /\ response' = <<>> /\ wire' = <<>>
      /\ request' \in {r, Nothing} /\ (request' # Nothing => sock \in {"open", "authed"})
      /\ UNCHANGED sock /\ at # "change"
  BY DEF Send, TcInv, ChannelInv
<1>2. r # Nothing
  BY NothingIsRequest DEF CmdAt, Commands
<1>3. Typed'
  BY <1>1, NoPiecesNext, EmptySeq DEF Typed
<1>4. Rest'
  BY <1>1, RestOf, NothingIsRequest DEF Rest, CmdAt, Places
<1>5. Waiting'
  BY <1>1, NoPiecesNext DEF Waiting, OneReply
<1>6. ChannelInv'
  BY <1>1, <1>2, <1>3, <1>5 DEF ChannelInv, CmdAt
<1>7. TruthInv'
  BY <1>1, NoPiecesNext DEF TcInv, TruthInv, WaitedMeansBooted, Answered
<1> QED
  BY <1>1, <1>3, <1>4, <1>6, <1>7, TypeOfNext DEF TcInv

LEMMA AskKeeps == TcInv /\ Ask => TcInv'
<1> SUFFICES ASSUME TcInv, Ask PROVE TcInv'
  OBVIOUS
<1>1. /\ at \in DOMAIN Asks /\ Send(Asks[at]) /\ UNCHANGED <<torVars, at, late, userVars>>
  BY DEF Ask
<1>2. Asks[at] \in Requests /\ at \in DOMAIN CmdAt /\ Asks[at].cmd = CmdAt[at] /\ at # "change"
  BY <1>1, RestOf DEF Asks, Cmd, Requests, Commands, CmdAt, Rest
<1> QED
  BY <1>1, <1>2, SendKeeps

LEMMA ChangeCityKeeps == TcInv /\ ChangeCity => TcInv'
<1> SUFFICES ASSUME TcInv, ChangeCity PROVE TcInv'
  OBVIOUS
<1>1. PICK country \in codes : Send([cmd |-> "ExitNodes", arg |-> country])
  BY DEF ChangeCity
<1>2. country \in Countries /\ [cmd |-> "ExitNodes", arg |-> country] \in Requests
  BY RestOf DEF Rest, Requests, Commands
<1> QED
  BY <1>1, <1>2, SendKeeps DEF ChangeCity, CmdAt

(* The steps of the daemon that ask nothing.                               *)
LEMMA PlaceKeeps ==
  TcInv /\ (Connect \/ GiveUp \/ Deadline \/ GetCities) => TcInv'
<1> SUFFICES ASSUME TcInv, Connect \/ GiveUp \/ Deadline \/ GetCities PROVE TcInv'
  OBVIOUS
<1> USE DEF torVars, userVars, chanVars
<1>1. /\ UNCHANGED <<torVars, userVars, request, asking, wire, response>>
      /\ \/ asking = Nothing /\ at' \in {"authenticate", "exits", "cities"}
         \/ UNCHANGED at
      /\ sock' = sock \/ asking = Nothing
      /\ at # "change" \/ UNCHANGED at
  BY DEF TcInv, ChannelInv, Connect, GiveUp, Deadline, GetCities
<1>2. Rest'
  BY <1>1, RestOf DEF Rest, Connect, GiveUp, Deadline, GetCities, Places
<1>3. Typed' /\ (wire' = <<>> \/ OneReply')
  BY <1>1, RestOf DEF Typed, OneReply, Pieces
<1>4. ChannelInv'
  BY <1>1, <1>3 DEF TcInv, ChannelInv, Waiting, OneReply, Pieces
<1>5. TruthInv'
  BY <1>1 DEF TcInv, TruthInv, WaitedMeansBooted, Pieces, Answered
<1> QED
  BY <1>2, <1>3, <1>4, <1>5, TypeOfNext DEF TcInv

-----------------------------------------------------------------------------
(* Tor.                                                                    *)

TorLeaves == UNCHANGED <<asking, response, at, late, userVars>>

LEMMA TorChangesKeeps ==
  ASSUME TcInv, Listens \/ WritesCookie \/ Learns \/ Boots, TorLeaves
  PROVE  TcInv'
<1> USE DEF TorLeaves, userVars
<1>1. /\ UNCHANGED <<userVars, request, asking, wire, response, sock, exitNodes, at>>
      /\ booted => booted'
      /\ torAt' # "gone" => torAt # "gone"
  BY RestOf DEF Rest, Listens, WritesCookie, Learns, Boots
<1>2. Rest'
  BY <1>1, RestOf DEF Rest, Listens, WritesCookie, Learns, Boots
<1>3. Typed' /\ (wire' = <<>> \/ OneReply')
  BY <1>1, RestOf DEF Typed, OneReply, Pieces
<1>4. ChannelInv'
  BY <1>1, <1>3 DEF TcInv, ChannelInv, Waiting, OneReply, Pieces
<1>5. TruthInv'
  BY <1>1 DEF TcInv, TruthInv, WaitedMeansBooted, Pieces, Answered
<1> QED
  BY <1>2, <1>3, <1>4, <1>5, TypeOfNext DEF TcInv

(* A command that Tor has not answered is the one that is asked, and       *)
(* nothing of an answer is there yet.                                      *)
LEMMA RequestDo ==
  ASSUME TcInv, request # Nothing
  PROVE  /\ asking # Nothing /\ request = asking /\ wire = <<>> /\ response = <<>>
         /\ at \in DOMAIN CmdAt /\ asking.cmd = CmdAt[at] /\ asking.cmd \in Commands
         /\ at = "change" => asking.arg \in Countries
         /\ at = "change" <=> asking.cmd = "ExitNodes"
         /\ sock \in {"open", "authed"}
<1>1. asking # Nothing /\ Waiting
  BY DEF TcInv, ChannelInv
<1> QED
  BY <1>1 DEF TcInv, ChannelInv, Waiting, CmdAt, Commands

LEMMA ReplyDo ==
  ASSUME TcInv, request # Nothing
  PROVE  /\ Reply \in Seq(PieceRecords) /\ Len(Reply) \in {1, 2}
         /\ \A i \in 1..Len(Reply) : Reply[i].to = request.cmd
         /\ request.cmd = "bootstrap" =>
              \A i \in 1..Len(Reply) : "100" \in Reply[i].value => booted
         /\ Len(Reply) = 1 => Reply[1].end \in {"ok", "error"}
         /\ Len(Reply) = 2 => Reply[1].end = "more" /\ Reply[2].end = "ok"
         /\ request.cmd = "ExitNodes" =>
              Len(Reply) = 1 /\ (Reply[1].end = "ok" <=> sock = "authed")
<1>1. request.cmd \in Commands /\ sock \in {"open", "authed"}
  BY RequestDo
<1>2. consensus \in SUBSET (Countries \cup {"100"})
  BY RestOf DEF Rest
<1>3. ASSUME NEW v \in SUBSET (Countries \cup {"100"}),
             NEW end \in {"more", "ok", "error", "odd"}
      PROVE  Piece(end, v) \in PieceRecords
  BY <1>1 DEF Piece, PieceRecords
<1>4. CASE sock = "open"
  <2>1. PICK end \in {"ok", "error"} :
          /\ Reply = <<Piece(end, {})>>
          /\ end = "ok" => request.cmd = "AUTHENTICATE"
    BY <1>4 DEF Reply
  <2>2. Piece(end, {}) \in PieceRecords
    BY <1>3
  <2> QED
    BY <1>4, <2>1, <2>2 DEF Piece
<1>5. CASE sock = "authed" /\ request.cmd \notin {"bootstrap", "ns"}
  <2>1. Reply = <<Piece("ok", {})>>
    BY <1>5 DEF Reply
  <2>2. Piece("ok", {}) \in PieceRecords
    BY <1>3
  <2> QED
    BY <1>5, <2>1, <2>2 DEF Piece
<1>6. CASE sock = "authed" /\ request.cmd \in {"bootstrap", "ns"}
  <2>1. PICK v \in SUBSET (Countries \cup {"100"}) :
          /\ Reply = <<Piece("more", v), Piece("ok", {})>>
          /\ request.cmd = "bootstrap" /\ "100" \in v => booted
    <3>1. CASE request.cmd = "bootstrap"
      <4> DEFINE v == IF booted THEN {"100"} ELSE {}
      <4>1. v \in SUBSET (Countries \cup {"100"}) /\ ("100" \in v => booted)
        OBVIOUS
      <4>2. Reply = <<Piece("more", v), Piece("ok", {})>>
        BY <1>6, <3>1 DEF Reply
      <4> QED
        BY <4>1, <4>2
    <3>2. CASE request.cmd = "ns"
      <4>1. Reply = <<Piece("more", consensus), Piece("ok", {})>>
        BY <1>6, <3>2 DEF Reply
      <4> QED
        BY <1>2, <3>2, <4>1
    <3> QED
      BY <1>6, <3>1, <3>2
  <2>2. Piece("more", v) \in PieceRecords /\ Piece("ok", {}) \in PieceRecords
    BY <1>3
  <2> QED
    BY <1>6, <2>1, <2>2 DEF Piece
<1> QED
  BY <1>1, <1>4, <1>5, <1>6

(* An answer, or a refusal, goes into an empty channel.                    *)
LEMMA AnswerKeeps ==
  ASSUME TcInv, request # Nothing, TorLeaves, request' = Nothing,
         wire' \in Seq(PieceRecords), Len(wire') \in {1, 2},
         \A i \in 1..Len(wire') : wire'[i].to = request.cmd,
         request.cmd = "bootstrap" =>
           \A i \in 1..Len(wire') : "100" \in wire'[i].value => booted,
         Len(wire') = 1 => wire'[1].end \in {"ok", "error", "odd"},
         Len(wire') = 2 => wire'[1].end = "more" /\ wire'[2].end = "ok",
         UNCHANGED <<torAt, cookie, booted, consensus>>,
         sock' \in {"open", "authed", "closed"},
         exitNodes' = IF request.cmd = "ExitNodes" /\ Len(wire') = 1 /\ wire'[1].end = "ok"
                      THEN request.arg ELSE exitNodes,
         request.cmd = "ExitNodes" => Len(wire') = 1
  PROVE  TcInv'
<1> USE DEF TorLeaves, userVars
<1>1. /\ asking # Nothing /\ request = asking /\ wire = <<>> /\ response = <<>>
      /\ at \in DOMAIN CmdAt /\ asking.cmd = CmdAt[at]
      /\ at = "change" => asking.arg \in Countries
      /\ at = "change" <=> asking.cmd = "ExitNodes"
  BY RequestDo
<1>2. /\ UNCHANGED <<asking, response, at, late, waited, codes, chosen>>
      /\ DOMAIN wire' = 1..Len(wire') /\ wire' # <<>>
      /\ DOMAIN response' = {} /\ Len(response') = 0 /\ response' = <<>>
  BY <1>1, LenProperties
<1>3. Pieces' = {wire'[i] : i \in 1..Len(wire')}
  BY <1>2 DEF Pieces
<1>4. Typed'
  BY <1>2, RestOf DEF Typed
<1>5. OneReply'
  <2>1. wire'[Len(wire')].end \in {"ok", "error", "odd"}
    OBVIOUS
  <2>2. ASSUME NEW p \in Pieces' PROVE p.to = asking'.cmd
    <3>1. PICK i \in 1..Len(wire') : p = wire'[i]
      BY <1>3
    <3> QED
      BY <1>1, <1>2, <3>1
  <2> QED
    BY <1>2, <2>1, <2>2 DEF OneReply
<1>6. Rest'
  <2>1. exitNodes' \in Countries \cup {NoCountry}
    BY <1>1, RestOf DEF Rest
  <2> QED
    BY <1>2, <2>1, RestOf, NothingIsRequest DEF Rest
<1>7. ChannelInv'
  BY <1>1, <1>2, <1>4, <1>5 DEF ChannelInv, Waiting, CmdAt
<1>8. TruthInv'
  <2>1. ASSUME NEW p \in Pieces', p.to = "bootstrap", "100" \in p.value PROVE booted'
    <3>1. PICK i \in 1..Len(wire') : p = wire'[i]
      BY <1>3
    <3> QED
      BY <2>1, <3>1
  <2>2. torAt # "gone" => chosen = exitNodes
    BY <1>1, NoPieces DEF TcInv, TruthInv, Answered
  <2>3. ASSUME torAt # "gone"
        PROVE  IF at = "change" /\ Answered' THEN exitNodes' = asking.arg
               ELSE chosen = exitNodes'
    <3>1. CASE at = "change"
      <4>1. Pieces' = {wire'[1]}
        <5>1. Len(wire') = 1
          BY <1>1, <3>1
        <5>2. 1..1 = {1}
          OBVIOUS
        <5> QED
          BY <1>3, <5>1, <5>2
      <4>2. Answered' <=> wire'[1].end = "ok"
        BY <4>1 DEF Answered
      <4> QED
        BY <1>1, <2>2, <2>3, <3>1, <4>2
    <3>2. CASE at # "change"
      BY <1>1, <2>2, <2>3, <3>2
    <3> QED
      BY <3>1, <3>2
  <2> QED
    BY <1>2, <2>1, <2>3 DEF TcInv, TruthInv, WaitedMeansBooted
<1> QED
  BY <1>4, <1>5, <1>6, <1>7, <1>8, TypeOfNext DEF TcInv

LEMMA RepliesKeeps ==
  ASSUME TcInv, Replies, TorLeaves
  PROVE  TcInv'
<1>1. request # Nothing /\ request' = Nothing /\ UNCHANGED <<torAt, cookie, booted, consensus>>
  BY DEF Replies
<1>2. wire' = Reply
  BY <1>1, ReplyDo, RequestDo, ConcatEmptySeq DEF Replies
<1>3. sock' \in {"open", "authed", "closed"}
  BY <1>1, RequestDo DEF Replies
<1>4. exitNodes' = IF request.cmd = "ExitNodes" /\ Len(wire') = 1 /\ wire'[1].end = "ok"
                   THEN request.arg ELSE exitNodes
  BY <1>1, <1>2, ReplyDo DEF Replies
<1> QED
  BY <1>1, <1>2, <1>3, <1>4, ReplyDo, AnswerKeeps

LEMMA RefusesKeeps ==
  ASSUME TcInv, Refuses, TorLeaves
  PROVE  TcInv'
<1>1. request # Nothing /\ request' = Nothing /\ sock = "authed" /\ UNCHANGED <<sock, torVars>>
  BY DEF Refuses, Nothing
<1>2. PICK end \in {"error", "odd"} : wire' = wire \o <<Piece(end, {})>>
  BY DEF Refuses
<1>3. Piece(end, {}) \in PieceRecords /\ Piece(end, {}).end = end
      /\ Piece(end, {}).to = request.cmd /\ Piece(end, {}).value = {}
  BY <1>1, RequestDo DEF Piece, PieceRecords
<1>4. wire' = <<Piece(end, {})>>
  BY <1>1, <1>2, <1>3, RequestDo, ConcatEmptySeq
<1>5. /\ wire' \in Seq(PieceRecords) /\ Len(wire') = 1 /\ wire'[1] = Piece(end, {})
  BY <1>3, <1>4
<1> QED
  BY <1>1, <1>3, <1>5, AnswerKeeps DEF torVars

LEMMA DiesKeeps ==
  ASSUME TcInv, Dies, TorLeaves
  PROVE  TcInv'
<1> USE DEF TorLeaves, userVars
<1>1. /\ torAt' = "gone" /\ request' = Nothing /\ wire' \in {wire, <<>>}
      /\ UNCHANGED <<cookie, booted, consensus, exitNodes, asking, response, at, late,
                     waited, codes, chosen>>
  BY DEF Dies
<1>2. Rest'
  BY <1>1, RestOf, NothingIsRequest DEF Rest, Dies
<1>3. Pieces' \subseteq Pieces /\ Typed'
  <2>1. Typed'
    BY <1>1, RestOf, EmptySeq DEF Typed
  <2>2. CASE wire' = wire
    BY <1>1, <2>1, <2>2 DEF Pieces
  <2>3. CASE wire' = <<>>
    <3>1. DOMAIN wire' = {}
      BY <2>3
    <3> QED
      BY <1>1, <2>1, <3>1 DEF Pieces
  <2> QED
    BY <1>1, <2>2, <2>3
<1>4. ASSUME asking # Nothing PROVE OneReply'
  <2>1. OneReply
    BY <1>4 DEF TcInv, ChannelInv, Waiting
  <2>2. CASE wire' = wire
    BY <1>1, <1>3, <2>1, <2>2 DEF OneReply
  <2>3. CASE wire' = <<>>
    <3>1. Len(wire') = 0
      BY <2>3
    <3>2. Len(response) <= 1
      BY <2>1 DEF OneReply
    <3> QED
      BY <1>1, <1>3, <2>1, <2>3, <3>1, RestOf, PiecesDo DEF OneReply
  <2> QED
    BY <1>1, <2>2, <2>3
<1>5. ChannelInv'
  BY <1>1, <1>3, <1>4 DEF TcInv, ChannelInv, Waiting
<1>6. TruthInv'
  BY <1>1, <1>3 DEF TcInv, TruthInv, WaitedMeansBooted
<1>7. wire' = <<>> \/ OneReply'
  BY <1>1, <1>4, RestOf DEF TcInv, ChannelInv
<1> QED
  BY <1>2, <1>3, <1>5, <1>6, <1>7, TypeOfNext DEF TcInv

LEMMA TcStep == TcInv /\ [TcNext]_tcVars => TcInv'
<1> SUFFICES ASSUME TcInv, [TcNext]_tcVars PROVE TcInv'
  OBVIOUS
<1>1. CASE DaemonStep \/ Deadline \/ GetCities \/ ChangeCity
  BY <1>1, AskKeeps, PlaceKeeps, ReceiveKeeps, ReceiveNothingKeeps, ChangeCityKeeps
     DEF DaemonStep
<1>2. CASE TorStep(Listens) \/ TorStep(WritesCookie) \/ TorStep(Learns) \/ TorStep(Boots)
  BY <1>2, TorChangesKeeps DEF TorStep, TorLeaves
<1>3. CASE TorStep(Replies)
  BY <1>3, RepliesKeeps DEF TorStep, TorLeaves
<1>4. CASE TorStep(Refuses)
  BY <1>4, RefusesKeeps DEF TorStep, TorLeaves
<1>5. CASE TorStep(Dies)
  BY <1>5, DiesKeeps DEF TorStep, TorLeaves
<1>6. CASE UNCHANGED tcVars
  BY <1>6 DEF tcVars, torVars, chanVars, userVars, TcInv, TcTypeOK, ChannelInv, Typed,
              Waiting, OneReply, TruthInv, WaitedMeansBooted, Pieces, Answered
<1> QED
  BY <1>1, <1>2, <1>3, <1>4, <1>5, <1>6 DEF TcNext

LEMMA TcInvHolds == TcSpec => []TcInv
BY TcInitInv, TcStep, PTL DEF TcSpec

-----------------------------------------------------------------------------
(* Types, for any countries and all faults; a reply that is being put      *)
(* together never has more than two parts.                                 *)
THEOREM TcTypeCorrect == TcSpec => []TcTypeOK
<1>1. TcInv => TcTypeOK
  BY DEF TcInv
<1> QED
  BY <1>1, TcInvHolds, PTL

(* A reply is that of the command it is taken for: nothing of an earlier   *)
(* one is left when the next command is sent (control_port.cpp:62-81).     *)
THEOREM RepliesMatchHolds == TcSpec => []RepliesMatch
<1>1. TcInv => RepliesMatch
  BY DEF TcInv, ChannelInv, Waiting, OneReply, RepliesMatch
<1> QED
  BY <1>1, TcInvHolds, PTL

(* wait() reports a finished bootstrap only if Tor had finished, and the   *)
(* country reported as set is the one Tor is set to, whatever is refused,  *)
(* misread or lost (bootstrap_waiter.cpp:11-36, service.cpp:293-305).      *)
THEOREM ReportsAreTrueHolds == TcSpec => []ReportsAreTrue
<1>1. TcInv => ReportsAreTrue
  BY DEF TcInv, TruthInv, ReportsAreTrue, WaitedMeansBooted, ChosenIsSet
<1> QED
  BY <1>1, TcInvHolds, PTL
=============================================================================
