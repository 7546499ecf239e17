------------------------------- MODULE Socks5 -------------------------------
(***************************************************************************)
(* socks5Client (src/core/socks5.cpp): one connection through Tor's SOCKS  *)
(* port, byte by byte.                                                     *)
(*                                                                         *)
(* Tor sends two bytes in answer to the greeting, ten in answer to the     *)
(* request, then what the server sends; TCP may hand them over in any      *)
(* pieces.  Bytes are counted: a byte is its position in what Tor sent.    *)
(***************************************************************************)
EXTENDS Naturals

CONSTANTS
  ReplyLen,    (* bytes of the answer to CONNECT, 10 for an IPv4 address   *)
  BufLen,      (* of sendConnectRequest's buffer, 256                      *)
  MinReply,    (* the shortest answer it takes, 6                          *)
  MaxData,     (* bounds what the server sends                             *)
  SocksFaults  (* what may differ from one answer in one piece, followed   *)
               (* by data only once the client has asked for some          *)

ASSUME LenAssumption ==
  /\ {ReplyLen, BufLen, MinReply, MaxData} \subseteq Nat
  /\ 1 < MinReply /\ MinReply < ReplyLen /\ ReplyLen < BufLen
ASSUME SocksFaultsAssumption ==
  SocksFaults \subseteq {"refuse", "split", "serverFirst", "close"}

VARIABLES
  at,       (* what connect() does next, or what became of it              *)
  sock,     (* sock_: "none", "blocking", "nonblocking"                    *)
  answers,  (* Tor's two answers: "granted", "refused" or "none" as yet    *)
  sent,     (* bytes Tor has sent                                          *)
  recvd,    (* bytes this client has taken from the socket                 *)
  closed    (* Tor has closed the connection                               *)

s5Vars == <<at, sock, answers, sent, recvd, closed>>

MethodLen == 2
DataStart == MethodLen + ReplyLen
Answers == {"granted"} \cup (IF "refuse" \in SocksFaults THEN {"refused"} ELSE {})

S5TypeOK ==
  /\ at \in {"start", "greet", "method", "request", "reply", "open", "failed"}
  /\ sock \in {"none", "blocking", "nonblocking"}
  /\ answers \in [{"method", "reply"} -> {"none", "granted", "refused"}]
  /\ sent \in 0..(DataStart + MaxData) /\ recvd \in 0..sent
  /\ closed \in BOOLEAN

S5Init ==
  /\ at = "start" /\ sock = "none"
  /\ answers = [a \in {"method", "reply"} |-> "none"]
  /\ sent = 0 /\ recvd = 0 /\ closed = FALSE

Fail == at' = "failed" /\ sock' = "none"
Pass(to) == at' = to /\ UNCHANGED sock

-----------------------------------------------------------------------------
(* External: Tor and the server behind it.                                 *)

Asked == [method |-> at = "method", reply |-> at = "reply"]

(* An answer leaves Tor as a whole; a refusal is followed by a close.      *)
TorAnswers(a) ==
  /\ Asked[a] /\ answers[a] = "none" /\ ~closed
  /\ \E r \in Answers :
       /\ answers' = [answers EXCEPT ![a] = r]
       /\ closed' = (r = "refused")
  /\ sent' = IF a = "method" THEN MethodLen ELSE DataStart
  /\ UNCHANGED <<at, sock, recvd>>

ServerSends ==
  /\ answers["reply"] = "granted" /\ ~closed /\ sent < DataStart + MaxData
  /\ "serverFirst" \in SocksFaults \/ at = "open"
  /\ \E n \in 1..MaxData : sent + n <= DataStart + MaxData /\ sent' = sent + n
  /\ UNCHANGED <<at, sock, answers, recvd, closed>>

Closes ==
  /\ "close" \in SocksFaults /\ at \notin {"start", "failed"} /\ ~closed
  /\ closed' = TRUE
  /\ UNCHANGED <<at, sock, answers, sent, recvd>>

-----------------------------------------------------------------------------
(* connect().                                                              *)

Dial ==
  /\ at = "start"
  /\ \/ at' = "greet" /\ sock' = "blocking"
     \/ Fail
  /\ UNCHANGED <<answers, sent, recvd, closed>>

(* A request sent into a connection that is gone may still be accepted.    *)
SendRequest ==
  /\ \/ at = "greet" /\ Pass("method")
     \/ at = "request" /\ Pass("reply")
     \/ at \in {"greet", "request"} /\ closed /\ Fail
  /\ UNCHANGED <<answers, sent, recvd, closed>>

(* recv(n): what is there, up to n; all of it unless TCP splits it.        *)
Takes(n) ==
  /\ recvd < sent
  /\ LET most == IF sent - recvd < n THEN sent - recvd ELSE n
     IN  \E k \in 1..most :
           /\ "split" \in SocksFaults \/ k = most
           /\ recvd' = recvd + k

AtEnd == recvd = sent /\ closed

(* handshake(): fewer than two bytes are a failure.                        *)
Handshake ==
  /\ at = "method"
  /\ \/ /\ Takes(MethodLen)
        /\ IF recvd' = MethodLen /\ answers["method"] = "granted"
             THEN Pass("request") ELSE Fail
     \/ AtEnd /\ Fail /\ UNCHANGED recvd
  /\ UNCHANGED <<answers, sent, closed>>

(* Mutant: the first byte, Tor's version, is compared with its value.      *)
FirstByteGrants == recvd + 1 = MethodLen + 1

(* The second byte received is taken for the status.                       *)
SecondByteGrants == recvd + 2 = MethodLen + 2 /\ answers["reply"] = "granted"

(* sendConnectRequest(): one recv of up to BufLen bytes.  connect() then   *)
(* makes the socket non-blocking.                                          *)
ConnectReply ==
  /\ at = "reply"
  /\ \/ /\ Takes(BufLen)
        /\ IF recvd' - recvd >= MinReply /\ SecondByteGrants
             THEN at' = "open" /\ sock' = "nonblocking"
             ELSE Fail
     \/ AtEnd /\ Fail /\ UNCHANGED recvd
  /\ UNCHANGED <<answers, sent, closed>>

(* receive_packet(): what follows is data.                                 *)
ReceivePacket ==
  /\ at = "open"
  /\ Takes(BufLen)
  /\ UNCHANGED <<at, sock, answers, sent, closed>>

(* The connection is closed by its owner, whatever its state.              *)
Close ==
  /\ at = "open" /\ Fail
  /\ UNCHANGED <<answers, sent, recvd, closed>>

S5Step == Dial \/ SendRequest \/ Handshake \/ ConnectReply
S5Next == \/ S5Step \/ ReceivePacket \/ Close
          \/ TorAnswers("method") \/ TorAnswers("reply") \/ ServerSends \/ Closes

S5Spec == S5Init /\ [][S5Next]_s5Vars
S5FairSpec == S5Spec /\ WF_s5Vars(S5Step)

-----------------------------------------------------------------------------
(* connect() succeeds only if Tor granted this very request, although the  *)
(* status is read at a fixed place of whatever recv returned: the bytes    *)
(* before it were taken exactly (socks5.cpp:54-63,88-92).                  *)
OpenMeansGranted == at = "open" => answers = [a \in {"method", "reply"} |-> "granted"]

(* A connection that failed or was closed holds no socket, and one that is *)
(* open never blocks the response loop (socks5.cpp:37-51,98-118).          *)
SocketFollows ==
  /\ at = "failed" => sock = "none"
  /\ at = "open" => sock = "nonblocking"

(* connect() reports what came of it, and leaves the socket accordingly    *)
(* (socks5.cpp:19-53).                                                     *)
ConnectIsTrue == OpenMeansGranted /\ SocketFollows

(* A connect thread comes back unless Tor keeps its answer back            *)
(* (socks5.cpp:60,89).                                                     *)
ConnectReturns ==
  at = "greet" ~> (at \in {"open", "failed"} \/ [](~closed /\ recvd = sent))
=============================================================================
