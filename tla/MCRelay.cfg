CONSTANTS
  Key <- MCKey
  MaxSeg = 2
  Responses <- MCResponses
  Requests <- MCRequests
  Options = {0, 3}
  FirstSeqs <- MCFirstSeqs
  MaxCount = 3

  Clients <- MCClients
  Servers <- MCServers
  Ids = {1, 2, 3}
  UdpPorts <- MCUdpPorts
  DnsPort = 9053
  DnsFaults = {"sendFails", "answerTooLong", "ringFull"}

  ReplyLen = 10
  BufLen = 256
  MinReply = 6
  MaxData = 3
  SocksFaults = {"refuse", "split", "serverFirst", "close"}

  Senders = {loop, thread}
  MaxRing = 3
  WtFaults = {"load", "create", "start"}

SPECIFICATION Spec

INVARIANTS
  RelayTypeOK
  PacketsAccepted
  BytesRelayed
  AnswersMatch
  ConnectIsTrue
  HandlesNested

PROPERTIES
  ThreadsReturn
  RingMoves

CHECK_DEADLOCK FALSE
