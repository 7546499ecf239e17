------------------------- MODULE MCPacketProcessor -------------------------
(* The stream table on small instances.  One key is enough for every race  *)
(* of the processor's threads: streams of different keys share nothing but *)
(* the order of their packets and the turns of the response loop.          *)
EXTENDS PacketProcessor

MCNoFaults == {}
MCConnectFails == {"connectFails"}
MCAllFaults == PpFaultKinds
=============================================================================
