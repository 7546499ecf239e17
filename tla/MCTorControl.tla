---------------------------- MODULE MCTorControl ----------------------------
(* Two countries: the one that is chosen and another, so that a change can *)
(* be refused after one that was accepted.                                 *)
EXTENDS TorControl

MCTorFaults == {"dies", "odd"}
=============================================================================
