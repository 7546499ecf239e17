------------------------------- MODULE Tunnel -------------------------------
(***************************************************************************)
(* What the daemon promises of the machine's traffic: between an open      *)
(* machine and a tunnelled one there is always a sealed one, where nothing *)
(* but Tor gets out, and a command that was taken up is carried through    *)
(* before the next one is.  Daemon implements this when the calls it makes *)
(* into the platform succeed.                                              *)
(***************************************************************************)
VARIABLES
  mode,  (* where the traffic may go                                       *)
  goal   (* what the last command asked for                                *)

tunnelVars == <<mode, goal>>

(* The modes in the order they are passed through.                         *)
Raised == [open |-> "sealed", sealed |-> "tunnelled"]
Lowered == [tunnelled |-> "sealed", sealed |-> "open"]

TunnelInit == mode = "open" /\ goal = "open"

Command ==
  /\ mode = goal
  /\ goal' \in {"open", "tunnelled"} \ {goal}
  /\ UNCHANGED mode

Advance ==
  /\ mode # goal
  /\ mode' = IF goal = "tunnelled" THEN Raised[mode] ELSE Lowered[mode]
  /\ UNCHANGED goal

TunnelNext == Command \/ Advance

TunnelSpec == TunnelInit /\ [][TunnelNext]_tunnelVars /\ WF_tunnelVars(Advance)
=============================================================================
