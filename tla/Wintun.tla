------------------------------- MODULE Wintun -------------------------------
(***************************************************************************)
(* wintun.dll behind Wintun, WintunAdapter and WintunSession (core/wintun) *)
(* as the worker uses them (service.cpp:224-248, and the destructors when  *)
(* it returns) and as the packet threads do: process_loop() receives and   *)
(* releases packets, response_loop() and the detached threads send.        *)
(*                                                                         *)
(* Wintun gives a packet to the machine in the order its place in the ring *)
(* was allocated: one that was allocated and never sent holds up all later *)
(* ones.                                                                   *)
(***************************************************************************)
EXTENDS Naturals, Sequences, FiniteSets

CONSTANTS
  Senders,      (* threads that send                                       *)
  MaxRing,      (* packets the ring has room for, 0x400000 bytes           *)
  WtFaults      (* calls that may fail: "load", "create", "start"          *)

ASSUME WtAssumption == MaxRing \in Nat \ {0}

Exports == {"create", "open", "close", "start", "end", "receive", "release",
            "allocate", "send"}

VARIABLES
  worker,       (* the call the worker makes next                          *)
  module,       (* module_ is loaded                                       *)
  exports,      (* the function pointers that are set                      *)
  adapter,      (* WintunAdapter::handle_ is open                          *)
  session,      (* WintunSession::handle_ is open                          *)
  ring,         (* places allocated, oldest first: the sender, and whether *)
                (* it has sent                                             *)
  sender,       (* what each sender does: "idle" or "filling"              *)
  held          (* packets received and not released                       *)

wtVars == <<worker, module, exports, adapter, session, ring, sender, held>>

WtInit ==
  /\ worker = "load"
  /\ module = FALSE
  /\ exports = {}
  /\ adapter = FALSE
  /\ session = FALSE
  /\ ring = <<>>
  /\ sender = [s \in Senders |-> "idle"]
  /\ held = 0

Go(from, to) == worker = from /\ worker' = to
MayFail(call) == call \in WtFaults

-----------------------------------------------------------------------------
(* The worker.                                                             *)

(* Mutant: a missing WintunSendPacket is not noticed.                      *)
NeededButSend == Exports \ {"send"}

(* The pointers load() checks.                                             *)
Needed == Exports

(* load(): a library that cannot be loaded, or lacks exports, is given up. *)
Load ==
  /\ \/ /\ MayFail("load")
        /\ Go("load", "free")
        /\ UNCHANGED <<module, exports>>
     \/ \E found \in {Exports} \cup (IF MayFail("load") THEN {Exports \ {"send"}} ELSE {}) :
          /\ exports' = found
          /\ module' = (Needed \subseteq found)
          /\ Go("load", IF module' THEN "create" ELSE "free")
  /\ UNCHANGED <<adapter, session, ring, sender, held>>

CreateAdapter ==
  /\ \/ MayFail("create") /\ Go("create", "free") /\ UNCHANGED adapter
     \/ module /\ Go("create", "start") /\ adapter' = TRUE
  /\ UNCHANGED <<module, exports, session, ring, sender, held>>

StartSession ==
  /\ \/ MayFail("start") /\ Go("start", "close") /\ UNCHANGED session
     \/ Go("start", "serve") /\ session' = TRUE
  /\ UNCHANGED <<module, exports, adapter, ring, sender, held>>

(* The stop event.                                                         *)
Stop ==
  /\ Go("serve", "end")
  /\ UNCHANGED <<module, exports, adapter, session, ring, sender, held>>

(* ~WintunSession: the rings go with the session.                          *)
EndSession ==
  /\ Go("end", "close")
  /\ session' = FALSE
  /\ ring' = <<>>
  /\ UNCHANGED <<module, exports, adapter, sender, held>>

(* Mutant: ~WintunAdapter leaves the handle open.                          *)
CloseAdapterNot ==
  /\ Go("close", "free")
  /\ UNCHANGED <<module, exports, adapter, session, ring, sender, held>>

(* ~WintunAdapter.                                                         *)
CloseAdapter ==
  /\ Go("close", "free")
  /\ adapter' = FALSE
  /\ UNCHANGED <<module, exports, session, ring, sender, held>>

(* ~Wintun.                                                                *)
FreeModule ==
  /\ Go("free", "gone")
  /\ module' = FALSE
  /\ UNCHANGED <<exports, adapter, session, ring, sender, held>>

WorkerCalls == \/ Load \/ CreateAdapter \/ StartSession
          \/ EndSession \/ CloseAdapter \/ FreeModule

-----------------------------------------------------------------------------
(* The packet threads.  What a thread does to a session that is gone is    *)
(* undefined; here it does nothing.                                        *)

(* send_packet() up to the copy; a full ring drops the packet.             *)
Allocate(s) ==
  /\ session
  /\ sender[s] = "idle"
  /\ Len(ring) < MaxRing
  /\ ring' = Append(ring, [by |-> s, sent |-> FALSE])
  /\ sender' = [sender EXCEPT ![s] = "filling"]
  /\ UNCHANGED <<worker, module, exports, adapter, session, held>>

SendPacket(s) ==
  /\ sender[s] = "filling"
  /\ sender' = [sender EXCEPT ![s] = "idle"]
  /\ ring' = [i \in 1..Len(ring) |->
                IF ring[i].by = s /\ "send" \in exports THEN [ring[i] EXCEPT !.sent = TRUE]
                ELSE ring[i]]
  /\ UNCHANGED <<worker, module, exports, adapter, session, held>>

(* process_loop(): receive_packet(), which does not wait, the handler, and *)
(* complete_receive().                                                     *)
TakePacket ==
  /\ session
  /\ held = 0
  /\ held' = 1
  /\ UNCHANGED <<worker, module, exports, adapter, session, ring, sender>>

CompleteReceive ==
  /\ held > 0
  /\ held' = held - 1
  /\ UNCHANGED <<worker, module, exports, adapter, session, ring, sender>>

(* External: the driver hands over the oldest packet.                      *)
Deliver ==
  /\ ring # <<>>
  /\ ring[1].sent
  /\ ring' = Tail(ring)
  /\ UNCHANGED <<worker, module, exports, adapter, session, sender, held>>

WtNext == \/ WorkerCalls \/ Stop \/ TakePacket \/ CompleteReceive \/ Deliver
        \/ \E s \in Senders : Allocate(s) \/ SendPacket(s)

(* Every thread goes on, and the driver does.  Nothing makes a thread send *)
(* or receive, or the worker stop.                                         *)
WtSpec == /\ WtInit /\ [][WtNext]_wtVars
        /\ WF_wtVars(WorkerCalls) /\ WF_wtVars(Deliver) /\ WF_wtVars(CompleteReceive)
        /\ \A s \in Senders : WF_wtVars(SendPacket(s))
-----------------------------------------------------------------------------
WtTypeOK ==
  /\ worker \in {"load", "create", "start", "serve", "end", "close", "free", "gone"}
  /\ module \in BOOLEAN /\ adapter \in BOOLEAN /\ session \in BOOLEAN
  /\ exports \subseteq Exports
  /\ ring \in Seq([by : Senders, sent : BOOLEAN])
  /\ Len(ring) <= MaxRing
  /\ sender \in [Senders -> {"idle", "filling"}]
  /\ held \in 0..1

(* A handle is open only while what it was opened through is: through      *)
(* every failure of the start-up and on the way out, no session outlives   *)
(* its adapter, no adapter the library its close function is in, and none  *)
(* is left (service.cpp:224-248; wintun.cpp:11-15,72-76,91-95).             *)
HandlesNested ==
  /\ session => adapter
  /\ adapter => module
  /\ worker = "gone" => ~module

(* A packet given a place in the ring reaches the machine, or the session  *)
(* ends: no packet that was allocated and never sent holds up those of the *)
(* other threads (wintun.h:73-88; wintun.cpp:36-41).                       *)
RingMoves == [](ring # <<>> => <>(ring = <<>> \/ ring[1].sent))
=============================================================================
