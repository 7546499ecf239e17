----------------------------- MODULE KillSwitch -----------------------------
(***************************************************************************)
(* killSwitch, src/core/killswitch.cpp: the class that blocks all outbound *)
(* connections with filters of the Windows Filtering Platform (WFP) and    *)
(* permits those of tor.exe.                                               *)
(*                                                                         *)
(* The object keeps an engine handle, the ids of its two block filters and *)
(* a flag.  wfp is the platform's side of it: the filters installed by     *)
(* this session.  A call into WFP may fail as KsFaults allows; every       *)
(* method runs on one thread at a time (see Daemon), so a method is one    *)
(* step whose outcome is chosen among those of the calls it makes.         *)
(***************************************************************************)
EXTENDS FiniteSets

CONSTANTS
  FilterIds,  (* ids WFP hands out; bounds the filters installed at once   *)
  NoFilter,   (* the id 0 of a killSwitch member that holds no filter      *)
  KsFaults    (* the calls into WFP that may fail                          *)

KsFaultKinds == {"engineOpen", "appId", "filterExists", "filterError",
                 "filterDelete"}

ASSUME KsAssumption == /\ NoFilter \notin FilterIds
                       /\ KsFaults \subseteq KsFaultKinds

VARIABLES
  engine,        (* engine_ is a live handle                               *)
  filter_id,     (* filter_id_: the IPv4 block filter                      *)
  filter_id_v6,  (* filter_id_v6_: the IPv6 block filter                   *)
  active,        (* active_                                                *)
  wfp            (* the filters WFP holds for the session                  *)

ksVars == <<engine, filter_id, filter_id_v6, active, wfp>>

FilterKinds == {"blockV4", "blockV6", "permitTor"}
Filters == [id : FilterIds, kind : FilterKinds]

KsTypeOK ==
  /\ engine \in BOOLEAN
  /\ filter_id \in FilterIds \cup {NoFilter}
  /\ filter_id_v6 \in FilterIds \cup {NoFilter}
  /\ active \in BOOLEAN
  /\ wfp \in SUBSET Filters

KsInit ==
  /\ engine = FALSE
  /\ filter_id = NoFilter
  /\ filter_id_v6 = NoFilter
  /\ active = FALSE
  /\ wfp = {}

Blocked(kind) == \E f \in wfp : f.kind = kind

-----------------------------------------------------------------------------
(* What the calls into WFP may do.                                         *)

(* FwpmFilterAdd0: installs a filter under a fresh id, or installs nothing *)
(* and reports either 0x80320023 ("filterExists", the status the code      *)
(* takes for "already active") or another error.                           *)
AddOutcomes(w) ==
  [status : {"ok"}, id : FilterIds \ {f.id : f \in w}]
    \cup [status : KsFaults \cap {"filterExists", "filterError"}, id : {NoFilter}]

Installed(w, a, kind) ==
  IF a.status = "ok" THEN w \cup {[id |-> a.id, kind |-> kind]} ELSE w

(* The id out-parameter is written only when the filter was added.         *)
IdAfter(a, old) == IF a.status = "ok" THEN a.id ELSE old

Without(w, id) == {f \in w : f.id # id}

(* FwpmEngineClose0 on a dynamic session drops every filter it still has.  *)
CloseSession(w) == {}

-----------------------------------------------------------------------------
(* enable(): open the engine unless it is open, add the IPv4 block filter, *)
(* set active_, add the IPv6 one.  0x80320023 counts as success, any other *)
(* IPv4 error returns with the engine left open, an IPv6 error is logged.  *)
Enable ==
  \/ /\ ~engine
     /\ "engineOpen" \in KsFaults
     /\ UNCHANGED ksVars
  \/ \E a4 \in AddOutcomes(wfp) :
       /\ engine' = TRUE
       /\ filter_id' = IdAfter(a4, filter_id)
       /\ \/ /\ a4.status = "filterError"
             /\ UNCHANGED <<filter_id_v6, active, wfp>>
          \/ /\ a4.status # "filterError"
             /\ active' = TRUE
             /\ \E a6 \in AddOutcomes(Installed(wfp, a4, "blockV4")) :
                  /\ filter_id_v6' = IdAfter(a6, filter_id_v6)
                  /\ wfp' = Installed(Installed(wfp, a4, "blockV4"), a6, "blockV6")

(* add_tor_permit_rule(): the id of the permit filter is a local variable, *)
(* nobody can delete that filter by id later.                              *)
AddTorPermitRule ==
  /\ UNCHANGED <<engine, filter_id, filter_id_v6, active>>
  /\ \/ /\ ~engine \/ "appId" \in KsFaults
        /\ UNCHANGED wfp
     \/ /\ engine
        /\ \E a \in AddOutcomes(wfp) : wfp' = Installed(wfp, a, "permitTor")

(* Mutant: the ids survive the session they were handed out for.           *)
DisableKeepsIds ==
  \/ /\ \/ ~engine
        \/ filter_id # NoFilter /\ "filterDelete" \in KsFaults
     /\ UNCHANGED ksVars
  \/ /\ engine
     /\ engine' = FALSE
     /\ active' = FALSE
     /\ wfp' = CloseSession(wfp)
     /\ UNCHANGED <<filter_id, filter_id_v6>>

(* disable(): an IPv4 delete that fails returns with everything as it was; *)
(* an IPv6 delete that fails is logged and the id forgotten.               *)
Disable ==
  \/ /\ \/ ~engine
        \/ filter_id # NoFilter /\ "filterDelete" \in KsFaults
     /\ UNCHANGED ksVars
  \/ /\ engine
     /\ engine' = FALSE
     /\ filter_id' = NoFilter
     /\ filter_id_v6' = NoFilter
     /\ active' = FALSE
     /\ \/ wfp' = CloseSession(Without(Without(wfp, filter_id), filter_id_v6))
        \/ /\ "filterDelete" \in KsFaults
           /\ wfp' = CloseSession(Without(wfp, filter_id))

(* The object's methods in any order, as its interface allows.             *)
KsNext == Enable \/ AddTorPermitRule \/ Disable
KsSpec == KsInit /\ [][KsNext]_ksVars
-----------------------------------------------------------------------------
(* Every id the object holds names an installed block filter of its        *)
(* family, so that disable() deletes what it means to delete, after any    *)
(* sequence of failed enables and disables (killswitch.cpp:55,75,89-103).  *)
KsIdsLive ==
  /\ filter_id # NoFilter => [id |-> filter_id, kind |-> "blockV4"] \in wfp
  /\ filter_id_v6 # NoFilter => [id |-> filter_id_v6, kind |-> "blockV6"] \in wfp

(* Once the handle is closed nothing of the object is left in WFP: neither *)
(* the block filters whose ids were overwritten by a second enable() nor   *)
(* the permit filter whose id nobody kept (killswitch.cpp:34-40,87-108).   *)
KsClosedIsClean ==
  ~engine => /\ wfp = {}
             /\ filter_id = NoFilter
             /\ filter_id_v6 = NoFilter
             /\ ~active

(* After any history of failed enables and disables the object knows what  *)
(* it has installed while its session is open, and owns nothing when it is *)
(* not (killswitch.cpp:34-108).                                            *)
FiltersTracked == KsIdsLive /\ KsClosedIsClean
=============================================================================
