--------------------------- MODULE MCStartupNotice ---------------------------
(***************************************************************************)
(* Popups: the notice at startup, whose dispatchers read the stack of the   *)
(* thread that waits for them, and the slots that Notify's callers share.   *)
(* The notice is queued by XAM itself, without a slot, so the two share no *)
(* state and a behaviour moves one of them.                                *)
(*                                                                         *)
(* Two title IDs, a delay of two polls and two launches: enough for a       *)
(* relaunch of the same title and for a change of title.  Two callers for   *)
(* two slots that threads hold longer than the calls last: both callers can *)
(* find the queue full, and race for a slot that comes back.               *)
(***************************************************************************)
EXTENDS StartupNotice

VARIABLE part

(* Without a title the notice has nothing to show.                         *)
MCInit ==
  /\ part \in {"notice", "slots"} /\ Init /\ SlotsInit
  /\ part = "slots" => titleState = "off"
MCNext ==
  /\ \/ part = "notice" /\ Next /\ UNCHANGED slotVars
     \/ part = "slots" /\ SlotsNext /\ UNCHANGED vars
  /\ UNCHANGED part
MCSpec ==
  /\ MCInit /\ [][MCNext]_<<part, vars, slotVars>>
  /\ part = "notice" => Fairness
  /\ SlotsFairness
=============================================================================
