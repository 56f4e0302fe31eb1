---------------------------- MODULE MCTestClients ----------------------------
(***************************************************************************)
(* Commands that the plugin makes for a player: those of test clients, and  *)
(* those of the movement recorder.  Test clients follow orders, ask for     *)
(* weapons (IW2) and have names, in different entries of the plugin's       *)
(* arrays; the recorder is the client's own.  They share only the title, so *)
(* a behaviour moves one of them: taking turns would multiply their states  *)
(* and show nothing more.                                                  *)
(*                                                                         *)
(* Orders: two slots, so that a bot can mirror a human, a bot or a slot    *)
(* whose client changes.  Slots change hands in the titles that clear the  *)
(* entry for the new client; connect callbacks order the new bot except in *)
(* IW5, which clears the entry after them.  Weapons: two, and two lives,   *)
(* enough to lose the selected one, to own another, and to respawn with    *)
(* either.  Names: two slots, so that a nested call can find the server    *)
(* full; connect callbacks add clients where the static is emptied on      *)
(* entry (IW2) or does not exist (IW5), and the engine may drop the server *)
(* where the shutdown or the next call cleans up.  Recorder: frames enough  *)
(* for two takes, the second longer than the first, and a replay of each;   *)
(* fewer with the helper that looks down, and for all helpers in commands   *)
(* that are not recorded.                                                  *)
(***************************************************************************)
EXTENDS BotControl, BotWeapons, TestClientNames, MovementRecorder

CONSTANTS c1, c2

MCClients == {c1, c2}
MCReuseTitles == {"iw2", "iw5"}
MCCallbackTitles == {"iw2", "iw3", "iw4", "t4"}
MCStock == {"stock"}

VARIABLE part

takeVars == <<recorderTitle, recorderVars, helperVars>>

MCInit ==
  /\ part \in {"orders", "weapons", "names", "recorder", "recorder with helper", "helpers"}
  /\ part = "weapons" => title = "iw2"
  /\ Init /\ WeaponInit /\ NamesInit /\ RecorderInit
  /\ nameTitle = title
  /\ part \notin {"orders", "weapons", "names"} => title = "iw2"
  /\ part # "recorder" => recorderTitle = "iw3"
MCNext ==
  /\ \/ part = "orders" /\ Next /\ UNCHANGED <<weaponVars, nameVars, takeVars>>
     \/ part = "weapons" /\ WeaponNext /\ UNCHANGED <<vars, nameVars, takeVars>>
     \/ part = "names" /\ NamesNext /\ UNCHANGED <<vars, weaponVars, takeVars>>
     \/ /\ RecorderNext /\ UNCHANGED <<vars, weaponVars, nameVars>>
        /\ \/ part = "recorder" /\ helpers' = {} /\ ~lastCommand'.jump
           \/ part = "recorder with helper" /\ helpers' \subseteq {"rpg_lookdown"} /\ ~lastCommand'.jump /\ time' < 6
           \/ part = "helpers" /\ ~recording' /\ time' < 7
  /\ UNCHANGED part
MCSpec == MCInit /\ [][MCNext]_<<part, vars, weaponVars, nameVars, takeVars>>
=============================================================================
