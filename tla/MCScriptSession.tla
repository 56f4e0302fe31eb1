--------------------------- MODULE MCScriptSession ---------------------------
(***************************************************************************)
(* What the plugin keeps for script sessions: the files scripts opened,    *)
(* the strings of their hud elements, the functions they replaced, the     *)
(* fields of players that they assigned, and what they made of entities.   *)
(* These share no state, so a behaviour moves one of them: taking turns    *)
(* would multiply their states and show nothing more.                      *)
(*                                                                         *)
(* Two handles: all in use, one closed and reused while the other is open; *)
(* two sessions and titles that follow one another.  Three elements can    *)
(* show one text, and four texts overflow three strings.  Three functions  *)
(* of the server: one replaces another that replaces a third, and each     *)
(* position can be another's in the next session.  Two clients and an      *)
(* entity without one: a field of one is not that of another.  Three       *)
(* entities, two of them with a brush model at a time, four calls.         *)
(***************************************************************************)
EXTENDS ScriptFiles, HudStrings, ScriptCalls, ScriptFields, ScriptEntities

VARIABLE part

AllCallTitles == {"iw2", "iw3", "iw4", "iw4sp", "iw5", "qos", "t4", "t4sp"}
SticksMoved == {[forward |-> 0, right |-> 0], [forward |-> 127, right |-> 0], [forward |-> 0, right |-> -127]}

(* The parts start as they can be in the behaviours that move them.        *)
MCInit ==
  /\ part \in {"files", "hud", "calls", "fields", "entities"}
  /\ Init
  /\ part # "files" => disk = [f \in Files |-> NoFile]
  /\ HudInit
  /\ CallsInit
  /\ part # "calls" => callTitle = "iw3" /\ placed = CHOOSE p \in Placements : TRUE
  /\ FieldsInit
  /\ part # "fields" => fieldTitle = "iw3"
  /\ EntitiesInit
  /\ part # "entities" => entityTitle = "iw3"
MCNext ==
  /\ \/ part = "files" /\ Next /\ UNCHANGED <<hudVars, callVars, fieldVars, entityVars>>
     \/ part = "hud" /\ HudNext /\ UNCHANGED <<vars, callVars, fieldVars, entityVars>>
     \/ part = "calls" /\ CallsNext /\ UNCHANGED <<vars, hudVars, fieldVars, entityVars>>
     \/ part = "fields" /\ FieldsNext /\ UNCHANGED <<vars, hudVars, callVars, entityVars>>
     \/ part = "entities" /\ EntitiesNext /\ UNCHANGED <<vars, hudVars, callVars, fieldVars>>
  /\ UNCHANGED part
MCSpec == MCInit /\ [][MCNext]_<<part, vars, hudVars, callVars, fieldVars, entityVars>>
=============================================================================
