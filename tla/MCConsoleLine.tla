--------------------------- MODULE MCConsoleLine ----------------------------
(* The console: the keystrokes that reach it, its line, and its output.  A *)
(* behaviour moves one of the three: a stroke that edits is a step of the  *)
(* line, and of the strokes only that it is taken.                         *)
(*                                                                         *)
(* Two characters, one of them part of words, in a buffer that holds five: *)
(* two words and what is around them.  Three lines of one character are    *)
(* submitted to a ring of two, so that it wraps and the way back ends.     *)
(* Seven lines are printed where three are visible: two pages up.          *)
(* Two strokes wait: one pressed before and one after the console opened,  *)
(* or a load began; and two keys are one modifier.                         *)
EXTENDS ConsoleLine

VARIABLE part

strokeVars == <<connection, previous, console, down, held, queue, gameVars, unknown>>

(* The keys of the line by their virtual keys, and the characters; the     *)
(* three titles with a line name them alike.                               *)
LineVKs ==
  {"VK_RETURN", "VK_BACK", "VK_DELETE", "VK_HOME", "VK_END", "VK_LEFT", "VK_RIGHT", "VK_UP",
   "VK_DOWN", "VK_PRIOR", "VK_NEXT", "VK_NUMPAD1", "VK_NUMPAD7", "VK_DECIMAL"}
Typed == {<<"VK_A", "a">>, <<"VK_SPACE", " ">>}

MCStrokes ==
  {[key |-> t4sp_convert_virtual_key(p[1], p[2]), char |-> p[2], ctrl |-> ctrl] :
     p \in (LineVKs \X {NoChar}) \union Typed, ctrl \in BOOLEAN}

MCInit ==
  /\ part \in {"line", "pages", "strokes"} /\ LineInit /\ StrokesInit
  /\ part = "line" => title # "iw4_mp"
  /\ part = "pages" => title = "t4_sp"
MCNext ==
  /\ \/ part = "line" /\ LineNext /\ UNCHANGED <<title, pageVars, strokeVars>>
     \/ part = "pages" /\ PageNext /\ UNCHANGED <<title, lineVars, strokeVars>>
     \/ part = "strokes" /\ StrokesNext /\ UNCHANGED <<lineVars, pageVars>>
  /\ UNCHANGED part
MCSpec == MCInit /\ [][MCNext]_<<part, strokesVars, lineVars, pageVars>>
=============================================================================
