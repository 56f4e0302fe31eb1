---------------------------- MODULE ConsoleInput ----------------------------
(***************************************************************************)
(* Where keystrokes go: frame() of the consoles of iw3/mp, t4/mp, t4/sp    *)
(* and iw4/mp_tu6.  XInput queues the strokes of the keyboard; a frame     *)
(* takes them in order, keeps track of modifiers, opens and closes the     *)
(* console, and gives the others to the console's line or to the game.     *)
(* What a key does to the line is ConsoleLine's matter.                    *)
(*                                                                         *)
(* A frame takes up to 16 strokes and nothing else moves meanwhile, so one *)
(* stroke is one step here.                                                *)
(***************************************************************************)
EXTENDS Naturals, Sequences

CONSTANTS
  Titles,     \* of AllTitles, those to check
  Keyboard,   \* keys of the keyboard, of those of AllKeys
  MaxQueue    \* bound: strokes waiting in XInput

AllTitles == {"iw3_mp", "t4_mp", "t4_sp", "iw4_mp"}

VARIABLES
  title,
  connection,     \* connectionState: "loading" or "other"
  previous,       \* previous_connection_state
  open,           \* the console catches keys (keycatch_console)
  outputVisible,  \* con->outputVisible
  down,           \* shift_down, ctrl_down: the modifiers thought to be down
  held,           \* keys that are down on the keyboard
  queue,          \* strokes XInput holds for the title
  gameDown,       \* keys the game thinks are down
  swallowed,      \* of them, those whose release the console took
  unknown         \* modifiers no stroke of which came since the title started

console == <<open, outputVisible>>
gameVars == <<gameDown, swallowed>>
strokesVars == <<title, connection, previous, console, down, held, queue, gameVars, unknown>>

-----------------------------------------------------------------------------
(* Keys: those of a British keyboard, on which Shift makes a console key   *)
(* of another.  XInput gives a key's virtual key and, in Unicode, the      *)
(* character it types with the Shift of the moment, if that is in ASCII.   *)

NoChar == "no character"

AllKeys ==
  [grave |-> [vk |-> "VK_OEM_8", plain |-> "grave", shifted |-> NoChar],
   hash |-> [vk |-> "VK_OEM_7", plain |-> "hash", shifted |-> "tilde"],
   quote |-> [vk |-> "VK_OEM_3", plain |-> "quote", shifted |-> "at"],
   letter |-> [vk |-> "VK_A", plain |-> "a", shifted |-> "A"],
   escape |-> [vk |-> "VK_ESCAPE", plain |-> NoChar, shifted |-> NoChar],
   lshift |-> [vk |-> "VK_LSHIFT", plain |-> NoChar, shifted |-> NoChar],
   rshift |-> [vk |-> "VK_RSHIFT", plain |-> NoChar, shifted |-> NoChar],
   lctrl |-> [vk |-> "VK_LCONTROL", plain |-> NoChar, shifted |-> NoChar]]

ASSUME ConsoleInputAssumption ==
  Titles \subseteq AllTitles /\ Keyboard \subseteq DOMAIN AllKeys

Lower(c) == IF c = "A" THEN "a" ELSE c

keypad_numbers ==
  [VK_NUMPAD0 |-> "K_KP_INS", VK_NUMPAD1 |-> "K_KP_END", VK_NUMPAD2 |-> "K_KP_DOWNARROW",
   VK_NUMPAD3 |-> "K_KP_PGDN", VK_NUMPAD4 |-> "K_KP_LEFTARROW", VK_NUMPAD5 |-> "K_KP_5",
   VK_NUMPAD6 |-> "K_KP_RIGHTARROW", VK_NUMPAD7 |-> "K_KP_HOME", VK_NUMPAD8 |-> "K_KP_UPARROW",
   VK_NUMPAD9 |-> "K_KP_PGUP", VK_DECIMAL |-> "K_KP_DEL", VK_MULTIPLY |-> "K_KP_STAR",
   VK_ADD |-> "K_KP_PLUS", VK_SUBTRACT |-> "K_KP_MINUS", VK_DIVIDE |-> "K_KP_SLASH",
   VK_NUMLOCK |-> "K_KP_NUMLOCK"]

(* The function keys are twelve like the first.                            *)
NamedKeys ==
  [VK_F1 |-> "K_F1", VK_BACK |-> "K_BACKSPACE", VK_TAB |-> "K_TAB", VK_RETURN |-> "K_ENTER",
   VK_ESCAPE |-> "K_ESCAPE", VK_SPACE |-> "K_SPACE", VK_PRIOR |-> "K_PGUP", VK_NEXT |-> "K_PGDN",
   VK_END |-> "K_END", VK_HOME |-> "K_HOME", VK_LEFT |-> "K_LEFTARROW", VK_UP |-> "K_UPARROW",
   VK_RIGHT |-> "K_RIGHTARROW", VK_DOWN |-> "K_DOWNARROW", VK_INSERT |-> "K_INS",
   VK_DELETE |-> "K_DEL", VK_SHIFT |-> "K_SHIFT", VK_LSHIFT |-> "K_SHIFT", VK_RSHIFT |-> "K_SHIFT",
   VK_CONTROL |-> "K_CTRL", VK_LCONTROL |-> "K_CTRL", VK_RCONTROL |-> "K_CTRL", VK_MENU |-> "K_ALT",
   VK_LMENU |-> "K_ALT", VK_RMENU |-> "K_ALT", VK_CAPITAL |-> "K_CAPSLOCK", VK_PAUSE |-> "K_PAUSE"]

OfTable(vk, oem) ==
  IF vk \in DOMAIN NamedKeys THEN NamedKeys[vk]
  ELSE IF vk \in DOMAIN keypad_numbers THEN keypad_numbers[vk]
  ELSE IF vk \in DOMAIN oem THEN oem[vk] ELSE "K_NONE"

(* IW3 and both T4: the character comes first.                             *)
iw3_convert_virtual_key(vk, unicode) ==
  CASE unicode = "hash" -> "caret"
    [] unicode \notin {"hash", NoChar} -> Lower(unicode)
    [] OTHER -> OfTable(vk, [VK_OEM_3 |-> "grave", VK_OEM_8 |-> "caret"])

t4mp_convert_virtual_key(vk, unicode) == iw3_convert_virtual_key(vk, unicode)
t4sp_convert_virtual_key(vk, unicode) == iw3_convert_virtual_key(vk, unicode)

(* IW4: two keys come first; # is a character like others.                 *)
iw4_convert_virtual_key(vk, unicode) ==
  IF vk \in {"VK_OEM_3", "VK_OEM_8"} THEN IF unicode = "tilde" THEN "tilde" ELSE "grave"
  ELSE IF unicode # NoChar THEN Lower(unicode) ELSE OfTable(vk, << >>)

Unicode(k, shift) == IF shift THEN AllKeys[k].shifted ELSE AllKeys[k].plain

Names ==
  [t \in AllTitles |-> [k \in Keyboard |-> [shift \in BOOLEAN |->
    LET vk == AllKeys[k].vk
        unicode == Unicode(k, shift)
    IN CASE t = "iw3_mp" -> iw3_convert_virtual_key(vk, unicode)
         [] t = "t4_mp" -> t4mp_convert_virtual_key(vk, unicode)
         [] t = "t4_sp" -> t4sp_convert_virtual_key(vk, unicode)
         [] t = "iw4_mp" -> iw4_convert_virtual_key(vk, unicode)]]]

AllNames ==
  [t \in AllTitles |-> {Names[t][k][shift] : k \in Keyboard, shift \in BOOLEAN}]
KeyOf(k, shift) == Names[title][k][shift]

(* CL_IsConsoleKey: that of T4 SP, which the engines of IW3 and T4 MP have *)
(* too.                                                                    *)
CL_IsConsoleKey(key) == key \in {"grave", "caret", "tilde"}
iw4_is_console_key(key) == key \in {"grave", "tilde"}

(* IW4 keeps no ctrl_down.                                                 *)
Modifiers == IF title = "iw4_mp" THEN {"K_SHIFT"} ELSE {"K_SHIFT", "K_CTRL"}

is_keyup(s) == "keyup" \in s.flags
should_process_key_down(s) == "keydown" \in s.flags \/ "repeat" \in s.flags

-----------------------------------------------------------------------------
(* Console *)

(* With T4 SP's Con_Close and Con_ToggleConsole, which are the engine's in *)
(* the other titles.                                                       *)
Con_Close == open' = FALSE
close == Con_Close /\ outputVisible' = FALSE

Con_ToggleConsole == open' = ~open /\ outputVisible' = FALSE
toggle == IF connection = "loading" THEN close ELSE Con_ToggleConsole

(* Only from frame(), while the client does not load: the toggle, which    *)
(* hides the output, opens, and Con_ToggleConsoleOutput follows.           *)
toggle_large_console ==
  /\ open' = TRUE
  /\ outputVisible' = IF open THEN ~outputVisible ELSE TRUE

is_shift_down(s) == "K_SHIFT" \in down' \/ s.shift

(* Repeats of the console key do nothing.                                  *)
OnPress(s, large) ==
  IF is_keyup(s) \/ "keydown" \notin s.flags THEN UNCHANGED console
  ELSE IF large THEN toggle_large_console ELSE toggle

ConsoleKey(s) == OnPress(s, is_shift_down(s))
IW4ConsoleKey(s, key) == OnPress(s, is_shift_down(s) \/ key = "tilde")

-----------------------------------------------------------------------------
(* Strokes *)

(* CL_GamepadButtonEvent and CL_KeyEvent.                                  *)
SendToGame(key, isDown) ==
  /\ gameDown' = IF isDown THEN gameDown \union {key} ELSE gameDown \ {key}
  /\ swallowed' = swallowed \ {key}

(* An open console takes every stroke, releases too.                       *)
dispatch_console_key(s, key) ==
  /\ swallowed' = IF is_keyup(s) THEN swallowed \union (gameDown \intersect {key}) ELSE swallowed
  /\ UNCHANGED gameDown
  /\ IF key = "K_ESCAPE" /\ ~is_keyup(s) /\ should_process_key_down(s) THEN close
     ELSE UNCHANGED console

(* IW3 gives to the game what the console does not take.                   *)
IW3Stroke(s, key) ==
  /\ title = "iw3_mp"
  /\ IF CL_IsConsoleKey(key) THEN ConsoleKey(s) /\ UNCHANGED gameVars
     ELSE IF open THEN dispatch_console_key(s, key)
     ELSE SendToGame(key, ~is_keyup(s)) /\ UNCHANGED console

(* T4 MP and T4 SP have no use for it.                                     *)
T4Stroke(s, key) ==
  IF CL_IsConsoleKey(key) THEN ConsoleKey(s) /\ UNCHANGED gameVars
  ELSE IF open THEN dispatch_console_key(s, key)
  ELSE UNCHANGED <<console, gameVars>>

T4MPStroke(s, key) == title = "t4_mp" /\ T4Stroke(s, key)
T4SPStroke(s, key) == title = "t4_sp" /\ T4Stroke(s, key)

(* IW4 leaves the others to the engine, whose console may close on escape. *)
IW4Stroke(s, key) ==
  /\ title = "iw4_mp"
  /\ IF iw4_is_console_key(key) THEN IW4ConsoleKey(s, key) /\ UNCHANGED gameVars
     ELSE /\ SendToGame(key, ~is_keyup(s))
          /\ UNCHANGED outputVisible
          /\ open' \in IF key = "K_ESCAPE" THEN {open, FALSE} ELSE {open}

update_modifier_state(key, isDown) ==
  IF key \in Modifiers THEN /\ down' = IF isDown THEN down \union {key} ELSE down \ {key}
                            /\ unknown' = unknown \ {key}
  ELSE UNCHANGED <<down, unknown>>

(* frame() with a stroke to take.                                          *)
TakeStroke ==
  /\ connection # "loading" /\ queue # <<>>
  /\ previous' = connection
  /\ queue' = Tail(queue)
  /\ LET s == Head(queue)
         key == KeyOf(s.key, s.shift) IN
     /\ update_modifier_state(key, ~is_keyup(s))
     /\ IW3Stroke(s, key) \/ T4MPStroke(s, key) \/ T4SPStroke(s, key) \/ IW4Stroke(s, key)
  /\ UNCHANGED <<title, connection, held>>

(* and with none.                                                          *)
EmptyFrame ==
  /\ connection # "loading" /\ queue = <<>>
  /\ previous' = connection
  /\ UNCHANGED <<title, connection, console, down, held, queue, gameVars, unknown>>

(* Mutant: strokes typed during the load are thrown away.                  *)
LoadingFrameDrain ==
  /\ connection = "loading"
  /\ IF previous # "loading" THEN close ELSE UNCHANGED console
  /\ previous' = "loading"
  /\ queue' = <<>>
  /\ UNCHANGED <<title, connection, down, held, gameVars, unknown>>

(* frame() while loading: strokes wait.                                    *)
LoadingFrame ==
  /\ connection = "loading"
  /\ IF previous # "loading" THEN close ELSE UNCHANGED console
  /\ previous' = "loading"
  /\ UNCHANGED <<title, connection, down, held, queue, gameVars, unknown>>

(* The command of IW3 and IW4, which a controller's binding can run at any *)
(* time.                                                                   *)
Cmd_ToggleConsole_f ==
  /\ title \in {"iw3_mp", "iw4_mp"}
  /\ toggle
  /\ UNCHANGED <<title, connection, previous, down, held, queue, gameVars, unknown>>

-----------------------------------------------------------------------------
(* Keyboard, engine and title *)

Strike(k, flags) ==
  /\ Len(queue) < MaxQueue
  /\ queue' = Append(queue, [key |-> k, flags |-> flags,
                             shift |-> held' \intersect {"lshift", "rshift"} # {}])
  /\ UNCHANGED <<title, connection, previous, console, down, gameVars, unknown>>

PressKey(k) == k \notin held /\ held' = held \union {k} /\ Strike(k, {"keydown"})
ReleaseKey(k) == k \in held /\ held' = held \ {k} /\ Strike(k, {"keyup"})

(* Whether a repeat is also flagged as keydown, XInput leaves open.        *)
HoldOn(k) ==
  /\ k \in held /\ UNCHANGED held
  /\ \E flags \in {{"repeat"}, {"keydown", "repeat"}} : Strike(k, flags)

(* A frame has run in the state the client leaves.                         *)
ChangeConnection ==
  /\ previous = connection
  /\ connection' = IF connection = "loading" THEN "other" ELSE "loading"
  /\ UNCHANGED <<title, previous, console, down, held, queue, gameVars, unknown>>

(* Another launch of the title: the statics of the DLL stay, what the game *)
(* and XInput hold is gone, and keys may have gone up unseen.              *)
Relaunch ==
  /\ connection' = "other"
  /\ open' = FALSE /\ outputVisible' = FALSE
  /\ held' \in {held, {}} /\ queue' = <<>>
  /\ gameDown' = {} /\ swallowed' = {}
  /\ unknown' = Modifiers
  /\ UNCHANGED <<title, previous, down>>

StrokesInit ==
  /\ title \in Titles
  /\ connection = "other" /\ previous = "other"
  /\ open = FALSE /\ outputVisible = FALSE
  /\ down = {} /\ held = {} /\ queue = <<>>
  /\ gameDown = {} /\ swallowed = {} /\ unknown = {}

StrokesNext ==
  \/ TakeStroke \/ EmptyFrame \/ LoadingFrame \/ Cmd_ToggleConsole_f
  \/ \E k \in Keyboard : PressKey(k) \/ ReleaseKey(k) \/ HoldOn(k)
  \/ ChangeConnection \/ Relaunch

StrokesSpec == StrokesInit /\ [][StrokesNext]_strokesVars

-----------------------------------------------------------------------------
(* Properties *)

StrokesTypes ==
  /\ title \in AllTitles
  /\ {connection, previous} \subseteq {"loading", "other"}
  /\ {open, outputVisible} \subseteq BOOLEAN
  /\ down \subseteq Modifiers /\ unknown \subseteq Modifiers
  /\ held \subseteq Keyboard
  /\ queue \in Seq([key : Keyboard, flags : SUBSET {"keydown", "keyup", "repeat"}, shift : BOOLEAN])
  /\ gameDown \subseteq AllNames[title]
  /\ swallowed \subseteq gameDown

(* Once a frame has seen the client load, nothing shows the console: no    *)
(* stroke, no command run from a binding, no launch that ended in a load   *)
(* (iw3/mp/components/console.cpp:302, :378).                              *)
ClosedWhileLoading ==
  connection = "loading" /\ previous = "loading" => ~open /\ ~outputVisible

(* The key was down before the strokes that still wait: before the first   *)
(* of its own, or there is none.                                           *)
WasDown(k) ==
  \/ k \in held /\ \A i \in DOMAIN queue : queue[i].key # k
  \/ \E i \in DOMAIN queue :
       /\ queue[i].key = k /\ \A j \in 1..i - 1 : queue[j].key # k
       /\ queue[i].flags # {"keydown"}

Owners ==
  [t \in AllTitles |-> [key \in AllNames[t] |->
    {k \in Keyboard : \E shift \in BOOLEAN : Names[t][k][shift] = key}]]
KeysOf(key) == Owners[title][key]

(* Keys that are one key of the game with and without Shift.  Others, as   *)
(* IW4's #, go up under the name of another key, if at all.                *)
OneKey ==
  [t \in AllTitles |-> {key \in AllNames[t] :
    \A k \in Owners[t][key], shift \in BOOLEAN : Names[t][k][shift] = key}]

(* A modifier is thought to be down only if one of its keys is, and        *)
(* whenever all are; and a key that the game thinks is down is down or its *)
(* release was taken by the console.  Over consoles opened and closed with *)
(* keys held, and loads, during which strokes wait (console.cpp:302, :343, *)
(* :362).                                                                  *)
KeysFollowKeyboard ==
  /\ \A m \in (Modifiers \intersect AllNames[title]) \ unknown :
       /\ m \in down => \E k \in KeysOf(m) : WasDown(k)
       /\ (\A k \in KeysOf(m) : WasDown(k)) => m \in down
  /\ \A key \in (gameDown \ swallowed) \intersect OneKey[title] : \E k \in KeysOf(key) : WasDown(k)

(* What the plugin and the game think of the keys follows the keyboard,    *)
(* and while the client loads the console is closed.                       *)
StrokesInOrder == StrokesTypes /\ KeysFollowKeyboard /\ ClosedWhileLoading
=============================================================================
