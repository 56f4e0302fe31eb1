------------------------------ MODULE ScriptCalls ------------------------------
(***************************************************************************)
(* Which code a script's call runs: a built-in of the plugin or of the     *)
(* engine (gsc.cpp of each title), and in IW3 and T4 the function that     *)
(* replacefunc put in the place of another.                                *)
(*                                                                         *)
(* Replacements are kept by code position.  The engine places the scripts  *)
(* of an instance anew after a complete shutdown of it, maybe where those  *)
(* of an earlier session or of the other instance were, and leaves them in *)
(* place after one that is not complete.                                   *)
(***************************************************************************)
EXTENDS Integers, Sequences, Functions

CONSTANTS
  CallTitles,       \* of "iw2", "iw3", "iw4", "iw4sp", "iw5", "qos", "t4", "t4sp"
  Functions,    \* of the server's scripts
  ClientFunctions, \* of the client's scripts (T4)
  Positions,    \* 1, 2, ...
  MaxShutdowns  \* bound: complete shutdowns

VARIABLES
  callTitle,
  placed,       \* function -> code position
  ReplacedFunctions, \* position -> position, of those asked for
  asked,        \* function -> function: the replacements of this session
  registered,   \* the engine's table of built-ins: name -> who answers
  shutdowns     \* complete ones

callVars == <<callTitle, placed, ReplacedFunctions, asked, registered, shutdowns>>

AllFunctions == Functions \cup ClientFunctions
Placements == Injection(AllFunctions, Positions)
None == [x \in {} |-> x]
With(f, x, y) == [z \in DOMAIN f \cup {x} |-> IF z = x THEN y ELSE f[z]]
NULL == 0    \* no position

ASSUME ScriptCallsAssumption ==
  /\ Functions \cap ClientFunctions = {}
  /\ "other" \notin AllFunctions
  /\ NULL \notin Positions
  /\ CallTitles \subseteq {"iw2", "iw3", "iw4", "iw4sp", "iw5", "qos", "t4", "t4sp"}

-----------------------------------------------------------------------------
(* Built-ins *)

(* The names the plugin answers, and whether it is asked for a name or     *)
(* registers its own when the engine does (IW5's are tokens; its methods    *)
(* are selectors of getviewmodel).                                         *)
iw2_builtins ==
  [functions |-> {"exec", "printconsole", "addtestclient", "openfile", "closefile", "freadln",
                  "fgetarg", "fprintln"},
   methods |-> {"buttonpressed", "adsbuttonpressed", "jumpbuttonpressed", "fragbuttonpressed",
                "smokebuttonpressed", "forwardbuttonpressed", "backbuttonpressed",
                "leftbuttonpressed", "rightbuttonpressed", "getstance", "setstance",
                "getvelocity", "setvelocity", "botaction", "botstop", "botmovement",
                "botangles", "isbot", "ishost", "ismantling", "isonladder"},
   found |-> TRUE, registered |-> FALSE]
iw3_builtins ==
  [functions |-> {"exec", "getplayerclipbrushescontainingpoint", "fs_testfile", "fs_fopen",
                  "fs_fclose", "fs_readline", "fs_writeline", "isarray", "float",
                  "precachestring", "addtestclient", "replacefunc"},
   methods |-> {"settext", "buttonpressed", "sprintbreathbuttonpressed", "leanleftbuttonpressed",
                "leanrightbuttonpressed", "jumpbuttonpressed", "holdbreathbuttonpressed",
                "nightvisionbuttonpressed", "forwardbuttonpressed", "backbuttonpressed",
                "leftbuttonpressed", "rightbuttonpressed", "setvelocity", "setstance",
                "clonebrushmodeltoscriptmodel", "setbrushmodel", "botmoveto", "botaction",
                "botmirror", "botstop"},
   found |-> TRUE, registered |-> FALSE]
iw4_builtins ==
  [functions |-> {"exec", "printconsole", "filewrite", "fileread", "fileexists", "openfile",
                  "readstream", "closefile", "addtestclient"},
   methods |-> {"disableplayercliponintersectingbrushes", "botaction", "botstop", "botmovement",
                "botmeleeparams", "botremoteangles", "botangles"},
   found |-> TRUE, registered |-> TRUE]
iw4sp_builtins ==
  [functions |-> {"exec"}, methods |-> {}, found |-> TRUE, registered |-> TRUE]
iw5_builtins ==
  [functions |-> {"addtestclient", "openfile", "closefile", "fprintln", "freadln"},
   methods |-> {"setclientflags", "getclientflags", "setentityflags", "getentityflags",
                "disablebrushcollisionatorigin", "botaction", "botstop", "botmovement",
                "botmeleeparams", "botremoteangles", "botangles"},
   found |-> FALSE, registered |-> TRUE]
qos_builtins ==
  [functions |-> {"exec"},
   methods |-> {"disableplayerclipontouchingbrushes", "buttonpressed", "adsbuttonpressed",
                "jumpbuttonpressed", "nextfiretypebuttonpressed", "sprintbuttonpressed",
                "setplayervelocity"},
   found |-> TRUE, registered |-> FALSE]
t4_functions ==
  {"addtestclient", "replacefunc", "getplayerclipbrushescontainingpoint", "fs_testfile",
   "fs_fopen", "fs_fclose", "fs_readline", "fs_writeline", "cmdexec"}
t4_methods ==
  {"buttonpressed", "sprintbuttonpressed", "jumpbuttonpressed", "setvelocity",
   "getforwardmove", "getrightmove", "clonebrushmodeltoscriptmodel", "botaction", "botstop",
   "botmovement", "botmeleeparams", "botangles", "isbot", "ishost"}
t4sp_builtins ==
  [functions |-> {"spawncollision"},
   methods |-> {"jumpbuttonpressed", "secondaryoffhandbuttonpressed", "sprintbuttonpressed",
                "moveforwardbuttonpressed", "movebackbuttonpressed", "moveleftbuttonpressed",
                "moverightbuttonpressed", "clonebrushmodeltoscriptmodel"},
   found |-> TRUE, registered |-> FALSE]

builtins ==
  CASE callTitle = "iw2" -> iw2_builtins [] callTitle = "iw3" -> iw3_builtins [] callTitle = "iw4" -> iw4_builtins
    [] callTitle = "iw4sp" -> iw4sp_builtins [] callTitle = "iw5" -> iw5_builtins
    [] callTitle = "qos" -> qos_builtins [] callTitle = "t4sp" -> t4sp_builtins
    [] callTitle = "t4" -> [functions |-> t4_functions, methods |-> t4_methods,
                        found |-> TRUE, registered |-> FALSE]

(* Some of them the engine has too (IW5's addtestclient does nothing).      *)
EngineNames == {"addtestclient", "precachestring", "settext", "buttonpressed", "print"}

(* Scr_GetFunction without a name registers the engine's built-ins; of two *)
(* under a name (IW5: a token) the last counts.  IW5 adds its own behind   *)
(* the engine's, IW4 before.                                               *)
RegisterNames(own) ==
  [n \in EngineNames \cup own |->
    IF callTitle = "iw5" /\ n \in own THEN "plugin"
    ELSE IF n \in EngineNames THEN "engine"
    ELSE IF builtins.registered THEN "plugin" ELSE "unknown"]
Registered == RegisterNames(builtins.functions)

(* With a name it finds one, upper or lower case: the plugin's table is     *)
(* asked first.  IW5's compiler knows only tokens.                         *)
Find(name, table) == name \in table
GetFunction(name) ==
  IF builtins.found /\ Find(name, builtins.functions) THEN "plugin" ELSE registered[name]

(* Methods likewise (T4: Player_GetMethod), in IW5 by the selector that is *)
(* given to getviewmodel.                                                  *)
GetMethod(name) == IF Find(name, builtins.methods) THEN "plugin" ELSE "engine"

-----------------------------------------------------------------------------
(* replacefunc *)

(* A parameter is a function, or something else.                           *)
GetCodePosForParam(params, index) ==
  IF index \notin DOMAIN params THEN NULL
  ELSE IF params[index] \in AllFunctions THEN placed[params[index]] ELSE NULL

(* Anything but two functions is a script error.                           *)
ReplaceFunc(params) ==
  LET what == GetCodePosForParam(params, 1)
      with == GetCodePosForParam(params, 2)
  IN /\ callTitle \in {"iw3", "t4"}
     /\ Len(params) = 2 /\ what # NULL /\ with # NULL
     /\ ReplacedFunctions' = With(ReplacedFunctions, what, with)
     /\ asked' = With(asked, params[1], params[2])
     /\ UNCHANGED <<callTitle, placed, registered, shutdowns>>

(* VM_Execute fetches its first opcode at this position.                   *)
GetReplacedPos(pos, inst) ==
  IF inst = "server" /\ pos \in DOMAIN ReplacedFunctions THEN ReplacedFunctions[pos] ELSE pos

(* The function that a call of f runs.                                     *)
Runs(f) ==
  LET pos == GetReplacedPos(placed[f], IF f \in Functions THEN "server" ELSE "client")
  IN {g \in AllFunctions : placed[g] = pos}

-----------------------------------------------------------------------------
(* Sessions *)

(* Mutant: the replacements outlive the session. *)
OnVMShutdownKeeps == UNCHANGED ReplacedFunctions
OnVMShutdown == ReplacedFunctions' = None

(* An instance's virtual machine ends, and starts again.                   *)
Scr_ShutdownSystem(inst, complete) ==
  /\ IF complete THEN shutdowns < MaxShutdowns /\ shutdowns' = shutdowns + 1 ELSE UNCHANGED shutdowns
  /\ IF inst = "server" /\ complete
     THEN OnVMShutdown /\ asked' = None
     ELSE UNCHANGED <<ReplacedFunctions, asked>>
  /\ IF complete
     THEN /\ placed' \in Placements
          /\ \A f \in AllFunctions \ (IF inst = "server" THEN Functions ELSE ClientFunctions) :
               placed'[f] = placed[f]
     ELSE UNCHANGED placed
  /\ registered' = Registered
  /\ UNCHANGED callTitle

CallsInit ==
  /\ callTitle \in CallTitles
  /\ placed \in Placements
  /\ ReplacedFunctions = None
  /\ asked = None
  /\ registered = Registered
  /\ shutdowns = 0

Params == UNION {[1..n -> Functions \cup {"other"}] : n \in 1..2}

CallsNext ==
  \/ \E params \in Params : ReplaceFunc(params)
  \/ \E complete \in BOOLEAN : Scr_ShutdownSystem("server", complete)
  \/ callTitle = "t4" /\ \E complete \in BOOLEAN : Scr_ShutdownSystem("client", complete)

CallsSpec == CallsInit /\ [][CallsNext]_callVars

-----------------------------------------------------------------------------
(* A call of the server's scripts runs the function that replacefunc named  *)
(* last for it since the last complete shutdown, or its own, and never one  *)
(* of an earlier session; the client's scripts run their own.               *)
CallsRunReplacements ==
  \A f \in AllFunctions : Runs(f) = {IF f \in DOMAIN asked THEN asked[f] ELSE f}

(* A built-in of the plugin is the plugin's in every title, also where the  *)
(* engine has one of that name, and the others stay the engine's.          *)
PluginAnswersItsNames ==
  /\ \A n \in builtins.functions : GetFunction(n) = "plugin"
  /\ \A n \in builtins.methods : GetMethod(n) = "plugin"
  /\ \A n \in EngineNames :
       /\ n \notin builtins.functions => GetFunction(n) = "engine"
       /\ n \notin builtins.methods => GetMethod(n) = "engine"

(* Which code a call runs: both of these (GetReplacedPos, and              *)
(* Scr_GetFunction_Hook of each title).                                    *)
CallsRunWhatWasAsked == CallsRunReplacements /\ PluginAnswersItsNames
=============================================================================
