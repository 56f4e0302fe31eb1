------------------------------ MODULE DrawHooks ------------------------------
(***************************************************************************)
(* What the plugin does where the renderers of IW3 and IW4 draw.           *)
(*                                                                         *)
(* The mirrored world of IW3 (mirror_world.cpp): the backend draws the     *)
(* world reflected and the weapon as it is, and each command of a client   *)
(* turns, strafes and leans the other way.  The backend keeps what it last *)
(* gave to the GPU.  Constants are uploaded where their version changed,   *)
(* culling where its bits did; the hooks run before both.  The dvar may    *)
(* change between any two steps.  Angles are whole degrees, of which       *)
(* MirrorAngle takes differences.                                          *)
(*                                                                         *)
(* The debug lines and strings that the games keep but no longer draw, and *)
(* the lines of the plugin's tools (debug_draw.cpp of IW3 and IW4): the    *)
(* frontend appends commands to a buffer of the frame that may be full;    *)
(* the backend executes them in order, under the projection that a command *)
(* set last.  The engine draws the HUD behind them, in 2D.                 *)
(***************************************************************************)
EXTENDS Integers, Sequences, SequencesExt

CONSTANTS
  Clients,    \* local clients
  Moves,      \* of -128..127: rightmove of a command, a signed byte
  Turns,      \* what a device turns a view by in a command
  MaxToggles, \* bound: changes of the dvar
  DrawTitles, \* of "iw3", "iw4"
  BatchLines, \* 64: lines of one command
  LineQueues, \* what may wait in a queue of lines: each line's depthTest
  StringQueues, \* how many strings may wait
  Rooms       \* what may be left of the buffer

ASSUME MirrorAssumption == Moves \subseteq -128..127 /\ Turns \subseteq Int

VARIABLES
  enabled, toggles,
  steady,     \* enabled has not changed since the arguments were set
  scene,      \* what is drawn: "world", "shadow", "2d"
  weapon,     \* depthHackFlags = GFX_DEPTH_RANGE_VIEWMODEL
  projection, \* viewParms has its X reflected
  uploaded,   \* the constants of the GPU: [reflected, current]
  material,   \* refStateBits: the culling the material asks for
  culling,    \* activeStateBits
  stage,      \* the next call of the backend
  drawn,      \* the last draw
  commandInputs,
  input,      \* what the devices give the command, and whether to mirror it
  command,    \* the command that is being made
  drawTitle,
  queues,     \* svLinesBuffer, clLines, svStringsBuffer, clStrings
  buffer,     \* the commands that are to be executed
  fits,       \* nothing was left out for lack of room
  drawProjection,
  drawnCommands \* what the backend drew: [kind, depth, projection]

viewVars == <<scene, weapon, projection, uploaded, material, culling, stage, drawn>>
inputVars == <<commandInputs, input, command>>
mirrorVars == <<enabled, toggles, steady, viewVars, inputVars>>

NoDraw == [scene |-> "2d", reflected |-> FALSE, wanted |-> FALSE, culled |-> "none", material |-> "none"]

-----------------------------------------------------------------------------
(* The backend *)

Flipped(cull) == CASE cull = "back" -> "front" [] cull = "front" -> "back" [] OTHER -> cull
CullStateBits(cull, mirrored) == IF mirrored THEN Flipped(cull) ELSE cull

(* Only main views have the infinite perspective that UpdateProjection      *)
(* looks for; their projection is reflected, or set right again.           *)
IsMainView == scene = "world"
Mirrored == IsMainView /\ enabled /\ ~weapon

(* Mutant: the matrices are reflected, their versions stay. *)
ProjectionKeepVersion ==
  [reflected |-> IF IsMainView THEN Mirrored ELSE projection, versions |-> FALSE]
UpdatedProjection ==
  LET reflected == IF IsMainView THEN Mirrored ELSE projection
  IN [reflected |-> reflected, versions |-> reflected # projection]

(* UpdateDrawContext, and the upload of what has a new version.            *)
UpdateDrawContext ==
  LET updated == UpdatedProjection
      fresh == uploaded.current /\ ~updated.versions
  IN /\ projection' = updated.reflected
     /\ culling' = CullStateBits(material, Mirrored)
     /\ uploaded' = [reflected |-> IF fresh THEN uploaded.reflected ELSE updated.reflected, current |-> TRUE]

(* The engine begins a view, with the matrices of that view.               *)
BeginView(s) ==
  /\ stage \in {"pass", "draw"}
  /\ scene' = s
  /\ weapon' = FALSE
  /\ projection' = FALSE
  /\ uploaded' = [uploaded EXCEPT !.current = FALSE]
  /\ stage' = "pass"
  /\ UNCHANGED <<material, culling, drawn, steady>>

(* R_SetupPass: the state of a material, then what the hook does to it.    *)
SetupPass(cull) ==
  /\ stage \in {"pass", "draw"}
  /\ material' = cull
  /\ projection' = UpdatedProjection.reflected
  /\ uploaded' = [uploaded EXCEPT !.current = @ /\ ~UpdatedProjection.versions]
  /\ culling' = CullStateBits(cull, Mirrored)
  /\ stage' = "arguments"
  /\ UNCHANGED <<scene, weapon, drawn, steady>>

(* The next object: the depth hack is changed in line, and the pass may     *)
(* stay.                                                                   *)
NextObject(hack) ==
  /\ stage \in {"arguments", "draw"}
  /\ scene = "world"
  /\ weapon' = hack
  /\ stage' = "arguments"
  /\ UNCHANGED <<scene, projection, uploaded, material, culling, drawn, steady>>

(* R_SetPassVertexShaderStableArguments, R_SetPassShaderObjectArguments and *)
(* R_SetPassShaderPrimArguments.                                           *)
SetArguments ==
  /\ stage \in {"arguments", "draw"}
  /\ UpdateDrawContext
  /\ stage' = "draw"
  /\ steady' = TRUE
  /\ UNCHANGED <<scene, weapon, material, drawn>>

DrawPrimitive ==
  /\ stage = "draw"
  /\ drawn' = [scene |-> scene, reflected |-> uploaded.reflected,
               wanted |-> IF steady THEN Mirrored ELSE uploaded.reflected,
               culled |-> culling, material |-> material]
  /\ UNCHANGED <<scene, weapon, projection, uploaded, material, culling, stage, steady>>

-----------------------------------------------------------------------------
(* Commands *)

Clamp(move) == IF move > 127 THEN 127 ELSE move
MirrorMove(move) == Clamp(-move)
AngleDelta(before, after) ==
  LET delta == (after - before) % 360 IN IF delta > 180 THEN delta - 360 ELSE delta
MirrorAngle(before, after) == before - AngleDelta(before, after)
MirrorLean(lean) == CASE lean = "left" -> "right" [] lean = "right" -> "left" [] OTHER -> lean

NoCommand == [state |-> "none"]
NoDevices ==
  [client |-> CHOOSE c \in Clients : TRUE, mirror |-> FALSE,
   mouse |-> 0, stick |-> 0, assist |-> 0, move |-> 0, lean |-> "none"]
NoCommandInput == [mirror |-> FALSE, gamepadYaw |-> FALSE, yaw |-> 0]

(* CL_CreateCmd: a client in a menu turns nothing.  Keys and mouse have     *)
(* turned the view when the gamepad is read.                               *)
CreateCmd(c, catchers, devices) ==
  /\ command.state = "none"
  /\ input' = [devices EXCEPT !.client = c, !.mirror = enabled /\ ~catchers]
  /\ commandInputs' = [commandInputs EXCEPT ![c] = [NoCommandInput EXCEPT !.mirror = enabled /\ ~catchers]]
  /\ command' = [state |-> "keys", yaw |-> devices.mouse, move |-> devices.move, lean |-> devices.lean]

(* AimAssist_UpdateGamePadInput turns by the stick, and by its corrections, *)
(* which are of the world.                                                 *)
UpdateGamePadInput ==
  LET mine == commandInputs[input.client]
      turned == IF mine.mirror THEN MirrorAngle(mine.yaw, command.yaw) - input.stick
                ELSE command.yaw + input.stick
  IN /\ command.state = "keys"
     /\ command' = [command EXCEPT !.state = "gamepad", !.yaw = turned + input.assist]
     /\ commandInputs' = [commandInputs EXCEPT ![input.client].gamepadYaw = mine.mirror]
     /\ UNCHANGED input

(* CL_FinishMove and the end of CL_CreateCmd, which puts back what was.     *)
FinishMove ==
  LET mine == commandInputs[input.client] IN
  /\ command.state \in {"keys", "gamepad"}
  /\ command' =
       [state |-> "made", gamepad |-> command.state = "gamepad",
        yaw  |-> IF mine.mirror /\ ~mine.gamepadYaw THEN MirrorAngle(mine.yaw, command.yaw) ELSE command.yaw,
        move |-> IF mine.mirror THEN MirrorMove(command.move) ELSE command.move,
        lean |-> IF mine.mirror THEN MirrorLean(command.lean) ELSE command.lean]
  /\ commandInputs' = [commandInputs EXCEPT ![input.client] = NoCommandInput]
  /\ UNCHANGED input

(* The command leaves.                                                     *)
SendCmd ==
  /\ command.state = "made"
  /\ command' = NoCommand
  /\ input' = NoDevices
  /\ UNCHANGED commandInputs

-----------------------------------------------------------------------------
Toggle ==
  /\ toggles < MaxToggles
  /\ toggles' = toggles + 1
  /\ enabled' = ~enabled
  /\ steady' = FALSE

MirrorInit ==
  /\ enabled = FALSE /\ toggles = 0
  /\ scene = "2d" /\ weapon = FALSE
  /\ projection = FALSE
  /\ uploaded = [reflected |-> FALSE, current |-> TRUE]
  /\ material = "back" /\ culling = "back"
  /\ stage = "pass" /\ steady = TRUE
  /\ drawn = NoDraw
  /\ commandInputs = [c \in Clients |-> NoCommandInput]
  /\ input = NoDevices
  /\ command = NoCommand

ViewNext ==
  \/ Toggle /\ UNCHANGED <<viewVars, inputVars>>
  \/ /\ \/ \E s \in {"world", "shadow", "2d"} : BeginView(s)
        \/ \E cull \in {"none", "back", "front"} : SetupPass(cull)
        \/ \E hack \in BOOLEAN : NextObject(hack)
        \/ SetArguments
        \/ DrawPrimitive
     /\ UNCHANGED <<enabled, toggles, inputVars>>

Devices ==
  [client : Clients, mirror : {FALSE}, mouse : Turns, stick : Turns, assist : {0, 2},
   move : Moves, lean : {"none", "left", "right"}]

InputNext ==
  \/ Toggle /\ UNCHANGED <<viewVars, inputVars>>
  \/ /\ \/ \E c \in Clients, catchers \in BOOLEAN, devices \in Devices : CreateCmd(c, catchers, devices)
        \/ UpdateGamePadInput
        \/ FinishMove
        \/ SendCmd
     /\ UNCHANGED <<enabled, toggles, steady, viewVars>>

-----------------------------------------------------------------------------
(* Of each draw the culling goes with the projection that the GPU has, and  *)
(* that is reflected for the world of a main view alone: not for the        *)
(* weapon, shadows and the HUD.  A draw in which the dvar changes may be    *)
(* either.                                                                 *)
DrawnConsistently ==
  /\ drawn.culled = CullStateBits(drawn.material, drawn.reflected)
  /\ drawn.reflected = drawn.wanted
  /\ drawn.reflected => drawn.scene = "world"

(* A command is mirrored as a whole or not at all, each turn and move once, *)
(* as the dvar was when it was begun; the corrections of aim assist are     *)
(* not.                                                                    *)
CommandsMirroredOnce ==
  command.state = "made" =>
    LET side == IF input.mirror THEN -1 ELSE 1
        turn == side * (input.mouse + IF command.gamepad THEN input.stick ELSE 0)
                + IF command.gamepad THEN input.assist ELSE 0
    IN /\ (command.yaw - turn) % 360 = 0
       /\ command.move \in -128..127
       /\ command.move - side * input.move \in IF input.move = -128 THEN {-1, 0} ELSE {0}
       /\ command.lean = IF input.mirror THEN MirrorLean(input.lean) ELSE input.lean

(* What is seen is turned over and what is done in it with it, each once,   *)
(* whichever the order of passes, arguments and objects, of the devices of  *)
(* a command, and of changes of the dvar (mirror_world.cpp).               *)
MirroredOnce == DrawnConsistently /\ CommandsMirroredOnce

MirrorSpec == MirrorInit /\ [][ViewNext \/ InputNext]_mirrorVars

-----------------------------------------------------------------------------
(* Debug lines and strings *)

drawVars == <<drawTitle, queues, buffer, fits, drawProjection, drawnCommands>>

NoQueues == [svLines |-> <<>>, clLines |-> <<>>, svStrings |-> 0, clStrings |-> 0]

-----------------------------------------------------------------------------
(* Commands, and what they take of the buffer.                             *)
ProjectionSet(p) == [id |-> "projection", to |-> p, size |-> 1]
DrawLines(depthTests) == [id |-> "lines", depth |-> depthTests[1], count |-> Len(depthTests), size |-> 1 + Len(depthTests)]
DrawText3D == [id |-> "text", size |-> 2]
HUD == [id |-> "hud", size |-> 0]   \* the engine keeps room for it

(* R_GetCommandBuffer; a list of commands is appended as a whole.          *)
Append1(acc, commands) ==
  LET size == FoldLeft(LAMBDA n, c : n + c.size, 0, commands) IN
  IF acc.failed \/ size > acc.room THEN [acc EXCEPT !.failed = TRUE]
  ELSE [acc EXCEPT !.commands = @ \o commands, !.room = @ - size]

(* Lines that are drawn by one command: neighbours with one depth test.    *)
BatchLength(lines) ==
  CHOOSE n \in 1..Len(lines) :
    /\ n <= BatchLines /\ \A i \in 1..n : lines[i] = lines[1]
    /\ n = Len(lines) \/ n = BatchLines \/ lines[n + 1] # lines[1]
Batches[lines \in Seq(BOOLEAN)] ==
  IF lines = <<>> THEN <<>>
  ELSE LET n == BatchLength(lines)
       IN <<DrawLines(SubSeq(lines, 1, n))>> \o Batches[SubSeq(lines, n + 1, Len(lines))]

Texts(n) == [i \in 1..n |-> DrawText3D]

-----------------------------------------------------------------------------
(* IW3: both projections go with each draw; a queue ends where one does not *)
(* fit, and the next is tried.                                             *)
AllocateDraw(acc, draw) == Append1(acc, <<ProjectionSet("3D"), draw, ProjectionSet("2D")>>)

DrawQueue(acc, draws) ==
  LET done == FoldLeft(AllocateDraw, acc, draws)
  IN [done EXCEPT !.failed = FALSE, !.all = @ /\ ~done.failed]

IW3OnCGDrawActive(qs, room) ==
  FoldLeft(DrawQueue, [commands |-> <<>>, room |-> room, failed |-> FALSE, all |-> TRUE],
           <<Batches[qs.svLines], Batches[qs.clLines], Texts(qs.svStrings), Texts(qs.clStrings)>>)

(* IW4: the queues of the server, between two projections; each command is *)
(* left out where it does not fit.                                         *)
Try(acc, cmd) ==
  LET tried == Append1(acc, <<cmd>>)
  IN [tried EXCEPT !.failed = FALSE, !.all = @ /\ ~tried.failed]

IW4OnCGDrawActive(qs, room) ==
  LET none == [commands |-> <<>>, room |-> room, failed |-> FALSE, all |-> TRUE]
      begin == Try(none, ProjectionSet("3D"))
  IN IF qs.svLines = <<>> /\ qs.svStrings = 0 THEN none
     ELSE IF ~begin.all THEN begin
     ELSE Try(FoldLeft(Try, begin, Batches[qs.svLines] \o Texts(qs.svStrings)), ProjectionSet("2D"))

OnCGDrawActive(qs, room) ==
  /\ buffer = <<>>
  /\ LET done == IF drawTitle = "iw3" THEN IW3OnCGDrawActive(qs, room) ELSE IW4OnCGDrawActive(qs, room)
     IN buffer' = Append(done.commands, HUD) /\ fits' = done.all
  /\ queues' = qs
  /\ drawProjection' = "2D"   \* the engine begins the HUD with it
  /\ drawnCommands' = <<>>
  /\ UNCHANGED drawTitle

-----------------------------------------------------------------------------
(* The backend *)

(* RB_DrawLinesCmd_Hook: lines without a depth test are drawn by the 3D     *)
(* renderer, which the plugin tells so (IW4) or whose material it replaces  *)
(* for as long as the command takes (IW3, RB_SetTessTechnique_Hook).        *)
DrawnWithDepth(cmd) == cmd.id = "lines" => cmd.depth

Execute ==
  /\ buffer # <<>>
  /\ LET cmd == Head(buffer) IN
     IF cmd.id = "projection" THEN drawProjection' = cmd.to /\ UNCHANGED drawnCommands
     ELSE /\ drawnCommands' = Append(drawnCommands,
               [kind |-> cmd.id, depth |-> DrawnWithDepth(cmd), projection |-> drawProjection,
                count |-> IF cmd.id = "lines" THEN cmd.count ELSE 1])
          /\ UNCHANGED drawProjection
  /\ buffer' = Tail(buffer)
  /\ UNCHANGED <<drawTitle, queues, fits>>

DrawInit ==
  /\ drawTitle \in DrawTitles
  /\ queues = NoQueues
  /\ buffer = <<>>
  /\ fits = TRUE
  /\ drawProjection = "2D"
  /\ drawnCommands = <<>>

AllQueues ==
  [svLines : LineQueues, clLines : LineQueues, svStrings : StringQueues, clStrings : StringQueues]

DrawNext ==
  \/ \E qs \in AllQueues, room \in Rooms : OnCGDrawActive(qs, room)
  \/ Execute

-----------------------------------------------------------------------------
(* What the backend drew as lines, one by one.                             *)
LinesDrawn ==
  FoldLeft(LAMBDA s, d : IF d.kind = "lines" THEN s \o [i \in 1..d.count |-> d.depth] ELSE s, <<>>, drawnCommands)

LinesQueued == queues.svLines \o (IF drawTitle = "iw3" THEN queues.clLines ELSE <<>>)

(* Lines and texts are drawn in the world and the HUD on the screen, and    *)
(* where everything fits the lines are those that were queued, with the    *)
(* depth test they asked for.  IW4 leaves the HUD in the world when the    *)
(* buffer has no room for the way back.                                    *)
DrawnInItsPlace ==
  /\ \A i \in DOMAIN drawnCommands :
       drawTitle = "iw3" \/ fits => drawnCommands[i].projection = IF drawnCommands[i].kind = "hud" THEN "2D" ELSE "3D"
  /\ buffer = <<>> /\ drawnCommands # <<>> /\ fits => LinesDrawn = LinesQueued
=============================================================================
