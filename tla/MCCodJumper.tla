----------------------------- MODULE MCCodJumper -----------------------------
(***************************************************************************)
(* The tools of the CodJumper mods but the movement recorder: the brushes    *)
(* without collision, the collision outlines, the bounce edge markers, the  *)
(* mirrored world and the debug lines.  Apart from the brushes, which the   *)
(* markers have of their own, they share no state, so a behaviour moves one *)
(* of them: taking turns would multiply their states and show nothing more. *)
(*                                                                         *)
(* Three brushes and an index beyond them, two launches; views of fewer     *)
(* brushes than the cache holds, of more brushes than a frame may clip;     *)
(* more probes than a frame may trace; turns past half a circle and a       *)
(* strafe that a byte cannot hold the other way round; queues of lines that *)
(* do not fit what is left of a frame's commands.                          *)
(***************************************************************************)
EXTENDS BrushCollision, DrawHooks

CONSTANTS MaxCachedBrushes, MaxMoves, MaxEvents

VARIABLE part

-----------------------------------------------------------------------------
(* Outlines.  Four box-like brushes, one of them a bounce slope, and a      *)
(* model of one brush; node 3 of the first map overlaps the fourth.         *)
Box == <<[points |-> 4, bounce |-> FALSE], [points |-> 4, bounce |-> FALSE]>>
Slope == <<[points |-> 4, bounce |-> FALSE], [points |-> 3, bounce |-> TRUE]>>
BigBox == Box \o <<[points |-> 4, bounce |-> FALSE]>>
FirstMap ==
  [nodes |-> <<[brushes |-> {}, overlap |-> FALSE, children |-> {1, 2}],
               [brushes |-> {1, 2}, overlap |-> FALSE, children |-> {}],
               [brushes |-> {}, overlap |-> TRUE, children |-> {-2}],
               [brushes |-> {3}, overlap |-> FALSE, children |-> {}],
               [brushes |-> {4, 9}, overlap |-> FALSE, children |-> {}]>>,
   leafs |-> {1}, models |-> <<{5}>>,
   faces |-> <<Box, Slope, Box, BigBox>>, terrain |-> <<Slope>>, clip |-> {1, 3}]
SecondMap ==
  [FirstMap EXCEPT !.leafs = {2}, !.models = <<{4}>>, !.faces = <<Slope, Box, Box, Box>>]

Near(ids) == [i \in DOMAIN ids |-> IF ids[i] = 0 THEN [kind |-> "model", id |-> 1]
                                   ELSE IF ids[i] < 0 THEN [kind |-> "terrain", id |-> -ids[i]]
                                   ELSE [kind |-> "brush", id |-> ids[i]]]
ViewOf(ids, collision, bounces, lines, room) ==
  [near |-> Near(ids), collision |-> collision, bounces |-> bounces, lines |-> lines, room |-> room]

CameraViews ==
  {ViewOf(<<1, 2, 3>>, 2, TRUE, 40, 9), ViewOf(<<2, -1, 0>>, 2, FALSE, 20, 9),
   ViewOf(<<0, 3, 1>>, 1, TRUE, 12, 9), ViewOf(<<3, 0, 2>>, 0, TRUE, 40, 0),
   ViewOf(<<3>>, 0, FALSE, 40, 9)}

VARIABLES map, address, active, view, index, brushCache, cachedPoints, modelCache, drawnFrame, moves
outlineVars == <<map, address, active, view, index, brushCache, cachedPoints, modelCache, drawnFrame, moves>>
Outlines == INSTANCE CollisionView
  WITH Maps <- <<FirstMap, SecondMap>>, Addresses <- {1, 2}, frame <- drawnFrame,
       Views <- CameraViews,
       MaxCachedPoints <- 28, MaxCachedModels <- 1, BuildsPerFrame <- 1, BatchLines <- 8

-----------------------------------------------------------------------------
(* Markers.  Two triangles that share an edge; three that share another.    *)
Answering(g, e, h, s) ==
  IF h = 2 THEN {1} ELSE IF s = "*" THEN {0, 1} ELSE IF e = {2, 3} THEN {0} ELSE {}

VARIABLES ground, place, shown, hull, setting, solidity, edges, seenSetting, profile, markers, events
markerVars == <<ground, place, shown, hull, setting, solidity, edges, seenSetting, profile, markers, events>>
Markers == INSTANCE BounceEdges
  WITH Vertices <- 5, Grounds <- <<<<<<1, 2, 3>>, <<2, 3, 4>>>>, <<<<1, 2, 3>>, <<1, 2, 4>>, <<1, 2, 5>>>>>>,
       Flat <- {{1, 3}, {2, 4}, {1, 5}}, Answers <- Answering,
       Clients <- {0, 1}, Hulls <- {1, 2}, Settings <- {"", "*"},
       Samples <- 2, ProbesPerSample <- 1, TraceBudget <- 2, WorkBudget <- 3, LineBudget <- 3

-----------------------------------------------------------------------------
(* The mirrored world, and debug lines: batches that change their depth     *)
(* test and overflow a command, in buffers with room for none to all.      *)
MCMoves == {-128, 0, 127}
MCTurns == {-5, 0, 190}
MCLineQueues == {<<>>, <<TRUE>>, <<FALSE, TRUE>>, <<FALSE, FALSE, FALSE, TRUE>>}

-----------------------------------------------------------------------------
(* Patches of the engine.  Slopes on both sides of what can be walked on;   *)
(* frames of one to six of a second's twenty milliseconds.                 *)
VARIABLES site, horizontal, horizontalLayout, installed, changes, fullness, viewParams, placed, due,
          players, steadyView, moveTitle, fixedFps, server, pushed, snapshot, predicted, commands, executed, frames, bounced
screenVars == <<horizontal, horizontalLayout, installed, changes, fullness, viewParams, placed, due, players,
                steadyView>>
moveVars == <<moveTitle, fixedFps, server, pushed, snapshot, predicted, commands, executed, frames>>
patchVars == <<site, screenVars, moveVars, bounced>>
Patches == INSTANCE EnginePatches
  WITH Second <- 20, FixedFps <- {3, 20}, Elapsed <- {3, 25}, MaxCommands <- 3, MaxChanges <- 3,
       Unit <- 25, Normals <- {<<24, 7>>, <<-24, 7>>, <<7, 24>>, <<-7, 24>>, <<20, 15>>, <<-15, 20>>, <<0, 25>>},
       Velocities <- {<<x, z>> : x \in -3..3, z \in -3..3}

NextPatch ==
  \/ part = "hooks" /\ Patches!HookNext /\ UNCHANGED <<screenVars, moveVars, bounced>>
  \/ part = "split screen" /\ Patches!ScreenNext /\ UNCHANGED <<site, moveVars, bounced>>
  \/ part = "movement" /\ Patches!MoveNext /\ UNCHANGED <<site, screenVars, bounced>>
  \/ part = "bounces" /\ Patches!BounceNext /\ UNCHANGED <<site, screenVars, moveVars>>

-----------------------------------------------------------------------------
MCInit ==
  /\ part \in {"brushes", "outlines", "markers", "mirror view", "mirror input",
              "debug draw", "hooks", "split screen", "movement", "bounces"}
  /\ Init /\ Outlines!ViewInit /\ Markers!EdgesInit /\ MirrorInit /\ DrawInit /\ Patches!PatchInit
  /\ part # "debug draw" => drawTitle = "iw3"
  /\ part # "movement" => moveTitle = "iw3"
  /\ part # "brushes" => variant = "iw3"
MCNext ==
  /\ \/ part = "brushes" /\ Next /\ UNCHANGED <<outlineVars, markerVars, mirrorVars, drawVars, patchVars>>
     \/ part = "outlines" /\ Outlines!ViewNext /\ UNCHANGED <<vars, markerVars, mirrorVars, drawVars, patchVars>>
     \/ part = "markers" /\ Markers!EdgesNext /\ UNCHANGED <<vars, outlineVars, mirrorVars, drawVars, patchVars>>
     \/ part = "mirror view" /\ ViewNext /\ UNCHANGED <<vars, outlineVars, markerVars, drawVars, patchVars>>
     \/ part = "mirror input" /\ InputNext /\ UNCHANGED <<vars, outlineVars, markerVars, drawVars, patchVars>>
     \/ part = "debug draw" /\ DrawNext /\ UNCHANGED <<vars, outlineVars, markerVars, mirrorVars, patchVars>>
     \/ NextPatch /\ UNCHANGED <<vars, outlineVars, markerVars, mirrorVars, drawVars>>
  /\ UNCHANGED part
MCSpec == /\ MCInit
          /\ [][MCNext]_<<part, vars, outlineVars, markerVars, mirrorVars, drawVars, patchVars>>
          /\ Outlines!ViewFairness /\ Markers!EdgesFairness

-----------------------------------------------------------------------------
(* What is in view fills in over several frames (collision.cpp:705); the   *)
(* markers of each client become those of its hull, map and brushes.        *)
FillsIn == Outlines!FillsIn /\ Markers!MarkersFillIn

(* Outlines are those of the loaded map, within the bounds of their cache; *)
(* no marker is shown for a hull, map or brushes that are not there; what   *)
(* is submitted is drawn in the world, and the HUD not (debug_draw.cpp).    *)
DrawnIsCurrent ==
  [](Outlines!ShowsLoadedMap /\ DrawnInItsPlace) /\ Markers!MarkersAreCurrent

(* Hooks keep the registers of what they interrupt (fov.cpp), views are     *)
(* where their layout has them (splitscreen.cpp), client and server move a  *)
(* player alike, in frames of one length (pm.cpp), and bounces keep its     *)
(* speed.                                                                  *)
PatchesKeepTheRest ==
  /\ part = "hooks" => Patches!InterruptedUnharmed
  /\ Patches!ViewsFollowLayout
  /\ Patches!PredictionAgrees /\ Patches!FramesAreFixed
  /\ Patches!BouncesKeepSpeed
=============================================================================
