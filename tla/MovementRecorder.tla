--------------------------- MODULE MovementRecorder ---------------------------
(***************************************************************************)
(* The movement recorder of iw3/mp (cj_tas.cpp) and iw4/mp_tu6 (mr.cpp):   *)
(* console commands start and stop a recording and a playback, and each    *)
(* client frame captures or replays one user command.  A user command is   *)
(* abstracted to its time and its view; its buttons and moves travel       *)
(* along.  In IW3 helpers change the same command after that: they look    *)
(* down for the shot of an RPG, and jump and crouch for the player.        *)
(* All of this lives in statics, so it outlives maps and titles.           *)
(***************************************************************************)
EXTENDS Integers, Sequences

CONSTANTS
  MaxTime,      \* bound: serverTime of the last frame
  PlayerWaits   \* the player starts no recording during a playback, and does
                \* not turn the helpers off while one has turned the view
ASSUME MovementRecorderAssumption == MaxTime \in Nat /\ PlayerWaits \in BOOLEAN

VARIABLES
  recorderTitle, \* "iw3" or "iw4"
  time,       \* serverTime of the last frame
  turned,     \* delta_angles: how far the server has turned the player
  recording,  \* is_recording
  playing,    \* is_playing
  frame,      \* play_frame
  take,       \* current_recording: [at |-> serverTime, view |-> angles], with where
              \* the player looked then
  takeStart,  \* recording_start_time
  playStart,  \* playback_start_time, 0 until the first frame of a playback
  sent,       \* what this playback has sent: [of |-> frame, at |-> serverTime,
              \* view |-> where it looks, helped |-> a helper looked down]
  takenOver   \* how the player ended it: [made, looked |-> time and view of his command
              \* as he made it, at |-> its time as it goes out, left |-> the view the
              \* playback leaves him with], or NotTaken

recorderVars == <<time, turned, recording, playing, frame, take, takeStart, playStart, sent, takenOver>>

NotTaken == [made |-> 0]

VARIABLES
  helpers,     \* helpers whose dvar is on
  aim,         \* viewangles, to which the server adds how far it has turned the player
  saved,       \* previous_pitch, previous_yaw
  resetDue,    \* should_reset
  lastCommand, \* buttons of the last command: [jump, crouch |-> BOOLEAN]
  playersAim   \* history: the view as the player or the playback left it

helperVars == <<helpers, aim, saved, resetDue, lastCommand, playersAim>>

Turn == 4              \* views are angles modulo Turn, signed from half a turn on
MaxPitchDown == 0      \* MAX_PITCH_DOWN
World(view) == (view + turned) % Turn
Signed(view) == IF view >= Turn \div 2 THEN view - Turn ELSE view

-----------------------------------------------------------------------------
(* Console commands *)

(* Cmd_Startrecord_f *)
StartRecord ==
  /\ ~recording
  /\ PlayerWaits => ~playing
  /\ recording' = TRUE
  /\ take' = <<>> /\ takenOver' = NotTaken
  /\ UNCHANGED <<time, turned, playing, frame, takeStart, playStart, sent>>

(* Cmd_Stoprecord_f; Cmd_Togglerecord_f is one of the two. *)
StopRecord ==
  /\ recording
  /\ recording' = FALSE
  /\ UNCHANGED <<time, turned, playing, frame, take, takeStart, playStart, sent, takenOver>>

(* Mutant: the last playback's start time is kept.                         *)
StartPlaybackKeepStart ==
  /\ ~recording /\ ~playing /\ take # <<>>
  /\ frame' = 0
  /\ playing' = TRUE
  /\ takeStart' = take[1].at
  /\ sent' = <<>> /\ takenOver' = NotTaken
  /\ UNCHANGED <<time, turned, recording, take, playStart>>

(* Cmd_Startplayback_f *)
StartPlayback ==
  /\ ~recording /\ ~playing /\ take # <<>>
  /\ frame' = 0
  /\ playing' = TRUE
  /\ playStart' = 0
  /\ takeStart' = take[1].at
  /\ sent' = <<>> /\ takenOver' = NotTaken
  /\ UNCHANGED <<time, turned, recording, take>>

(* Cmd_Stopplayback_f *)
EndPlayback ==
  /\ frame' = 0
  /\ playing' = FALSE

StopPlayback ==
  /\ playing
  /\ EndPlayback
  /\ UNCHANGED <<time, turned, recording, take, takeStart, playStart, sent, takenOver>>

-----------------------------------------------------------------------------
(* Helpers *)

Helpers == {"rpg_lookdown", "jump_on_rpg_fire", "jump_at_edge", "bhop_auto", "crouch_on_jump"}
LookedDown == 1   \* cj_tas_rpg_lookdown_pitch and _yaw

(* TAS_Enabled: crouching alone does not count.  IW4 has no helpers.       *)
Enabled(on, plays) == plays \/ on \ {"crouch_on_jump"} # {}

(* What the engine and predict_pmove tell of this frame and the next: the  *)
(* RPG is held, not reloaded, and about to fire; where the player will be. *)
Predictions == [fires : BOOLEAN, ground : {"stays", "leaves", "lands"}]

LooksDown(p) == "rpg_lookdown" \in helpers /\ p.fires
DownView == (LookedDown - turned) % Turn
Jumps(p, pressed) ==
  /\ \/ pressed
     \/ "jump_on_rpg_fire" \in helpers /\ p.fires
     \/ "jump_at_edge" \in helpers /\ p.ground = "leaves"
  /\ ~("bhop_auto" \in helpers /\ p.ground = "lands")

(* Mutant: the view is saved before it is put back.                        *)
SavedViewStale(view, down) == IF down THEN view ELSE saved

(* The view in front of this frame's helpers, then the one to return to.   *)
RestoredView(view) == IF resetDue THEN saved ELSE view
SavedView(view, down) == IF down THEN RestoredView(view) ELSE saved

(* TAS_Cycle, with the view that the engine or the playback leaves.        *)
Cycle(p, left, pressed) ==
  /\ playersAim' = IF resetDue THEN playersAim ELSE left
  /\ IF Enabled(helpers, playing')
     THEN /\ saved' = SavedView(left, LooksDown(p))
          /\ aim' = IF LooksDown(p) THEN DownView ELSE RestoredView(left)
          /\ resetDue' = LooksDown(p)
          /\ lastCommand' = [jump |-> Jumps(p, pressed),
                             crouch |-> "crouch_on_jump" \in helpers /\ Jumps(p, pressed)]
     ELSE /\ aim' = left
          /\ lastCommand' = [jump |-> pressed, crouch |-> FALSE]
          /\ UNCHANGED <<saved, resetDue>>

SetHelpers ==
  /\ recorderTitle = "iw3"
  /\ helpers' \in SUBSET Helpers
  /\ PlayerWaits /\ resetDue => Enabled(helpers', FALSE)
  /\ UNCHANGED <<recorderVars, aim, saved, resetDue, lastCommand, playersAim>>

-----------------------------------------------------------------------------
(* A frame of an active client: CL_CreateNewCommands_Hook *)

(* CaptureCommand: the view is kept as it is in the world; IW4 keeps no    *)
(* view that looks further down than a player may.                         *)
Iw4CapturedView(view) == IF Signed(view) > MaxPitchDown THEN MaxPitchDown ELSE view
CapturedView(view) == IF recorderTitle = "iw4" THEN Iw4CapturedView(World(view)) ELSE World(view)
Captured(now, view) ==
  IF recording THEN Append(take, [at |-> now, view |-> CapturedView(view), looked |-> World(view)]) ELSE take

ReplayedAt(now, cmds) ==
  (IF playStart = 0 THEN now ELSE playStart) + cmds[frame + 1].at - takeStart
ReplayedView(cmds) == (cmds[frame + 1].view - turned) % Turn

(* The view that the engine or the playback leaves: IW4 does not turn the  *)
(* player who takes over.                                                  *)
LeftView(view, cmds, moves) ==
  IF playing /\ frame < Len(cmds) /\ (moves => recorderTitle = "iw3") THEN ReplayedView(cmds) ELSE view

(* The player moves, and takes over: IW3 has changed the time of his       *)
(* command by then.                                                        *)
TakeOver(now, view, cmds) ==
  takenOver' = [made |-> now, looked |-> World(view),
                at |-> IF recorderTitle = "iw3" THEN ReplayedAt(now, cmds) ELSE now,
                left |-> World(LeftView(view, cmds, TRUE))]

SendCommand(now, cmds, down) ==
  /\ sent' = Append(sent, [of |-> frame + 1, at |-> ReplayedAt(now, cmds),
                           view |-> World(IF down THEN DownView ELSE ReplayedView(cmds)), helped |-> down])
  /\ frame' = frame + 1
  /\ UNCHANGED <<playing, takenOver>>

(* UpdateCommand: at the end of the take, or when the player moves, the    *)
(* playback stops; otherwise one command goes out, at its recorded offset. *)
Replay(now, view, cmds, moves, down) ==
  IF cmds = <<>>
  THEN UNCHANGED <<frame, playing, playStart, sent, takenOver>>
  ELSE IF frame >= Len(cmds)
  THEN EndPlayback /\ UNCHANGED <<playStart, sent, takenOver>>
  ELSE /\ playStart' = IF playStart = 0 THEN now ELSE playStart
       /\ IF moves THEN EndPlayback /\ UNCHANGED sent /\ TakeOver(now, view, cmds)
          ELSE SendCommand(now, cmds, down)

(* The engine makes the command from the view, which the player turns;      *)
(* then it is captured, replaced and helped, in this order.                 *)
FrameAt(now, view, moves, pressed, p) ==
  /\ time' = now
  /\ take' = Captured(now, view)
  /\ IF playing THEN Replay(now, view, take', moves, LooksDown(p))
                ELSE UNCHANGED <<frame, playing, playStart, sent, takenOver>>
  /\ Cycle(p, LeftView(view, take', moves), pressed)
  /\ UNCHANGED <<recording, takeStart, turned, helpers>>

ClientFrame ==
  \E length \in {1, 2}, moves \in BOOLEAN, pressed \in BOOLEAN, p \in Predictions :
    /\ time + length <= MaxTime
    /\ FrameAt(time + length, (aim + length) % Turn, moves, pressed, p)

(* The server turns the player, at a spawn or a teleport.  External.       *)
TurnPlayer ==
  /\ turned' = 1 - turned
  /\ UNCHANGED <<time, recording, playing, frame, take, takeStart, playStart, sent, takenOver>>

-----------------------------------------------------------------------------
RecorderInit ==
  /\ recorderTitle \in {"iw3", "iw4"}
  /\ time = 0 /\ turned = 0
  /\ recording = FALSE /\ playing = FALSE
  /\ frame = 0 /\ take = <<>> /\ takeStart = 0 /\ playStart = 0
  /\ sent = <<>> /\ takenOver = NotTaken
  /\ helpers = {} /\ aim = 0 /\ saved = 0 /\ resetDue = FALSE /\ playersAim = 0
  /\ lastCommand = [jump |-> FALSE, crouch |-> FALSE]

RecorderNext ==
  /\ \/ ClientFrame
     \/ /\ StartRecord \/ StopRecord \/ StartPlayback \/ StopPlayback \/ TurnPlayer
        /\ UNCHANGED helperVars
     \/ SetHelpers
  /\ UNCHANGED recorderTitle

RecorderSpec == RecorderInit /\ [][RecorderNext]_<<recorderTitle, recorderVars, helperVars>>

-----------------------------------------------------------------------------
(* Properties *)

(* Where a command looks for a player who looked there: no further down     *)
(* than IW4 keeps it.                                                      *)
Kept(looked) ==
  IF recorderTitle = "iw4" /\ looked \in 1..Turn \div 2 - 1 THEN MaxPitchDown ELSE looked

RecorderTypeOK ==
  /\ time \in Nat /\ turned \in {0, 1} /\ takeStart \in Nat /\ playStart \in Nat
  /\ recording \in BOOLEAN /\ playing \in BOOLEAN
  /\ take \in Seq([at : 1..MaxTime, view : 0..Turn-1, looked : 0..Turn-1])
  /\ frame \in 0..Len(take)
  /\ helpers \subseteq Helpers /\ resetDue \in BOOLEAN
  /\ {aim, saved, playersAim} \subseteq 0..Turn-1

(* A take is played after it was recorded, never while: "Stop recording    *)
(* before starting playback." (cj_tas.cpp:71, mr.cpp:74).                  *)
RecordThenPlay == ~(recording /\ playing)

(* A playback leaves a player who takes over where IW3's take has led him  *)
(* by the frame, in time and in view, and where he is himself in IW4.      *)
TakeOverContinues ==
  takenOver # NotTaken =>
    LET next == take[Len(sent) + 1] IN
    IF recorderTitle = "iw3"
    THEN /\ takenOver.left = next.view
         /\ takenOver.at = (IF sent = <<>> THEN takenOver.made ELSE sent[1].at) + next.at - take[1].at
    ELSE takenOver.at = takenOver.made /\ takenOver.left = takenOver.looked

(* The view returns to where the player, or a playback, had it once the RPG *)
(* has fired, for however many frames in a row it fires (cj_tas.cpp:281).  *)
ViewComesBack == playersAim = IF resetDue THEN saved ELSE aim

(* A playback sends the commands of the take in order, each once, looking  *)
(* where the player looked however they have been turned since, unless a   *)
(* helper looks down for a shot, and spaced in time as they were recorded, *)
(* from the time it started at; a helper gives the view back               *)
(* (cj_tas.cpp:71-165, 247-310, mr.cpp:108-195).                           *)
FaithfulReplay ==
  /\ RecorderTypeOK
  /\ RecordThenPlay
  /\ TakeOverContinues
  /\ ViewComesBack
  /\ \A i \in DOMAIN sent :
       /\ sent[i].of = i
       /\ playing => /\ sent[i].at - sent[1].at = take[i].at - take[1].at
                     /\ sent[1].at > take[Len(take)].at
                     /\ sent[i].view = IF sent[i].helped THEN LookedDown ELSE Kept(take[i].looked)
=============================================================================
