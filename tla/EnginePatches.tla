---------------------------- MODULE EnginePatches ----------------------------
(***************************************************************************)
(* Patches of what the engine computes for a frame:                        *)
(*   - the hooks of T4 SP in the middle of functions that read cg_fov      *)
(*     (fov.cpp), and that of NGL (pm.cpp), which must leave every register *)
(*     of the function they interrupt as it was;                           *)
(*   - the split screen of T4 SP in two rows (splitscreen.cpp);            *)
(*   - movement in frames of a fixed length and the UFO mode of IW3 and T4, *)
(*     which the server runs and the client predicts (pm.cpp);             *)
(*   - the bounces of IW2 and NGL (pm.cpp).                                *)
(*                                                                         *)
(* A register holds a term: what it was computed from.                     *)
(***************************************************************************)
EXTENDS Integers, Sequences, SequencesExt

CONSTANTS
  Velocities, Normals, Unit,  \* (x, z); a normal is Unit long
  Second,       \* 1000 in the code: the milliseconds of a second
  FixedFps,     \* values of pm_fixed_fps, 0 left out
  Elapsed,      \* milliseconds between two commands
  MaxCommands,  \* bound: commands of a player
  MaxChanges    \* bound: changes of cg_splitScreenHorizontal

VARIABLES
  site,                                             \* the last hook that ran
  horizontal, horizontalLayout, installed, changes,
  fullness,                                         \* where the engine is between the layout and the full screen
  viewParams, placed, due, players, steadyView,
  moveTitle, fixedFps, server, pushed, snapshot, predicted, commands, executed, frames,
  bounced                                           \* the last velocity that was projected

screenVars == <<horizontal, horizontalLayout, installed, changes, fullness, viewParams, placed, due, players,
                steadyView>>
moveVars == <<moveTitle, fixedFps, server, pushed, snapshot, predicted, commands, executed, frames>>
patchVars == <<site, screenVars, moveVars, bounced>>

-----------------------------------------------------------------------------
(* Hooks in the middle of a function *)

General == [n \in 0..31 |-> <<"r", n>>]
Float == [n \in 0..31 |-> <<"f", n>>]
r(n) == General[n]
f(n) == Float[n]
lr == <<"lr", 0>>   ctr == <<"ctr", 0>>   cr == <<"cr", 0>>   xer == <<"xer", 0>>   fpscr == <<"fpscr", 0>>
Registers == {r(n) : n \in 0..31} \union {f(n) : n \in 0..31} \union {lr, ctr, cr, xer, fpscr}

(* What a function may leave otherwise than it found it.                   *)
Volatile ==
  {r(n) : n \in {0} \union (3..12)} \union {f(n) : n \in 0..13} \union {lr, ctr, cr, xer, fpscr}

(* What an instruction computes from its operands.                         *)
Ins(op, to, from) == [op |-> op, to |-> to, from |-> from]
Step(regs, i) == [regs EXCEPT ![i.to] = <<i.op, [k \in DOMAIN i.from |-> regs[i.from[k]]]>>]
Run(regs, code) == FoldLeft(Step, regs, code)

(* ApplyUserFov and ApplyUserScale: f1 has the argument and the result.    *)
Applied(helper, stock) == <<helper, <<stock>>>>
Call(regs, helper) ==
  [x \in Registers |->
     IF x = f(1) THEN Applied(helper, regs[x]) ELSE IF x \in Volatile THEN <<"callee", <<>>>> ELSE regs[x]]

(* The thunk's frame: where each register is kept.                         *)
SlotOf(x) ==
  CASE x[1] = "r" -> 80 + 8 * (x[2] - 3)
    [] x[1] = "f" -> 160 + 8 * x[2]
    [] x = lr -> 272 [] x = cr -> 280 [] x = xer -> 296 [] x = fpscr -> 304
ResultSlot == 288
Kept == [n \in 1..10 |-> r(n + 2)] \o [n \in 1..14 |-> f(n - 1)] \o <<lr, cr, xer, fpscr>>
Store(regs, frame, x) == [frame EXCEPT ![SlotOf(x)] = regs[x]]
Thunk(regs, helper) ==
  LET empty == [slot \in {8 * n : n \in 10..47} |-> <<"none", <<>>>>]
      frame == FoldLeft(LAMBDA m, x : Store(regs, m, x), empty, Kept)
      returned == Call(regs, helper)
      left == [frame EXCEPT ![ResultSlot] = returned[f(1)]]
      restored == FoldLeft(LAMBDA regs2, x : [regs2 EXCEPT ![x] = left[SlotOf(x)]], returned, Kept)
  IN [restored EXCEPT ![r(0)] = <<"callee", <<>>>>, ![f(1)] = left[ResultSlot]]

FovThunk(regs) == Thunk(regs, "fov")
ScaleThunk(regs) == Thunk(regs, "scale")

(* The five reads: what is displaced before and after the value is there,  *)
(* the register it is read into, where the branch is and where the          *)
(* function goes on, in instructions from the first.                       *)
BaseFovHook ==
  [helper |-> "fov", value |-> f(28), at |-> 0, back |-> 4, after |-> <<>>,
   before |-> <<Ins("addi", r(28), <<r(11)>>), Ins("lwz", r(11), <<r(27)>>),
                Ins("lwzx", r(29), <<r(8), r(28)>>), Ins("lfs", f(28), <<r(11)>>)>>]
RecoveryFovHook ==
  [helper |-> "fov", value |-> f(10), at |-> 58, back |-> 62, after |-> <<>>,
   before |-> <<Ins("lfd", f(13), <<r(1)>>), Ins("fcfid", f(11), <<f(0)>>),
                Ins("fcfid", f(12), <<f(13)>>), Ins("lfs", f(10), <<r(11)>>)>>]
ScaleFovHook ==
  [helper |-> "scale", value |-> f(0), at |-> 118, back |-> 122,
   before |-> <<Ins("lfs", f(0), <<r(11)>>)>>,
   after |-> <<Ins("fmuls", f(13), <<f(0), f(28)>>), Ins("lfs", f(12), <<r(10)>>),
               Ins("fsubs", f(11), <<f(12), f(13)>>)>>]
RatioFovHook ==
  [helper |-> "fov", value |-> f(0), at |-> 186, back |-> 190,
   before |-> <<Ins("lwz", r(11), <<r(5)>>), Ins("lfs", f(0), <<r(11)>>)>>,
   after |-> <<Ins("fmuls", f(13), <<f(0), f(29)>>), Ins("fmuls", f(1), <<f(13), f(28)>>)>>]
ProjectionFovHook ==
  [helper |-> "fov", value |-> f(7), at |-> 0, back |-> 4,
   before |-> <<Ins("lwz", r(11), <<r(10)>>), Ins("lfs", f(7), <<r(11)>>)>>,
   after |-> <<Ins("fmuls", f(6), <<f(7), f(0)>>), Ins("fmuls", f(1), <<f(6), f(30)>>)>>]
readHooks == <<BaseFovHook, RecoveryFovHook, ScaleFovHook, RatioFovHook, ProjectionFovHook>>

(* A far branch is four instructions: lis, ori, mtctr, bctr.               *)
FarBranchWords == 4
Address == <<"address", <<>>>>

Hook(regs, h) ==
  LET there == Run(regs, h.before)
      framed == [there EXCEPT ![r(0)] = there[lr], ![r(1)] = <<"stwu", <<there[r(1)]>>>>]
      argued == [framed EXCEPT ![f(1)] = framed[h.value], ![lr] = <<"bl", <<>>>>]
      called == IF h.helper = "fov" THEN FovThunk(argued) ELSE ScaleThunk(argued)
      asked == [called EXCEPT ![h.value] = called[f(1)]]
      left == [asked EXCEPT ![f(1)] = framed[f(1)], ![r(1)] = asked[r(1)][2][1], ![lr] = there[lr]]
  IN [Run(left, h.after) EXCEPT ![r(0)] = Address, ![ctr] = Address]

(* PM_ProjectVelocity_Hook of NGL keeps what its caller, which expects      *)
(* another function there, has in volatile registers.                      *)
NGLKept == {r(10), r(12), f(6), f(7), f(8), f(9), lr}
NGLHook(regs) ==
  LET returned == Call([regs EXCEPT ![lr] = <<"bl", <<>>>>], "project")
  IN [returned EXCEPT ![r(10)] = regs[r(10)], ![r(12)] = regs[r(12)], ![lr] = regs[lr], ![r(0)] = regs[lr],
                      ![f(6)] = regs[f(6)], ![f(7)] = regs[f(7)], ![f(8)] = regs[f(8)], ![f(9)] = regs[f(9)]]

Interrupted == [x \in Registers |-> <<"before", x>>]
RunHook(i) == IF i = 0 THEN NGLHook(Interrupted) ELSE Hook(Interrupted, readHooks[i])

HookInit == site = 0
HookNext == site' \in 0..Len(readHooks)

(* The player's preference scales what scripts ask for (fov_math.h).       *)
Clamp(value, minimum, maximum) == IF value < minimum THEN minimum ELSE IF value > maximum THEN maximum ELSE value
ApplyBase(stock, preference, minimum) == Clamp((stock * preference) \div 65, minimum, 160)

(* Whatever the helper does to its registers, the function that was         *)
(* interrupted goes on after what was displaced with the registers that    *)
(* would have had, the value that was read apart; r0 and ctr are free      *)
(* there.  The preference of 65 asks for nothing.                          *)
InterruptedUnharmed ==
  /\ site = 0 => LET left == RunHook(0)
                 IN \A x \in NGLKept \union (Registers \ Volatile) : left[x] = Interrupted[x]
  /\ site # 0 =>
       LET h == readHooks[site]
           left == RunHook(site)
           read == Run(Interrupted, h.before)
           wanted == Run([read EXCEPT ![h.value] = Applied(h.helper, @)], h.after)
       IN /\ \A x \in Registers \ {r(0), ctr} : left[x] = wanted[x]
          /\ h.back - h.at = FarBranchWords
          /\ Len(h.before) + Len(h.after) = FarBranchWords
  /\ \A stock \in {1, 40, 65, 80, 160} : ApplyBase(stock, 65, 1) = stock

-----------------------------------------------------------------------------
(* The split screen of two players.  Positions are twelfths of the screen,  *)
(* and the engine moves a view between the layout and the whole screen in   *)
(* three steps.  The stock layout leaves bars at the sides.                *)
LocalClients == {0, 1}
FullScreen == [x |-> 0, y |-> 0, width |-> 12, height |-> 12]
stockViewParams == [c \in LocalClients |-> [x |-> 3 * c, y |-> 6 * c, width |-> 9, height |-> 6]]
horizontalViewParams == [c \in LocalClients |-> [x |-> 0, y |-> 6 * c, width |-> 12, height |-> 6]]
Layout(rows, c) == IF rows THEN horizontalViewParams[c] ELSE stockViewParams[c]

Between(from, to, thirds) == [side \in DOMAIN from |-> from[side] + ((to[side] - from[side]) * thirds) \div 3]

(* The height says how far the engine is.                                  *)
RemapView(view, from, to) ==
  LET thirds == (3 * (view.height - from.height)) \div (12 - from.height)
  IN Between(to, FullScreen, Clamp(thirds, 0, 3))

Kinds == {"start", "target", "current", "default"}
ApplyLayout(rows) ==
  [k \in Kinds |-> [c \in LocalClients |->
     IF k = "default" THEN Layout(rows, c)
     ELSE RemapView(viewParams[k][c], Layout(horizontalLayout, c), Layout(rows, c))]]
LayoutChanges == installed /\ horizontal # horizontalLayout
UpdateLayout == IF LayoutChanges THEN ApplyLayout(horizontal) ELSE viewParams
LayoutAfterUpdate == IF installed THEN horizontal ELSE horizontalLayout

Refreshed(set) == [c \in LocalClients |-> IF c \in set THEN viewParams'["current"][c] ELSE placed[c]]

(* The engine places the view and the HUD of a client.                     *)
CG_SetView(c) ==
  /\ c \in due
  /\ due' = due \ {c}
  /\ viewParams' = UpdateLayout
  /\ horizontalLayout' = LayoutAfterUpdate
  /\ placed' = Refreshed(IF LayoutChanges /\ players = 2 THEN LocalClients ELSE {c})
  /\ steadyView' = TRUE
  /\ UNCHANGED <<horizontal, installed, changes, fullness, players>>

(* A frame.  The engine places views while they move, the hook those of     *)
(* two players when the layout has changed.                                *)
CG_UpdateView ==
  LET moves == fullness.moved < 3
      step == IF moves THEN fullness.moved + 1 ELSE 3
      laid == UpdateLayout
      current == [c \in LocalClients |-> Between(laid["start"][c], laid["target"][c], step)]
  IN /\ due = {}
     /\ viewParams' = IF moves THEN [laid EXCEPT !["current"] = current] ELSE laid
     /\ fullness' = [fullness EXCEPT !.moved = step]
     /\ horizontalLayout' = LayoutAfterUpdate
     /\ placed' = Refreshed(IF moves \/ (LayoutChanges /\ players = 2) THEN LocalClients ELSE {})
     /\ steadyView' = TRUE
     /\ UNCHANGED <<horizontal, installed, changes, due, players>>

(* The engine moves the views to the whole screen or back.                 *)
Animate ==
  /\ fullness.moved = 3
  /\ fullness' = [start |-> fullness.target, target |-> 3 - fullness.target, moved |-> 0]
  /\ viewParams' =
       [viewParams EXCEPT !["start"] = viewParams["current"],
                          !["target"] = IF fullness.target = 0 THEN [c \in LocalClients |-> FullScreen]
                                        ELSE viewParams["default"]]
  /\ UNCHANGED <<horizontal, horizontalLayout, installed, changes, placed, due, players, steadyView>>

PlayersChange ==
  /\ players' = 3 - players
  /\ due' = 0..(players' - 1)
  /\ UNCHANGED <<horizontal, horizontalLayout, installed, changes, fullness, viewParams, placed, steadyView>>

SetHorizontal ==
  /\ changes < MaxChanges
  /\ changes' = changes + 1
  /\ horizontal' = ~horizontal
  /\ steadyView' = FALSE
  /\ UNCHANGED <<horizontalLayout, installed, fullness, viewParams, placed, due, players>>

(* ~SplitScreen: the stock layout, and no hook any more; what was placed    *)
(* stays until the engine moves the views.                                 *)
RemoveSplitScreen ==
  /\ installed
  /\ installed' = FALSE
  /\ viewParams' = IF horizontalLayout THEN ApplyLayout(FALSE) ELSE viewParams
  /\ horizontalLayout' = FALSE
  /\ steadyView' = FALSE
  /\ UNCHANGED <<horizontal, changes, fullness, placed, due, players>>

ScreenInit ==
  /\ horizontal = FALSE /\ horizontalLayout = FALSE /\ installed = TRUE /\ changes = 0
  /\ fullness = [start |-> 3, target |-> 0, moved |-> 3]
  /\ viewParams = [k \in Kinds |-> IF k = "start" THEN [c \in LocalClients |-> FullScreen] ELSE stockViewParams]
  /\ placed = stockViewParams /\ due = {} /\ players = 2 /\ steadyView = TRUE
ScreenNext ==
  \/ \E c \in LocalClients : CG_SetView(c)
  \/ CG_UpdateView
  \/ Animate
  \/ PlayersChange
  \/ SetHorizontal
  \/ RemoveSplitScreen

(* However often the layout changes, and in the middle of an animation,     *)
(* every view is where the engine would have it in the layout that is       *)
(* wanted; once a frame has seen the change the views and HUDs of both      *)
(* players are placed there.                                               *)
ViewsFollowLayout ==
  LET laid(c, thirds) == Between(Layout(horizontalLayout, c), FullScreen, thirds)
      now == fullness.start + ((fullness.target - fullness.start) * fullness.moved) \div 3
  IN /\ \A c \in LocalClients :
          /\ viewParams["start"][c] = laid(c, fullness.start)
          /\ viewParams["target"][c] = laid(c, fullness.target)
          /\ viewParams["current"][c] = laid(c, now)
          /\ viewParams["default"][c] = laid(c, 0)
     /\ steadyView /\ installed => horizontalLayout = horizontal
     /\ steadyView /\ installed /\ players = 2 /\ due = {} => placed = viewParams["current"]
     /\ ~installed => ~horizontalLayout

-----------------------------------------------------------------------------
(* Movement.  The server runs each command of a player; the client runs     *)
(* those that the server's last snapshot does not have, to predict where    *)
(* the player is.  Snapshots do not have oldVelocity.                      *)
CurMsec == Second \div fixedFps
NoFrames == [lengths |-> <<>>, behind |-> FALSE, from |-> -1]

(* The game's own step: walking keeps a history of velocities, with which   *)
(* flying as a UFO is inert.                                               *)
StockPmoveSingle(ps, time, move) ==
  IF ps.type = "ufo" THEN [ps EXCEPT !.commandTime = time, !.velocity = move + ps.oldVelocity]
  ELSE [ps EXCEPT !.commandTime = time, !.velocity = move, !.oldVelocity = ps.velocity]
(* Mutant: what the walk kept is not reset.                                *)
PmoveSingleKept(ps, time, move) == StockPmoveSingle(ps, time, move)
PmoveSingle(ps, time, move) ==
  StockPmoveSingle(IF ps.type = "ufo" THEN [ps EXCEPT !.oldVelocity = 0] ELSE ps, time, move)

(* Steps of at most msec until finalTime, and how long each is.            *)
Steps(ps, finalTime, msec, move) ==
  LET count == (finalTime - ps.commandTime + msec - 1) \div msec
      time(n) == IF n < count THEN ps.commandTime + n * msec ELSE finalTime
      steps == [n \in 1..count |-> n]
  IN [ps |-> FoldLeft(LAMBDA before, n : PmoveSingle(before, time(n), move), ps, steps),
      lengths |-> [n \in 1..count |-> time(n) - IF n = 1 THEN ps.commandTime ELSE time(n - 1)]]

NotMoreThanASecond(ps, finalTime) ==
  IF finalTime > ps.commandTime + Second THEN [ps EXCEPT !.commandTime = finalTime - Second] ELSE ps
RoundedTime(t) ==
  ((t + (IF CurMsec < 2 THEN 2 ELSE CurMsec) - 1) \div CurMsec) * CurMsec
Pmove(ps, cmd) ==
  LET finalTime == IF fixedFps = 0 THEN cmd.serverTime ELSE RoundedTime(cmd.serverTime)
  IN IF finalTime < ps.commandTime THEN [ps |-> ps, lengths |-> <<>>]
     ELSE Steps(NotMoreThanASecond(ps, finalTime), finalTime,
                IF fixedFps = 0 THEN Second ELSE CurMsec, cmd.move)

(* Server and client leave out a command that is not later than the player. *)
Think(ps, cmd) == IF cmd.serverTime <= ps.commandTime THEN [ps |-> ps, lengths |-> <<>>] ELSE Pmove(ps, cmd)

(* The client's player: what the snapshot says, then its commands again.    *)
Predict(shot, cmds) ==
  FoldLeft(LAMBDA ps, cmd : Think(ps, cmd).ps,
           [shot EXCEPT !.oldVelocity = predicted.oldVelocity], cmds)

MakeCommand(elapsed, move) ==
  LET now == IF commands = <<>> THEN 0 ELSE Last(commands).serverTime IN
  /\ Len(commands) < MaxCommands
  /\ commands' = Append(commands, [serverTime |-> now + elapsed, move |-> move])
  /\ predicted' = Predict(snapshot, commands')
  /\ UNCHANGED <<moveTitle, fixedFps, server, pushed, snapshot, executed, frames>>

ExecuteCommand ==
  LET result == Think(server, commands[executed + 1]) IN
  /\ executed < Len(commands)
  /\ executed' = executed + 1
  /\ server' = result.ps
  /\ frames' = [lengths |-> result.lengths, behind |-> result.ps.commandTime - server.commandTime >= Second,
                from |-> server.commandTime]
  /\ UNCHANGED <<moveTitle, fixedFps, pushed, snapshot, predicted, commands>>

(* The game pushes the player.                                             *)
Push(velocity) ==
  /\ server' = [server EXCEPT !.velocity = velocity]
  /\ pushed' = TRUE
  /\ UNCHANGED <<moveTitle, fixedFps, snapshot, predicted, commands, executed, frames>>

Snapshot ==
  /\ snapshot' = server
  /\ pushed' = FALSE
  /\ predicted' = Predict(server, commands)
  /\ UNCHANGED <<moveTitle, fixedFps, server, commands, executed, frames>>

(* Nothing is under way: the client has seen all the server did.            *)
Settled == executed = Len(commands) /\ snapshot = server
SetType(type) ==
  /\ Settled
  /\ server' = [server EXCEPT !.type = type]
  /\ snapshot' = server'
  /\ predicted' = [predicted EXCEPT !.type = type]
  /\ UNCHANGED <<moveTitle, fixedFps, pushed, commands, executed, frames>>
SetFixedFps(fps) ==
  /\ Settled
  /\ moveTitle = "iw3"
  /\ fixedFps' = fps
  /\ frames' = NoFrames
  /\ UNCHANGED <<moveTitle, server, pushed, snapshot, predicted, commands, executed>>

MoveInit ==
  /\ moveTitle \in {"iw3", "t4"}
  /\ fixedFps = 0
  /\ server = [commandTime |-> 0, type |-> "walk", velocity |-> 0, oldVelocity |-> 0]
  /\ snapshot = server /\ predicted = server /\ pushed = FALSE
  /\ commands = <<>> /\ executed = 0 /\ frames = NoFrames
MoveNext ==
  \/ \E elapsed \in Elapsed, move \in {0, 1} : MakeCommand(elapsed, move)
  \/ ExecuteCommand
  \/ Push(4)
  \/ Snapshot
  \/ \E type \in {"walk", "ufo"} : SetType(type)
  \/ \E fps \in FixedFps \union {0} : SetFixedFps(fps)

(* A client predicts what the server makes of its commands, unless the      *)
(* player is pushed meanwhile: as a UFO too, whatever pushed it before.     *)
PredictionAgrees ==
  executed = Len(commands) /\ ~pushed =>
    predicted.commandTime = server.commandTime /\ predicted.velocity = server.velocity

(* At a fixed rate a player moves in frames of one length wherever the      *)
(* commands cut the time, is never behind its commands and never a frame    *)
(* ahead; only a second that was lost may end in a shorter one.            *)
FramesAreFixed ==
  fixedFps # 0 /\ frames # NoFrames =>
    LET cut == frames.from % CurMsec # 0 \/ (frames.behind /\ Second % CurMsec # 0)
        last == commands[executed].serverTime
        ahead == server.commandTime - last
    IN /\ \A n \in DOMAIN frames.lengths :
            frames.lengths[n] = CurMsec \/ (cut /\ n = Len(frames.lengths))
       /\ frames.lengths # <<>> => server.commandTime % CurMsec = 0
       /\ ahead >= 0
       /\ frames.from % CurMsec = 0 /\ frames.lengths # <<>> => ahead <= CurMsec

-----------------------------------------------------------------------------
(* Bounces.  A velocity is (x, z), and a result (x, z) times the root of    *)
(* num / den; what is clipped is a multiple of itself.                     *)
Unchanged(v) == [kind |-> "kept", x |-> v[1], z |-> v[2], num |-> 1, den |-> 1]
PM_ClipVelocity(v, normal) ==
  LET dot == v[1] * normal[1] + v[2] * normal[2]
      backoff == (IF dot < 0 THEN -dot ELSE dot) - 1000 * dot
  IN [kind |-> "clipped", num |-> 1, den |-> 1,
      x |-> 1000 * Unit * Unit * v[1] + normal[1] * backoff,
      z |-> 1000 * Unit * Unit * v[2] + normal[2] * backoff]

(* Scaled by the root of projSq / divisor, along x and projRatio, both here *)
(* times the normal's z.                                                   *)
Slope(v, normal) == -(v[1] * normal[1])
Speed(v) == v[1] * v[1] + v[2] * v[2]
Divisor(v, normal) == v[1] * v[1] * normal[2] * normal[2] + Slope(v, normal) * Slope(v, normal)
Bounces(v, normal) ==
  Speed(v) * normal[2] * normal[2] < Divisor(v, normal) \/ Slope(v, normal) < 0 \/ v[2] > 0
Scaled(v, normal) ==
  [kind |-> "scaled", x |-> v[1] * normal[2], z |-> Slope(v, normal), num |-> Speed(v), den |-> Divisor(v, normal)]

(* Both titles clip on slopes that cannot be walked on.                    *)
Clips(enabled, normal) == ~enabled \/ 10 * normal[2] < 3 * Unit
IW2ProjectVelocity(enabled, v, normal) ==
  IF Clips(enabled, normal) THEN PM_ClipVelocity(v, normal)
  ELSE IF v[1] # 0 /\ Divisor(v, normal) > 0 /\ Bounces(v, normal) THEN Scaled(v, normal) ELSE Unchanged(v)
NGLProjectVelocity(enabled, v, normal) ==
  IF Clips(enabled, normal) THEN PM_ClipVelocity(v, normal)
  ELSE IF v[1] = 0 THEN Unchanged(v)
  ELSE IF Bounces(v, normal) THEN Scaled(v, normal) ELSE Unchanged(v)

NoBounce == [enabled |-> FALSE, in |-> <<0, 0>>, normal |-> <<0, Unit>>, out |-> Unchanged(<<0, 0>>)]
ProjectVelocity(ngl, enabled, v, normal) ==
  /\ bounced = NoBounce
  /\ bounced' = [enabled |-> enabled, in |-> v, normal |-> normal,
                 out |-> IF ngl THEN NGLProjectVelocity(enabled, v, normal)
                         ELSE IW2ProjectVelocity(enabled, v, normal)]
BounceInit == bounced = NoBounce
BounceNext ==
  \E ngl, enabled \in BOOLEAN, v \in Velocities, normal \in Normals : ProjectVelocity(ngl, enabled, v, normal)

(* A bounce loses no speed and leaves along the surface, onwards; without   *)
(* bounces, and on a slope too steep to walk on, no velocity leads into the *)
(* surface.                                                                *)
BouncesKeepSpeed ==
  LET out == bounced.out   v == bounced.in   normal == bounced.normal
      into == out.x * normal[1] + out.z * normal[2]
  IN CASE out.kind = "clipped" -> into >= 0
       [] out.kind = "kept"    -> bounced.enabled \/ v = <<0, 0>>
       [] out.kind = "scaled"  ->
            /\ (out.x * out.x + out.z * out.z) * out.num = (v[1] * v[1] + v[2] * v[2]) * out.den
            /\ into = 0
            /\ out.x * v[1] > 0

-----------------------------------------------------------------------------
PatchInit == HookInit /\ ScreenInit /\ MoveInit /\ BounceInit
=============================================================================
