------------------------------ MODULE BotWeapons ------------------------------
(***************************************************************************)
(* Which weapon the user command of an IW2 test client asks for            *)
(* (iw2/mp/components/sv_bots.cpp).  A script's weapon switch is only a    *)
(* request: the player state follows some frames later, shows no weapon    *)
(* while the player climbs, and during a killcam shows the state of the    *)
(* player being watched.  The bot's entry remembers the request, and       *)
(* forgets it when it belongs to an earlier life or cannot be fulfilled.   *)
(***************************************************************************)
EXTENDS Naturals

CONSTANTS
  Weapons,        \* weapon indices, without 0
  MaxLife,        \* bound: spawnCount of the last life
  StopInKillcam   \* scripts call botstop on a bot that is in a killcam

ASSUME BotWeaponsAssumption ==
  /\ 0 \notin Weapons
  /\ MaxLife \in Nat
  /\ StopInKillcam \in BOOLEAN

VARIABLES
  ps,       \* the client's player state: [weapon, owned, life]
  live,     \* the player state to go back to after the killcam
  killcam,  \* archiveTime # 0
  bot,      \* botMovement: [weapon, hasWeapon, life]
  want,     \* the weapon a script has asked for in this life, 0 if none
  cmd       \* the weapon of the last live command, 0 before the first

weaponVars == <<ps, live, killcam, bot, want, cmd>>

States == [weapon : Weapons \union {0}, owned : SUBSET Weapons, life : 0..MaxLife]
Forgotten == [weapon |-> 0, hasWeapon |-> FALSE, life |-> 0]

WeaponInit ==
  /\ ps = [weapon |-> 0, owned |-> {}, life |-> 0]
  /\ live = ps
  /\ killcam = FALSE
  /\ bot = Forgotten
  /\ want = 0
  /\ cmd = 0

-----------------------------------------------------------------------------
(* The hooks *)

IsValidWeapon(state, w) == w \in state.owned

(* Mutant: the player state wins while it shows a weapon.                  *)
CommandWeaponFollow(state) ==
  IF IsValidWeapon(state, state.weapon)
  THEN [weapon |-> state.weapon, hasWeapon |-> TRUE, life |-> state.life]
  ELSE bot

(* CommandWeapon: what is left of the entry when the player state is       *)
(* looked at, and the weapon to ask for.                                   *)
CommandWeapon(state) ==
  LET stale == \/ bot.life # state.life
               \/ bot.weapon # 0 /\ ~IsValidWeapon(state, bot.weapon)
  IN  IF bot.hasWeapon /\ ~stale THEN bot
      ELSE IF IsValidWeapon(state, state.weapon)
           THEN [weapon |-> state.weapon, hasWeapon |-> TRUE, life |-> state.life]
           ELSE [bot EXCEPT !.hasWeapon = FALSE]

Asked(entry, state) == IF entry.hasWeapon THEN entry.weapon ELSE state.weapon

(* One command.  In a killcam the entry is only read.                      *)
BotUserMove ==
  IF killcam
  THEN UNCHANGED weaponVars
  ELSE /\ bot' = CommandWeapon(ps)
       /\ cmd' = Asked(bot', ps)
       /\ UNCHANGED <<ps, live, killcam, want>>

(* GameSendServerCommand sees the "a <index>" command of a script's weapon *)
(* switch on its way to the client.                                        *)
SelectWeapon(w) ==
  /\ bot' = [weapon |-> w, hasWeapon |-> TRUE, life |-> ps.life]
  /\ want' = IF killcam \/ w \notin ps.owned THEN 0 ELSE w
  /\ UNCHANGED <<ps, live, killcam, cmd>>

(* The weapon part of botstop.                                             *)
BotStop ==
  /\ killcam => StopInKillcam
  /\ bot' = CommandWeapon(ps)
  /\ UNCHANGED <<ps, live, killcam, want, cmd>>

(* SV_ClientEnterWorld, and the end of the script session.                 *)
EnterWorld ==
  /\ ~killcam
  /\ bot' = Forgotten
  /\ want' = 0
  /\ UNCHANGED <<ps, live, killcam, cmd>>

-----------------------------------------------------------------------------
(* The game, seen through the player state the hooks read *)

Becomes(state) ==
  /\ ps' = state
  /\ want' = IF want \in state.owned /\ state.life = ps.life THEN want ELSE 0
  /\ UNCHANGED <<live, killcam, bot, cmd>>

(* Weapons are given and taken; the one in hand, if any, is owned.         *)
Inventory ==
  /\ ~killcam
  /\ \E owned \in SUBSET Weapons :
       Becomes([ps EXCEPT !.owned = owned, !.weapon = IF @ \in owned THEN @ ELSE 0])

(* The player state shows the weapon in hand, or none on a ladder.         *)
Hands ==
  /\ ~killcam
  /\ \E w \in ps.owned \union {0} : Becomes([ps EXCEPT !.weapon = w])

Respawn ==
  /\ ~killcam /\ ps.life < MaxLife
  /\ \E owned \in SUBSET Weapons :
       Becomes([weapon |-> 0, owned |-> owned, life |-> ps.life + 1])

StartKillcam ==
  /\ ~killcam
  /\ killcam' = TRUE
  /\ live' = ps
  /\ \E watched \in States : watched.weapon \in watched.owned \union {0} /\ ps' = watched
  /\ UNCHANGED <<bot, want, cmd>>

EndKillcam ==
  /\ killcam
  /\ killcam' = FALSE
  /\ ps' = live
  /\ UNCHANGED <<live, bot, want, cmd>>

WeaponNext ==
  \/ BotUserMove
  \/ \E w \in Weapons \union {0} : SelectWeapon(w)
  \/ BotStop \/ EnterWorld
  \/ Inventory \/ Hands \/ Respawn \/ StartKillcam \/ EndKillcam

WeaponSpec == WeaponInit /\ [][WeaponNext]_weaponVars

-----------------------------------------------------------------------------
(* Properties *)

(* The variables keep their types, and the weapon a script waits for is    *)
(* one the bot owns.                                                       *)
WeaponTypeOK ==
  /\ want \in (IF killcam THEN live ELSE ps).owned \union {0}
  /\ ps \in States /\ live \in States
  /\ killcam \in BOOLEAN
  /\ bot \in [weapon : Weapons \union {0}, hasWeapon : BOOLEAN, life : 0..MaxLife]
  /\ cmd \in Weapons \union {0}

(* "Keep the intended weapon while ladders/mantles temporarily clear       *)
(* ps.weapon": a live command asks for the weapon a script has selected    *)
(* in this life, until the weapon is lost, another one is selected, or the *)
(* bot leaves (CommandWeapon), whatever the player state shows meanwhile;  *)
(* and never for a weapon of an earlier life or one that was taken away.   *)
SelectionSticks ==
  [][BotUserMove /\ ~killcam =>
       /\ want # 0 => cmd' = want
       /\ cmd' \in ps.owned \union {0, ps.weapon}]_weaponVars

(* "Killcam playback must not replace the live bot's selection with        *)
(* archived state": only a selection by a script changes the entry of a    *)
(* bot that is in a killcam.                                               *)
KillcamKeepsSelection ==
  [][(killcam /\ bot' # bot) => \E w \in Weapons \union {0} : SelectWeapon(w)]_weaponVars

(* A live command asks for the weapon a script has selected in this life,  *)
(* until it is lost or another one is selected, and only a selection by a  *)
(* script changes the entry of a bot in a killcam (CommandWeapon).         *)
SelectionKept == []WeaponTypeOK /\ SelectionSticks /\ KillcamKeepsSelection
=============================================================================
