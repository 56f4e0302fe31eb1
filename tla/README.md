# CoD Xe: a TLA+ model

CoD Xe is a plugin DLL for Xbox 360 consoles. It stays loaded while games come and
go, recognises the Call of Duty executables it knows, patches them in memory and
adds features: bots for scripts, script files, offline stats, developer consoles,
mod menus, replaced textures, single player maps in multiplayer, tools for
jumpers. This directory holds TLA+ modules that model the parts of it in which the
order of events matters or the arithmetic is easy to get wrong, the TLC
configurations that check them on small instances, and proofs of the central
results for every instance. Paths below are relative to `src/src/`.

Run a check with `tlc -config <name>.cfg <module>` and a proof with `tlapm
<module>.tla`; the table under *Runs* lists them.

## 1. The system

The repository has about 43 000 lines of C++ under `src/src`, of which some 17 000
are the structures and addresses of the games (`structs.h`, `symbols.h`).
Everything else (`third_party`, `resources`, `zones`, `tools`, `docs`) is vendored
code, assets and documentation. There are no tests, so the comments, the
documentation under `docs/` and the code are all there is to say what is intended.

Three kinds of thing run concurrently: the console's kernel and loader (which map
and terminate executables and call the plugin back), the game's threads (which run
the hooks, one frame after the other), and the threads the plugin starts for
popups. Apart from popups, all of the plugin's code runs on the game's own
threads; what makes it hard is the order in which the engine, the scripts, the
menus and the player call its hooks, and the state that outlives what it belongs
to, since the DLL's statics survive titles, maps and script sessions.

### Components

**Plugin lifecycle** (`dllmain.cpp`, `plugin_manager.cpp`, `detour.h`,
`plugin.h`). *State:* the progress of DllMain, the termination callback, the
loader hook, the current plugin, its detours with the instructions they displaced,
and one static trampoline buffer that is a bump allocator. *Operations:* attach
(supported kernel, unsupported kernel, Xenia), detach, `OnExecutableLoaded`,
`OnTitleTerminate`, `Detour::Install`, `Detour::Remove`. *Interactions:* the
kernel calls back when a title ends; the loader runs through the plugin's hook on
every executable; every other component is constructed here and destroyed here.
*Hard:* code at one address belongs to different executables over time, the loader
hook must survive every title, and detach takes things down one by one while a
title may run. *Correct when:* trampolines that code may run through are intact,
memory is restored with its own bytes or not at all, nothing branches into an
unloaded DLL, a title that ends is released.

**Startup and shutdown notice** (`notifications.cpp`). *State:* generation and
stop event, the worker's `StartupDelay`, a dispatcher thread with a notification
on its caller's stack. *Operations:* the worker's poll, dispatch,
`QueueNotification`, `Shutdown`, `OnTitleTerminate`. *Interactions:* created by
DllMain, moved on by title termination. *Hard:* dispatchers run in title context
and are killed with the title at any instruction; the same title ID may be a
different instance. *Correct when:* the popup is shown once, to the instance that
was observed, after the delay; detach returns; and the popup appears.

**Popup slots** (`xbox360.cpp`). *State:* slots with `inUse` and a text.
*Operations:* `ShowXNotify`, `NotifyThread`. *Hard:* concurrent callers, thread
creation that fails, threads that die with the title. *Correct when:* every popup
shows the text it was made for and slots come back.

**Test clients** (`sv_bots.cpp` of IW2, IW3, IW4, T4; `bots.cpp` of IW5). *State:*
an array of orders per client slot, IW3's mirroring, IW2's pending weapon, a
static with the name for the client that is being added. *Operations:* the script
methods, the usermove hooks, add-test-client, hooks on userinfo and enter-world,
the end of a script session. *Interactions:* scripts call in, the server's frame
consumes, the engine connects, drops and reuses slots. *Hard:* five titles clear
the entry at five different places; connect callbacks run scripts inside
add-test-client. *Correct when:* a bot does what scripts have told it since it
joined and nothing else, keeps its selected weapon and its name.

**Script session** (`gsc.cpp`, `gsc_fields.cpp`, `gsc_methods.cpp`,
`gsc_functions.cpp`, `events.cpp` of eight titles, `common/script_files.cpp`).
*State:* the `FILE*` of open script files with parsed arguments per handle, the
flags of localized strings, replaced functions by code position, tables of
built-ins and client fields, the flags and buttons of players, shapes of entities.
The cheats of `cmds.cpp` (IW3, IW4) toggle the same flags. *Operations:* open, read, write, close; `settext`; `replacefunc`; the lookup of
built-ins; setters and getters of fields; cheat commands; the button methods;
`clonebrushmodeltoscriptmodel`, `setbrushmodel`, `spawncollision`, `setstance`;
the end of a session, complete or not. *Hard:* handles, strings, positions and
field numbers are numbers that may be kept, reused or invented; scripts are placed
anew in every session; T4 has two sessions at once; god mode shares a word with
the engine; each press must be seen once though commands are more frequent than
frames. *Correct when:* a session inherits nothing, a number names what its script
asked for, a call runs what was asked, a field answers what was assigned, a cheat
is as the player was told.

**Script sources and map entities** (`common/config.cpp`, `common/gsc_loader.cpp`,
`scr_parser.cpp` of eight titles, `iw5/mp/main.cpp`; `common/map_ents.cpp` with
`map.cpp`, `clipmap.cpp` and `main.cpp` of T4, IW4 SP and IW3 SP). *State:* the mounted directory, the
configuration, IW5's arena and registry of compiled scripts, the entities of the
loaded map. *Operations:* a plugin's start, a script asked for, a map loaded, the
choice of a mod in a menu, scripts freed.
*Hard:* the statics survive titles and freed scripts; a script that does not fit
has moved the mark of the arena by then. *Correct when:* each script is the game's
or that of the mod that was chosen in this title, as are entities, a compiled one
stays whole while the engine has it, and what is dumped is the game's own.

**Offline stats and unlocking** (`stats.cpp` of IW3, T4 and IW4,
`filesystem.cpp`). *State:* the controller's stats in memory and whether they are
fetched, T4's `offlineStatsLoaded` and `offlineStatsUsers`, a file per profile.
*Operations:* the read and upload hooks, the menu scripts, loading, saving,
restoring, `unlockstats` over the game's string tables. *Interactions:* the engine
reads and uploads at its own times, profiles sign in and out, Live connects.
*Hard:* the same memory holds stats of different profiles and kinds over time;
writes fail and power goes; what is collected of a challenge spans rows and
tables. *Correct when:* files and Live never get stats of another profile or kind,
saved progress is kept, and unlocking completes what the tables name.

**Game content** (`mpsp.cpp`, `image_loader.cpp`, `image/xenos_texture.cpp`,
`fastfiles.cpp` of IW4 and T4). *State:* how the zone that is being read is to be
read (`is_sp_map`, the override, `g_isSecure`), one buffer for the entities of a
map, the levels of each texture in tiled memory, one of them streamed in later.
*Operations:* the batch and file hooks, the loader rewritten for unsigned and
single player files, the handlers of linked assets, the replacement of resident
and streamed levels, `imagedump`. *Hard:* statics of the zone before; a batch of
limited size; mods that change between two levels of one texture; tiled addresses,
tails and files with other levels. *Correct when:* zones are read as they were
made, the plugin's zones come and go with the game's, levels are written within
their memory where the game reads them, and each shows the mod of its moment.

**Brush collision** (`brush_collision_tracker.cpp` and the components of IW3, IW4,
IW5, T4, QoS). *State:* the dvar, the set of modified brushes, the brushes'
contents. *Hard:* the tracker, the dvar and the map live for different times.
*Correct when:* the brushes without collision are those of the value, and what is
taken from it gets back the contents it had.

**Jumpers' views** (IW3 `collision.cpp`, `bounce_edges.cpp`; `debug_draw.cpp` of
IW3 and IW4). *State:* an index of the map, clipped faces cached with a bound,
probes of edges for each local client, queues of lines. *Operations:* a frame that
draws what is in view and spends its budgets, a map load, a change of hull or of
the brushes. *Hard:* the next map may lie where the last one was; what is skipped
in a frame must get its turn; probes find the brushes as they were made in this
frame. *Correct when:* what is drawn belongs to the map, hull and brushes as they
are, and fills in.

**Mirrored world** (IW3 `mirror_world.cpp`). *State:* the dvar, what was uploaded
to the GPU, the inputs of a command. *Hard:* constants and culling are uploaded
only when they change, weapon and world share materials, one command passes three
hooks. *Correct when:* culling goes with the projection and each command is
mirrored once.

**Movement and view patches** (`pm.cpp` of IW3, T4, IW2, NGL; T4 SP `fov.cpp`,
`splitscreen.cpp`). *State:* displaced instructions and saved registers, the
layout of the split screen, velocity kept between frames. *Hard:* hooks in the
middle of functions; a layout changed while views move; client and server that cut
time on their own. *Correct when:* an interrupted function finds its registers,
views are where their layout has them, client and server move a player alike, a
bounce keeps the speed.

**Movement recorder** (`cj_tas.cpp` of IW3, `mr.cpp` of IW4). *State:* a list of
commands, recording and playing flags, two start times, IW3's helpers with the
view they keep. *Correct when:* a playback sends each command once, in order, at
the recorded spacing and looking where the player looked, a player who moves takes
over where the title leaves him, and a helper gives the view back.

**Mod and custom map menus** (IW3 `mods.cpp`, `ui_feeder.cpp`, `fastfiles.cpp`; T4
`ui.cpp`). *State:* the scanned lists, a current row and a drawn row each, dvars,
the mod zone. *Hard:* the row is kept in three places that the engine updates in
its own order, lists are rescanned, statics survive the title. *Correct when:* the
row that is drawn is the one that is taken, a rescan keeps the choice, and the
zone that is loaded is that of the active mod.

**Custom maps of T4 SP** (`t4/sp/components/ui.cpp`, `fastfiles.cpp`). *State:*
the scanned list and its row, the dvars the menu shows, one preview image and its
own pixels, the active map, the handle of its sound pack, the expanded asset pools
with what they replaced. *Operations:* the
feeder's hooks, opening the menu, reading a map's arena or json file, a refresh
that finds the activation dvar set, the hooks on zone loads and file opens.
*Hard:* directories change under the list, the image comes and goes with its zone,
activation is done a frame after it was asked for, files may end anywhere, and the
engine says only by zone names which map it loads. *Correct when:* the menu
describes what activation takes, activation takes what was asked for, a map is
called what its files say, it opens its own zones and files, the game waits for a
map in one piece, and it finds its asset pools as it set them up.

**Consoles** (`console.cpp` of IW3, IW4, T4 MP, T4 SP). *State:* the edit line,
its history, the pages of output, modifier keys, whether it is open, the last
connection state seen. *Hard:* strokes wait in XInput during loads, keys are held
while the console opens and closes, Shift makes another character of a key, and
the statics survive the title. *Correct when:* the keys edit as an editor does,
keystrokes go to the console or the game, what the plugin and the game think of
the keys follows the keyboard, and no console is open over a load.

`PROJECT.json` lists every part with its files and status, and under `hazards`
what can go wrong and at which line, with the properties that watch it and what
they leave out. What is not modelled is under section 7.

## 2. Modules

| module | models | kind |
|---|---|---|
| `PluginLifecycle` | DllMain, PluginManager, Detour | detailed |
| `TitlePatches` | what the lifecycle promises about title memory | abstract |
| `StartupNotice` | notifications.cpp; popup slots of xbox360.cpp | detailed |
| `BotControl` | orders and user commands of test clients, five titles | detailed |
| `BotOrders` | what the bot methods promise, whatever the title | abstract |
| `BotWeapons` | pending weapon of IW2 bots | detailed |
| `TestClientNames` | names of test clients, five titles | detailed |
| `ScriptFiles` | script files, five titles | detailed |
| `HudStrings` | localized strings of hud elements (IW3) | detailed |
| `ScriptCalls` | replacefunc and the lookup of built-ins, eight titles | detailed |
| `ScriptFields` | client fields, flags, velocity, buttons and cheats of players, eight titles | detailed |
| `ScriptEntities` | collision and stances given by scripts, four titles | detailed |
| `ScriptSources` | mounts, configuration, texts and compiled scripts, map entities | detailed |
| `OfflineStats` | offline stats of IW3 and T4: memory, files, Live, the engine, the hooks of each title | detailed |
| `StatsUnlock` | unlockstats of three titles | fold over tables, against what they name |
| `ZoneLoading` | batches, files and the rewritten loader of three titles | detailed |
| `ImageReplacement` | sizes, levels and tiled addresses of textures; replaced and dumped textures (IW3) | pure operators, detailed |
| `BrushCollision` | noclip_brushes in five titles | detailed, one variable picks the title |
| `CollisionView` | collision outlines (IW3) | detailed |
| `BounceEdges` | bounce edge markers (IW3) | detailed |
| `DrawHooks` | mirrored world (IW3), debug lines and strings (IW3, IW4) | detailed |
| `EnginePatches` | field of view, split screen, fixed frames, bounces | detailed |
| `MovementRecorder` | cj_tas.cpp, mr.cpp | detailed |
| `FeederMenus` | mods.cpp, ui_feeder.cpp, fastfiles.cpp (IW3) | detailed |
| `UsermapMenu` | custom map browser of T4 SP and the files it reads (ui.cpp) | detailed |
| `UsermapZones` | active custom map, its zones and files, asset pools, T4 SP (fastfiles.cpp) | detailed |
| `ConsoleInput` | keystrokes of the consoles of four titles | detailed |
| `ConsoleLine` | edit line, history and pages of the console; extends `ConsoleInput` | detailed |
| `LineEditor` | text, cursor and submitted lines | abstract |
| `PluginLifecycleProofs` | theorems about `PluginLifecycle`, and that it implements `TitlePatches` | proofs |
| `NoticeProofs` | theorems about `StartupNotice`, its slots and `ConsoleInput`; that `ConsoleLine` implements `LineEditor` | proofs |
| `ScriptSessionProofs` | theorems about `ScriptFiles`, `HudStrings`, `ScriptCalls`, `ScriptFields` and `ScriptEntities` | proofs |
| `CodJumperProofs` | theorems about `BrushCollision`, `MovementRecorder` and the mirrored world of `DrawHooks` | proofs |
| `OfflineStatsProofs` | theorems about `OfflineStats` | proofs |
| `FeederMenusProofs` | theorems about `FeederMenus`, `UsermapMenu` and `UsermapZones` | proofs |
| `TestClientsProofs` | that `BotControl` implements `BotOrders`, theorems about `BotWeapons` and `TestClientNames` | proofs |
| `GameContentProofs` | theorems about `ZoneLoading` and `ScriptSources` | proofs |
| `MC...` | values of constants, compositions | for TLC |

Three pairs are refinements. `PluginLifecycle` implements `TitlePatches`
(`ImplementsTitlePatches`): detours and trampolines are hidden, sites that branch
into the plugin are the set `patched`. `BotControl` implements `BotOrders`
(`BotsObey`): the per-title arrays are mapped to the orders told since the client
joined. `ConsoleLine` implements `LineEditor` (`EditsLines`, in `LineIsEdited`): a
buffer of characters up to a NUL is mapped to a sequence, the ring to the last
lines.

Other models are checked against a reference definition that says directly what
the code computes step by step: `StatsUnlock` folds over rows what
`UnlocksEverything` says of the set of rows; the automata of `UsermapMenu` that
read arena and json files, `ArenaMeaning` and `JsonMeaning`; the tiled layout,
that blocks are apart and within the level; the frames of a fixed rate, that they
are of one length; the thunks of `EnginePatches`, the registers of the undisturbed
function.

The MC modules compose components that belong together but share no state: a
variable `part`, chosen initially, says which of them moves in a behaviour; every
interleaving of the others would repeat the same states. A part that does not move
has one fixed initial state. Where components do share state they are one module
or read each other's: the menu code and the mod zone in `FeederMenus`, the manager
and its detours in `PluginLifecycle`, the setting of the brushes in `BounceEdges`.

A title that differs from its siblings in a few branches is a value of a variable
(`title`, `variant`) chosen initially, so one run covers all of them and each
branch is one disjunct with its own lines.

## 3. How the models correspond to the code

Each definition that models code has an entry in `PROJECT.json` under `map` with
the lines it stands for. What the plugin relies on but does not contain (the
loader, the engine's calls into the hooks, the player) is marked external, and is
modelled from how the code uses it.

* `PluginLifecycle`: an address is a model value; the bytes there are abstracted
  to where they come from (`Unmapped`, `Prologue(e)`, `Branch(b)`), the buffer to
  the owner of each 20-byte unit. A trampoline takes 40 bytes and 20 more for each
  relative branch that is relocated (`TrampolineUnits`). Each call that DllMain
  makes on detach is an action, because the title runs on meanwhile.
  `FinishLoadHooked` is `XexpFinishExecutableLoad_Hook`, `InstallNext` one
  module's detour, `TerminateTitle` the kernel's callback.
* `StartupNotice`: one action per kernel call or shared access of the worker, the
  dispatcher and `Shutdown`. `instance` numbers launches, which the code cannot
  see; `generation` is what it has instead.
* `BotControl`: a command is the set of inputs that are held; `told` remembers
  whether scripts have ordered the bot since it joined. `BotFrame` is the usermove
  hook of each title, `ScriptOrder` the script methods, `Connect` the engine's
  connect with the hooks that clear the entry.
* `ScriptFiles`: a file is the set of its lines, and stdio's buffer is part of the
  handle, so that a lost close loses lines.
* `ScriptCalls`: a function is at a position, and a call goes through
  `ReplacedFunctions` from there; the built-ins are tables of names, looked up by
  name, token or selector as each title does.
* `ScriptFields`: fields are records of the title's table, registered under the
  mask and looked up without it; the two bits of an entity's flags stand for god
  mode and the rest of the word. `ClientCommand` is the hook with one disjunct per
  pair of cheats; a word that is no cheat goes to the game and is left out.
* `ScriptEntities`: a shape is the number of a brush model, and the engine links
  an entity with the bounds of the moment; every error leaves the call where the
  code does.
* `ScriptSources`: a script is where its text comes from; IW5's arena is counted
  in bytes, with the parts of each compiled script as intervals. Entities are the
  file or zone they come from; `Load_clipMap` (T4), `Load_clipMapIw4` and
  `Load_MapEntsPtr` (IW3 SP) are the hooks that dump them and put others in their
  place.
* `OfflineStats`: stats are `[owner, kind, progress]`; a file is missing, short,
  garbled or intact, which is all the size check and the checksum can tell.
  `SaveStats` covers `CreateParentDirectories`, `fopen`, a write that fails or is
  short, and the reset of `statWriteNeeded`.
* `StatsUnlock`: a table is a sequence of rows of the columns that are read; a
  mask is the sum of its bits. A table that is not found has no rows at all, not
  even the first (`<<>>`), which is what the early returns see.
* `ZoneLoading`: an inflated file is counted in assets, after a header and before
  the delayed part; the statics that steer the reading are variables by their
  names. One step loads or links one asset of the zone that is being read.
* `ImageReplacement`: the arithmetic is that of the code, on sizes
  of real textures; a picture is where it comes from and its width or face. Memory
  after a texture belongs to the next one, as `AfterTexture`. `sources` is history:
  the whole file of the mod that was active when the levels were last replaced, and
  when the streamed one was read. A texture whose base lies in the tail (`InTail`)
  is garbled by a replacement, as `image_loader.cpp:739` writes its base over the
  start of the tail, and a dump of it does not show it. A streamed dump needs a file
  as long as the level is tiled (`DumpsStreamed`); that the base is in memory as a
  whole is the engine's.
* `CollisionView`, `BounceEdges`: what is in view, in order, and what a trace
  answers are data of the instance; indices, caches, budgets and batches are the
  code's.
* `DrawHooks`: of the mirrored world, one step per hook or state change of the
  backend; `uploaded` and `culling` are what the GPU has. Of debug lines, one step
  per function that appends commands or executes them.
* `EnginePatches`: a register holds the term it was computed from, so that a hook
  that loses one is seen whatever the values; the thunk's frame is the code's,
  slot by slot. A player is its time, its type, its velocity and the velocity that
  walking keeps, which a snapshot does not carry.
* `MovementRecorder`: a take is a sequence of frames with time and view, angles
  modulo a turn. `FrameAt` is a frame of the hook: the command is captured,
  replaced by the take's, and changed by the helpers, in that order. `TakeOver` is
  the end of a playback by a player who moves, in IW3 after and in IW4 before the
  command has got its recorded time.
* `BrushCollision`: `dvarOf` is the launch whose dvar the static pointer is to.
  `ApplyOther` and `SetValue` say what reading and writing through it comes to when
  that launch is over.
* `UsermapMenu`: a directory holds no map, or a map with a display name and a
  preview that is missing, good or refused. `pixels` is the name of the preview
  the image shows, or `"default"`. `UpdateSelectedUsermap` writes the dvars and
  paints; every scan and selection ends with it, as in the code. Its files are
  sequences of tokens.
* `UsermapZones`: a zone is the map it belongs to and a suffix; `LoadScreen`,
  `LoadMap` and `LoadCommon` are the batches the engine passes to
  `DB_LoadXAssets`. An open file remembers where it was taken from. `OpenZone` is
  the same hook for the zones themselves, `waits` the `sync` the game gets.
  Of a pool it matters whose memory and size it has; the plugin has a list of what
  it replaced, in order.
* `ConsoleInput`: one step per keystroke that `frame()` takes from XInput, because
  nothing else moves during a frame. The tables say what a virtual key with a
  character becomes in each title. `held` is the keyboard itself, `gameDown` what
  the game has been told.
* `ConsoleLine`: the buffer is a function on its cells, so `memmove` by one is
  stated with its bounds.

Auxiliary variables record what a property compares with and never guard an action
of the code: `told`, `used` (BotControl), `shown`, `upPolls`, `seenOff`, `unseen`,
`told`, `ended` (StartupNotice), `acked`, `opened` (ScriptFiles),
`asked` (ScriptCalls), `told`, `pressed` (ScriptFields), `given`, `wanted`
(ScriptEntities), `chosen`, `scriptMemory` (ScriptSources), `applied`, `asked`
(BrushCollision), `sent`, `playersAim` (MovementRecorder), `submitted`
(ConsoleLine), `want` (BotWeapons), `asked` (TestClientNames), `byHand`
(FeederMenus), `asked` (UsermapMenu), `map`, `stage` (UsermapZones), `held`,
`gameDown`, `swallowed`, `unknown` (ConsoleInput), `built` (UsermapZones),
`announced` (ScriptFields), `takenOver` (MovementRecorder), `fits`, `steady`
(DrawHooks), `sources` (ImageReplacement), `executed`, `frames`, `steadyView`
(EnginePatches).

## 4. Runs

| run | module, cfg | parts and bounds |
|---|---|---|
| `plugin_lifecycle` | `MCPluginLifecycle`, `PluginLifecycle.cfg` | two games that share an address, a dashboard that maps code at one, a buffer with no unit to spare |
| `startup_notice` | `MCStartupNotice`, `StartupNotice.cfg` | *notice*: two title IDs, two launches, a delay of two polls; *slots*: two callers, two slots, two messages |
| `feeder_menus` | `MCFeederMenus`, `FeederMenus.cfg` | *menus*: two directory names that sort alike, in all three feeders; *browser*: the same; *arena*: two entries of two pairs; *json*: six tokens; *files*: two custom maps and one of the game, two open files; *zones*: the same; *pools*: three kinds |
| `codjumper` | `MCCodJumper`, `CodJumper.cfg` | *brushes* of five titles: three and an index beyond, two launches; *outlines*: two maps of four brushes, a cache of three, one built a frame; *markers*: two maps, two clients, two hulls, two traces a frame; *world* and *commands* of the mirror: two clients, two changes of the dvar; *debug lines*: queues of up to four, five sizes of what is left of the buffer; *hooks*: all of T4 SP and NGL; *split screen*: three changes; *movement*: three commands, a second of twenty milliseconds; *bounces*: 49 velocities, seven slopes |
| `test_clients` | `MCTestClients`, `TestClients.cfg` | *orders*: two slots, five titles; *weapons*: two, and two lives; *names*: calls nested three deep; *recorder*: takes and replays up to time seven, without helpers; with the lookdown up to five; all *helpers*, while nothing is recorded, up to six |
| `script_session` | `MCScriptSession`, `ScriptSession.cfg` | *files*: two handles, files, lines and sessions; *strings*: three elements, four texts, three strings; *calls* of eight titles: three functions of the server and one of the client on four positions, two shutdowns; *fields* of eight titles: two clients and an entity without one, three steps, four cheats; *entities* of four titles: three, four calls |
| `offline_stats` | `MCOfflineStats`, `OfflineStats.cfg` | *profiles* of T4 and IW3: two and nobody, progress 0 or 1; *unlocking* in T4, IW3 and IW4: tables of up to four rows, or not found; ranks up to twice the compiled-in one; two controllers |
| `game_content` | `MCGameContent`, `GameContent.cfg` | *textures*: six layouts, one of them of 16 texels, and thirteen files; *zones* of three titles: fourteen files, batches of a start, maps and the way back, two mods; *scripts* of three titles: two mods, an arena for two of three scripts, and the entities of a map in four titles |
| `console_line` | `MCConsoleLine`, `ConsoleLine.cfg` | *line* of three titles: five characters of two kinds, three submitted lines in a ring of two; *pages*: seven lines of which three are visible; *strokes* of four titles: five keys, of which two are one modifier and two open the console with a character, two waiting strokes |
| `offline_stats_iw3_live` | `MCOfflineStats`, `OfflineStatsIw3Live.cfg` | finds a violation |
| `bot_weapons_killcam` | `BotWeapons`, `BotWeaponsKillcam.cfg` | finds a violation |
| `fields_movement` | `MCScriptSession`, `FieldsMovement.cfg` | finds a violation |

The largest, `console_line`, `feeder_menus` and `offline_stats`, have up to 1.5
million states each and take up to two minutes; the others have from eight thousand
to two hundred thousand. `feeder_menus` uses symmetry: the two directory names sort
alike, and the handles of open files are numbers that nobody orders, so either pair
may be exchanged; the run checks no liveness.

What they show:

* **plugin_lifecycle**: `TrampolinesIntact`, `PoolWithinBuffer` (whatever titles
  follow one another), `PatchesUndoable`, `NothingDanglesWhenUnloaded`,
  `TerminationReleasesTitle`, `ImplementsTitlePatches`; the type invariant is part of
  `PatchesUndoable`. The shared address makes
  the saved bytes of one title plausible in another; the full buffer makes any
  leak visible.
* **startup_notice**: `PopupInItsTime` (queued once, for the instance that was
  observed, and not before the delay), `DispatcherHasWaiter` (nobody leaves the
  stack a dispatcher reads), and under fairness `NoticeComesToAnEnd`: shutdown
  returns, and the popup appears in a title that stays. Two launches are enough
  for a relaunch under one ID. `PopupsShowTheirMessage` and, while the title
  lives, `SlotsComeBack`.
* **feeder_menus**: `MenuShowsChoice` and `ChoiceHolds` (the row that is drawn is
  taken, a rescan keeps it, and the zone is that of the active mod,
  `ZoneOfActiveMod`) for IW3. `BrowserTakesShown` for the browser of T4 SP: details
  and picture are those of the highlighted map, and activation takes what was asked
  for; `NamesAsWritten`: a map is called what its arena or json file says, wherever
  the file ends. `FilesOfTheMap` for the zones and files of the map that is played,
  with `MapWaitsForItself` and `PoolsFit`: the pools have the memory of their size,
  are as the game set them up, and are its own again after the plugin. Directories that sort alike may be listed either way
  by two scans, which is when a row number stops meaning the same entry.
* **codjumper**: `CollisionFollowsValue` for the brushes; `DrawnIsCurrent`: outlines are of the loaded map, markers
  of the hull, map and brushes as they are, lines are in the world; `FillsIn`,
  under fairness: what is in view is drawn after some frames. `MirroredOnce`:
  in the mirrored world culling goes with the projection, weapon and HUD stay as
  they are, and a command is mirrored once. `PatchesKeepTheRest`
  collects the patches that must leave everything else as it was: registers of interrupted functions, views of the
  split screen, prediction at a fixed rate, the speed of a bounce.
* **test_clients**: `BotsObey` (the refinement of `BotOrders`, and that a bot
  under orders stays under them), `SelectionKept` (a selected weapon stays
  selected, killcams or not), `NamedAsAsked`; `FaithfulReplay` for the
  recorder, which makes commands too, with take-over and helpers.
* **script_session**: `FilesOfSession` (no inherited handle, numbers name their
  files, written lines reach the disk), `StringsFollowElements`,
  `CallsRunWhatWasAsked` (replacements of the session, built-ins of the plugin),
  `FieldsAnswer` (fields hold what was assigned, the engine keeps its flags, a
  cheat is as announced until its field is assigned, each press is seen) and `EntitiesAnswer` (shapes follow
  models, a stance is as wanted).
* **offline_stats**: `StatsKeptApart` and `PlayersOwnStats` for both titles (with
  `LoadedStatsOfUser`, of what T4 has loaded), and while T4's disk works `ProgressReachesDisk`
  (saved progress is kept, and unsaved is saved before the native stats return; the
  cases in which it goes back to the file are named in section 5).
  `diskFails` is chosen initially: the safety properties hold with failing writes
  and power cuts, the last is about a disk that works. `UnlocksEverything`: every
  rank, item and challenge of the tables is complete, with the targets of its own
  rows, for the controller it was asked for, and a second time changes nothing.
* **game_content**: `PicturesArrive` (no level is written over another or over the
  next texture, each shows, where the game reads it, the picture of the mod that was
  active when it was read, and a dump holds it; textures of at most 16 texels that
  are packed may be garbled, and so may what is dumped of them), `LoadedAsMade` (zones are read in the form they have, entities are of
  the map), `PluginZonesFollowStock`, `ScriptsFromTheirSource` (scripts and
  entities are of their source, compiled scripts stay whole, and a dump holds the
  game's entities).
* **console_line**: `LineIsEdited` (terminated buffer, cursor in the text, pages
  full, and every key refines `LineEditor`) and `StrokesInOrder` (keys follow the
  keyboard, no console over a load).

Every bound is a named constant or an instance's parameter and is met by the runs:
a second launch, a full table, a reused slot, a wrapped ring, an evicted brush, a
full batch, a full arena and a nested call all occur. A third of each would repeat
them: no code counts titles, slots or handles beyond asking whether one is free,
and entries of different slots do not interact except through mirroring (two
slots) and shared texts (three elements).

`CHECK_DEADLOCK FALSE` is set in three runs. In `codjumper` maps, commands
and changes are counted, and a bounce is one step; in `startup_notice` the notice stops when the title, the worker and
the shutdown are done and no launches are left; in `game_content` a zone that
cannot be inflated is an error that ends the title.

**Fairness.** Three modules state any. In `StartupNotice` threads that exist
are scheduled by the kernel (`WF` on the steps of the worker, the dispatchers, the
callers, the popup threads and a shutdown that has begun). A title that terminates is torn down and one that loads runs (`WF`). Thread creation
does not fail for ever (`SF` on `Dispatch`), without which no program could
promise a popup. Nobody has to launch or end a title or unload the plugin. In
`CollisionView` and `BounceEdges` the engine draws frame after frame, for each
client (`WF` on the draw handlers, `ViewFairness`, `EdgesFairness`), and `CG_Init`
follows the load of a map; nobody has to move.

## 5. Assumptions

* The loader lock serialises DllMain with the loading of executables; the comment
  at `notifications.cpp:180` relies on it.
* No plugin hooks one function twice, and it hooks addresses of its own title
  (`ConstantsAssumption`).
* The termination callback runs before the title's memory goes (`dllmain.cpp:28`).
* `Registered = TRUE`: the notice is checked for an active DLL. An inactive one
  (`dllmain.cpp:140, 146`) starts the same thread without the callback, and with
  `Registered = FALSE` a relaunch between poll and dispatch is not seen.
* `ReuseTitles = {iw2, iw5}`: in the other titles the entry of a dropped bot is
  not cleared, and a client that takes the slot in the same session inherits it.
  `CallbackTitles` leaves out IW5, which zeroes the entry after
  `SV_ClientEnterWorld` (`bots.cpp:214`) and with it what the connect callback
  ordered. Names are checked where a nested call or a dropped server cannot leave
  the pending name behind. These are limits of the code, recorded as hazards, and
  the runs check what holds beside them.
* `PlayerWaits`: a recording is not started during a playback, which the code
  allows (`cj_tas.cpp:30`) though not the reverse (`:71`), and the helpers are not
  all turned off in the frame of a lookdown.
* IW4 and QoS register `noclip_brushes` once per DLL (iw4 `clipmap.cpp:22`, qos
  `clipmap.cpp:119`). In a later launch their pointer is stale: the model lets IW4
  read any value through it and QoS apply the value it reads by name, while what
  either writes goes elsewhere. `CollisionFollowsValue` then only promises that the
  map's contents can be had back; what it says of the value holds while the pointer
  is `Live`. `CG_Init` follows the load of a map.
* IW3's engine reads stats again when the connection to Live changes
  (`RereadsOnLive`, which T4's does not); a new profile's stats are read before
  anything else uses them; a read from Live completes only while its profile stays
  on Live.
* A file has a single writer. Labels of hud elements are precached.
* Unlocking: a row of a challenge has both its state and its progress stat or
  neither; the row `maxrank` is the first and names the highest rank; ranks ascend
  with experience; stats are distinct. T4's items come from `unlock_init.cfg`,
  which is not part of the code. Outside a game nothing of a title's stats changes
  between two calls.
* Scripts are placed anew only after a complete shutdown of their instance. In IW5
  the last registration of a name counts. Script memory is renewed when scripts
  are freed, and mods are chosen in menus.
* Batches: the start's comes before any map's; a mod is run from the menus. In IW3
  a map is the last of its batch and frees the map before it, and the zones of the
  start come without one (`MapsAssumption`). A map's world is where its name says,
  also by `MapsAssumption`: of the world, `LoadedAsMade` says only that the code looks
  for it there. The numbers of `ZONE_OVERRIDES` are
  those of the files that ship, and the plugin's own entities and raw files are of
  maps (`TablesAssumption`). In IW4 a batch names
  a zone that the plugin amends once and leaves room for two more, the game's files
  are there, and files have the game's version (`AmendedAssumption`).
* The arena's size and the parts of a script are numbers of bytes, and alignments
  positive (`ArenaAssumption`).
* A texture shows one mod while the mod stays the same. After a change without a
  reload it shows two, which the code has no remedy for: its streamed level is the
  new mod's, its resident ones follow when a zone is loaded (delayed textures) or
  when its own is loaded again. When mods are cleared the pictures stay until then.
* What T4's offline profile played since its last save is lost when the title
  restarts, when another profile signs in, and when the engine reads stats again in
  an offline game, where the hook loads the file over them (`stats.cpp:384-387`);
  `ProgressReachesDisk` leaves these three out.
* No more brushes are in view than the cache of 256 holds, without which the view
  never fills in. All bounce edges are near enough, and boxes are in one
  dimension.
* In IW4 the HUD of a frame whose command buffer has no room for the way back to
  2D stays in 3D (`debug_draw.cpp:90`); the property leaves that frame out.
* Snapshots lack `oldVelocity`; the engine leaves out commands that are not later
  than the player; the rate and the type of a player change only when nothing is
  under way; a push is new until the next snapshot. Views: one display mode, and
  positions are those of the stock layouts.
* A frame of the console runs in every connection state that lasts, and XInput
  delivers every stroke in order, a release with the character of its moment. A
  key whose release the console took, keys that Shift makes another key, and
  modifiers right after a launch are left out of `KeysFollowKeyboard`, since the
  code does not keep them. `CL_IsConsoleKey` of IW3 and T4 MP is the engine's,
  assumed to be as in T4 SP; the history of IW3's and T4 MP's line is the
  engine's, too.
* Arena and json files: words are abstract, only braces without quotes differ;
  comments are skipped; the json reader reports a file that is not well-formed.
* No button is pressed in the frame between the double click and the refresh that
  activates the custom map; the preview image is loaded and freed while no menu is
  open; the D3D device exists.
* The engine loads the load screen of a map before the map.
* Of the remaining constants: fields have integer values, moves are numbers
  (`FieldsAssumption`); there are so many brush models (`EntitiesAssumption`);
  directories are finitely many, display names are ordered as numbers, and the names
  of nobody and of no key are no names (`UsermapMenuAssumption`); custom maps are
  not the game's, and no map is no map of either (`UsermapZonesAssumption`); titles
  and keys are those of the tables (`ConsoleInputAssumption`); NUL is no character,
  buffer and ring are not empty (`ConsoleLineAssumption`), and Ctrl is down or not
  (`StrokesAssumption`); movements are signed bytes, turns integers
  (`MirrorAssumption`).

## 6. Proofs

TLC checks the instances above; the theorems below hold for every value of the
constants that satisfies the assumptions. `PROJECT.json` lists them under
`theorems`. Each proof has the same shape: a strengthening, checked by TLC on the
run's instance first, that holds initially (`...InitInv`) and that every action
preserves (one lemma per action, the facts that several actions need as lemmas of
their own), and the property from it. Types are proved apart from the conjuncts
that say something, because the provers need different facts for the two.

**`PluginLifecycleProofs`** (any executables, addresses, hooks and buffer size):
`TypeCorrect`, `TrampolinesSafe`, `PatchesCanBeUndone`, `NothingDangles`,
`TitlesAreReleased`. The invariants are not inductive: that no trampoline is
overwritten depends on all live trampolines lying between the baseline and the
allocation point, and that on no plugin being installed when the pool is reset,
which depends on where DllMain and the title are. `IInv` therefore adds
`StagesInv` (which stages of DllMain and title can coincide), `DllInv` (what
DllMain has acquired), `PluginInv` (a plugin outlives its title only during
detach), `TodoInv` (the hooks still to install are distinct and not in place),
`CodeInv` (what the bytes at every site are) and `TrampolineInv`.

* `ImplementsPatches`: `PluginLifecycle` implements `TitlePatches`. `attached` is a
  DLL that is active or on its way there, `stage` forgets whether the loader is
  still constructing a plugin, `patched` is the set of sites whose code branches
  into the plugin. One thing more than `IInv` is needed, `HooksInv`: while a plugin
  is constructed, the hooks installed and those still to install are together the
  hooks of its title. With it the end of the construction is the abstract `Run`,
  with all hooks in place. One lemma per group of steps shows which abstract step,
  or no step, each of them is.
* `PoolHolds`: the buffer is never outgrown. It depends on the numbers, so it has
  a hypothesis: for each title alone, the trampolines of its hooks fit next to that
  of the loader hook (`HooksFit`). What is proved is that this is enough for any
  sequence of titles, terminations and attachments. `PoolInv` says that a
  title which is being constructed has taken at most what its hooks up to this one
  need, because the pool is back at the baseline before the next title allocates.

**`NoticeProofs`** (any titles, delay, launches, callers, slots and messages):

* `PopupsInTheirTime`, where the termination callback is registered. Five facts
  make `PopupInItsTime` inductive: the generation tells the runs of one title apart
  (`Generations`); a dispatcher's generation is that of the run it was made for, or
  older (`MadeFor`); a title that is going does not let a delay of its own run out
  (`Delaying`); the delay is not ahead of the polls that found this run
  (`PolledEnough`); and after a popup its dispatcher is about to say so, or was
  heard, or its run is over (`QueuedOnce`).
* `DispatchersAreWaitedFor` needs only who waits for whom (`Waiting`) and that
  the delay counts up to its end (`Counting`), and no callback.
* `PopupsShow`: `Ownership` gives every slot in use one owner, a caller or a
  thread, as long as the title lives; `Texts` says that what the owner was given is
  in the slot from the moment it is written. A slot in use without an owner, after
  a title that ended, is never claimed, which keeps both over the end of a title.
* `KeystrokesInOrder` (four titles, any keys of the tables). `InTurns`: of the
  strokes that wait, those of one key go down and up in turns and end with the
  keyboard as it is, so that reading one keeps what the plugin knows in step. Beside
  it, a modifier is named alike with and without Shift (`ModifiersAreFixed`), the
  keys that open the console never reach the game, and T4's hooks give it nothing.
* `TheLineIsEdited` (any characters, size of buffer and ring, lines on a page):
  `ConsoleLine` implements `LineEditor`; every key is one step of it, and pages
  stutter. `RingHolds`: each line that can still be called back is in the slot of
  its number, and the slot that is overwritten holds none of them, which is
  arithmetic modulo the size of the ring (`SlotsDiffer`). `Opened` and `Closed` say
  that the copies of an insertion and a deletion are the sequence's `InsertAt` and
  `RemoveAt`, at the ends of the text and in a full line too; `LoopStops`, that the
  loops over cells end at the terminator.

**`ScriptSessionProofs`**:

* `FilesOfSessionsApart` (any files, size of the table, lines, sessions and
  titles). `LinesKept`: every acknowledged line is on disk or in the buffer of an
  open slot, so closing a slot, singly or with all others, loses none. `Leftovers`:
  no handle survives its session except in IW5, and nothing survives its title;
  that is why IW5 must close in the next session's first lookup, and why the
  others find only free slots. That `Open` takes a slot that exists rests on the
  least element of a non-empty set of numbers.
* `StringsFollow` (the empty text is no text that scripts set). `FreedKeepsOthers`
  says what `Scr_CanFreeLocalizedConfigString` leaves to the other elements,
  `IndexFound` that the search ends at an index that holds the text or is free.
* `CallsRunTheirReplacements` (server and client functions are different, and
  neither `"other"` nor the null position is one of them). `ReplacedFunctions` is
  keyed by positions, the script by functions, so `CallsInv` says that the
  positions of a session keep functions apart and that the table holds what was
  asked for in this session, at the position where its function is now. It survives
  an incomplete end because the scripts then stay where they are, and a complete
  one because the server's table is cleared with it.
* `FieldsAnswerAsAssigned` (any players, values and movements; eight titles). The
  tables of each title are shown to give each name its own entry, with the mask or
  without (`TableHolds`, `EntriesDiffer`); `ValuesKept` then says of every field but
  those of the movement that it reads what was told last, over `health`,
  `entityflags` and `god`, of which two are parts of one word; `ButtonsKept`, that
  the buttons since the last frame are those that were pressed; `CheatsTold`, that
  what a player was told of a cheat is so in the titles that have them.
* `EntitiesAnswerAsGiven` (any entities, players and brush models).
  `ShapesFollowModels` is inductive, once unlinking, setting and linking are taken
  one by one. `LastWanted`: what a player was given last is the last event that he
  was sent, and is what he has when none is left.

**`CodJumperProofs`**:

* `CollisionIsTheValues` (any of the five games, any number of brushes and
  launches; of the value, while the pointer is live). `Tracked` says for each phase of a title how the flags, the tracker
  and the map as it shipped relate: the tracker may be stale until the point where
  the game clears it, and is exact in a map. `DvarOfLaunch` ties the dvar to the
  launch, `Applied` says what the last value left. `Asked` carries what a script's
  method disabled over the next application of the value, which would otherwise
  bring it back; `MeetsAreFound` is the geometry of the three overlap tests.
* `TakesAreReplayed` (takes of any length; both titles), where the player starts no
  recording during a playback (`PlayerWaits`, section 5). `TakeInv`: recording and
  playing exclude each other, what was sent so far is a prefix of the take with its
  rhythm (`SentSoFar`, `InOrder`), and a player who takes over does so from the
  frame that was sent last (`TakeOverContinues`). `HelperInv`: the view a helper
  keeps is the one it took, until it is given back. Both are about the same frame:
  `LeftIsView` carries what the playback leaves to the helpers.
* `MirroredThroughout` (any local clients, movements and turns). `ViewInv`: the
  matrices that were uploaded are those of the engine unless their version says they
  are not, only main views have a reflected projection, and what is about to be
  drawn has its culling. `InputInv`: a command under way has what the devices gave,
  and when the gamepad's part is in, the mouse's is mirrored already and the
  client's entry says so, which is why it is not mirrored again.

**`OfflineStatsProofs`** (any set of profiles, failing disk and power cuts; T4 and
IW3): `StatsStayApart`, `ProfilesPlayOwnStats`. What a
save writes is what is in memory, so `StatsInv` says whose stats that is in each of
the states `offlineStatsLoaded`, `fetched` and `reading` distinguish
(`NativeStats`, `ReadsNative`), that files are intact or refused (`IntactFiles`),
and that loaded stats are not behind their file (`LoadedAhead`). The last gives the
action property `SavedBeforeReplaced`: on T4's disk that works a save never replaces
more by less, and unsaved stats are saved before others take their place, except
by the three ways back to the file (section 5).

**`FeederMenusProofs`**. For IW3 (any directories, order of names and games before):
`MenusShowChoice`, `ModZoneIsActiveMod`, and with it `ChoiceIsTaken`.
`MenusInv` relates the copies of a row: the row that is drawn is the chosen one
whenever the menu is open (`DrawnRowIsChosenRow`), the chosen row is in the list
(`ChosenRowListed`), and the counter shows it (`CounterShowsRow`); menus are open
only in a running game (`OpenInRunningGame`), which is why statics that survive a
title do no harm. For T4 SP:

* `BrowserAlwaysTakesShown` (any directories and previews). `PicturesKept`: as long
  as no pixels of the image are kept it has not been painted, so that those kept
  later are its own. `AskedIsHighlighted`: between the double click and the refresh
  that activates it a map stays the highlighted one.
* `MapsNamedAsWritten` (arena and json files of any length). `ArenaRead` gives the
  parser's state a meaning at every token: between entries all that was read lies in
  entries (`Between`); within one, the parity of the distance to its brace tells
  keys from values, and the last pair of each key is what is remembered (`Within`);
  the first entry of the map sticks (`FirstFound`); and a file that was refused ends
  in a token that ends no entry. `JsonInv`: the depth is the number of containers
  that are open, and version and name are those of the last such fields of the
  outermost object. No induction over the file is needed: the file grows by one
  token a step, and the invariant carries its meaning.
* `MapsOpenTheirOwn` (any maps and handles), from `OwnFilesAreOpened`, where
  `ActiveIsPlayed` says that between the load screens of two maps the active custom
  map is the one that is played, and `PoolsAlwaysFit`, where `PoolsInv` ties each
  pool to what is kept of its original.

**`TestClientsProofs`** (any slots, weapons and names):

* `BotsDoAsOrdered`: `BotControl` implements `BotOrders` in each of the five
  titles, where slots are reused only in the titles that clear the entry and IW5's
  callback does not order the new bot (hypotheses on `ReuseTitles` and
  `CallbackTitles`, section 5). The mapping needs `OrdersInv`: the entry of a bot
  that was told is active, that of a new one is as it was cleared, and the
  commands of players are their own.
* `SelectedWeaponIsUsed` (IW2), where scripts do not stop a bot that watches a
  killcam: the second finding is that they may not. `WeaponInv` says that the
  pending weapon is the selection, or none was made in this life.
* `ClientsAreNamedAsAsked`, where calls nest in IW2 and IW5 and are cut short in
  IW2, IW4 and IW5 only. `NamesInv`: every call of the stack has its own client
  (`CallsApart`), and the pending name is that of the innermost call whose client
  has not connected (`PendingOfCall`).

**`GameContentProofs`** (any zones, files, tables, scripts, mods and sizes that
satisfy the assumptions of `ZoneLoading` and `ScriptSources`, section 5):

* `ZonesLoadedAsMade`. `ZonesInv` says, while a zone is read, that the statics of
  the loader are those of this zone and the place in the file is after what was
  linked (`StaticsOfLoad`), and that what was linked so far is what the zone should
  have (`LinkedSoFar`, `LinkedWhole`); between zones it says nothing of them, for
  there they are those of the zone before. What is played needs two facts about
  batches: entities and raw files of the plugin's directory belong to a map, and
  their buffer is of the one map there is (`BuffersOfMap`); a map is the last that
  is read, so that `is_sp_map` is still the map's while it is played
  (`MapComesLast`).
* `PluginZonesFollow`: for every kind of allocation, a zone of the plugin is asked
  for, loaded or in memory if and only if the game's is (`Follows` in
  `ZonesFollow`). That a batch keeps this is `WithPluginZones`, position by position.
* `ScriptsKeepTheirSource`. `TitleState`: only the title that runs has a directory,
  a mod and compiled scripts. `RegistryStacked`: the parts of compiled scripts lie
  one after the other below the mark of the arena, which is how a new script, whose
  parts lie above the mark, overlaps none of them, also when an earlier one was
  given up half-way. `GivenOfTitle` carries that a script once compiled is found
  again.

Only model-checked:

* *liveness* and what rests on fairness, which the prover cannot do:
  `NoticeComesToAnEnd`, `SlotsComeBack`, `FillsIn`;
* properties over *recursive definitions or folds*, which need induction over data:
  `UnlocksEverything`, and `DrawnIsCurrent`, whose batches of lines and rounds of
  traces are computed recursively;
* the *arithmetic* of tiled textures, of velocities and of frame times, which is
  beyond the SMT solver in general and is bounded by the hardware or the game in
  any case: `PicturesArrive`, `PatchesKeepTheRest`.

## 7. Not modelled, and what is left

Not modelled:

* *Kernel profiles* (`kernel.cpp`): a stateless lookup, whose outcome is the
  choice of `env` in `PluginLifecycle`.
* *Structures and symbols* of the games (`structs.h`, `symbols.h`): layouts and
  addresses; what the code relies on of the engine is modelled as external
  actions. They are the largest part of the lines that no definition stands for.
* *Engine patches and branding* (`patches.cpp`, `command.cpp`, `assets.cpp`, ...):
  writes done once, without a history that could go wrong.
* *Pixels and geometry*: conversion of texels, cube maps' orientation, clipping of
  polygons, the drawing of text, the sway of the weapon; the overlay over the
  dividing line of the split screen.
* *Movement*: multi-bounces with their static `previousZ`, velocity snapping,
  `pm_fixed_fps = 0` (a division by zero with an undefined result), rocket jumps;
  the constants of IW4 and IW5.
* *Zones*: what the rewriting of assets of single player maps (sounds, effects,
  materials) puts into them.
* *Scripts*: built-ins that pass through to the engine; T4 MP's numbers of class
  names in function statics; a file read in IW4 that is cut at 65 535 bytes;
  entities without a client, of which three titles read memory
  without asking.
* *Menus*: the stock map list, texts that only decorate.
* Dumping of scripts, which writes files that nothing reads again; the scroll of the edit
  line, which is the engine's `Field_AdjustScroll`.

Left to do, by weight of what can go wrong:

1. Theorems about `CollisionView` and `BounceEdges` (`DrawnIsCurrent`), with the
   recursion of their loops stated as functions.
2. Multi-bounces (`pm.cpp`) with `EnginePatches`.

New components join the existing runs through `part`, as above.

## 8. Findings

* `offline_stats_iw3_live` (`Iw3FilesAreOffline`): in an offline game IW3 saves to
  the profile's offline file without asking whether the profile is on Live
  (`game/iw3/mp/components/stats.cpp:516`); the read hook does ask, and so does
  T4.
* `bot_weapons_killcam` (`KillcamKeepsSelection`): `botstop` calls `CommandWeapon`
  with the archived player state (`game/iw2/mp/components/sv_bots.cpp:277`),
  against the comment at `:150` that killcam playback must not replace the live
  bot's selection.
* `fields_movement` (`MovementAsDocumented`): in IW3 `forwardmove` reads the
  movement to the right and `rightmove` that forward
  (`game/iw3/mp/components/gsc_fields.cpp:27`), against `docs/iw3.md:54` and the
  button methods.
