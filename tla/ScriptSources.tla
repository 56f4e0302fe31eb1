---------------------------- MODULE ScriptSources ----------------------------
(***************************************************************************)
(* Where the scripts of a title come from (common/config.cpp,              *)
(* common/gsc_loader.cpp, the scr_parser.cpp of eight titles, and          *)
(* iw5/mp/main.cpp), and the entities of its maps (clipmap.cpp, map.cpp,   *)
(* iw3/sp/main.cpp).                                                       *)
(*                                                                         *)
(* A plugin mounts the directory of its game and reads its configuration;  *)
(* the engine asks for the text of a script, which comes from the active   *)
(* mod or from the game.  Most titles take the text into memory the engine *)
(* gives for it; IW5 takes compiled scripts into an arena of its own, in   *)
(* which they stay for as long as the scripts of the game.                 *)
(***************************************************************************)
EXTENDS Integers, Sequences

CONSTANTS
  Games,       \* titles: "iw5" and those that load texts; "iw3" has a list of mods;
               \* "t4", "t4sp", "iw4sp" and "iw3sp" load entities
  ModNames,    \* directories under mods\
  Scripts,     \* names of scripts
  Installed,   \* [game, mod, script] of the files there are, Ents among the scripts
  Size,        \* [script -> bytes of its name, of its compressed text, of its code]
  ArenaSize,   \* GSC_ARENA_SIZE
  MaxScripts,  \* MAX_LOADED_SCRIPTS
  Alignment    \* of a ScriptFile and of code; a ScriptFile takes one such unit

NoMod == "none"
Ents == "map.ents"   \* the entities of a map
Raw == "raw"         \* beside the mods
Unknown == [game |-> "none", mod |-> NoMod, script |-> "none"]

(* GSC_ARENA_SIZE is a number of bytes, and so are sizes; alignments are    *)
(* powers of two, of which it is enough that they are positive.            *)
ASSUME ArenaAssumption ==
  /\ ArenaSize \in Nat /\ MaxScripts \in Nat /\ Alignment \in Nat \ {0}
  /\ Size \in [Scripts -> [name : Nat, text : Nat, code : Nat]]
(* "none" stands for no title. *)
ASSUME GamesAssumption == "none" \notin Games

VARIABLES
  game,      \* the title that runs with its plugin, or "none"
  mounted,   \* the game whose directory codxe: stands for, or "none"
  config,    \* [mod |-> active_mod, dump |-> dump_rawfile, dumpEnts |-> dump_map_ents]
  listed,    \* the mod of fs_game, in IW3
  given,     \* what the engine has of each script: Unknown, or the file or zone it is of
  registry,  \* g_loaded_scripts: [script, file, arena, parts |-> intervals of the arena]
  arena,     \* g_gsc_arena: the script memory it lies in, 0 for none
  used,      \* g_gsc_arena_used
  chosen,    \* history: the mod that was chosen in this title, NoMod if none was
  scriptMemory, \* history: the engine's script memory, renewed when scripts are freed
  mapEnts,   \* the entities of the loaded map: Unknown, or the file or zone they are of
  dumped     \* what was dumped of them last, likewise

entsVars == <<mapEnts, dumped>>
sourceVars == <<game, mounted, config, listed, given, registry, arena, used, chosen, scriptMemory, entsVars>>

Defaults == [mod |-> NoMod, dump |-> FALSE, dumpEnts |-> FALSE]

-----------------------------------------------------------------------------
(* A title starts: MountGameDirectory, then the plugin's Config. *)

(* LoadFromJson: what the file does not say, or is not read of it, stays   *)
(* as it is.                                                               *)
Unsaid == "unsaid"
ConfigFiles == [mod : ModNames \cup {Unsaid}, dump : BOOLEAN, dumpEnts : BOOLEAN]

LaunchGame(g) ==
  /\ game = "none"
  /\ game' = g
  /\ mounted' = g
  /\ \E file \in ConfigFiles :
       /\ config' = [mod |-> IF file.mod = Unsaid THEN config.mod ELSE file.mod, dump |-> file.dump,
                    dumpEnts |-> file.dumpEnts]
       /\ chosen' = IF g = "iw3" \/ file.mod = Unsaid THEN NoMod ELSE file.mod
  /\ listed' = NoMod
  /\ given' = [s \in Scripts |-> Unknown]
  /\ mapEnts' = Unknown
  /\ UNCHANGED <<registry, arena, used, scriptMemory, dumped>>

(* Of the two devices the second may fail: there is no plugin then, though *)
(* codxe: stands for the game's directory already.                         *)
LaunchUnmounted(g) ==
  /\ game = "none"
  /\ mounted' \in {mounted, g}
  /\ UNCHANGED <<game, config, listed, given, registry, arena, used, chosen, scriptMemory, entsVars>>

(* The mod list of IW3 sets fs_game, in the menus (FeederMenus).           *)
ListMod(m) ==
  /\ game = "iw3"
  /\ \A s \in Scripts : given[s] = Unknown
  /\ listed' = m
  /\ chosen' = m
  /\ UNCHANGED <<game, mounted, config, given, registry, arena, used, scriptMemory, entsVars>>

(* Config::ResolveModPath, ModList::ResolvePath *)
ActiveMod == IF game = "iw3" THEN listed ELSE config.mod
Stock(s) == [game |-> game, mod |-> NoMod, script |-> s]
OverrideFile(s) == [game |-> mounted, mod |-> ActiveMod, script |-> s]
HasOverride(s) == ActiveMod # NoMod /\ OverrideFile(s) \in Installed

-----------------------------------------------------------------------------
(* Texts: Scr_AddSourceBuffer_Hook *)

Give(s, text) == given' = [given EXCEPT ![s] = text]

(* TryLoadOverride: a file that is empty, cannot be read whole or finds no *)
(* memory is as good as none.                                              *)
TryLoadOverride(s) == IF HasOverride(s) THEN {OverrideFile(s), Stock(s)} ELSE {Stock(s)}

(* With dump_rawfile the game's own text is used, and written down.  What  *)
(* is dumped is never read again.                                          *)
SourceOf(s) == IF config.dump THEN {Stock(s)} ELSE TryLoadOverride(s)

(* IW3 MP asks its mod list, and dumps with a command of its own.          *)
ListedSourceOf(s) == TryLoadOverride(s)

AddSourceBuffer(s) ==
  /\ game \notin {"none", "iw5"}
  /\ \E text \in IF game = "iw3" THEN ListedSourceOf(s) ELSE SourceOf(s) : Give(s, text)
  /\ UNCHANGED <<game, mounted, config, listed, registry, arena, used, chosen, scriptMemory, entsVars>>

-----------------------------------------------------------------------------
(* Entities, as the game loads a map *)

DumpEnts == dumped' = IF config.dumpEnts THEN Stock(Ents) ELSE dumped

(* T4: Load_clipMap_t_Hook dumps the entities of the map, OverrideMapEnts  *)
(* puts those of the active mod in their place.                            *)
T4OverrideMapEnts == \E ents \in TryLoadOverride(Ents) : mapEnts' = ents
Load_clipMap ==
  /\ game \in {"t4", "t4sp"}
  /\ DumpEnts
  /\ T4OverrideMapEnts

(* IW4 SP does both in its hook; only an empty file is as good as none.    *)
Load_clipMapIw4 ==
  /\ game = "iw4sp"
  /\ DumpEnts
  /\ \E ents \in TryLoadOverride(Ents) : mapEnts' = ents

(* IW3 SP: Load_MapEntsPtr_Hook, from a directory beside the mods.         *)
RawEnts == [game |-> mounted, mod |-> Raw, script |-> Ents]
Load_MapEntsPtr ==
  /\ game = "iw3sp"
  /\ DumpEnts
  /\ mapEnts' \in {Stock(Ents)} \cup (IF RawEnts \in Installed THEN {RawEnts} ELSE {})

LoadMapEnts ==
  /\ Load_clipMap \/ Load_clipMapIw4 \/ Load_MapEntsPtr
  /\ UNCHANGED <<game, mounted, config, listed, given, registry, arena, used, chosen, scriptMemory>>

-----------------------------------------------------------------------------
(* Compiled scripts: DB_FindXAssetHeader_Hook of IW5 *)

(* The next multiple of a power of two. *)
AlignUp(n, to) == (n + to - 1) - ((n + to - 1) % to)

(* AllocateGSCData, for the four parts of a script in turn.  Each request  *)
(* that fits moves the mark, also after one that did not.                  *)
Requests(s) ==
  <<[size |-> Alignment, to |-> Alignment], [size |-> Size[s].name, to |-> 1],
    [size |-> Size[s].text, to |-> 1], [size |-> Size[s].code, to |-> Alignment]>>
Allocate(marks, request) ==
  LET at == AlignUp(marks.used, request.to)
  IN IF at > ArenaSize \/ request.size > ArenaSize - at
     THEN [marks EXCEPT !.fits = FALSE]
     ELSE [used |-> at + request.size, fits |-> marks.fits,
           parts |-> Append(marks.parts, <<at, at + request.size>>)]
Allocated(s) ==
  LET script == Allocate([used |-> used, fits |-> TRUE, parts |-> <<>>], Requests(s)[1])
      name == Allocate(script, Requests(s)[2])
      text == Allocate(name, Requests(s)[3])
  IN Allocate(text, Requests(s)[4])

Loaded(s) == {i \in DOMAIN registry : registry[i].script = s}

(* FindLoadedScript *)
FindLoaded(s) ==
  /\ Loaded(s) # {}
  /\ LET first == CHOOSE i \in Loaded(s) : \A j \in Loaded(s) : i <= j
     IN Give(s, registry[first].file)
  /\ UNCHANGED <<registry, arena, used>>

(* LoadGSCBin: a script that is read whole is registered; of one that does *)
(* not fit, or is not read whole, the arena is given back.  The arena is   *)
(* had at the first request, unless the engine has no memory for it.       *)
LoadBin(s) ==
  /\ Loaded(s) = {} /\ HasOverride(s)
  /\ Len(registry) < MaxScripts
  /\ arena' \in {arena} \cup (IF arena = 0 THEN {scriptMemory} ELSE {})
  /\ LET marks == Allocated(s)
     IN \/ /\ marks.fits /\ arena' # 0
           /\ registry' = Append(registry, [script |-> s, file |-> OverrideFile(s), arena |-> arena',
                                            parts |-> marks.parts])
           /\ used' = marks.used
           /\ Give(s, OverrideFile(s))
        \/ Give(s, Stock(s)) /\ UNCHANGED <<registry, used>>

FindStock(s) ==
  /\ Loaded(s) = {} /\ (HasOverride(s) => Len(registry) >= MaxScripts)
  /\ Give(s, Stock(s))
  /\ UNCHANGED <<registry, arena, used>>

FindXAssetHeader(s) ==
  /\ game = "iw5"
  /\ FindLoaded(s) \/ LoadBin(s) \/ FindStock(s)
  /\ UNCHANGED <<game, mounted, config, listed, chosen, scriptMemory, entsVars>>

(* DB_IsXAssetDefault_Hook: the engine would not run a script it takes for *)
(* a default.                                                              *)
NotDefault(s) == Loaded(s) # {}

-----------------------------------------------------------------------------
(* ResetLoadedScripts *)

(* Mutant: the arena is used on after its memory was freed.                *)
ResetLoadedScriptsKeepArena ==
  /\ registry' = <<>>
  /\ used' = 0
  /\ UNCHANGED arena

ResetLoadedScripts ==
  /\ registry' = <<>>
  /\ arena' = 0
  /\ used' = 0

(* G_ShutdownGame_Hook: the engine frees its scripts, or keeps them.       *)
ShutdownGame(freeScripts) ==
  /\ game # "none"
  /\ IF freeScripts
     THEN /\ scriptMemory' = 3 - scriptMemory
          /\ given' = [s \in Scripts |-> Unknown]
          /\ IF game = "iw5" THEN ResetLoadedScripts ELSE UNCHANGED <<registry, arena, used>>
     ELSE UNCHANGED <<scriptMemory, given, registry, arena, used>>
  /\ mapEnts' = Unknown
  /\ UNCHANGED <<game, mounted, config, listed, chosen, dumped>>

(* The plugin goes with its title: ~IW5_MP_Plugin, ~Config.                *)
EndGame ==
  /\ game # "none"
  /\ game' = "none"
  /\ config' = Defaults
  /\ listed' = NoMod
  /\ chosen' = NoMod
  /\ given' = [s \in Scripts |-> Unknown]
  /\ IF game = "iw5" THEN ResetLoadedScripts ELSE UNCHANGED <<registry, arena, used>>
  /\ scriptMemory' = 3 - scriptMemory
  /\ mapEnts' = Unknown
  /\ UNCHANGED <<mounted, dumped>>

-----------------------------------------------------------------------------
SourceInit ==
  /\ game = "none" /\ mounted = "none" /\ config = Defaults /\ listed = NoMod
  /\ given = [s \in Scripts |-> Unknown]
  /\ chosen = NoMod
  /\ registry = <<>> /\ arena = 0 /\ used = 0 /\ scriptMemory = 1
  /\ mapEnts = Unknown /\ dumped = Unknown

SourceNext ==
  \/ \E g \in Games : LaunchGame(g) \/ LaunchUnmounted(g)
  \/ \E m \in ModNames \cup {NoMod} : ListMod(m)
  \/ \E s \in Scripts : AddSourceBuffer(s) \/ FindXAssetHeader(s)
  \/ \E freeScripts \in BOOLEAN : ShutdownGame(freeScripts)
  \/ LoadMapEnts
  \/ EndGame

SourceSpec == SourceInit /\ [][SourceNext]_sourceVars

-----------------------------------------------------------------------------
(* Properties *)

(* A script is the game's own or that of the mod which was chosen for this *)
(* title; no configuration, directory or script of an earlier title is     *)
(* used (config.cpp:145, main.cpp:92).                                     *)
FromActiveMod ==
  \A s \in Scripts :
    given[s] \in {Unknown, Stock(s), [game |-> game, mod |-> chosen, script |-> s]}

(* A compiled script stays whole for as long as the engine has it: it lies *)
(* in the script memory of this session, overlapped by no other.           *)
Parts == (DOMAIN registry) \X (1..4)
Disjoint(a, b) == a[2] <= b[1] \/ b[2] <= a[1]
ScriptsStayWhole ==
  /\ \A i \in DOMAIN registry : registry[i].arena = scriptMemory
  /\ \A a, b \in Parts :
       LET first == registry[a[1]].parts[a[2]]  second == registry[b[1]].parts[b[2]]
       IN /\ 0 <= first[1] /\ first[2] <= ArenaSize
          /\ a # b => Disjoint(first, second)
  /\ game = "iw5" => \A s \in Scripts : given[s] \notin {Unknown, Stock(s)} => NotDefault(s)

(* So are the entities of a map, and what is dumped is the game's own, not *)
(* what has taken its place (map.cpp:68).                                  *)
EntsFromActiveMod ==
  /\ mapEnts \in {Unknown, Stock(Ents)}
                \cup [game : {game}, mod : {IF game = "iw3sp" THEN Raw ELSE chosen}, script : {Ents}]
  /\ dumped # Unknown => dumped.mod = NoMod

(* Whatever ran before, scripts and entities are of their source: the game  *)
(* that runs or the mod that was chosen in it, and compiled ones are whole  *)
(* (gsc_loader.cpp, iw5 main.cpp:155).                                     *)
ScriptsFromTheirSource == FromActiveMod /\ EntsFromActiveMod /\ ScriptsStayWhole
=============================================================================
