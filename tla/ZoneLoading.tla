----------------------------- MODULE ZoneLoading -----------------------------
(***************************************************************************)
(* How fastfiles are found and loaded: the batches of zones that the game   *)
(* asks for, to which the plugin adds its own (DB_LoadXAssets_Hook), the    *)
(* file that is opened for a zone (CreateFileA_Hook, Sys_CreateFile_Hook),  *)
(* the loader rewritten for unsigned files and single player maps (iw3      *)
(* mpsp.cpp) or hooked for unsigned files (t4 fastfiles.cpp), and the       *)
(* handlers of every asset that is linked.  The database thread loads one   *)
(* zone after the other.                                                   *)
(*                                                                         *)
(* A place in the inflated file is counted in assets; its header is the     *)
(* first, the delayed part comes after the last asset.                     *)
(***************************************************************************)
EXTENDS Naturals, Sequences

CONSTANTS
  Titles,     \* of "iw3", "t4", "iw4"
  Batches,    \* per title, the batches of the game: sequences of
              \*   [zone, alloc, free], zone None for one that only frees
  Disk,       \* files: [place, zone, magic, version, assets, inflates, world]
  SpMaps,     \* kSpMaps, the single player maps
  MpNamed,    \* zones whose names begin with mp_
  Internal,   \* [zone, kind] of the entities and raw files under internal\
  Overrides,  \* ZONE_OVERRIDES: for some of them [count, delayStart]
  Mods,       \* fs_game may be one of them, or None
  ModEnts,    \* mods with entities of their own for the maps
  MaxZones,   \* MAX_ZONE_COUNT
  ZoneNames,  \* names of zones
  Flags,      \* what a zone is allocated as
  AssetTypes, \* kinds of assets in files
  None

(* The entries of a batch, a queue or a file. *)
Entries(seq) == {seq[n] : n \in DOMAIN seq}
AskedFor == [zone : ZoneNames \cup {None}, alloc : Flags, free : SUBSET Flags]
Names(batch) == {z.zone : z \in Entries(batch)}
Freed(batch) == UNION {z.free : z \in Entries(batch)}
IsInitialZoneBatch(batch) == {"code_post_gfx_mp", "common_mp"} \subseteq Names(batch)

(* Batches name their zones and kinds, files list their assets.             *)
ASSUME ZonesAssumption ==
  /\ \A t \in Titles : Batches[t] \in Seq(Seq(AskedFor))
  /\ {"mod", "codxe_ui_mp", "codxe_patch_mp"} \subseteq ZoneNames /\ None \notin ZoneNames
  /\ {"none", "mod"} \subseteq Flags
  /\ \A f \in Disk : f.zone \in ZoneNames /\ f.assets \in Seq(AssetTypes)
  /\ \A o \in DOMAIN Overrides : Overrides[o].count \in Nat

(* The batches of iw3: a map comes last in its batch, which frees the map   *)
(* before it; the zones of the start come without a map.                   *)
ASSUME MapsAssumption ==
  "iw3" \in Titles => \A batch \in Entries(Batches["iw3"]) :
    /\ \A n \in DOMAIN batch : batch[n].alloc = "game" => n = Len(batch)
    /\ IF IsInitialZoneBatch(batch) THEN \A z \in Entries(batch) : z.alloc # "game"
       ELSE "game" \in Freed(batch)
    /\ \A z \in Entries(batch) :
         /\ \A i \in Internal : i[1] = z.zone => z.alloc = "game"
         /\ z.alloc = "game" => \A f \in Disk :
              f.zone = z.zone => f.world = IF z.zone \in MpNamed THEN "maps/mp" ELSE "maps"

(* The plugin's tables for single player maps: it has entities and raw      *)
(* files of maps, no mod's zone among them, and numbers that are those of   *)
(* the files.  A mod's name is no mark of this model.                      *)
ASSUME TablesAssumption ==
  /\ \A i \in Internal : i[1] \in ZoneNames \ {"mod"} /\ i[2] \in {"map_ents", "rawfile"}
  /\ "internal" \notin ModEnts
  /\ \A f \in Disk : f.zone \in DOMAIN Overrides =>
       /\ Overrides[f.zone].count <= Len(f.assets)
       /\ Overrides[f.zone].delayStart = Len(f.assets) + 1

(* The batches of iw4: what the plugin amends is named once and is there,   *)
(* no batch names the plugin's zones or is too large for them, and files    *)
(* are of the game's version.                                              *)
Amended == {"ui_mp", "patch_mp"}
PluginZones == {"codxe_ui_mp", "codxe_patch_mp"}
ASSUME AmendedAssumption ==
  "iw4" \in Titles =>
    /\ MaxZones \in Nat
    /\ \A batch \in Entries(Batches["iw4"]) :
         /\ Len(batch) + 2 <= MaxZones
         /\ Names(batch) \cap PluginZones = {}
         /\ \A n, m \in DOMAIN batch : batch[n].zone \in Amended /\ batch[n].zone = batch[m].zone => n = m
         /\ \A f \in Disk : f.zone \in Names(batch) \cup PluginZones => f.version = 1
    /\ \A stock \in Amended : \E f \in Disk : f.zone = stock /\ f.place \in {"codxe", "disc"}

VARIABLES
  title, fsGame,
  queue,      \* zones asked for and not begun
  zones,      \* loaded zones: [zone, alloc, file, linked, delayed]
  load,       \* what is loaded: [zone, alloc, file, linked], or NoLoad
  is_sp_map, g_zoneOverrideIndex, g_isSecure,
  inflater,   \* what the stream was begun with: "auth", "zlib" or None
  position,   \* place in the inflated file
  mapents_buffer, \* the zone whose entities it holds, or None
  rawfile_buffer  \* of a raw file that the single player maps have, likewise

NoLoad == [zone |-> None]
loaderVars == <<is_sp_map, g_zoneOverrideIndex, g_isSecure, inflater, position, mapents_buffer, rawfile_buffer>>
zoneVars == <<title, fsGame, queue, zones, load, loaderVars>>

-----------------------------------------------------------------------------
(* Finding files *)

On(place, zone) == {f \in Disk : f.place = place /\ f.zone = zone}

(* A mod's zone is the active mod's whether it is there or not.  A custom   *)
(* map has its directory.  Then the plugin's own zones, then the game's.    *)
Places ==
  [t \in Titles |->
     IF t = "iw3" THEN <<"usermaps", "codxe", "disc">> ELSE <<"codxe", "disc">>]
Opened(zone) ==
  IF title = "iw3" /\ zone = "mod" /\ fsGame # None THEN On(fsGame, zone)
  ELSE LET there == {n \in DOMAIN Places[title] : On(Places[title][n], zone) # {}}
       IN IF there = {} THEN {} ELSE On(Places[title][CHOOSE n \in there : \A m \in there : n <= m], zone)

(* iw3: the first batch gets the mod's zone.  iw4: the plugin's interface   *)
(* comes before the game's, its patch after everything, each for as long as *)
(* the game's own is loaded.                                               *)
WithMod(batch) ==
  IF /\ fsGame # None /\ On(fsGame, "mod") # {}
     /\ IsInitialZoneBatch(batch) /\ "mod" \notin Names(batch)
  THEN Append(batch, [zone |-> "mod", alloc |-> "mod", free |-> {}]) ELSE batch

(* Mutant: what is added is never freed. *)
AsStockAlways(stock, zone) == [zone |-> zone, alloc |-> "none", free |-> {}]
AsStock(stock, zone) == [stock EXCEPT !.zone = zone]
FindZone(batch, zone) ==
  CHOOSE n \in DOMAIN batch : batch[n].zone = zone /\ \A m \in 1..n - 1 : batch[m].zone # zone
Added(batch, stock, zone) ==
  IF stock \notin Names(batch) \/ On("codxe", zone) = {} THEN <<>>
  ELSE <<AsStock(batch[FindZone(batch, stock)], zone)>>
WithPluginZones(batch) ==
  LET interface == Added(batch, "ui_mp", "codxe_ui_mp")
      patch == Added(batch, "patch_mp", "codxe_patch_mp")
      at == IF interface = <<>> THEN 1 ELSE FindZone(batch, "ui_mp")
  IN IF Len(batch) + Len(interface) + Len(patch) > MaxZones THEN batch
     ELSE SubSeq(batch, 1, at - 1) \o interface \o SubSeq(batch, at, Len(batch)) \o patch

(* DB_LoadXAssets_Hook *)
Batch(batch) ==
  IF title = "iw3" THEN WithMod(batch)
  ELSE IF title = "iw4" THEN WithPluginZones(batch)
  ELSE batch

-----------------------------------------------------------------------------
(* Asking for zones *)

(* DB_LoadXAssets: zones of a kind that the batch frees go, those that it   *)
(* names wait.                                                             *)
LoadXAssets(batch) ==
  /\ zones' = {z \in zones : z.alloc \notin Freed(batch)}
  /\ queue' = batch
  /\ UNCHANGED <<title, load, loaderVars>>

Idle == queue = <<>> /\ load = NoLoad

(* The zones of the start come before any map. *)
Played == {z \in zones : z.alloc = "game"}
AskForBatch ==
  /\ Idle
  /\ \E n \in DOMAIN Batches[title] :
       /\ IsInitialZoneBatch(Batches[title][n]) => Played = {}
       /\ LoadXAssets(Batch(Batches[title][n]))
  /\ UNCHANGED fsGame

(* ModList::RunMod, ClearMods, from the menus: fs_game, then ReloadModZone. *)
RunMod(m) ==
  /\ title = "iw3" /\ Idle /\ Played = {} /\ m # fsGame
  /\ fsGame' = m
  /\ LoadXAssets(<<[zone |-> None, alloc |-> "none", free |-> {"mod"}]>>
                   \o IF m = None \/ On(m, "mod") = {} THEN <<>>
                      ELSE <<[zone |-> "mod", alloc |-> "mod", free |-> {}]>>)

-----------------------------------------------------------------------------
(* Loading a zone *)

(* The game passes over an entry without a name or a zone without a file.   *)
OpenZone ==
  /\ load = NoLoad /\ queue # <<>>
  /\ queue' = Tail(queue)
  /\ load' = IF Opened(Head(queue).zone) = {} THEN NoLoad
             ELSE [zone |-> Head(queue).zone, alloc |-> Head(queue).alloc,
                   file |-> CHOOSE f \in Opened(Head(queue).zone) : TRUE, linked |-> <<>>]
  /\ position' = 0 /\ inflater' = None
  /\ UNCHANGED <<title, fsGame, zones, is_sp_map, g_zoneOverrideIndex, g_isSecure, mapents_buffer, rawfile_buffer>>

(* The zones of the table ZONE_OVERRIDES: each is unpacked to as many assets *)
(* as are there, and its delayed part begins where it says.                *)
Overridden == DOMAIN Overrides
IsSpMap(zone) == title = "iw3" /\ zone \in SpMaps

(* Mutant: a zone without an override keeps that of the zone before.       *)
OverrideOfKeep(zone) == IF zone \in Overridden THEN zone ELSE g_zoneOverrideIndex
OverrideOf(zone) == IF zone \in Overridden THEN zone ELSE None

(* What the title can inflate: of iw4 only the game's own files are read.  *)
Magics == [t \in Titles |-> IF t = "iw4" THEN {"signed"} ELSE {"signed", "unsigned"}]

(* Opened and not begun: a file of another form, or that cannot be inflated, *)
(* shows the dirty disc error, which does not return.                      *)
AtHeader == load # NoLoad /\ inflater = None
Reads == load.file.magic \in Magics[title] /\ load.file.version = 1 /\ load.file.inflates

(* DB_LoadXFileInternal up to the header of the zone; in t4 the game's own  *)
(* and DB_AuthLoad_InflateInit_Hook.                                       *)
BeginZone ==
  /\ AtHeader /\ Reads
  /\ is_sp_map' = IsSpMap(load.zone)
  /\ g_zoneOverrideIndex' = IF title = "iw3" THEN OverrideOf(load.zone) ELSE None
  /\ g_isSecure' = (load.file.magic = "signed")
  /\ inflater' = IF load.file.magic = "signed" THEN "auth" ELSE "zlib"
  /\ position' = 1
  /\ UNCHANGED <<title, fsGame, queue, zones, load, mapents_buffer, rawfile_buffer>>

(* A file of another version is an error that drops to the menu. *)
DropZone ==
  /\ AtHeader /\ load.file.magic \in Magics[title] /\ load.file.version # 1
  /\ is_sp_map' = IsSpMap(load.zone)
  /\ g_zoneOverrideIndex' = IF title = "iw3" THEN OverrideOf(load.zone) ELSE None
  /\ load' = NoLoad /\ queue' = <<>>
  /\ UNCHANGED <<title, fsGame, zones, g_isSecure, inflater, position, mapents_buffer, rawfile_buffer>>

(* DB_AuthLoad_Inflate_Hook, InflateEnd_Hook: by what was begun last; a     *)
(* stream that is read in another way than it was begun yields nothing.    *)
Inflated(kind) == IF (inflater = "auth") <=> g_isSecure THEN kind ELSE "garbage"

(* Load_XAssetArrayCustom_Stub: the count of the override, if any. *)
AssetCount ==
  IF g_zoneOverrideIndex # None THEN Overrides[g_zoneOverrideIndex].count ELSE Len(load.file.assets)
Read == IF position \in DOMAIN load.file.assets THEN Inflated(load.file.assets[position]) ELSE "garbage"

(* The handlers of DB_LinkXAssetEntry_Hook, in their order: entities of the *)
(* active mod (assets.cpp), then what a single player map needs (mpsp.cpp): *)
(* its entities and raw files from the plugin's directory if there are any, *)
(* its world as one of multiplayer, its weapons and effects as references   *)
(* to the default ones.                                                    *)
OverrideMapEnts(kind) == IF kind = "map_ents" /\ fsGame \in ModEnts THEN <<kind, fsGame>> ELSE <<kind, "own">>
MapEntsOverride(asset) == IF <<load.zone, "map_ents">> \in Internal THEN <<"map_ents", "internal">> ELSE asset
RawFileOverride(asset) == IF <<load.zone, "rawfile">> \in Internal THEN <<"rawfile", "internal">> ELSE asset
OnAssetLink(asset) ==
  IF title # "iw3" \/ ~is_sp_map THEN asset
  ELSE IF asset[1] = "map_ents" THEN MapEntsOverride(asset)
  ELSE IF asset[1] = "rawfile" THEN RawFileOverride(asset)
  ELSE IF asset[1] = "gameworld_sp" THEN <<"gameworld_mp", "own">>
  ELSE IF asset[1] \in {"weapon", "fx"} THEN <<asset[1], "default">>
  ELSE asset
Linked(kind) == OnAssetLink(IF title = "iw3" THEN OverrideMapEnts(kind) ELSE <<kind, "own">>)

LoadAsset ==
  /\ load # NoLoad /\ inflater # None /\ Len(load.linked) < AssetCount
  /\ load' = [load EXCEPT !.linked = Append(@, Linked(Read))]
  /\ position' = position + 1
  /\ mapents_buffer' = IF Linked(Read) = <<"map_ents", "internal">> THEN load.zone ELSE mapents_buffer
  /\ rawfile_buffer' = IF Linked(Read) = <<"rawfile", "internal">> THEN load.zone ELSE rawfile_buffer
  /\ UNCHANGED <<title, fsGame, queue, zones, is_sp_map, g_zoneOverrideIndex, g_isSecure, inflater>>

(* DB_SkipXFileData, then Load_DelayStream from there, and the end of the   *)
(* stream in DB_CancelLoadXFile.                                           *)
DelayStart == IF g_zoneOverrideIndex # None THEN Overrides[g_zoneOverrideIndex].delayStart ELSE position
FinishZone ==
  /\ load # NoLoad /\ inflater # None /\ Len(load.linked) = AssetCount
  /\ zones' = zones \cup {[zone |-> load.zone, alloc |-> load.alloc, file |-> load.file, linked |-> load.linked,
                            delayed |-> IF DelayStart = Len(load.file.assets) + 1 THEN Inflated("delayed") ELSE "garbage"]}
  /\ load' = NoLoad /\ inflater' = None
  /\ UNCHANGED <<title, fsGame, queue, is_sp_map, g_zoneOverrideIndex, g_isSecure, position, mapents_buffer, rawfile_buffer>>

(* While a map is played, is_sp_map stands for the last zone that was read: *)
(* other players are not looked for in a single player map, whose world and *)
(* script are under maps\, not maps\mp\.                                   *)
AddsEntitiesVisible == ~is_sp_map
BspFilename(zone) == IF zone \in MpNamed THEN "maps/mp" ELSE "maps"
LevelScript(zone) == IF zone \in MpNamed THEN "maps/mp" ELSE "maps"

ZoneInit ==
  /\ title \in Titles
  /\ fsGame = None /\ queue = <<>> /\ zones = {} /\ load = NoLoad
  /\ is_sp_map = FALSE /\ g_zoneOverrideIndex = None /\ g_isSecure = TRUE
  /\ inflater = None /\ position = 0
  /\ mapents_buffer = None /\ rawfile_buffer = None

ZoneNext ==
  \/ AskForBatch \/ OpenZone \/ BeginZone \/ DropZone \/ LoadAsset \/ FinishZone
  \/ \E m \in Mods \cup {None} : RunMod(m)

ZoneSpec == ZoneInit /\ [][ZoneNext]_zoneVars

-----------------------------------------------------------------------------
(* What a zone should have of its file, for itself: a single player map's   *)
(* assets as multiplayer takes them, as many as it has room for.           *)
InMultiplayer(zone, kind) ==
  CASE <<zone, kind>> \in Internal -> {<<kind, "internal">>}
    [] kind = "gameworld_sp" -> {<<"gameworld_mp", "own">>}
    [] kind \in {"weapon", "fx"} -> {<<kind, "default">>}
    [] OTHER -> {<<kind, "own">>}
OfMods(kind) == IF title = "iw3" /\ kind = "map_ents" THEN {<<kind, m>> : m \in ModEnts} ELSE {}
Expected(zone, kind) ==
  IF title = "iw3" /\ zone \in SpMaps THEN InMultiplayer(zone, kind) \cup (IF <<zone, kind>> \in Internal THEN {} ELSE OfMods(kind))
  ELSE {<<kind, "own">>} \cup OfMods(kind)

TreatedAsItself(map) ==
  /\ AddsEntitiesVisible <=> ~IsSpMap(map.zone)
  /\ title = "iw3" => {BspFilename(map.zone), LevelScript(map.zone)} = {map.file.world}

(* Every zone is loaded from its own file as that file was made, whatever    *)
(* was loaded, failed or was freed before it: no single player treatment,   *)
(* override or inflater of another zone, the delayed part from its place,   *)
(* and entities that are the map's own (mpsp.cpp:598, 601, 658, 721); and   *)
(* the map that is played is the one it is treated as (mpsp.cpp:475, 574).  *)
LoadedAsMade ==
  \A z \in zones :
    /\ z.delayed = "delayed"
    /\ Len(z.linked) = IF title = "iw3" /\ z.zone \in Overridden THEN Overrides[z.zone].count
                       ELSE Len(z.file.assets)
    /\ \A n \in DOMAIN z.linked : z.linked[n] \in Expected(z.zone, z.file.assets[n])
    /\ (\E n \in DOMAIN z.linked : z.linked[n] = <<"map_ents", "internal">>) => mapents_buffer = z.zone
    /\ (\E n \in DOMAIN z.linked : z.linked[n] = <<"rawfile", "internal">>) => rawfile_buffer = z.zone
    /\ Idle /\ z \in Played => TreatedAsItself(z)

(* The plugin's zones of iw4 come and go with the game's that they amend    *)
(* (fastfiles.cpp:106, 118).                                               *)
With(zone) == \E z \in zones : z.zone = zone
PluginZonesFollowStock ==
  title = "iw4" /\ Idle =>
    /\ With("codxe_ui_mp") <=> (With("ui_mp") /\ On("codxe", "codxe_ui_mp") # {})
    /\ With("codxe_patch_mp") <=> (With("patch_mp") /\ On("codxe", "codxe_patch_mp") # {})
=============================================================================
