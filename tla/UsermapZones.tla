---------------------------- MODULE UsermapZones ----------------------------
(***************************************************************************)
(* The files of a custom map of T4 SP: t4/sp/components/fastfiles.cpp.     *)
(* The zones that the game asks for say which custom map is active; sounds *)
(* and other files are then taken from its directory if they are there,    *)
(* and the handle of its sound pack is remembered, because the header of   *)
(* that pack must be read in another way.  Room for what custom maps bring *)
(* is made in the asset pools, before the game sets these up.              *)
(***************************************************************************)
EXTENDS Naturals, Sequences

CONSTANTS
  Customs, Stocks,  \* maps: custom ones, and those of the game
  NoMap,
  Handles           \* file handles of the game

AnyMap == Customs \union Stocks

ASSUME UsermapZonesAssumption ==
  /\ NoMap \notin AnyMap \union Handles
  /\ Customs \intersect Stocks = {}

VARIABLES
  installed,          \* custom maps whose zone is on the disk
  files,              \* <<m, kind>>: what else their directories hold, zones
                      \* for the load screen and patch among it
  activeUsermap,      \* or NoMap
  usermapPackHandle,  \* or NoMap for 0
  map,                \* the map that is loaded or played, or NoMap
  stage,              \* "menu", "loadscreen" or "playing"
  waits,              \* sync: the game waits for the zones it asked for last
  opened              \* what was opened under each handle, or NoMap

activeVars == <<activeUsermap, usermapPackHandle>>
zoneVars == <<installed, files, activeVars, map, stage, waits, opened>>

VARIABLES
  loaded,       \* the plugin is
  initialized,  \* g_assetPoolsInitialized
  pools,        \* DB_XAssetPool, g_poolSize: [memory, size] of each kind
  expandedXAssetPools, \* the expanded ones: [type, original]
  built         \* the pools as the game set them up
poolVars == <<loaded, initialized, pools, expandedXAssetPools, built>>

-----------------------------------------------------------------------------
(* Zones *)

(* The name of a zone is that of a map, or NoMap, with a suffix or without. *)
Zone(of, suffix) == [of |-> of, suffix |-> suffix]
Common == Zone(NoMap, "")

UsermapExists(m) == m \in installed

SetActiveUsermap(m) ==
  /\ activeUsermap' = m
  /\ usermapPackHandle' = IF m = activeUsermap THEN usermapPackHandle ELSE NoMap

ClearActiveUsermap == activeUsermap' = NoMap /\ usermapPackHandle' = NoMap

(* A map in one piece, without a zone for its load screen.                 *)
RequiresLegacyUsermapSync(z) ==
  z.suffix = "" /\ UsermapExists(z.of) /\ <<z.of, "_load">> \notin files

FirstOf(S) == CHOOSE n \in S : \A m \in S : n <= m

(* Mutant: every batch without a custom map ends the last one.             *)
UpdateActiveUsermapAlways(zones) ==
  LET ours == {n \in DOMAIN zones : UsermapExists(zones[n].of)} IN
  IF ours # {} THEN SetActiveUsermap(zones[FirstOf(ours)].of) ELSE ClearActiveUsermap

(* The first zone of a custom map makes it active; only the load screen of *)
(* another map ends it.                                                    *)
UpdateActiveUsermap(zones) ==
  LET ours == {n \in DOMAIN zones : UsermapExists(zones[n].of)}
      loadscreens == {n \in DOMAIN zones : zones[n].of # NoMap /\ zones[n].suffix = "_load"}
  IN IF ours # {} THEN SetActiveUsermap(zones[FirstOf(ours)].of)
     ELSE IF loadscreens # {} /\ activeUsermap # NoMap THEN ClearActiveUsermap
     ELSE UNCHANGED activeVars

DB_LoadXAssets(zones) ==
  /\ UpdateActiveUsermap(zones)
  /\ waits' = \E n \in DOMAIN zones : RequiresLegacyUsermapSync(zones[n])

(* The batches of the game, each through DB_LoadXAssets_Hook: a load       *)
(* screen, the map, or what all maps share.                                *)
LoadScreen(m) ==
  /\ m \in Stocks \union installed
  /\ map' = m /\ stage' = "loadscreen"
  /\ DB_LoadXAssets(<<Zone(m, "_load")>>)
  /\ UNCHANGED <<installed, files, opened>>

LoadMap ==
  /\ stage = "loadscreen" /\ map \in Stocks \union installed
  /\ stage' = "playing"
  /\ \/ DB_LoadXAssets(<<Common, Zone(map, "")>>)
     \/ DB_LoadXAssets(<<Zone(map, "_patch"), Zone(map, "")>>)
  /\ UNCHANGED <<installed, files, map, opened>>

LoadCommon ==
  /\ DB_LoadXAssets(<<Common>>)
  /\ \/ UNCHANGED <<map, stage>>
     \/ map' = NoMap /\ stage' = "menu"
  /\ UNCHANGED <<installed, files, opened>>

-----------------------------------------------------------------------------
(* Files *)

Resolves(kind) == activeUsermap # NoMap /\ <<activeUsermap, kind>> \in files

Open(h, name, kind, redirected) ==
  opened' = [opened EXCEPT ![h] = [name |-> name, kind |-> kind,
                                   from |-> IF redirected THEN activeUsermap ELSE NoMap]]

(* Sys_CreateFile_Hook for a sound, a high mip, or (BinkOpen_Hook) the     *)
(* movie.                                                                  *)
OpenLoose(h) ==
  /\ Open(h, NoMap, "loose", Resolves("loose"))
  /\ UNCHANGED usermapPackHandle

(* Sys_CreateFile_Hook for the sound pack of a map, whose handle is kept.  *)
OpenPack(h, m) ==
  LET redirected == m = activeUsermap /\ Resolves("pak") IN
  /\ Open(h, m, "pak", redirected)
  /\ usermapPackHandle' = IF redirected THEN h ELSE usermapPackHandle

(* ResolveFastfilePath: a zone is looked for in the directory of the map   *)
(* it is named for, whichever map is active, then with the plugin's.       *)
There(m, kind) == IF kind = "" THEN UsermapExists(m) ELSE <<m, kind>> \in files
ResolveFastfilePath(z) == IF There(z.of, z.suffix) THEN z.of ELSE NoMap

OpenZone(h) ==
  /\ map # NoMap /\ \A k \in Handles : opened[k] = NoMap
  /\ \E suffix \in IF stage = "loadscreen" THEN {"_load"} ELSE {"", "_patch"} :
       opened' = [opened EXCEPT ![h] = [name |-> map, kind |-> suffix,
                                        from |-> ResolveFastfilePath(Zone(map, suffix))]]
  /\ UNCHANGED <<installed, files, activeVars, map, stage, waits>>

Sys_CreateFile ==
  /\ \E h \in {k \in Handles : opened[k] = NoMap} : OpenLoose(h) \/ \E m \in AnyMap : OpenPack(h, m)
  /\ UNCHANGED <<installed, files, activeUsermap, map, stage, waits>>

CloseFile ==
  /\ \E h \in {k \in Handles : opened[k] # NoMap} : opened' = [opened EXCEPT ![h] = NoMap]
  /\ UNCHANGED <<installed, files, activeVars, map, stage, waits>>

(* SoundReadBlocking_Hook reads the header of this slot itself.            *)
ReadsItself(h) == usermapPackHandle # NoMap /\ h = usermapPackHandle

-----------------------------------------------------------------------------
Flip(S, x) == (S \ {x}) \union ({x} \ S)

Install(m) == installed' = Flip(installed, m) /\ UNCHANGED files
Place(m, kind) == files' = Flip(files, <<m, kind>>) /\ UNCHANGED installed

ChangeUsermaps(kinds) ==
  /\ \E m \in Customs : Install(m) \/ \E kind \in kinds : Place(m, kind)
  /\ UNCHANGED <<activeVars, map, stage, waits, opened>>

(* FastFiles and ~FastFiles reset their statics.                           *)
Relaunch ==
  /\ activeUsermap' = NoMap /\ usermapPackHandle' = NoMap
  /\ map' = NoMap /\ stage' = "menu" /\ waits' = FALSE
  /\ opened' = [h \in Handles |-> NoMap]
  /\ UNCHANGED <<installed, files>>

ZonesInit ==
  /\ installed = {} /\ files = {}
  /\ activeUsermap = NoMap /\ usermapPackHandle = NoMap
  /\ map = NoMap /\ stage = "menu" /\ waits = FALSE
  /\ opened = [h \in Handles |-> NoMap]

Load == (\E m \in AnyMap : LoadScreen(m)) \/ LoadMap \/ LoadCommon

FilesNext == Load \/ Sys_CreateFile \/ CloseFile \/ ChangeUsermaps({"loose", "pak"}) \/ Relaunch

(* The database opens one zone at a time.                                  *)
ZonesNext ==
  Load \/ (\E h \in Handles : OpenZone(h)) \/ CloseFile \/ ChangeUsermaps({"_load", "_patch"}) \/ Relaunch

ZonesSpec == ZonesInit /\ [][FilesNext \/ ZonesNext]_zoneVars

-----------------------------------------------------------------------------
(* Asset pools *)

Kinds == {"menulist", "fx", "loaded_sound"}
StockPools == [k \in Kinds |-> [memory |-> "game", size |-> "stock"]]

(* DB_ReallocXAssetPool for each kind: nothing once the game has set the    *)
(* pools up, nor without memory.                                           *)
Expanded == [memory |-> "plugin", size |-> "expanded"]
Expand(kinds) ==
  /\ ~loaded
  /\ loaded' = TRUE
  /\ expandedXAssetPools' = {[type |-> k, original |-> pools[k]] : k \in kinds}
  /\ pools' = [k \in Kinds |-> IF k \in kinds THEN Expanded ELSE pools[k]]
  /\ UNCHANGED <<initialized, built>>

ExpandPools == \E got \in SUBSET Kinds : Expand(IF initialized THEN {} ELSE got)

SetUpPools ==
  /\ ~initialized
  /\ initialized' = TRUE
  /\ built' = pools
  /\ UNCHANGED <<loaded, pools, expandedXAssetPools>>

(* RestoreExpandedXAssetPools, as the title ends.                          *)
RestorePools ==
  /\ loaded
  /\ loaded' = FALSE
  /\ pools' = [k \in Kinds |-> LET of == {e \in expandedXAssetPools : e.type = k}
                              IN IF of # {} THEN (CHOOSE e \in of : TRUE).original ELSE pools[k]]
  /\ expandedXAssetPools' = {}
  /\ initialized' = FALSE /\ built' = StockPools

PoolsInit ==
  /\ loaded = FALSE /\ initialized = FALSE
  /\ pools = StockPools /\ built = StockPools
  /\ expandedXAssetPools = {}

PoolsNext == ExpandPools \/ SetUpPools \/ RestorePools

PoolsSpec == PoolsInit /\ [][PoolsNext]_poolVars

-----------------------------------------------------------------------------
(* Properties *)

(* The game keeps its assets where it set the pools up, in memory as large  *)
(* as it takes it to be, and without the plugin in its own                 *)
(* (fastfiles.cpp:423, :458).                                              *)
PoolsFit ==
  /\ \A k \in Kinds : pools[k].size = "expanded" <=> pools[k].memory = "plugin"
  /\ initialized => built = pools
  /\ ~loaded => pools = StockPools

(* The game waits for a custom map in one piece, and for no other.         *)
MapWaitsForItself ==
  stage = "loadscreen" /\ stage' = "playing" /\ map \in Customs => waits' = ~There(map, "_load")

(* What a map opens comes from its own directory if it is custom and the   *)
(* file is there, and else from the game; a pack's handle is known.        *)
OpensItsOwn ==
  \A h \in Handles : opened'[h] \notin {opened[h], NoMap} /\ map # NoMap =>
    LET f == opened'[h] IN
    /\ f.from = IF There(map, f.kind) /\ f.name \in {NoMap, map} THEN map ELSE NoMap
    /\ f.kind = "pak" /\ f.from # NoMap => ReadsItself(h)'

(* What is open under the handle that is known is the active map's.        *)
PackOfActive ==
  \A h \in Handles : ReadsItself(h) /\ opened[h] # NoMap => opened[h].from \in {NoMap, activeUsermap}

(* From its load screen to the next one a map opens its own files or the   *)
(* game's, whatever was played before and is installed or removed          *)
(* meanwhile (fastfiles.cpp:285, :293, :318), a pack from a directory is   *)
(* open under the handle that is known only while its map is the active    *)
(* one (:252, :262), and a map in one piece is waited for (:408).          *)
OpensOwnFiles == [][OpensItsOwn /\ MapWaitsForItself /\ PackOfActive']_zoneVars

(* What a custom map is played with is its own, or the game's, and there   *)
(* is room for it.                                                         *)
FilesOfTheMap == OpensOwnFiles /\ []PoolsFit
=============================================================================
