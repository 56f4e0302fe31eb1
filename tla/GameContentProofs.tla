--------------------------- MODULE GameContentProofs ---------------------------
(***************************************************************************)
(* Proofs about what the game loads.  ZoneLoading: a zone is read as its    *)
(* file was made, whatever was read before it, and the plugin's zones of    *)
(* iw4 follow the game's.  ScriptSources: scripts and entities are of their *)
(* source, and compiled scripts stay whole in their arena.                  *)
(***************************************************************************)
EXTENDS ZoneLoading, ScriptSources, WellFoundedInduction, TLAPS

-----------------------------------------------------------------------------
(* For any titles, batches, files and tables that fit each other            *)
(* (ZonesAssumption, MapsAssumption, TablesAssumption, AmendedAssumption). *)

Asset == (AssetTypes \cup {"gameworld_mp"}) \X ({"own", "internal", "default"} \cup ModEnts)
Reading == load # NoLoad /\ inflater # None

ZoneRecords ==
  /\ title \in Titles
  /\ queue \in Seq(AskedFor)
  /\ position \in Nat /\ g_isSecure \in BOOLEAN /\ is_sp_map \in BOOLEAN
  /\ load # NoLoad =>
       /\ load \in [zone : ZoneNames, alloc : Flags, file : Disk, linked : Seq(Asset)]
       /\ load.zone = load.file.zone
  /\ \A z \in zones :
       /\ z \in [zone : ZoneNames, alloc : Flags, file : Disk, linked : Seq(Asset),
             delayed : {"delayed", "garbage"}]
       /\ z.zone = z.file.zone

(* The statics are those of the zone that is read, and the place in its     *)
(* file is after what was linked of it.                                    *)
StaticsOfLoad ==
  Reading =>
    /\ is_sp_map <=> IsSpMap(load.zone)
    /\ g_zoneOverrideIndex = IF title = "iw3" THEN OverrideOf(load.zone) ELSE None
    /\ inflater = "auth" <=> g_isSecure
    /\ position = Len(load.linked) + 1
    /\ Len(load.linked) <= AssetCount

(* What is linked is what the zone should have.                            *)
AsExpected(z) == \A n \in DOMAIN z.linked : z.linked[n] \in Expected(z.zone, z.file.assets[n])
LinkedSoFar ==
  load # NoLoad =>
    /\ AsExpected(load)
    /\ inflater = None => load.linked = <<>>
LinkedWhole ==
  \A z \in zones :
    /\ z.delayed = "delayed"
    /\ Len(z.linked) = IF title = "iw3" /\ z.zone \in Overridden THEN Overrides[z.zone].count
                       ELSE Len(z.file.assets)
    /\ AsExpected(z)

(* Entities and raw files from the plugin's directory are a map's, of which *)
(* there is one, and their buffer is that map's.                           *)
HasInternal(z, kind) == \E n \in DOMAIN z.linked : z.linked[n] = <<kind, "internal">>
BufferIsOf(z) ==
  /\ HasInternal(z, "map_ents") => z.alloc = "game" /\ mapents_buffer = z.zone
  /\ HasInternal(z, "rawfile") => z.alloc = "game" /\ rawfile_buffer = z.zone
BuffersOfMap ==
  /\ \A z \in zones : BufferIsOf(z)
  /\ load # NoLoad => BufferIsOf(load)

(* What a batch of iw3 asks for: single player maps only as maps.          *)
AskedAsMap(z) ==
  /\ \A i \in Internal : i[1] = z.zone => z.alloc = "game"
  /\ z.alloc = "game" => \A f \in Disk :
       f.zone = z.zone => f.world = IF z.zone \in MpNamed THEN "maps/mp" ELSE "maps"

(* A map of iw3 is the last of what was asked for, so the statics are still *)
(* those of the map while it is played.                                    *)
MapComesLast ==
  IF title = "iw3"
  THEN /\ \A n \in DOMAIN queue : queue[n].alloc = "game" => n = Len(queue)
       /\ \A z \in Entries(queue) : AskedAsMap(z)
       /\ load # NoLoad => AskedAsMap(load) /\ (load.alloc = "game" => queue = <<>>)
       /\ Played # {} => Idle
       /\ \A z \in Played : AskedAsMap(z) /\ (is_sp_map <=> IsSpMap(z.zone))
  ELSE ~is_sp_map

ZonesInv ==
  /\ ZoneRecords /\ StaticsOfLoad /\ LinkedSoFar /\ LinkedWhole /\ BuffersOfMap /\ MapComesLast

(* In iw4 each zone of the plugin is asked for, loaded and freed with the   *)
(* one of the game, under the same kind.                                   *)
IsPresent(zone, a) ==
  \/ \E z \in zones \cup Entries(queue) : z.zone = zone /\ z.alloc = a
  \/ load # NoLoad /\ load.zone = zone /\ load.alloc = a
Follows(zone, stock) ==
  \A a \in Flags : IsPresent(zone, a) <=> IsPresent(stock, a) /\ On("codxe", zone) # {}
ZonesFollow ==
  title = "iw4" =>
    /\ Follows("codxe_ui_mp", "ui_mp") /\ Follows("codxe_patch_mp", "patch_mp")
    /\ \A f \in Disk, a \in Flags : IsPresent(f.zone, a) => f.version = 1

(* What the handlers link is what the zone should have.                    *)
LEMMA LinkedFacts ==
  ASSUME load # NoLoad, is_sp_map <=> IsSpMap(load.zone), NEW kind \in AssetTypes
  PROVE  /\ Linked(kind) \in Expected(load.zone, kind)
         /\ Linked(kind) \in Asset
         /\ \A k : Linked(kind) = <<k, "internal">> => title = "iw3" /\ <<load.zone, k>> \in Internal
<1>1. \A k : <<load.zone, k>> \in Internal => k \in {"map_ents", "rawfile"}
  BY TablesAssumption
<1>0. \A k \in AssetTypes \cup {"gameworld_mp"} :
        \A v \in {"own", "internal", "default"} \cup ModEnts : <<k, v>> \in Asset
  BY DEF Asset
<1>2. CASE title # "iw3"
  <2>1. Linked(kind) = <<kind, "own">> /\ Expected(load.zone, kind) = {<<kind, "own">>}
    BY <1>2 DEF Linked, OnAssetLink, Expected, OfMods
  <2> QED
    BY <1>0, <2>1
<1> DEFINE own == OverrideMapEnts(kind)
<1>3. /\ own \in {<<kind, "own">>} \cup (IF kind = "map_ents" THEN {<<kind, m>> : m \in ModEnts} ELSE {})
      /\ own \in Asset /\ own[1] = kind /\ own[2] # "internal"
  <2>1. CASE kind = "map_ents" /\ fsGame \in ModEnts
    BY <1>0, <2>1, TablesAssumption DEF OverrideMapEnts
  <2>2. CASE ~(kind = "map_ents" /\ fsGame \in ModEnts)
    BY <1>0, <2>2 DEF OverrideMapEnts
  <2> QED
    BY <2>1, <2>2
<1>4. CASE title = "iw3" /\ ~is_sp_map
  <2>1. Linked(kind) = own
    BY <1>4 DEF Linked, OnAssetLink
  <2>2. Expected(load.zone, kind) = {<<kind, "own">>} \cup OfMods(kind)
    BY <1>4 DEF Expected, IsSpMap
  <2> QED
    BY <1>3, <1>4, <2>1, <2>2 DEF OfMods
<1>5. CASE title = "iw3" /\ is_sp_map
  <2> DEFINE within == <<load.zone, kind>> \in Internal
  <2>1. Expected(load.zone, kind) = InMultiplayer(load.zone, kind) \cup (IF within THEN {} ELSE OfMods(kind))
    BY <1>5 DEF Expected, IsSpMap
  <2>2. Linked(kind) = OnAssetLink(own)
    BY <1>5 DEF Linked
  <2>3. CASE within
    <3>1. kind \in {"map_ents", "rawfile"}
      BY <1>1, <2>3
    <3>2. Linked(kind) = <<kind, "internal">>
      BY <1>3, <1>5, <2>2, <2>3, <3>1 DEF OnAssetLink, MapEntsOverride, RawFileOverride
    <3>3. InMultiplayer(load.zone, kind) = {<<kind, "internal">>}
      BY <2>3, <3>1 DEF InMultiplayer
    <3> QED
      BY <1>0, <1>5, <2>1, <2>3, <3>2, <3>3
  <2>4. CASE ~within /\ kind \notin {"gameworld_sp", "weapon", "fx"}
    <3>1. Linked(kind) = own
      BY <1>3, <1>5, <2>2, <2>4 DEF OnAssetLink, MapEntsOverride, RawFileOverride
    <3>2. InMultiplayer(load.zone, kind) = {<<kind, "own">>}
      BY <2>4 DEF InMultiplayer
    <3> QED
      BY <1>3, <1>5, <2>1, <2>4, <3>1, <3>2 DEF OfMods
  <2>5. CASE ~within /\ kind = "gameworld_sp"
    <3>1. Linked(kind) = <<"gameworld_mp", "own">>
      BY <1>3, <1>5, <2>2, <2>5 DEF OnAssetLink
    <3>2. InMultiplayer(load.zone, kind) = {<<"gameworld_mp", "own">>}
      BY <2>5 DEF InMultiplayer
    <3> QED
      BY <1>0, <2>1, <3>1, <3>2
  <2>6. CASE ~within /\ kind \in {"weapon", "fx"}
    <3>1. Linked(kind) = <<kind, "default">>
      BY <1>3, <1>5, <2>2, <2>6 DEF OnAssetLink
    <3>2. InMultiplayer(load.zone, kind) = {<<kind, "default">>}
      BY <2>6 DEF InMultiplayer
    <3> QED
      BY <1>0, <2>1, <3>1, <3>2
  <2> QED
    BY <2>3, <2>4, <2>5, <2>6
<1> QED
  BY <1>2, <1>4, <1>5, Zenon

(* The asset that is read next is one of the file, in its own form.         *)
LEMMA ReadFacts ==
  ASSUME ZonesInv, Reading
  PROVE  /\ AssetCount \in Nat /\ AssetCount <= Len(load.file.assets)
         /\ load.file.assets \in Seq(AssetTypes)
         /\ AssetCount = IF title = "iw3" /\ load.zone \in Overridden THEN Overrides[load.zone].count
                          ELSE Len(load.file.assets)
         /\ Len(load.linked) < AssetCount =>
              /\ position \in DOMAIN load.file.assets
              /\ Read = load.file.assets[position] /\ Read \in AssetTypes
<1>1. load.file \in Disk /\ load.zone = load.file.zone /\ load.linked \in Seq(Asset)
  BY DEF ZonesInv, ZoneRecords, Reading
<1>2. load.file.assets \in Seq(AssetTypes) /\ load.zone # None
  BY <1>1, ZonesAssumption
<1>3. /\ g_zoneOverrideIndex = IF title = "iw3" THEN OverrideOf(load.zone) ELSE None
      /\ inflater = "auth" <=> g_isSecure
      /\ position = Len(load.linked) + 1
  BY DEF ZonesInv, StaticsOfLoad
<1>4. AssetCount = IF title = "iw3" /\ load.zone \in Overridden THEN Overrides[load.zone].count
                   ELSE Len(load.file.assets)
  BY <1>2, <1>3 DEF AssetCount, OverrideOf
<1>5. load.zone \in Overridden => /\ Overrides[load.zone].count \in Nat
                                  /\ Overrides[load.zone].count <= Len(load.file.assets)
  BY <1>1, ZonesAssumption, TablesAssumption DEF Overridden
<1>6. AssetCount \in Nat /\ AssetCount <= Len(load.file.assets)
  BY <1>2, <1>4, <1>5
<1>7. ASSUME Len(load.linked) < AssetCount
      PROVE  position \in DOMAIN load.file.assets
  BY <1>1, <1>2, <1>3, <1>6, <1>7
<1>8. ASSUME position \in DOMAIN load.file.assets
      PROVE  Read = load.file.assets[position] /\ Read \in AssetTypes
  <2>1. Read = Inflated(load.file.assets[position])
    BY <1>8 DEF Read
  <2>2. \A kind : Inflated(kind) = kind
    BY <1>3 DEF Inflated
  <2> QED
    BY <1>2, <1>8, <2>1, <2>2
<1> QED
  BY <1>2, <1>4, <1>6, <1>7, <1>8

LEMMA OpenedFacts ==
  ASSUME NEW zone, NEW f \in Opened(zone)
  PROVE  f \in Disk /\ f.zone = zone
BY DEF Opened, On

(* Zones that are loaded stay what they are.                               *)
LEMMA StillWhole ==
  ASSUME LinkedWhole, title' = title, zones' \subseteq zones
  PROVE  LinkedWhole'
<1>1. \A z, k : Expected(z, k)' = Expected(z, k)
  BY DEF Expected, OfMods
<1>2. \A z \in zones' : AsExpected(z)'
  BY <1>1 DEF LinkedWhole, AsExpected
<1>3. ASSUME NEW z \in zones'
      PROVE  /\ z.delayed = "delayed"
             /\ Len(z.linked) = IF title = "iw3" /\ z.zone \in Overridden THEN Overrides[z.zone].count
                                ELSE Len(z.file.assets)
  BY DEF LinkedWhole
<1> QED
  BY <1>2, <1>3 DEF LinkedWhole, Overridden

-----------------------------------------------------------------------------
(* Every step keeps the invariant. *)

LEMMA ZonesInitInv ==
  ASSUME ZoneInit
  PROVE  ZonesInv
<1>1. /\ title \in Titles /\ queue = <<>> /\ zones = {} /\ load = NoLoad
      /\ is_sp_map = FALSE /\ g_isSecure = TRUE /\ position = 0
  BY DEF ZoneInit
<1>2. queue \in Seq(AskedFor) /\ Entries(queue) = {} /\ Played = {}
  BY <1>1 DEF Entries, Played
<1>3. ZoneRecords
  BY <1>1, <1>2 DEF ZoneRecords
<1>4. StaticsOfLoad /\ LinkedSoFar /\ LinkedWhole /\ BuffersOfMap
  BY <1>1 DEF StaticsOfLoad, LinkedSoFar, LinkedWhole, BuffersOfMap, Reading
<1>5. MapComesLast
  BY <1>1, <1>2 DEF MapComesLast
<1> QED
  BY <1>3, <1>4, <1>5 DEF ZonesInv

LEMMA QueueFacts ==
  ASSUME ZoneRecords, queue # <<>>
  PROVE  /\ Head(queue) \in Entries(queue) /\ Head(queue) = queue[1] /\ 1 \in DOMAIN queue
         /\ Tail(queue) \in Seq(AskedFor) /\ Len(Tail(queue)) = Len(queue) - 1
         /\ \A n \in DOMAIN Tail(queue) : n + 1 \in DOMAIN queue /\ Tail(queue)[n] = queue[n + 1]
         /\ Entries(Tail(queue)) \subseteq Entries(queue)
<1>1. queue \in Seq(AskedFor) /\ Len(queue) > 0
  BY DEF ZoneRecords
<1>2. /\ Head(queue) = queue[1] /\ 1 \in DOMAIN queue
      /\ Tail(queue) \in Seq(AskedFor) /\ Len(Tail(queue)) = Len(queue) - 1
      /\ \A n \in DOMAIN Tail(queue) : n + 1 \in DOMAIN queue /\ Tail(queue)[n] = queue[n + 1]
  BY <1>1
<1> QED
  BY <1>2 DEF Entries

LEMMA OpenZoneKeeps ==
  ASSUME ZonesInv, OpenZone
  PROVE  ZonesInv'
<1>1. /\ load = NoLoad /\ queue # <<>> /\ queue' = Tail(queue) /\ position' = 0 /\ inflater' = None
      /\ UNCHANGED <<title, fsGame, zones, is_sp_map, g_zoneOverrideIndex, g_isSecure, mapents_buffer,
                     rawfile_buffer>>
  BY DEF OpenZone
<1> DEFINE asked == Head(queue)
           opened == Opened(asked.zone)
<1>2. /\ asked \in AskedFor /\ asked \in Entries(queue) /\ 1 \in DOMAIN queue /\ asked = queue[1]
      /\ queue' \in Seq(AskedFor) /\ Len(queue') = Len(queue) - 1 /\ Len(queue) \in Nat
      /\ \A n \in DOMAIN queue' : n + 1 \in DOMAIN queue /\ queue'[n] = queue[n + 1]
      /\ Entries(queue') \subseteq Entries(queue)
  BY <1>1, QueueFacts DEF ZonesInv, ZoneRecords
<1>3. \/ opened = {} /\ load' = NoLoad
      \/ \E f \in opened :
           load' = [zone |-> asked.zone, alloc |-> asked.alloc, file |-> f, linked |-> <<>>]
  BY DEF OpenZone
<1>4. load' # NoLoad =>
        /\ load' \in [zone : ZoneNames, alloc : Flags, file : Disk, linked : Seq(Asset)]
        /\ load'.zone = load'.file.zone
        /\ load'.zone = asked.zone /\ load'.alloc = asked.alloc /\ load'.linked = <<>>
  <2>1. CASE load' # NoLoad
    <3>1. PICK f \in opened :
            load' = [zone |-> asked.zone, alloc |-> asked.alloc, file |-> f, linked |-> <<>>]
      BY <1>3, <2>1
    <3>2. f \in Disk /\ f.zone = asked.zone /\ f.zone \in ZoneNames
      BY OpenedFacts, ZonesAssumption
    <3>3. <<>> \in Seq(Asset)
      OBVIOUS
    <3> QED
      BY <1>2, <3>1, <3>2, <3>3 DEF AskedFor
  <2> QED
    BY <2>1
<1>5. ZoneRecords'
  BY <1>1, <1>2, <1>4 DEF ZonesInv, ZoneRecords
<1>6. StaticsOfLoad'
  BY <1>1 DEF Reading, StaticsOfLoad
<1>7. LinkedSoFar'
  BY <1>4 DEF LinkedSoFar, AsExpected
<1>8. LinkedWhole'
  BY <1>1, StillWhole DEF ZonesInv
<1>9. BuffersOfMap'
  BY <1>1, <1>4 DEF ZonesInv, BuffersOfMap, BufferIsOf, HasInternal
<1>10. MapComesLast'
  <2>1. CASE title = "iw3"
    <3>1. Played = {} /\ Played' = {}
      BY <1>1, <2>1 DEF ZonesInv, MapComesLast, Idle, Played
    <3>2. \A n \in DOMAIN queue' : queue'[n].alloc = "game" => n = Len(queue')
      BY <1>2, <2>1 DEF ZonesInv, MapComesLast
    <3>3. \A z \in Entries(queue') : AskedAsMap(z)
      BY <1>2, <2>1 DEF ZonesInv, MapComesLast
    <3>4. load' # NoLoad => AskedAsMap(load')
      BY <1>2, <1>4, <2>1 DEF ZonesInv, MapComesLast, AskedAsMap
    <3>5. load' # NoLoad /\ load'.alloc = "game" => queue' = <<>>
      BY <1>2, <1>4, <2>1 DEF ZonesInv, MapComesLast
    <3> QED
      BY <1>1, <2>1, <3>1, <3>2, <3>3, <3>4, <3>5 DEF MapComesLast, AskedAsMap
  <2> QED
    BY <1>1, <2>1 DEF ZonesInv, MapComesLast
<1> QED
  BY <1>5, <1>6, <1>7, <1>8, <1>9, <1>10 DEF ZonesInv

LEMMA BeginZoneKeeps ==
  ASSUME ZonesInv, BeginZone
  PROVE  ZonesInv'
<1>1. /\ load # NoLoad /\ inflater = None /\ position' = 1
      /\ is_sp_map' = IsSpMap(load.zone)
      /\ g_zoneOverrideIndex' = IF title = "iw3" THEN OverrideOf(load.zone) ELSE None
      /\ g_isSecure' = (load.file.magic = "signed")
      /\ inflater' = IF load.file.magic = "signed" THEN "auth" ELSE "zlib"
      /\ UNCHANGED <<title, fsGame, queue, zones, load, mapents_buffer, rawfile_buffer>>
  BY DEF BeginZone, AtHeader
<1>2. load.linked = <<>>
  BY <1>1 DEF ZonesInv, LinkedSoFar
<1>3. ZoneRecords'
  <2>1. is_sp_map' \in BOOLEAN /\ g_isSecure' \in BOOLEAN
    BY <1>1 DEF IsSpMap
  <2> QED
    BY <1>1, <2>1 DEF ZonesInv, ZoneRecords
<1>4. StaticsOfLoad'
  <2>1. load.file \in Disk /\ load.zone = load.file.zone /\ load.zone # None
    BY <1>1, ZonesAssumption DEF ZonesInv, ZoneRecords
  <2>2. AssetCount' \in Nat
    <3>1. CASE title = "iw3" /\ load.zone \in Overridden
      BY <1>1, <2>1, <3>1, ZonesAssumption DEF AssetCount, OverrideOf, Overridden
    <3>2. CASE ~(title = "iw3" /\ load.zone \in Overridden)
      BY <1>1, <2>1, <3>2, ZonesAssumption DEF AssetCount, OverrideOf
    <3> QED
      BY <3>1, <3>2
  <2>3. is_sp_map' <=> IsSpMap(load'.zone)
    BY <1>1 DEF IsSpMap
  <2>4. inflater' = "auth" <=> g_isSecure'
    BY <1>1
  <2>5. g_zoneOverrideIndex' = IF title' = "iw3" THEN OverrideOf(load'.zone) ELSE None
    BY <1>1 DEF OverrideOf, Overridden
  <2> QED
    BY <1>1, <1>2, <2>2, <2>3, <2>4, <2>5 DEF StaticsOfLoad, IsSpMap, OverrideOf, Overridden
<1>5. LinkedSoFar' /\ LinkedWhole'
  <2>1. LinkedSoFar'
    BY <1>1, <1>2 DEF LinkedSoFar, AsExpected
  <2>2. LinkedWhole'
    BY <1>1, StillWhole DEF ZonesInv
  <2> QED
    BY <2>1, <2>2
<1>6. BuffersOfMap'
  BY <1>1 DEF ZonesInv, BuffersOfMap, BufferIsOf, HasInternal
<1>7. MapComesLast'
  <2>1. CASE title = "iw3"
    <3>1. Played = {} /\ Played' = {}
      BY <1>1, <2>1 DEF ZonesInv, MapComesLast, Idle, Played
    <3> QED
      BY <1>1, <2>1, <3>1 DEF ZonesInv, MapComesLast, AskedAsMap, Entries
  <2>2. CASE title # "iw3"
    BY <1>1, <2>2 DEF MapComesLast, IsSpMap
  <2> QED
    BY <2>1, <2>2
<1> QED
  BY <1>3, <1>4, <1>5, <1>6, <1>7 DEF ZonesInv

LEMMA DropZoneKeeps ==
  ASSUME ZonesInv, DropZone
  PROVE  ZonesInv'
<1>1. /\ load # NoLoad /\ load' = NoLoad /\ queue' = <<>>
      /\ is_sp_map' = IsSpMap(load.zone)
      /\ UNCHANGED <<title, fsGame, zones, g_isSecure, inflater, position, mapents_buffer, rawfile_buffer>>
  BY DEF DropZone, AtHeader
<1>2. queue' \in Seq(AskedFor) /\ Entries(queue') = {}
  BY <1>1 DEF Entries
<1>3. ZoneRecords'
  <2>1. is_sp_map' \in BOOLEAN
    BY <1>1 DEF IsSpMap
  <2> QED
    BY <1>1, <1>2, <2>1 DEF ZonesInv, ZoneRecords
<1>4. StaticsOfLoad' /\ LinkedSoFar'
  BY <1>1 DEF StaticsOfLoad, LinkedSoFar, Reading
<1>5. LinkedWhole'
  BY <1>1, StillWhole DEF ZonesInv
<1>6. BuffersOfMap'
  BY <1>1 DEF ZonesInv, BuffersOfMap, BufferIsOf, HasInternal
<1>7. MapComesLast'
  <2>1. CASE title = "iw3"
    <3>1. Played = {} /\ Played' = {}
      BY <1>1, <2>1 DEF ZonesInv, MapComesLast, Idle, Played
    <3> QED
      BY <1>1, <1>2, <2>1, <3>1 DEF MapComesLast
  <2>2. CASE title # "iw3"
    BY <1>1, <2>2 DEF MapComesLast, IsSpMap
  <2> QED
    BY <2>1, <2>2
<1> QED
  BY <1>3, <1>4, <1>5, <1>6, <1>7 DEF ZonesInv

LEMMA LoadAssetKeeps ==
  ASSUME ZonesInv, LoadAsset
  PROVE  ZonesInv'
<1> DEFINE asset == Linked(Read)
<1>1. /\ Reading /\ Len(load.linked) < AssetCount
      /\ load' = [load EXCEPT !.linked = Append(load.linked, asset)]
      /\ position' = position + 1
      /\ mapents_buffer' = IF asset = <<"map_ents", "internal">> THEN load.zone ELSE mapents_buffer
      /\ rawfile_buffer' = IF asset = <<"rawfile", "internal">> THEN load.zone ELSE rawfile_buffer
      /\ UNCHANGED <<title, fsGame, queue, zones, is_sp_map, g_zoneOverrideIndex, g_isSecure, inflater>>
  BY DEF LoadAsset, Reading
<1>2. /\ load \in [zone : ZoneNames, alloc : Flags, file : Disk, linked : Seq(Asset)]
      /\ load.zone = load.file.zone /\ load # NoLoad
  BY <1>1 DEF ZonesInv, ZoneRecords, Reading
<1>3. /\ position \in DOMAIN load.file.assets /\ Read = load.file.assets[position] /\ Read \in AssetTypes
      /\ AssetCount \in Nat /\ position = Len(load.linked) + 1
  BY <1>1, ReadFacts DEF ZonesInv, StaticsOfLoad
<1>4. is_sp_map <=> IsSpMap(load.zone)
  BY <1>1 DEF ZonesInv, StaticsOfLoad
<1>5. /\ asset \in Expected(load.zone, Read) /\ asset \in Asset
      /\ \A k : asset = <<k, "internal">> => title = "iw3" /\ <<load.zone, k>> \in Internal
  BY <1>2, <1>3, <1>4, LinkedFacts
<1> HIDE DEF asset
<1>6. /\ Append(load.linked, asset) \in Seq(Asset)
      /\ Len(Append(load.linked, asset)) = Len(load.linked) + 1
      /\ Append(load.linked, asset)[Len(load.linked) + 1] = asset
      /\ \A n \in DOMAIN load.linked : Append(load.linked, asset)[n] = load.linked[n]
      /\ DOMAIN Append(load.linked, asset) = DOMAIN load.linked \cup {Len(load.linked) + 1}
      /\ Len(load.linked) \in Nat
  BY <1>2, <1>5
<1>7. /\ load'.zone = load.zone /\ load'.alloc = load.alloc /\ load'.file = load.file
      /\ load'.linked = Append(load.linked, asset)
      /\ load' \in [zone : ZoneNames, alloc : Flags, file : Disk, linked : Seq(Asset)]
  BY <1>1, <1>2, <1>6
<1>8. load' # NoLoad
  BY <1>7, ZonesAssumption DEF NoLoad
<1>9. ZoneRecords'
  <2>1. position' \in Nat
    BY <1>1, <1>3, <1>6
  <2> QED
    BY <1>1, <1>2, <1>7, <2>1 DEF ZonesInv, ZoneRecords
<1>10. StaticsOfLoad'
  <2>1. AssetCount' = AssetCount
    BY <1>1, <1>7 DEF AssetCount
  <2>2. Len(load'.linked) <= AssetCount
    BY <1>1, <1>3, <1>6, <1>7
  <2>3. position' = Len(load'.linked) + 1
    BY <1>1, <1>3, <1>6, <1>7
  <2> QED
    BY <1>1, <1>7, <2>1, <2>2, <2>3 DEF ZonesInv, StaticsOfLoad, IsSpMap, OverrideOf, Overridden, Reading
<1>11. LinkedSoFar'
  <2>1. \A n \in DOMAIN load'.linked : load'.linked[n] \in Expected(load.zone, load.file.assets[n])
    BY <1>2, <1>3, <1>5, <1>6, <1>7 DEF ZonesInv, LinkedSoFar, AsExpected
  <2>2. \A z, k : Expected(z, k)' = Expected(z, k)
    BY <1>1 DEF Expected, OfMods
  <2>3. \A n \in DOMAIN load'.linked : load'.linked[n] \in Expected(load.zone, load.file.assets[n])'
    BY <1>7, <2>1, <2>2
  <2> QED
    BY <1>1, <2>3 DEF LinkedSoFar, AsExpected, Reading
<1>12. LinkedWhole'
  BY <1>1, StillWhole DEF ZonesInv
<1>13. \A k : asset = <<k, "internal">> => load.alloc = "game" /\ \A z \in zones : z.alloc # "game"
  <2> SUFFICES ASSUME NEW k, asset = <<k, "internal">>
               PROVE  load.alloc = "game" /\ \A z \in zones : z.alloc # "game"
    OBVIOUS
  <2>1. title = "iw3" /\ <<load.zone, k>> \in Internal
    BY <1>5
  <2>2. AskedAsMap(load) /\ Played = {}
    BY <1>2, <2>1 DEF ZonesInv, MapComesLast, Idle
  <2> QED
    BY <2>1, <2>2 DEF AskedAsMap, Played
<1>14. BuffersOfMap'
  <2>1. ASSUME NEW z \in zones
        PROVE  BufferIsOf(z)'
    BY <1>1, <1>13 DEF ZonesInv, BuffersOfMap, BufferIsOf, HasInternal
  <2>2. BufferIsOf(load)'
    <3>1. \A k : HasInternal(load', k) => asset = <<k, "internal">> \/ HasInternal(load, k)
      BY <1>6, <1>7 DEF HasInternal
    <3> QED
      BY <1>1, <1>2, <1>7, <1>13, <3>1 DEF ZonesInv, BuffersOfMap, BufferIsOf, HasInternal
  <2> QED
    BY <1>1, <2>1, <2>2 DEF BuffersOfMap
<1>15. MapComesLast'
  <2>1. CASE title = "iw3"
    <3>1. Played = {} /\ Played' = {}
      BY <1>1, <1>2, <2>1 DEF ZonesInv, MapComesLast, Idle, Played
    <3> QED
      BY <1>1, <1>2, <1>7, <2>1, <3>1 DEF ZonesInv, MapComesLast, AskedAsMap, Entries
  <2>2. CASE title # "iw3"
    BY <1>1, <2>2 DEF ZonesInv, MapComesLast
  <2> QED
    BY <2>1, <2>2
<1> QED
  BY <1>9, <1>10, <1>11, <1>12, <1>14, <1>15 DEF ZonesInv

LEMMA FinishZoneKeeps ==
  ASSUME ZonesInv, FinishZone
  PROVE  ZonesInv'
<1> DEFINE new == [zone |-> load.zone, alloc |-> load.alloc, file |-> load.file, linked |-> load.linked,
                   delayed |-> IF DelayStart = Len(load.file.assets) + 1 THEN Inflated("delayed") ELSE "garbage"]
<1>1. /\ Reading /\ Len(load.linked) = AssetCount
      /\ zones' = zones \cup {new} /\ load' = NoLoad
      /\ UNCHANGED <<title, fsGame, queue, is_sp_map, g_zoneOverrideIndex, g_isSecure, position,
                     mapents_buffer, rawfile_buffer>>
  BY DEF FinishZone, Reading
<1>2. /\ load \in [zone : ZoneNames, alloc : Flags, file : Disk, linked : Seq(Asset)]
      /\ load.zone = load.file.zone /\ load # NoLoad
  BY <1>1 DEF ZonesInv, ZoneRecords, Reading
<1>3. /\ AssetCount = IF title = "iw3" /\ load.zone \in Overridden THEN Overrides[load.zone].count
                      ELSE Len(load.file.assets)
      /\ load.file.assets \in Seq(AssetTypes)
  BY <1>1, ReadFacts
<1>4. /\ g_zoneOverrideIndex = IF title = "iw3" THEN OverrideOf(load.zone) ELSE None
      /\ inflater = "auth" <=> g_isSecure
      /\ position = Len(load.linked) + 1
      /\ is_sp_map <=> IsSpMap(load.zone)
  BY <1>1 DEF ZonesInv, StaticsOfLoad
<1>5. DelayStart = Len(load.file.assets) + 1
  <2>1. load.zone # None
    BY <1>2, ZonesAssumption
  <2>2. CASE title = "iw3" /\ load.zone \in Overridden
    BY <1>2, <1>4, <2>1, <2>2, TablesAssumption DEF DelayStart, OverrideOf, Overridden
  <2>3. CASE ~(title = "iw3" /\ load.zone \in Overridden)
    BY <1>1, <1>3, <1>4, <2>1, <2>3 DEF DelayStart, OverrideOf
  <2> QED
    BY <2>2, <2>3
<1>6. new.delayed = "delayed"
  BY <1>4, <1>5 DEF Inflated
<1>7. /\ new.zone = load.zone /\ new.alloc = load.alloc /\ new.file = load.file /\ new.linked = load.linked
      /\ new \in [zone : ZoneNames, alloc : Flags, file : Disk, linked : Seq(Asset),
                  delayed : {"delayed", "garbage"}]
  BY <1>2, <1>6
<1> HIDE DEF new
<1>8. ZoneRecords'
  BY <1>1, <1>2, <1>7 DEF ZonesInv, ZoneRecords
<1>9. StaticsOfLoad' /\ LinkedSoFar'
  BY <1>1 DEF StaticsOfLoad, LinkedSoFar, Reading
<1>10. LinkedWhole'
  <2>1. AsExpected(new) /\ \A z \in zones : AsExpected(z)
    BY <1>2, <1>7 DEF ZonesInv, LinkedSoFar, LinkedWhole, AsExpected
  <2>2. \A z, k : Expected(z, k)' = Expected(z, k)
    BY <1>1 DEF Expected, OfMods
  <2>3. \A z \in zones' : z = new \/ z \in zones
    BY <1>1
  <2>4. \A z \in zones' : AsExpected(z)'
    BY <2>1, <2>2, <2>3 DEF AsExpected
  <2>5. /\ Len(new.linked) = IF title = "iw3" /\ new.zone \in Overridden THEN Overrides[new.zone].count
                            ELSE Len(new.file.assets)
        /\ new.delayed = "delayed"
    BY <1>1, <1>3, <1>6, <1>7
  <2>6. ASSUME NEW z \in zones'
        PROVE  /\ z.delayed = "delayed"
               /\ Len(z.linked) = IF title = "iw3" /\ z.zone \in Overridden THEN Overrides[z.zone].count
                                  ELSE Len(z.file.assets)
    BY <2>3, <2>5 DEF ZonesInv, LinkedWhole
  <2> QED
    BY <1>1, <2>4, <2>6 DEF LinkedWhole, Overridden
<1>11. BuffersOfMap'
  <2>1. BufferIsOf(new) /\ \A z \in zones : BufferIsOf(z)
    BY <1>2, <1>7 DEF ZonesInv, BuffersOfMap, BufferIsOf, HasInternal
  <2>2. ASSUME NEW z \in zones'
        PROVE  BufferIsOf(z)'
    <3>1. BufferIsOf(z)
      BY <1>1, <2>1
    <3> QED
      BY <1>1, <3>1 DEF BufferIsOf, HasInternal
  <2> QED
    BY <1>1, <2>2 DEF BuffersOfMap
<1>12. MapComesLast'
  <2>1. CASE title = "iw3"
    <3>1. Played = {} /\ AskedAsMap(load) /\ (load.alloc = "game" => queue = <<>>)
      BY <1>2, <2>1 DEF ZonesInv, MapComesLast, Idle
    <3>2. \A z \in Played' : z = new /\ load.alloc = "game"
      BY <1>1, <1>7, <3>1 DEF Played
    <3>3. \A z \in Played' : AskedAsMap(z) /\ (is_sp_map <=> IsSpMap(z.zone))
      BY <1>4, <1>7, <3>1, <3>2 DEF AskedAsMap
    <3>4. Played' # {} => Idle'
      BY <1>1, <3>1, <3>2 DEF Idle
    <3> QED
      BY <1>1, <2>1, <3>3, <3>4 DEF ZonesInv, MapComesLast, AskedAsMap, Entries, IsSpMap
  <2>2. CASE title # "iw3"
    BY <1>1, <2>2 DEF ZonesInv, MapComesLast
  <2> QED
    BY <2>1, <2>2
<1> QED
  BY <1>8, <1>9, <1>10, <1>11, <1>12 DEF ZonesInv

Asks(batch, zone, a) == \E z \in Entries(batch) : z.zone = zone /\ z.alloc = a

(* What the plugin adds to a batch of iw4: its own zone for the game's,     *)
(* under the same kind, if it is there.                                    *)
LEMMA AddedFacts ==
  ASSUME title = "iw4", "iw4" \in Titles, NEW batch \in Entries(Batches["iw4"]),
         NEW stock \in Amended, NEW zone \in ZoneNames
  PROVE  /\ Added(batch, stock, zone) \in Seq(AskedFor)
         /\ Len(Added(batch, stock, zone)) <= 1
         /\ Added(batch, stock, zone) # <<>> => FindZone(batch, stock) \in DOMAIN batch
         /\ \A z \in Entries(Added(batch, stock, zone)) : z.zone = zone /\ z.free \subseteq Freed(batch)
         /\ \A a : Asks(Added(batch, stock, zone), zone, a) <=> Asks(batch, stock, a) /\ On("codxe", zone) # {}
<1> DEFINE found == FindZone(batch, stock)
           added == Added(batch, stock, zone)
<1>1. batch \in Seq(AskedFor)
  BY ZonesAssumption DEF Entries
<1>2. \A n, m \in DOMAIN batch : batch[n].zone = stock /\ batch[m].zone = stock => n = m
  BY AmendedAssumption
<1>3. CASE stock \in Names(batch) /\ On("codxe", zone) # {}
  <2>1. PICK n \in DOMAIN batch : batch[n].zone = stock
    BY <1>3 DEF Names, Entries
  <2>2. \A m \in 1..n - 1 : batch[m].zone # stock
    BY <1>1, <1>2, <2>1
  <2>3. found \in DOMAIN batch /\ batch[found].zone = stock
    BY <2>1, <2>2 DEF FindZone
  <2>4. found = n
    BY <1>2, <2>1, <2>3
  <2>5. added = <<[batch[n] EXCEPT !.zone = zone]>>
    BY <1>3, <2>4 DEF Added, AsStock
  <2>6. batch[n] \in AskedFor
    BY <1>1, <2>1
  <2> HIDE DEF found, added
  <2> DEFINE e == [batch[n] EXCEPT !.zone = zone]
  <2>7. e \in AskedFor /\ e.zone = zone /\ e.alloc = batch[n].alloc /\ e.free = batch[n].free
    BY <2>6 DEF AskedFor
  <2> HIDE DEF e
  <2>8. added \in Seq(AskedFor) /\ Len(added) = 1 /\ Entries(added) = {e}
    BY <2>5, <2>7 DEF Entries, e
  <2>9. \A z \in Entries(batch) : z.zone = stock => z = batch[n]
    BY <1>2, <2>1 DEF Entries
  <2>10. batch[n] \in Entries(batch)
    BY <2>1 DEF Entries
  <2> QED
    BY <1>3, <2>1, <2>3, <2>7, <2>8, <2>9, <2>10 DEF added, found, Freed, Asks
<1>4. CASE ~(stock \in Names(batch) /\ On("codxe", zone) # {})
  <2>1. added = <<>>
    BY <1>4 DEF Added
  <2>2. Entries(added) = {} /\ Len(added) = 0 /\ added \in Seq(AskedFor)
    BY <2>1 DEF Entries
  <2> QED
    BY <1>4, <2>2 DEF Names, Asks
<1> QED
  BY <1>3, <1>4

LEMMA EntriesOfTogether ==
  ASSUME NEW S, NEW s \in Seq(S), NEW t \in Seq(S)
  PROVE  s \o t \in Seq(S) /\ Entries(s \o t) = Entries(s) \cup Entries(t)
<1>1. /\ s \o t \in Seq(S) /\ Len(s \o t) = Len(s) + Len(t)
      /\ \A n \in DOMAIN s : n \in DOMAIN (s \o t) /\ (s \o t)[n] = s[n]
      /\ \A n \in DOMAIN t : n + Len(s) \in DOMAIN (s \o t) /\ (s \o t)[n + Len(s)] = t[n]
  OBVIOUS
<1>2. \A n \in DOMAIN (s \o t) : (s \o t)[n] \in Entries(s) \cup Entries(t)
  BY <1>1 DEF Entries
<1>3. Entries(s \o t) \subseteq Entries(s) \cup Entries(t)
  BY <1>2 DEF Entries
<1>4. Entries(s) \subseteq Entries(s \o t)
  BY <1>1 DEF Entries
<1>5. Entries(t) \subseteq Entries(s \o t)
  <2> DEFINE both == s \o t
  <2>1. \A n \in DOMAIN t : \E k \in DOMAIN both : both[k] = t[n]
    BY <1>1
  <2> HIDE DEF both
  <2>2. Entries(t) \subseteq Entries(both)
    BY <2>1 DEF Entries
  <2> QED
    BY <2>2 DEF both
<1> QED
  BY <1>1, <1>3, <1>4, <1>5

LEMMA EntriesSplit ==
  ASSUME NEW S, NEW s \in Seq(S), NEW n \in 1..Len(s) + 1
  PROVE  /\ SubSeq(s, 1, n - 1) \in Seq(S) /\ SubSeq(s, n, Len(s)) \in Seq(S)
         /\ Entries(SubSeq(s, 1, n - 1)) \cup Entries(SubSeq(s, n, Len(s))) = Entries(s)
<1> DEFINE before == SubSeq(s, 1, n - 1)  after == SubSeq(s, n, Len(s))
<1>1. /\ before \in Seq(S) /\ Len(before) = n - 1
      /\ \A k \in 1..n - 1 : before[k] = s[k]
  OBVIOUS
<1>2. /\ after \in Seq(S) /\ Len(after) = Len(s) - n + 1
      /\ \A k \in 1..Len(s) - n + 1 : after[k] = s[n + k - 1]
  OBVIOUS
<1> HIDE DEF before, after
<1>3. \A k \in DOMAIN s : s[k] \in Entries(before) \cup Entries(after)
  <2> SUFFICES ASSUME NEW k \in DOMAIN s
               PROVE  s[k] \in Entries(before) \cup Entries(after)
    OBVIOUS
  <2>1. CASE k < n
    BY <1>1, <2>1 DEF Entries
  <2>2. CASE k >= n
    <3>1. k - n + 1 \in DOMAIN after /\ after[k - n + 1] = s[k]
      <4>1. k - n + 1 \in 1..Len(s) - n + 1 /\ n + (k - n + 1) - 1 = k
        BY <2>2
      <4>2. after[k - n + 1] = s[n + (k - n + 1) - 1]
        BY <1>2, <4>1
      <4>3. DOMAIN after = 1..Len(s) - n + 1
        BY <1>2
      <4> QED
        BY <4>1, <4>2, <4>3
    <3> QED
      BY <3>1 DEF Entries
  <2> QED
    BY <2>1, <2>2
<1>4. Entries(before) \subseteq Entries(s) /\ Entries(after) \subseteq Entries(s)
  <2>1. \A k \in DOMAIN before : k \in DOMAIN s /\ before[k] = s[k]
    BY <1>1
  <2>2. \A k \in DOMAIN after : n + k - 1 \in DOMAIN s /\ after[k] = s[n + k - 1]
    BY <1>2
  <2> QED
    BY <2>1, <2>2 DEF Entries
<1>5. Entries(before) \cup Entries(after) = Entries(s)
  BY <1>3, <1>4 DEF Entries
<1> QED
  BY <1>1, <1>2, <1>5 DEF before, after

(* What a batch of iw4 asks for with the zones of the plugin.              *)
LEMMA PluginBatchFacts ==
  ASSUME title = "iw4", "iw4" \in Titles, NEW batch \in Entries(Batches["iw4"])
  PROVE  /\ WithPluginZones(batch) \in Seq(AskedFor)
         /\ Entries(WithPluginZones(batch)) =
              Entries(batch) \cup Entries(Added(batch, "ui_mp", "codxe_ui_mp"))
                             \cup Entries(Added(batch, "patch_mp", "codxe_patch_mp"))
         /\ Freed(WithPluginZones(batch)) = Freed(batch)
<1> DEFINE interface == Added(batch, "ui_mp", "codxe_ui_mp")
           patch == Added(batch, "patch_mp", "codxe_patch_mp")
           at == IF interface = <<>> THEN 1 ELSE FindZone(batch, "ui_mp")
           before == SubSeq(batch, 1, at - 1)
           after == SubSeq(batch, at, Len(batch))
<1>1. batch \in Seq(AskedFor) /\ Len(batch) + 2 <= MaxZones /\ MaxZones \in Nat
  BY ZonesAssumption, AmendedAssumption DEF Entries
<1>2. /\ interface \in Seq(AskedFor) /\ Len(interface) <= 1
      /\ interface # <<>> => FindZone(batch, "ui_mp") \in DOMAIN batch
      /\ \A z \in Entries(interface) : z.free \subseteq Freed(batch)
  BY AddedFacts, ZonesAssumption DEF Amended
<1>3. /\ patch \in Seq(AskedFor) /\ Len(patch) <= 1
      /\ \A z \in Entries(patch) : z.free \subseteq Freed(batch)
  BY AddedFacts, ZonesAssumption DEF Amended
<1>4. WithPluginZones(batch) = before \o interface \o after \o patch
  <2> HIDE DEF interface, patch
  <2>1. ~(Len(batch) + Len(interface) + Len(patch) > MaxZones)
    BY <1>1, <1>2, <1>3
  <2> QED
    BY <2>1 DEF WithPluginZones, interface, patch
<1> HIDE DEF interface, patch
<1>5. at \in 1..Len(batch) + 1
  BY <1>1, <1>2
<1> HIDE DEF at
<1>6. /\ before \in Seq(AskedFor) /\ after \in Seq(AskedFor)
      /\ Entries(before) \cup Entries(after) = Entries(batch)
  BY <1>1, <1>5, EntriesSplit
<1> HIDE DEF before, after
<1> DEFINE two == before \o interface
           three == two \o after
<1>7. two \in Seq(AskedFor) /\ Entries(two) = Entries(before) \cup Entries(interface)
  BY <1>2, <1>6, EntriesOfTogether
<1>8. WithPluginZones(batch) = three \o patch
  BY <1>4
<1> HIDE DEF two
<1>9. three \in Seq(AskedFor) /\ Entries(three) = Entries(two) \cup Entries(after)
  BY <1>6, <1>7, EntriesOfTogether
<1> HIDE DEF three
<1>10. /\ three \o patch \in Seq(AskedFor)
       /\ Entries(three \o patch) = Entries(batch) \cup Entries(interface) \cup Entries(patch)
  <2>1. three \o patch \in Seq(AskedFor) /\ Entries(three \o patch) = Entries(three) \cup Entries(patch)
    BY <1>3, <1>9, EntriesOfTogether
  <2> QED
    BY <1>6, <1>7, <1>9, <2>1
<1>11. Freed(WithPluginZones(batch)) = Freed(batch)
  <2>1. Freed(batch) \subseteq Freed(WithPluginZones(batch))
    BY <1>8, <1>10 DEF Freed
  <2>2. \A z \in Entries(WithPluginZones(batch)) : z.free \subseteq Freed(batch)
    BY <1>2, <1>3, <1>8, <1>10 DEF Freed
  <2>3. Freed(WithPluginZones(batch)) \subseteq Freed(batch)
    BY <2>2 DEF Freed
  <2> QED
    BY <2>1, <2>3
<1> QED
  BY <1>8, <1>10, <1>11 DEF interface, patch

(* What a batch of iw3 asks for, with the zone of a mod or without it.      *)
LEMMA ModBatchFacts ==
  ASSUME title = "iw3", "iw3" \in Titles, NEW batch \in Entries(Batches["iw3"])
  PROVE  /\ WithMod(batch) \in Seq(AskedFor)
         /\ \A n \in DOMAIN WithMod(batch) : WithMod(batch)[n].alloc = "game" => n = Len(WithMod(batch))
         /\ \A z \in Entries(WithMod(batch)) : AskedAsMap(z)
         /\ IsInitialZoneBatch(batch) \/ "game" \in Freed(WithMod(batch))
<1>1. batch \in Seq(AskedFor)
  BY ZonesAssumption DEF Entries
<1>2. /\ \A n \in DOMAIN batch : batch[n].alloc = "game" => n = Len(batch)
      /\ IsInitialZoneBatch(batch) => \A z \in Entries(batch) : z.alloc # "game"
      /\ IsInitialZoneBatch(batch) \/ "game" \in Freed(batch)
      /\ \A z \in Entries(batch) : AskedAsMap(z)
  BY MapsAssumption DEF AskedAsMap
<1>3. CASE WithMod(batch) = batch
  BY <1>1, <1>2, <1>3
<1>4. CASE WithMod(batch) # batch
  <2> DEFINE mod == [zone |-> "mod", alloc |-> "mod", free |-> {}]
  <2>1. IsInitialZoneBatch(batch) /\ WithMod(batch) = Append(batch, mod)
    BY <1>4 DEF WithMod
  <2>2. mod \in AskedFor
    BY ZonesAssumption DEF AskedFor
  <2>3. AskedAsMap(mod)
    BY TablesAssumption DEF AskedAsMap
  <2>4. mod.alloc # "game"
    OBVIOUS
  <2> HIDE DEF mod
  <2>5. /\ Append(batch, mod) \in Seq(AskedFor)
        /\ \A n \in DOMAIN Append(batch, mod) :
             \/ n \in DOMAIN batch /\ Append(batch, mod)[n] = batch[n]
             \/ Append(batch, mod)[n] = mod
    BY <1>1, <2>2
  <2>6. \A n \in DOMAIN Append(batch, mod) : Append(batch, mod)[n].alloc # "game"
    BY <1>2, <2>1, <2>4, <2>5 DEF Entries
  <2>7. \A z \in Entries(Append(batch, mod)) : AskedAsMap(z)
    BY <1>2, <2>3, <2>5 DEF Entries
  <2> QED
    BY <2>1, <2>5, <2>6, <2>7
<1> QED
  BY <1>3, <1>4

(* What asking for a batch keeps, from menus or by the game.               *)
LEMMA LoadXAssetsKeeps ==
  ASSUME ZonesInv, Idle, NEW STATE batch, LoadXAssets(batch), batch \in Seq(AskedFor),
         title = "iw3" =>
           /\ \A n \in DOMAIN batch : batch[n].alloc = "game" => n = Len(batch)
           /\ \A z \in Entries(batch) : AskedAsMap(z)
           /\ Played = {} \/ "game" \in Freed(batch)
  PROVE  ZonesInv'
<1>1. /\ load = NoLoad /\ zones' = {z \in zones : z.alloc \notin Freed(batch)} /\ queue' = batch
      /\ UNCHANGED <<title, load, is_sp_map, g_zoneOverrideIndex, g_isSecure, inflater, position,
                     mapents_buffer, rawfile_buffer>>
  BY DEF LoadXAssets, Idle, loaderVars
<1>2. zones' \subseteq zones
  BY <1>1
<1>3. ZoneRecords'
  BY <1>1, <1>2 DEF ZonesInv, ZoneRecords
<1>4. StaticsOfLoad' /\ LinkedSoFar'
  BY <1>1 DEF StaticsOfLoad, LinkedSoFar, Reading
<1>5. LinkedWhole'
  BY <1>1, <1>2, StillWhole DEF ZonesInv
<1>6. BuffersOfMap'
  BY <1>1, <1>2 DEF ZonesInv, BuffersOfMap, BufferIsOf, HasInternal
<1>7. MapComesLast'
  <2>1. CASE title = "iw3"
    <3>1. Played' = {}
      BY <1>1, <2>1 DEF Played
    <3>2. \A n \in DOMAIN queue' : queue'[n].alloc = "game" => n = Len(queue')
      BY <1>1, <2>1
    <3>3. \A z \in Entries(queue') : AskedAsMap(z)
      BY <1>1, <2>1
    <3> QED
      BY <1>1, <2>1, <3>1, <3>2, <3>3 DEF MapComesLast, AskedAsMap
  <2>2. CASE title # "iw3"
    BY <1>1, <2>2 DEF ZonesInv, MapComesLast
  <2> QED
    BY <2>1, <2>2
<1> QED
  BY <1>3, <1>4, <1>5, <1>6, <1>7 DEF ZonesInv

LEMMA AskForBatchKeeps ==
  ASSUME ZonesInv, AskForBatch
  PROVE  ZonesInv'
<1>1. PICK n \in DOMAIN Batches[title] :
        /\ IsInitialZoneBatch(Batches[title][n]) => Played = {}
        /\ LoadXAssets(Batch(Batches[title][n]))
  BY DEF AskForBatch
<1> DEFINE b == Batches[title][n]
<1>2. title \in Titles /\ Idle
  BY DEF AskForBatch, ZonesInv, ZoneRecords
<1>3. b \in Entries(Batches[title]) /\ b \in Seq(AskedFor)
  BY <1>2, ZonesAssumption DEF Entries
<1>4. LoadXAssets(Batch(b))
  BY <1>1
<1>5. IsInitialZoneBatch(b) => Played = {}
  BY <1>1
<1> HIDE DEF b
<1>6. CASE title = "iw3"
  <2>1. Batch(b) = WithMod(b)
    BY <1>6 DEF Batch
  <2>2. /\ WithMod(b) \in Seq(AskedFor)
        /\ \A k \in DOMAIN WithMod(b) : WithMod(b)[k].alloc = "game" => k = Len(WithMod(b))
        /\ \A z \in Entries(WithMod(b)) : AskedAsMap(z)
        /\ IsInitialZoneBatch(b) \/ "game" \in Freed(WithMod(b))
    <3>1. b \in Entries(Batches["iw3"]) /\ "iw3" \in Titles
      BY <1>2, <1>3, <1>6
    <3> QED
      BY <1>6, <3>1, ModBatchFacts
  <2> QED
    BY <1>2, <1>4, <1>5, <2>1, <2>2, LoadXAssetsKeeps
<1>7. CASE title = "iw4"
  <2>1. Batch(b) = WithPluginZones(b)
    BY <1>7 DEF Batch
  <2>2. WithPluginZones(b) \in Seq(AskedFor)
    <3>1. b \in Entries(Batches["iw4"]) /\ "iw4" \in Titles
      BY <1>2, <1>3, <1>7
    <3> QED
      BY <1>7, <3>1, PluginBatchFacts
  <2> QED
    BY <1>2, <1>4, <1>7, <2>1, <2>2, LoadXAssetsKeeps
<1>8. CASE title \notin {"iw3", "iw4"}
  <2>1. Batch(b) = b
    BY <1>8 DEF Batch
  <2> QED
    BY <1>2, <1>3, <1>4, <1>8, <2>1, LoadXAssetsKeeps
<1> QED
  BY <1>6, <1>7, <1>8

LEMMA RunModKeeps ==
  ASSUME ZonesInv, NEW m, RunMod(m)
  PROVE  ZonesInv'
<1> DEFINE end == [zone |-> None, alloc |-> "none", free |-> {"mod"}]
           mod == [zone |-> "mod", alloc |-> "mod", free |-> {}]
           some == IF m = None \/ On(m, "mod") = {} THEN <<>> ELSE <<mod>>
           batch == <<end>> \o some
<1>1. Idle /\ Played = {} /\ LoadXAssets(batch)
  BY DEF RunMod
<1>2. end \in AskedFor /\ mod \in AskedFor
  BY ZonesAssumption DEF AskedFor
<1>3. AskedAsMap(end) /\ AskedAsMap(mod)
  BY TablesAssumption, ZonesAssumption DEF AskedAsMap
<1>4. end.alloc # "game" /\ mod.alloc # "game"
  OBVIOUS
<1> HIDE DEF end, mod
<1>5. /\ some \in Seq(AskedFor) /\ \A n \in DOMAIN some : some[n] = mod
      /\ <<end>> \in Seq(AskedFor) /\ \A n \in DOMAIN <<end>> : <<end>>[n] = end
  BY <1>2
<1> HIDE DEF some
<1>6. batch \in Seq(AskedFor) /\ Entries(batch) = Entries(<<end>>) \cup Entries(some)
  <2> DEFINE first == <<end>>
  <2>1. first \in Seq(AskedFor) /\ some \in Seq(AskedFor) /\ batch = first \o some
    BY <1>5
  <2> HIDE DEF first, batch
  <2>2. batch \in Seq(AskedFor) /\ Entries(batch) = Entries(first) \cup Entries(some)
    BY <2>1, EntriesOfTogether
  <2> QED
    BY <2>2 DEF first
<1>7. \A z \in Entries(batch) : z \in {end, mod}
  BY <1>5, <1>6 DEF Entries
<1> HIDE DEF batch
<1>8. \A n \in DOMAIN batch : batch[n].alloc # "game"
  BY <1>4, <1>7 DEF Entries
<1>9. \A z \in Entries(batch) : AskedAsMap(z)
  BY <1>3, <1>7
<1> QED
  BY <1>1, <1>6, <1>8, <1>9, LoadXAssetsKeeps

-----------------------------------------------------------------------------
(* Zones are loaded as they were made                                      *)

LEMMA ZonesStep ==
  ASSUME ZonesInv, [ZoneNext]_zoneVars
  PROVE  ZonesInv'
<1>1. CASE UNCHANGED zoneVars
  <2>1. UNCHANGED <<title, fsGame, queue, zones, load, is_sp_map, g_zoneOverrideIndex, g_isSecure, inflater,
                    position, mapents_buffer, rawfile_buffer>>
    BY <1>1 DEF zoneVars, loaderVars
  <2>2. ZoneRecords'
    BY <2>1 DEF ZonesInv, ZoneRecords
  <2>3. StaticsOfLoad'
    BY <2>1 DEF ZonesInv, StaticsOfLoad, Reading, IsSpMap, OverrideOf, Overridden, AssetCount
  <2>4. LinkedSoFar' /\ LinkedWhole'
    <3>1. LinkedSoFar'
      BY <2>1 DEF ZonesInv, LinkedSoFar, AsExpected, Expected, OfMods
    <3>2. LinkedWhole'
      BY <2>1, StillWhole DEF ZonesInv
    <3> QED
      BY <3>1, <3>2
  <2>5. BuffersOfMap'
    BY <2>1 DEF ZonesInv, BuffersOfMap, BufferIsOf, HasInternal
  <2>6. MapComesLast'
    BY <2>1 DEF ZonesInv, MapComesLast, AskedAsMap, Played, Idle, Entries, IsSpMap
  <2> QED
    BY <2>2, <2>3, <2>4, <2>5, <2>6 DEF ZonesInv
<1>2. CASE ZoneNext
  BY <1>2, AskForBatchKeeps, OpenZoneKeeps, BeginZoneKeeps, DropZoneKeeps, LoadAssetKeeps, FinishZoneKeeps,
     RunModKeeps DEF ZoneNext
<1> QED
  BY <1>1, <1>2

LEMMA ZonesInvIsInvariant == ZoneSpec => []ZonesInv
<1>1. ZoneInit => ZonesInv
  BY ZonesInitInv
<1>2. ZonesInv /\ [ZoneNext]_zoneVars => ZonesInv'
  BY ZonesStep
<1> QED
  BY <1>1, <1>2, PTL DEF ZoneSpec

(* Every loaded zone is what its own file says, whatever was loaded before  *)
(* it; the statics of the loader, set for one zone and read for the assets  *)
(* of the next, are those of the zone that is read (mpsp.cpp).             *)
THEOREM ZonesLoadedAsMade == ZoneSpec => []LoadedAsMade
<1>1. ASSUME ZonesInv
      PROVE  LoadedAsMade
  <2>1. LinkedWhole /\ BuffersOfMap
    BY <1>1 DEF ZonesInv
  <2>2. ASSUME NEW z \in zones, Idle, z \in Played
        PROVE  TreatedAsItself(z)
    <3>1. CASE title = "iw3"
      <4>1. AskedAsMap(z) /\ (is_sp_map <=> IsSpMap(z.zone)) /\ z.alloc = "game"
        BY <1>1, <2>2, <3>1 DEF ZonesInv, MapComesLast, Played
      <4>2. z.file \in Disk /\ z.file.zone = z.zone
        BY <1>1 DEF ZonesInv, ZoneRecords
      <4> QED
        BY <4>1, <4>2 DEF AskedAsMap, TreatedAsItself, AddsEntitiesVisible, BspFilename, LevelScript
    <3>2. CASE title # "iw3"
      BY <1>1, <3>2 DEF ZonesInv, MapComesLast, TreatedAsItself, AddsEntitiesVisible, IsSpMap
    <3> QED
      BY <3>1, <3>2
  <2> QED
    BY <2>1, <2>2 DEF LoadedAsMade, LinkedWhole, AsExpected, BuffersOfMap, BufferIsOf, HasInternal
<1> QED
  BY <1>1, ZonesInvIsInvariant, PTL

-----------------------------------------------------------------------------
(* The zones of the plugin follow the game's                               *)

(* What is asked for, loaded or being loaded only moves on.                *)
LEMMA FollowKept ==
  ASSUME ZonesFollow, title' = title,
         title = "iw4" =>
           /\ \A zone, a : IsPresent(zone, a)' => IsPresent(zone, a)
           /\ \A zone \in Amended \cup PluginZones, a \in Flags : IsPresent(zone, a) => IsPresent(zone, a)'
  PROVE  ZonesFollow'
<1> SUFFICES ASSUME title = "iw4"
             PROVE  ZonesFollow'
  BY DEF ZonesFollow
<1>1. Follows("codxe_ui_mp", "ui_mp")' /\ Follows("codxe_patch_mp", "patch_mp")'
  BY DEF ZonesFollow, Follows, Amended, PluginZones
<1>2. \A f \in Disk, a \in Flags : IsPresent(f.zone, a)' => f.version = 1
  BY DEF ZonesFollow
<1> QED
  BY <1>1, <1>2 DEF ZonesFollow

(* The plugin's zones and those of the game that they amend have files.    *)
LEMMA AmendedOpened ==
  ASSUME ZonesInv, ZonesFollow, title = "iw4", NEW zone \in Amended \cup PluginZones, NEW a \in Flags,
         IsPresent(zone, a)
  PROVE  Opened(zone) # {}
<1>1. "iw4" \in Titles
  BY DEF ZonesInv, ZoneRecords
<1>2. \E place \in {"codxe", "disc"} : On(place, zone) # {}
  <2>1. CASE zone \in Amended
    BY <1>1, <2>1, AmendedAssumption DEF On
  <2>2. CASE zone \in PluginZones
    BY <2>2 DEF ZonesFollow, Follows, PluginZones
  <2> QED
    BY <2>1, <2>2
<1>3. Places[title] = <<"codxe", "disc">>
  BY <1>1 DEF Places
<1> DEFINE there == {n \in DOMAIN Places[title] : On(Places[title][n], zone) # {}}
           n == CHOOSE n \in there : \A m \in there : n <= m
<1>4. Opened(zone) = IF there = {} THEN {} ELSE On(Places[title][n], zone)
  BY DEF Opened
<1>5. there \subseteq {1, 2} /\ there # {}
  BY <1>2, <1>3
<1>6. \A k \in there : On(Places[title][k], zone) # {}
  OBVIOUS
<1> HIDE DEF there
<1>7. \E k \in there : \A m \in there : k <= m
  <2>1. CASE 1 \in there
    BY <1>5, <2>1
  <2>2. CASE 1 \notin there
    <3>1. there = {2}
      BY <1>5, <2>2
    <3> QED
      BY <3>1
  <2> QED
    BY <2>1, <2>2
<1>8. n \in there
  BY <1>7
<1> QED
  BY <1>4, <1>5, <1>6, <1>8

LEMMA OpenZoneFollows ==
  ASSUME ZonesInv, ZonesFollow, OpenZone
  PROVE  ZonesFollow'
<1>1. /\ load = NoLoad /\ queue # <<>> /\ queue' = Tail(queue) /\ zones' = zones /\ title' = title
      /\ queue \in Seq(AskedFor)
  BY DEF OpenZone, ZonesInv, ZoneRecords
<1> DEFINE asked == Head(queue)
<1>2. /\ asked \in Entries(queue) /\ Entries(queue') \subseteq Entries(queue)
  BY <1>1, QueueFacts DEF ZonesInv
<1>3. \A z \in Entries(queue) : z = asked \/ z \in Entries(queue')
  <2> SUFFICES ASSUME NEW n \in DOMAIN queue
               PROVE  queue[n] = asked \/ queue[n] \in Entries(queue')
    BY DEF Entries
  <2>1. CASE n = 1
    BY <1>1, <2>1
  <2>2. CASE n # 1
    <3>1. n - 1 \in DOMAIN Tail(queue) /\ Tail(queue)[n - 1] = queue[n]
      BY <1>1, <2>2
    <3> QED
      BY <1>1, <3>1 DEF Entries
  <2> QED
    BY <2>1, <2>2
<1>4. \/ Opened(asked.zone) = {} /\ load' = NoLoad
      \/ Opened(asked.zone) # {} /\ load' # NoLoad /\ load'.zone = asked.zone /\ load'.alloc = asked.alloc
  <2>1. CASE Opened(asked.zone) = {}
    BY <2>1 DEF OpenZone
  <2>2. CASE Opened(asked.zone) # {}
    <3>1. PICK f \in Opened(asked.zone) :
            load' = [zone |-> asked.zone, alloc |-> asked.alloc, file |-> f, linked |-> <<>>]
      BY <2>2 DEF OpenZone
    <3>2. asked.zone # None
      BY OpenedFacts, ZonesAssumption, <2>2
    <3> QED
      BY <2>2, <3>1, <3>2 DEF NoLoad
  <2> QED
    BY <2>1, <2>2
<1>5. \A zone, a : IsPresent(zone, a)' => IsPresent(zone, a)
  BY <1>1, <1>2, <1>4 DEF IsPresent
<1>6. ASSUME title = "iw4", NEW zone \in Amended \cup PluginZones, NEW a \in Flags, IsPresent(zone, a)
      PROVE  IsPresent(zone, a)'
  <2>1. Opened(zone) # {}
    BY <1>6, AmendedOpened
  <2>2. PICK z \in zones \cup Entries(queue) : z.zone = zone /\ z.alloc = a
    BY <1>1, <1>6 DEF IsPresent
  <2>3. CASE z = asked
    BY <1>4, <2>1, <2>2, <2>3 DEF IsPresent
  <2>4. CASE z # asked
    BY <1>1, <1>3, <2>2, <2>4 DEF IsPresent
  <2> QED
    BY <2>3, <2>4
<1> QED
  BY <1>1, <1>5, <1>6, FollowKept

LEMMA DropZoneFollows ==
  ASSUME ZonesInv, ZonesFollow, DropZone
  PROVE  ZonesFollow'
<1>1. load # NoLoad /\ load.file.version # 1 /\ title' = title
  BY DEF DropZone, AtHeader
<1>2. load.file \in Disk /\ load.file.zone = load.zone /\ load.alloc \in Flags
  BY <1>1 DEF ZonesInv, ZoneRecords
<1>3. IsPresent(load.file.zone, load.alloc)
  BY <1>1, <1>2 DEF IsPresent
<1>4. title # "iw4"
  BY <1>1, <1>2, <1>3 DEF ZonesFollow
<1> QED
  BY <1>1, <1>4 DEF ZonesFollow

LEMMA LoadFollows ==
  ASSUME ZonesInv, ZonesFollow, BeginZone \/ LoadAsset \/ FinishZone
  PROVE  ZonesFollow'
<1>1. CASE BeginZone
  <2>1. UNCHANGED <<title, queue, zones, load>>
    BY <1>1 DEF BeginZone
  <2>2. \A zone, a : IsPresent(zone, a)' <=> IsPresent(zone, a)
    BY <2>1 DEF IsPresent, Entries
  <2> QED
    BY <2>1, <2>2, FollowKept
<1>2. CASE LoadAsset
  <2>1. /\ UNCHANGED <<title, queue, zones>> /\ load # NoLoad
        /\ load' = [load EXCEPT !.linked = Append(load.linked, Linked(Read))]
    BY <1>2 DEF LoadAsset
  <2>2. /\ load \in [zone : ZoneNames, alloc : Flags, file : Disk, linked : Seq(Asset)]
    BY <2>1 DEF ZonesInv, ZoneRecords
  <2>3. load'.zone = load.zone /\ load'.alloc = load.alloc
    BY <2>1, <2>2
  <2>4. load' # NoLoad
    BY <2>2, <2>3, ZonesAssumption DEF NoLoad
  <2>5. \A zone, a : IsPresent(zone, a)' <=> IsPresent(zone, a)
    BY <2>1, <2>3, <2>4 DEF IsPresent, Entries
  <2> QED
    BY <2>1, <2>5, FollowKept
<1>3. CASE FinishZone
  <2> DEFINE new == [zone |-> load.zone, alloc |-> load.alloc, file |-> load.file, linked |-> load.linked,
                     delayed |-> IF DelayStart = Len(load.file.assets) + 1 THEN Inflated("delayed") ELSE "garbage"]
  <2>1. /\ UNCHANGED <<title, queue>> /\ load # NoLoad /\ load' = NoLoad
        /\ zones' = zones \cup {new}
    BY <1>3 DEF FinishZone
  <2>2. new.zone = load.zone /\ new.alloc = load.alloc
    OBVIOUS
  <2> HIDE DEF new
  <2>3. \A zone, a : IsPresent(zone, a)' <=> IsPresent(zone, a)
    BY <2>1, <2>2 DEF IsPresent, Entries
  <2> QED
    BY <2>1, <2>3, FollowKept
<1> QED
  BY <1>1, <1>2, <1>3

LEMMA AskForBatchFollows ==
  ASSUME ZonesInv, ZonesFollow, AskForBatch
  PROVE  ZonesFollow'
<1>1. PICK n \in DOMAIN Batches[title] : LoadXAssets(Batch(Batches[title][n]))
  BY DEF AskForBatch
<1> DEFINE b == Batches[title][n]
<1>2. title \in Titles /\ Idle
  BY DEF AskForBatch, ZonesInv, ZoneRecords
<1>3. b \in Entries(Batches[title]) /\ b \in Seq(AskedFor)
  BY <1>2, ZonesAssumption DEF Entries
<1>4. LoadXAssets(Batch(b))
  BY <1>1
<1> HIDE DEF b
<1>5. title' = title /\ load = NoLoad /\ load' = NoLoad /\ queue = <<>>
  BY <1>2, <1>4 DEF LoadXAssets, Idle
<1> SUFFICES ASSUME title = "iw4"
             PROVE  ZonesFollow'
  BY <1>5 DEF ZonesFollow
<1> DEFINE interface == Added(b, "ui_mp", "codxe_ui_mp")
           patch == Added(b, "patch_mp", "codxe_patch_mp")
           asked == Entries(b) \cup Entries(interface) \cup Entries(patch)
<1>6. "iw4" \in Titles /\ b \in Entries(Batches["iw4"])
  BY <1>2, <1>3
<1>7. Batch(b) = WithPluginZones(b)
  BY DEF Batch
<1>8. /\ Entries(queue') = asked /\ zones' = {z \in zones : z.alloc \notin Freed(b)}
      /\ Entries(queue) = {}
  <2>1. queue' = WithPluginZones(b) /\ zones' = {z \in zones : z.alloc \notin Freed(WithPluginZones(b))}
    BY <1>4, <1>7 DEF LoadXAssets
  <2>2. Entries(WithPluginZones(b)) = asked /\ Freed(WithPluginZones(b)) = Freed(b)
    BY <1>6, PluginBatchFacts
  <2>3. Entries(queue) = {}
    BY <1>5 DEF Entries
  <2>4. Entries(queue') = Entries(WithPluginZones(b))
    BY <2>1
  <2> HIDE DEF asked
  <2> QED
    BY <2>1, <2>2, <2>3, <2>4
<1>9. /\ \A z \in Entries(interface) : z.zone = "codxe_ui_mp"
      /\ \A a : Asks(interface, "codxe_ui_mp", a) <=> Asks(b, "ui_mp", a) /\ On("codxe", "codxe_ui_mp") # {}
  <2>1. "ui_mp" \in Amended /\ "codxe_ui_mp" \in ZoneNames
    BY ZonesAssumption DEF Amended
  <2>2. \A z \in Entries(Added(b, "ui_mp", "codxe_ui_mp")) : z.zone = "codxe_ui_mp"
    BY <1>6, <2>1, AddedFacts
  <2>3. \A a : Asks(Added(b, "ui_mp", "codxe_ui_mp"), "codxe_ui_mp", a) <=> Asks(b, "ui_mp", a) /\ On("codxe", "codxe_ui_mp") # {}
    BY <1>6, <2>1, AddedFacts
  <2> QED
    BY <2>2, <2>3
<1>10. /\ \A z \in Entries(patch) : z.zone = "codxe_patch_mp"
       /\ \A a : Asks(patch, "codxe_patch_mp", a) <=> Asks(b, "patch_mp", a) /\ On("codxe", "codxe_patch_mp") # {}
  <2>1. "patch_mp" \in Amended /\ "codxe_patch_mp" \in ZoneNames
    BY ZonesAssumption DEF Amended
  <2>2. \A z \in Entries(Added(b, "patch_mp", "codxe_patch_mp")) : z.zone = "codxe_patch_mp"
    BY <1>6, <2>1, AddedFacts
  <2>3. \A a : Asks(Added(b, "patch_mp", "codxe_patch_mp"), "codxe_patch_mp", a) <=> Asks(b, "patch_mp", a) /\ On("codxe", "codxe_patch_mp") # {}
    BY <1>6, <2>1, AddedFacts
  <2> QED
    BY <2>2, <2>3
<1> HIDE DEF interface, patch
<1>11. /\ \A z \in Entries(b) : z.zone \notin PluginZones
       /\ \A f \in Disk : f.zone \in Names(b) \cup PluginZones => f.version = 1
  BY <1>6, AmendedAssumption DEF Names
<1>12. \A zone, a : IsPresent(zone, a)' <=>
         \/ IsPresent(zone, a) /\ a \notin Freed(b)
         \/ \E z \in asked : z.zone = zone /\ z.alloc = a
  BY <1>5, <1>8 DEF IsPresent
<1>13. Follows("codxe_ui_mp", "ui_mp")'
  <2>1. \A a : (\E z \in asked : z.zone = "codxe_ui_mp" /\ z.alloc = a) <=> Asks(interface, "codxe_ui_mp", a)
    BY <1>10, <1>11 DEF PluginZones, Asks
  <2>2. \A a : (\E z \in asked : z.zone = "ui_mp" /\ z.alloc = a) <=> Asks(b, "ui_mp", a)
    BY <1>9, <1>10 DEF Asks
  <2> HIDE DEF asked
  <2> QED
    BY <1>9, <1>12, <2>1, <2>2 DEF ZonesFollow, Follows
<1>14. Follows("codxe_patch_mp", "patch_mp")'
  <2>1. \A a : (\E z \in asked : z.zone = "codxe_patch_mp" /\ z.alloc = a) <=> Asks(patch, "codxe_patch_mp", a)
    BY <1>9, <1>11 DEF PluginZones, Asks
  <2>2. \A a : (\E z \in asked : z.zone = "patch_mp" /\ z.alloc = a) <=> Asks(b, "patch_mp", a)
    BY <1>9, <1>10 DEF Asks
  <2> HIDE DEF asked
  <2> QED
    BY <1>10, <1>12, <2>1, <2>2 DEF ZonesFollow, Follows
<1>15. \A f \in Disk, a \in Flags : IsPresent(f.zone, a)' => f.version = 1
  <2>1. \A z \in asked : z.zone \in Names(b) \cup PluginZones
    BY <1>9, <1>10 DEF Names, PluginZones
  <2> HIDE DEF asked
  <2> QED
    BY <1>11, <1>12, <2>1 DEF ZonesFollow
<1> QED
  BY <1>5, <1>13, <1>14, <1>15 DEF ZonesFollow

(* The zones that the plugin adds in iw4 are loaded when the game's own are *)
(* and freed with them, never left behind or without them.                 *)
THEOREM PluginZonesFollow == ZoneSpec => []PluginZonesFollowStock
<1>1. ZoneInit => ZonesFollow
  <2> SUFFICES ASSUME ZoneInit
               PROVE  ZonesFollow
    OBVIOUS
  <2>1. load = NoLoad /\ zones = {} /\ Entries(queue) = {}
    BY DEF ZoneInit, Entries
  <2>2. \A zone, a : ~IsPresent(zone, a)
    BY <2>1 DEF IsPresent
  <2> QED
    BY <2>2 DEF ZonesFollow, Follows
<1>2. ASSUME ZonesInv, ZonesFollow, [ZoneNext]_zoneVars
      PROVE  ZonesFollow'
  <2>1. CASE UNCHANGED zoneVars
    <3>1. UNCHANGED <<title, queue, zones, load>>
      BY <2>1 DEF zoneVars
    <3>2. \A zone, a : IsPresent(zone, a)' <=> IsPresent(zone, a)
      BY <3>1 DEF IsPresent, Entries
    <3> QED
      BY <1>2, <3>1, <3>2, FollowKept
  <2>2. ASSUME NEW m, RunMod(m)
        PROVE  ZonesFollow'
    BY <2>2 DEF RunMod, LoadXAssets, ZonesFollow
  <2>3. CASE ZoneNext
    BY <1>2, <2>2, <2>3, AskForBatchFollows, OpenZoneFollows, DropZoneFollows, LoadFollows DEF ZoneNext
  <2> QED
    BY <1>2, <2>1, <2>3
<1>3. ASSUME ZonesInv, ZonesFollow
      PROVE  PluginZonesFollowStock
  <2> SUFFICES ASSUME title = "iw4", Idle
               PROVE  /\ With("codxe_ui_mp") <=> (With("ui_mp") /\ On("codxe", "codxe_ui_mp") # {})
                      /\ With("codxe_patch_mp") <=> (With("patch_mp") /\ On("codxe", "codxe_patch_mp") # {})
    BY DEF PluginZonesFollowStock
  <2>1. Entries(queue) = {} /\ load = NoLoad
    BY DEF Idle, Entries
  <2>2. \A z \in zones : z.alloc \in Flags
    BY <1>3 DEF ZonesInv, ZoneRecords
  <2>3. \A zone : With(zone) <=> \E a \in Flags : IsPresent(zone, a)
    BY <2>1, <2>2 DEF With, IsPresent
  <2> QED
    BY <1>3, <2>3 DEF ZonesFollow, Follows
<1>4. ZonesInv /\ ZonesFollow /\ [ZoneNext]_zoneVars => ZonesFollow'
  BY <1>2
<1>5. ZonesInv /\ ZonesFollow => PluginZonesFollowStock
  BY <1>3
<1> QED
  BY <1>1, <1>4, <1>5, ZonesInvIsInvariant, PTL DEF ZoneSpec

-----------------------------------------------------------------------------
(* Scripts and entities, for any titles, mods, files and sizes of scripts  *)
(* (ArenaAssumption, GamesAssumption).                                     *)

(* Only the title that runs has a directory, a mod and compiled scripts.   *)
TitleState ==
  /\ game = "none" => config = Defaults
  /\ game # "none" => mounted = game /\ ActiveMod = chosen
  /\ game # "iw5" => registry = <<>> /\ arena = 0 /\ used = 0

(* What was given is of its source; entities are loaded by some titles.    *)
GivenOfTitle ==
  /\ DOMAIN given = Scripts /\ FromActiveMod
  /\ game = "iw5" => \A s \in Scripts : given[s] \notin {Unknown, Stock(s)} => NotDefault(s)
  /\ mapEnts # Unknown => game \in {"t4", "t4sp", "iw4sp", "iw3sp"}
  /\ EntsFromActiveMod

(* Parts that lie one after the other between two marks.                   *)
Stacked(parts, low, high) ==
  /\ parts \in Seq(Nat \X Nat)
  /\ \A k \in DOMAIN parts : low <= parts[k][1] /\ parts[k][1] <= parts[k][2] /\ parts[k][2] <= high
  /\ \A j, k \in DOMAIN parts : j < k => parts[j][2] <= parts[k][1]

(* Compiled scripts lie one after the other below the mark of the arena,   *)
(* which is in the script memory of this session.                          *)
LoadedScript ==
  [script : Scripts, file : [game : {game}, mod : {chosen}, script : Scripts], arena : {scriptMemory},
   parts : Seq(Nat \X Nat)]
RegistryRecords ==
  /\ used \in Nat /\ used <= ArenaSize /\ scriptMemory \in {1, 2} /\ arena \in {0, scriptMemory}
  /\ registry \in Seq(LoadedScript)
  /\ \A i \in DOMAIN registry : registry[i].file = [game |-> game, mod |-> chosen, script |-> registry[i].script]
RegistryStacked ==
  /\ \A i \in DOMAIN registry : Stacked(registry[i].parts, 0, used) /\ Len(registry[i].parts) = 4
  /\ \A i, j \in DOMAIN registry : i < j =>
       \A k, l \in 1..4 : registry[i].parts[k][2] <= registry[j].parts[l][1]

SourcesInv == TitleState /\ GivenOfTitle /\ RegistryRecords /\ RegistryStacked

LEMMA ElementOf ==
  ASSUME NEW S, NEW s \in Seq(S), NEW n \in 1..Len(s)
  PROVE  s[n] \in S
OBVIOUS

LEMMA FourParts ==
  ASSUME NEW parts, NEW low, NEW high, Stacked(parts, low, high), Len(parts) = 4, NEW k \in 1..4
  PROVE  /\ parts[k][1] \in Nat /\ parts[k][2] \in Nat
         /\ low <= parts[k][1] /\ parts[k][2] <= high
         /\ \A l \in 1..4 : k < l => parts[k][2] <= parts[l][1]
<1>1. parts \in Seq(Nat \X Nat) /\ DOMAIN parts = 1..4
  BY DEF Stacked
<1>2. parts[k] \in Nat \X Nat
  BY <1>1, ElementOf
<1>3. parts[k][1] \in Nat /\ parts[k][2] \in Nat
  BY <1>2
<1> QED
  BY <1>1, <1>3 DEF Stacked

(* The arena is given out upwards.                                         *)
LEMMA AlignedUp ==
  ASSUME NEW n \in Nat, NEW to \in Nat \ {0}
  PROVE  AlignUp(n, to) \in Nat /\ AlignUp(n, to) >= n
<1> DEFINE m == n + to - 1
<1>1. m \in Nat /\ m - to + 1 = n
  OBVIOUS
<1>2. m % to \in 0..to - 1
  BY <1>1
<1> HIDE DEF m
<1>3. m - (m % to) >= n /\ m - (m % to) \in Nat
  BY <1>1, <1>2
<1> QED
  BY <1>3 DEF AlignUp, m

Marks(marks, low) ==
  /\ marks.used \in Nat /\ low <= marks.used /\ marks.used <= ArenaSize
  /\ marks = [used |-> marks.used, fits |-> marks.fits, parts |-> marks.parts]
  /\ Stacked(marks.parts, low, marks.used)

LEMMA AllocateFacts ==
  ASSUME NEW low \in Nat, NEW marks, Marks(marks, low), marks.fits \in BOOLEAN,
         NEW size \in Nat, NEW to \in Nat \ {0}
  PROVE  /\ Marks(Allocate(marks, [size |-> size, to |-> to]), low)
         /\ Allocate(marks, [size |-> size, to |-> to]).fits \in BOOLEAN
         /\ Allocate(marks, [size |-> size, to |-> to]).fits =>
              marks.fits /\ Len(Allocate(marks, [size |-> size, to |-> to]).parts) = Len(marks.parts) + 1
<1> DEFINE at == AlignUp(marks.used, to)
           next == Allocate(marks, [size |-> size, to |-> to])
           new == <<at, at + size>>
<1>1. at \in Nat /\ at >= marks.used
  BY AlignedUp DEF Marks
<1>2. ArenaSize \in Nat
  BY ArenaAssumption
<1> HIDE DEF at
<1>3. next = IF at > ArenaSize \/ size > ArenaSize - at
             THEN [marks EXCEPT !.fits = FALSE]
             ELSE [used |-> at + size, fits |-> marks.fits, parts |-> Append(marks.parts, new)]
  BY DEF Allocate, at
<1>4. CASE at > ArenaSize \/ size > ArenaSize - at
  <2>1. next = [used |-> marks.used, fits |-> FALSE, parts |-> marks.parts]
    BY <1>3, <1>4 DEF Marks
  <2> HIDE DEF next
  <2>2. next.used = marks.used /\ next.fits = FALSE /\ next.parts = marks.parts
    BY <2>1
  <2>3. Marks(next, low)
    BY <2>1, <2>2 DEF Marks
  <2> QED
    BY <2>2, <2>3 DEF next
<1>5. CASE ~(at > ArenaSize \/ size > ArenaSize - at)
  <2>1. next = [used |-> at + size, fits |-> marks.fits, parts |-> Append(marks.parts, new)]
    BY <1>3, <1>5
  <2>2. at + size \in Nat /\ at + size <= ArenaSize /\ low <= at + size /\ low <= at
    BY <1>1, <1>2, <1>5 DEF Marks
  <2>3. new \in Nat \X Nat /\ new[1] = at /\ new[2] = at + size
    BY <1>1, <2>2
  <2>4. /\ marks.parts \in Seq(Nat \X Nat)
        /\ \A k \in DOMAIN marks.parts : /\ low <= marks.parts[k][1] /\ marks.parts[k][1] <= marks.parts[k][2]
                                        /\ marks.parts[k][2] <= marks.used
        /\ \A j, k \in DOMAIN marks.parts : j < k => marks.parts[j][2] <= marks.parts[k][1]
        /\ marks.used \in Nat
    BY DEF Marks, Stacked
  <2> HIDE DEF new, next
  <2> DEFINE Part == Nat \X Nat
             parts == marks.parts
             grown == Append(parts, new)
             last == Len(parts) + 1
  <2>5. /\ grown \in Seq(Nat \X Nat) /\ Len(grown) = last /\ DOMAIN grown = DOMAIN marks.parts \cup {last}
        /\ grown[last] = new /\ \A k \in DOMAIN marks.parts : grown[k] = marks.parts[k] /\ k < last
    <3>1. parts \in Seq(Part) /\ new \in Part
      BY <2>3, <2>4
    <3> HIDE DEF Part, parts
    <3>2. /\ grown \in Seq(Part) /\ Len(grown) = last /\ DOMAIN grown = DOMAIN parts \cup {last}
          /\ grown[last] = new /\ \A k \in DOMAIN parts : grown[k] = parts[k] /\ k < last
      BY <3>1
    <3> QED
      BY <3>2 DEF Part, parts
  <2> HIDE DEF grown, last
  <2>6. \A k \in DOMAIN grown : low <= grown[k][1] /\ grown[k][1] <= grown[k][2] /\ grown[k][2] <= at + size
    <3>1. ASSUME NEW k \in DOMAIN marks.parts
          PROVE  low <= grown[k][1] /\ grown[k][1] <= grown[k][2] /\ grown[k][2] <= at + size
      <4>1. marks.parts[k] \in Nat \X Nat
        BY <2>4
      <4>2. marks.parts[k][1] \in Nat /\ marks.parts[k][2] \in Nat
        BY <4>1
      <4>3. /\ low <= marks.parts[k][1] /\ marks.parts[k][1] <= marks.parts[k][2]
            /\ marks.parts[k][2] <= marks.used /\ marks.used \in Nat
        BY <2>4
      <4>4. marks.parts[k][2] <= at + size
        BY <1>1, <4>2, <4>3
      <4> QED
        BY <2>5, <4>3, <4>4
    <3> QED
      BY <1>1, <2>2, <2>3, <2>5, <3>1
  <2>7. \A j, k \in DOMAIN grown : j < k => grown[j][2] <= grown[k][1]
    <3> SUFFICES ASSUME NEW j \in DOMAIN grown, NEW k \in DOMAIN grown, j < k
                 PROVE  grown[j][2] <= grown[k][1]
      OBVIOUS
    <3>1. j \in DOMAIN marks.parts
      BY <2>4, <2>5 DEF last
    <3>2. CASE k \in DOMAIN marks.parts
      BY <2>4, <2>5, <3>1, <3>2
    <3>3. CASE k = last
      <4>1. marks.parts[j] \in Nat \X Nat
        BY <2>4, <3>1
      <4>2. marks.parts[j][2] \in Nat /\ marks.parts[j][2] <= marks.used
        BY <2>4, <3>1, <4>1
      <4>3. marks.parts[j][2] <= at
        BY <1>1, <2>4, <4>2
      <4> QED
        BY <2>3, <2>5, <3>1, <3>3, <4>3
    <3> QED
      BY <2>5, <3>2, <3>3
  <2>8. Stacked(grown, low, at + size)
    BY <2>5, <2>6, <2>7 DEF Stacked
  <2>9. next.used = at + size /\ next.fits = marks.fits /\ next.parts = grown
    BY <2>1 DEF grown
  <2>10. Marks(next, low)
    BY <2>1, <2>2, <2>8, <2>9 DEF Marks
  <2> QED
    BY <2>5, <2>9, <2>10 DEF next, last
<1> QED
  BY <1>4, <1>5

(* The four parts of a script lie above all that was given out before.     *)
LEMMA AllocatedFacts ==
  ASSUME used \in Nat, used <= ArenaSize, NEW s \in Scripts
  PROVE  /\ Marks(Allocated(s), used)
         /\ Allocated(s).fits => Len(Allocated(s).parts) = 4
<1> DEFINE none == [used |-> used, fits |-> TRUE, parts |-> <<>>]
           script == Allocate(none, [size |-> Alignment, to |-> Alignment])
           name == Allocate(script, [size |-> Size[s].name, to |-> 1])
           text == Allocate(name, [size |-> Size[s].text, to |-> 1])
           code == Allocate(text, [size |-> Size[s].code, to |-> Alignment])
<1>1. /\ Alignment \in Nat /\ Alignment \in Nat \ {0} /\ 1 \in Nat \ {0}
      /\ Size[s].name \in Nat /\ Size[s].text \in Nat /\ Size[s].code \in Nat
  BY ArenaAssumption
<1>2. Marks(none, used) /\ none.fits \in BOOLEAN /\ Len(none.parts) = 0
  <2>1. <<>> \in Seq(Nat \X Nat)
    OBVIOUS
  <2>2. Stacked(<<>>, used, used)
    BY <2>1 DEF Stacked
  <2>3. none.used = used /\ none.fits = TRUE /\ none.parts = <<>>
    OBVIOUS
  <2>4. none = [used |-> none.used, fits |-> none.fits, parts |-> none.parts]
    OBVIOUS
  <2> HIDE DEF none
  <2>5. Stacked(none.parts, used, none.used)
    BY <2>2, <2>3
  <2>6. none.used \in Nat /\ used <= none.used /\ none.used <= ArenaSize
    BY <2>3
  <2>7. none.fits \in BOOLEAN /\ Len(none.parts) = 0
    BY <2>3
  <2> QED
    BY <2>4, <2>5, <2>6, <2>7 DEF Marks
<1>3. Allocated(s) = code
  BY DEF Allocated, Requests
<1> HIDE DEF none
<1>4. /\ Marks(script, used) /\ script.fits \in BOOLEAN
      /\ script.fits => Len(script.parts) = 1
  <2>1. Marks(script, used) /\ script.fits \in BOOLEAN /\ (script.fits => none.fits /\ Len(script.parts) = Len(none.parts) + 1)
    BY <1>1, <1>2, AllocateFacts
  <2> QED
    BY <1>1, <1>2, <2>1
<1> HIDE DEF script
<1>5. /\ Marks(name, used) /\ name.fits \in BOOLEAN
      /\ name.fits => Len(name.parts) = 2
  <2>1. Marks(name, used) /\ name.fits \in BOOLEAN /\ (name.fits => script.fits /\ Len(name.parts) = Len(script.parts) + 1)
    BY <1>1, <1>4, AllocateFacts
  <2> HIDE DEF name
  <2>2. name.fits => Len(name.parts) = Len(script.parts) + 1 /\ Len(script.parts) = 1
    BY <1>4, <2>1, Zenon
  <2>3. Len(script.parts) = 1 /\ Len(name.parts) = Len(script.parts) + 1 => Len(name.parts) = 2
    OBVIOUS
  <2> QED
    BY <2>1, <2>2, <2>3, Zenon
<1> HIDE DEF name
<1>6. /\ Marks(text, used) /\ text.fits \in BOOLEAN
      /\ text.fits => Len(text.parts) = 3
  <2>1. Marks(text, used) /\ text.fits \in BOOLEAN /\ (text.fits => name.fits /\ Len(text.parts) = Len(name.parts) + 1)
    BY <1>1, <1>5, AllocateFacts
  <2> HIDE DEF text
  <2>2. text.fits => Len(text.parts) = Len(name.parts) + 1 /\ Len(name.parts) = 2
    BY <1>5, <2>1, Zenon
  <2>3. Len(name.parts) = 2 /\ Len(text.parts) = Len(name.parts) + 1 => Len(text.parts) = 3
    OBVIOUS
  <2> QED
    BY <2>1, <2>2, <2>3, Zenon
<1> HIDE DEF text
<1>7. /\ Marks(code, used) /\ code.fits \in BOOLEAN
      /\ code.fits => Len(code.parts) = 4
  <2>1. Marks(code, used) /\ code.fits \in BOOLEAN /\ (code.fits => text.fits /\ Len(code.parts) = Len(text.parts) + 1)
    BY <1>1, <1>6, AllocateFacts
  <2> HIDE DEF code
  <2>2. code.fits => Len(code.parts) = Len(text.parts) + 1 /\ Len(text.parts) = 3
    BY <1>6, <2>1, Zenon
  <2>3. Len(text.parts) = 3 /\ Len(code.parts) = Len(text.parts) + 1 => Len(code.parts) = 4
    OBVIOUS
  <2> QED
    BY <2>1, <2>2, <2>3, Zenon
<1> QED
  BY <1>3, <1>7

-----------------------------------------------------------------------------
(* Every step keeps the invariant. *)

LEMMA EmptyRegistry ==
  ASSUME registry' = <<>>, arena' = 0, used' = 0, scriptMemory' \in {1, 2}
  PROVE  RegistryRecords' /\ RegistryStacked'
BY ArenaAssumption DEF RegistryRecords, RegistryStacked

LEMMA SameRegistry ==
  ASSUME RegistryRecords, RegistryStacked, UNCHANGED <<game, chosen, registry, arena, used, scriptMemory>>
  PROVE  RegistryRecords' /\ RegistryStacked'
BY DEF RegistryRecords, RegistryStacked, Stacked, LoadedScript

(* A script that is given is the game's own or of the active mod.          *)
LEMMA GiveFacts ==
  ASSUME FromActiveMod, DOMAIN given = Scripts, NEW s \in Scripts, NEW STATE text,
         text \in {Stock(s), [game |-> game, mod |-> chosen, script |-> s]},
         Give(s, text), UNCHANGED <<game, chosen>>
  PROVE  /\ DOMAIN given' = Scripts /\ FromActiveMod'
         /\ given'[s] = text /\ \A other \in Scripts : other # s => given'[other] = given[other]
<1>1. /\ DOMAIN given' = Scripts /\ given'[s] = text
      /\ \A other \in Scripts : other # s => given'[other] = given[other]
  BY DEF Give
<1>2. ASSUME NEW other \in Scripts
      PROVE  given'[other] \in {Unknown, Stock(other), [game |-> game, mod |-> chosen, script |-> other]}
  BY <1>1 DEF FromActiveMod
<1>3. FromActiveMod'
  BY <1>2 DEF FromActiveMod, Stock
<1> QED
  BY <1>1, <1>3

(* Entities that stay what they were.                                      *)
LEMMA SameEnts ==
  ASSUME GivenOfTitle, UNCHANGED <<game, chosen, mapEnts, dumped>>
  PROVE  EntsFromActiveMod' /\ (mapEnts' # Unknown => game' \in {"t4", "t4sp", "iw4sp", "iw3sp"})
BY DEF GivenOfTitle, EntsFromActiveMod, Stock

LEMMA LaunchGameKeeps ==
  ASSUME SourcesInv, NEW g \in Games, LaunchGame(g)
  PROVE  SourcesInv'
<1>1. g # "none"
  BY GamesAssumption
<1>2. /\ game = "none" /\ game' = g /\ mounted' = g /\ listed' = NoMod
      /\ given' = [s \in Scripts |-> Unknown] /\ mapEnts' = Unknown
      /\ UNCHANGED <<registry, arena, used, scriptMemory, dumped>>
  BY DEF LaunchGame
<1>3. PICK file \in ConfigFiles :
        /\ config' = [mod |-> IF file.mod = Unsaid THEN config.mod ELSE file.mod, dump |-> file.dump,
                      dumpEnts |-> file.dumpEnts]
        /\ chosen' = IF g = "iw3" \/ file.mod = Unsaid THEN NoMod ELSE file.mod
  BY DEF LaunchGame
<1>4. config = Defaults /\ registry = <<>> /\ arena = 0 /\ used = 0
  BY <1>2 DEF SourcesInv, TitleState
<1>5. TitleState'
  <2>1. config'.mod = IF file.mod = Unsaid THEN NoMod ELSE file.mod
    BY <1>3, <1>4 DEF Defaults
  <2>2. ActiveMod' = chosen'
    BY <1>2, <1>3, <2>1 DEF ActiveMod
  <2> QED
    BY <1>1, <1>2, <1>4, <2>2 DEF TitleState
<1>6. GivenOfTitle'
  <2>1. FromActiveMod' /\ DOMAIN given' = Scripts
    BY <1>2 DEF FromActiveMod
  <2>2. \A s \in Scripts : given'[s] = Unknown
    BY <1>2
  <2>3. EntsFromActiveMod'
    BY <1>2 DEF SourcesInv, GivenOfTitle, EntsFromActiveMod
  <2> QED
    BY <1>2, <2>1, <2>2, <2>3 DEF GivenOfTitle
<1>7. RegistryRecords' /\ RegistryStacked'
  BY <1>2, <1>4, EmptyRegistry DEF SourcesInv, RegistryRecords
<1> QED
  BY <1>5, <1>6, <1>7 DEF SourcesInv

LEMMA LaunchUnmountedKeeps ==
  ASSUME SourcesInv, NEW g, LaunchUnmounted(g)
  PROVE  SourcesInv'
<1>1. /\ game = "none"
      /\ UNCHANGED <<game, config, listed, given, registry, arena, used, chosen, scriptMemory, mapEnts, dumped>>
  BY DEF LaunchUnmounted, entsVars
<1>2. TitleState'
  BY <1>1 DEF SourcesInv, TitleState
<1>3. GivenOfTitle'
  BY <1>1, SameEnts DEF SourcesInv, GivenOfTitle, FromActiveMod, Stock
<1> QED
  BY <1>1, <1>2, <1>3, SameRegistry DEF SourcesInv

LEMMA ListModKeeps ==
  ASSUME SourcesInv, NEW m, ListMod(m)
  PROVE  SourcesInv'
<1>1. /\ game = "iw3" /\ (\A s \in Scripts : given[s] = Unknown) /\ listed' = m /\ chosen' = m
      /\ UNCHANGED <<game, mounted, config, given, registry, arena, used, scriptMemory, mapEnts, dumped>>
  BY DEF ListMod, entsVars
<1>2. TitleState'
  BY <1>1 DEF SourcesInv, TitleState, ActiveMod
<1>3. GivenOfTitle'
  <2>1. mapEnts = Unknown /\ DOMAIN given = Scripts /\ EntsFromActiveMod
    BY <1>1 DEF SourcesInv, GivenOfTitle
  <2>2. EntsFromActiveMod'
    BY <1>1, <2>1 DEF EntsFromActiveMod
  <2>3. FromActiveMod'
    BY <1>1 DEF FromActiveMod
  <2> QED
    BY <1>1, <2>1, <2>2, <2>3 DEF GivenOfTitle
<1>4. RegistryRecords' /\ RegistryStacked'
  BY <1>1, EmptyRegistry DEF SourcesInv, TitleState, RegistryRecords
<1> QED
  BY <1>2, <1>3, <1>4 DEF SourcesInv

LEMMA AddSourceBufferKeeps ==
  ASSUME SourcesInv, NEW s \in Scripts, AddSourceBuffer(s)
  PROVE  SourcesInv'
<1>1. /\ game \notin {"none", "iw5"}
      /\ UNCHANGED <<game, mounted, config, listed, registry, arena, used, chosen, scriptMemory, mapEnts, dumped>>
  BY DEF AddSourceBuffer, entsVars
<1>2. mounted = game /\ ActiveMod = chosen
  BY <1>1 DEF SourcesInv, TitleState
<1>3. PICK text \in {OverrideFile(s), Stock(s)} : Give(s, text)
  BY DEF AddSourceBuffer, ListedSourceOf, SourceOf, TryLoadOverride
<1>4. text \in {Stock(s), [game |-> game, mod |-> chosen, script |-> s]}
  BY <1>2 DEF OverrideFile
<1>5. DOMAIN given' = Scripts /\ FromActiveMod'
  BY <1>1, <1>3, <1>4, GiveFacts DEF SourcesInv, GivenOfTitle
<1>6. TitleState'
  BY <1>1 DEF SourcesInv, TitleState, ActiveMod
<1>7. GivenOfTitle'
  BY <1>1, <1>5, SameEnts DEF SourcesInv, GivenOfTitle
<1> QED
  BY <1>1, <1>6, <1>7, SameRegistry DEF SourcesInv

(* IW5 finds a script among those it has loaded, which are of its source.  *)
LEMMA FirstLoaded ==
  ASSUME RegistryRecords, NEW s \in Scripts, Loaded(s) # {}
  PROVE  (CHOOSE i \in Loaded(s) : \A j \in Loaded(s) : i <= j) \in Loaded(s)
<1>1. Loaded(s) \subseteq Nat
  BY DEF Loaded, RegistryRecords
<1> DEFINE C == Loaded(s)
<1>2. C # {} /\ C \subseteq Nat
  BY <1>1
<1> HIDE DEF C
<1>3. PICK i \in C : \A j \in C : ~(<<j, i>> \in OpToRel(<, Nat))
  BY <1>2, NatLessThanWellFounded, WFMin, Zenon
<1>4. ASSUME NEW j \in C PROVE i <= j
  <2>1. i \in Nat /\ j \in Nat
    BY <1>2
  <2>2. ~(<<j, i>> \in OpToRel(<, Nat))
    BY <1>3
  <2>3. ~(j < i)
    BY <2>1, <2>2, Zenon DEF OpToRel
  <2> QED
    BY <2>1, <2>3
<1>5. (CHOOSE n \in C : \A j \in C : n <= j) \in C
  BY <1>4
<1> QED
  BY <1>5 DEF C

LEMMA FindLoadedKeeps ==
  ASSUME SourcesInv, game = "iw5", NEW s \in Scripts, FindLoaded(s),
         UNCHANGED <<game, mounted, config, listed, chosen, scriptMemory, mapEnts, dumped>>
  PROVE  SourcesInv'
<1> DEFINE first == CHOOSE i \in Loaded(s) : \A j \in Loaded(s) : i <= j
<1>1. Loaded(s) # {} /\ Give(s, registry[first].file) /\ UNCHANGED <<registry, arena, used>>
  BY DEF FindLoaded
<1>2. first \in Loaded(s)
  BY <1>1, FirstLoaded DEF SourcesInv
<1> HIDE DEF first
<1>3. registry[first].file = [game |-> game, mod |-> chosen, script |-> s]
  BY <1>2 DEF SourcesInv, RegistryRecords, Loaded
<1>4. /\ DOMAIN given' = Scripts /\ FromActiveMod'
      /\ \A other \in Scripts : other # s => given'[other] = given[other]
  BY <1>1, <1>3, GiveFacts DEF SourcesInv, GivenOfTitle
<1>5. TitleState'
  BY <1>1 DEF SourcesInv, TitleState, ActiveMod
<1>6. GivenOfTitle'
  <2>1. \A other \in Scripts : given'[other] \notin {Unknown, Stock(other)} => NotDefault(other)
    BY <1>1, <1>4 DEF SourcesInv, GivenOfTitle, NotDefault
  <2>2. \A other \in Scripts : NotDefault(other)' = NotDefault(other) /\ Stock(other)' = Stock(other)
    BY <1>1 DEF NotDefault, Loaded, Stock
  <2> QED
    BY <1>4, <2>1, <2>2, SameEnts DEF SourcesInv, GivenOfTitle
<1> QED
  BY <1>1, <1>5, <1>6, SameRegistry DEF SourcesInv

(* A script that is given as the game's own, whether one of the mod fits    *)
(* the arena or not.                                                       *)
LEMMA StockKeeps ==
  ASSUME SourcesInv, game = "iw5", NEW s \in Scripts, Give(s, Stock(s)), arena' \in {0, scriptMemory},
         UNCHANGED <<game, mounted, config, listed, registry, used, chosen, scriptMemory, mapEnts, dumped>>
  PROVE  SourcesInv'
<1>1. /\ DOMAIN given' = Scripts /\ FromActiveMod' /\ given'[s] = Stock(s)
      /\ \A other \in Scripts : other # s => given'[other] = given[other]
  BY GiveFacts DEF SourcesInv, GivenOfTitle
<1>2. TitleState'
  BY DEF SourcesInv, TitleState, ActiveMod
<1>3. GivenOfTitle'
  <2>1. \A other \in Scripts : given'[other] \notin {Unknown, Stock(other)} => NotDefault(other)
    BY <1>1 DEF SourcesInv, GivenOfTitle
  <2>2. \A other \in Scripts : NotDefault(other)' = NotDefault(other) /\ Stock(other)' = Stock(other)
    BY DEF NotDefault, Loaded, Stock
  <2> QED
    BY <1>1, <2>1, <2>2, SameEnts DEF SourcesInv, GivenOfTitle
<1>4. RegistryRecords' /\ RegistryStacked'
  BY DEF SourcesInv, RegistryRecords, RegistryStacked, Stacked, LoadedScript
<1> QED
  BY <1>2, <1>3, <1>4 DEF SourcesInv

(* A script that is read whole is registered above the others.             *)
LEMMA RegisterKeeps ==
  ASSUME SourcesInv, game = "iw5", NEW s \in Scripts, Allocated(s).fits, arena' = scriptMemory,
         registry' = Append(registry, [script |-> s, file |-> OverrideFile(s), arena |-> arena',
                                       parts |-> Allocated(s).parts]),
         used' = Allocated(s).used, Give(s, OverrideFile(s)),
         UNCHANGED <<game, mounted, config, listed, chosen, scriptMemory, mapEnts, dumped>>
  PROVE  SourcesInv'
<1> DEFINE parts == Allocated(s).parts
           new == [script |-> s, file |-> OverrideFile(s), arena |-> arena', parts |-> parts]
           last == Len(registry) + 1
<1>1. /\ used \in Nat /\ used <= ArenaSize /\ registry \in Seq(LoadedScript)
      /\ scriptMemory \in {1, 2}
  BY DEF SourcesInv, RegistryRecords
<1>2. /\ Stacked(parts, used, used') /\ Len(parts) = 4
      /\ used' \in Nat /\ used <= used' /\ used' <= ArenaSize
  BY <1>1, AllocatedFacts DEF Marks
<1>3. OverrideFile(s) = [game |-> game, mod |-> chosen, script |-> s]
  BY DEF SourcesInv, TitleState, OverrideFile
<1>4. new.parts = parts /\ new.script = s /\ new.file = OverrideFile(s) /\ new.arena = scriptMemory
  OBVIOUS
<1>5. new \in LoadedScript
  BY <1>1, <1>2, <1>3 DEF Stacked, LoadedScript
<1>6. registry' = Append(registry, new)
  OBVIOUS
<1> HIDE DEF parts, new
<1>7. /\ registry' \in Seq(LoadedScript) /\ DOMAIN registry' = DOMAIN registry \cup {last}
      /\ registry'[last] = new /\ \A i \in DOMAIN registry : registry'[i] = registry[i] /\ i < last
  BY <1>1, <1>5, <1>6
<1>8. last \in Nat /\ DOMAIN registry \subseteq Nat
  BY <1>1
<1> HIDE DEF last
<1>9. TitleState'
  BY DEF SourcesInv, TitleState, ActiveMod
<1>10. GivenOfTitle'
  <2>1. /\ DOMAIN given' = Scripts /\ FromActiveMod'
        /\ \A other \in Scripts : other # s => given'[other] = given[other]
    BY <1>3, GiveFacts DEF SourcesInv, GivenOfTitle
  <2>2. \A other \in Scripts : NotDefault(other) => NotDefault(other)'
    <3> SUFFICES ASSUME NEW other \in Scripts, NEW i \in Loaded(other)
                 PROVE  NotDefault(other)'
      BY DEF NotDefault
    <3>1. i \in DOMAIN registry' /\ registry'[i].script = other
      BY <1>7 DEF Loaded
    <3> QED
      BY <3>1 DEF NotDefault, Loaded
  <2>3. NotDefault(s)'
    BY <1>4, <1>7 DEF NotDefault, Loaded
  <2>4. \A other \in Scripts : given'[other] \notin {Unknown, Stock(other)} => NotDefault(other)'
    BY <2>1, <2>2, <2>3 DEF SourcesInv, GivenOfTitle
  <2>5. \A other \in Scripts : Stock(other)' = Stock(other)
    BY DEF Stock
  <2> QED
    BY <2>1, <2>4, <2>5, SameEnts DEF SourcesInv, GivenOfTitle
<1>11. RegistryRecords'
  <2>1. \A i \in DOMAIN registry' : registry'[i].file = [game |-> game, mod |-> chosen, script |-> registry'[i].script]
    BY <1>3, <1>4, <1>7 DEF SourcesInv, RegistryRecords
  <2> QED
    <3>1. registry' \in Seq(LoadedScript)'
      <4>1. LoadedScript' = LoadedScript
        BY DEF LoadedScript
      <4> QED
        BY <1>7, <4>1
    <3>2. used' \in Nat /\ used' <= ArenaSize /\ scriptMemory' \in {1, 2} /\ arena' \in {0, scriptMemory'}
      BY <1>1, <1>2
    <3>3. \A i \in DOMAIN registry' :
            registry'[i].file = [game |-> game', mod |-> chosen', script |-> registry'[i].script]
      BY <2>1
    <3> QED
      BY <3>1, <3>2, <3>3 DEF RegistryRecords
<1>12. \A i \in DOMAIN registry, k \in 1..4 :
         registry[i].parts[k][2] \in Nat /\ registry[i].parts[k][2] <= used
  <2> SUFFICES ASSUME NEW i \in DOMAIN registry, NEW k \in 1..4
               PROVE  registry[i].parts[k][2] \in Nat /\ registry[i].parts[k][2] <= used
    OBVIOUS
  <2>1. Stacked(registry[i].parts, 0, used) /\ Len(registry[i].parts) = 4
    BY DEF SourcesInv, RegistryStacked
  <2> QED
    BY <2>1, FourParts
<1>13. \A l \in 1..4 : parts[l][1] \in Nat /\ used <= parts[l][1]
  BY <1>2, FourParts
<1>14. RegistryStacked'
  <2>1. ASSUME NEW i \in DOMAIN registry'
        PROVE  Stacked(registry'[i].parts, 0, used') /\ Len(registry'[i].parts) = 4
    <3>1. CASE i \in DOMAIN registry
      <4>1. Stacked(registry[i].parts, 0, used) /\ Len(registry[i].parts) = 4
        BY <3>1 DEF SourcesInv, RegistryStacked
      <4>3. registry[i].parts \in Seq(Nat \X Nat) /\ DOMAIN registry[i].parts = 1..4
        BY <4>1 DEF Stacked
      <4>2. \A k \in 1..4 : registry[i].parts[k][2] <= used'
        <5> SUFFICES ASSUME NEW k \in 1..4
                     PROVE  registry[i].parts[k][2] <= used'
          OBVIOUS
        <5>1. registry[i].parts[k][2] \in Nat /\ registry[i].parts[k][2] <= used
          BY <1>12, <3>1
        <5> QED
          BY <1>1, <1>2, <5>1
      <4> QED
        BY <1>7, <3>1, <4>1, <4>2, <4>3 DEF Stacked
    <3>2. CASE i = last
      <4>1. \A k \in 1..4 : 0 <= parts[k][1]
        BY <1>13
      <4>2. DOMAIN parts = 1..4
        BY <1>2 DEF Stacked
      <4>3. Stacked(parts, 0, used')
        BY <1>2, <4>1, <4>2 DEF Stacked
      <4> QED
        BY <1>2, <1>4, <1>7, <3>2, <4>3
    <3> QED
      BY <1>7, <3>1, <3>2
  <2>2. ASSUME NEW i \in DOMAIN registry', NEW j \in DOMAIN registry', i < j, NEW k \in 1..4, NEW l \in 1..4
        PROVE  registry'[i].parts[k][2] <= registry'[j].parts[l][1]
    <3>1. i \in DOMAIN registry
      BY <1>7, <1>8, <2>2
    <3>2. CASE j \in DOMAIN registry
      BY <1>7, <2>2, <3>1, <3>2 DEF SourcesInv, RegistryStacked
    <3>3. CASE j = last
      <4>1. registry[i].parts[k][2] <= parts[l][1]
        <5>1. registry[i].parts[k][2] \in Nat /\ registry[i].parts[k][2] <= used
          BY <1>12, <3>1
        <5>2. parts[l][1] \in Nat /\ used <= parts[l][1]
          BY <1>13
        <5>3. used \in Nat /\ \A a, b, u \in Nat : a <= u /\ u <= b => a <= b
          BY <1>1
        <5> QED
          BY <5>1, <5>2, <5>3, Zenon
      <4> QED
        BY <1>4, <1>7, <3>1, <3>3, <4>1
    <3> QED
      BY <1>7, <3>2, <3>3
  <2> QED
    BY <2>1, <2>2 DEF RegistryStacked, Stacked
<1> QED
  BY <1>9, <1>10, <1>11, <1>14 DEF SourcesInv

LEMMA FindXAssetHeaderKeeps ==
  ASSUME SourcesInv, NEW s \in Scripts, FindXAssetHeader(s)
  PROVE  SourcesInv'
<1>1. game = "iw5" /\ UNCHANGED <<game, mounted, config, listed, chosen, scriptMemory, mapEnts, dumped>>
  BY DEF FindXAssetHeader, entsVars
<1>2. arena \in {0, scriptMemory}
  BY DEF SourcesInv, RegistryRecords
<1>3. CASE FindLoaded(s)
  BY <1>1, <1>3, FindLoadedKeeps
<1>4. CASE FindStock(s)
  BY <1>1, <1>2, <1>4, StockKeeps DEF FindStock
<1>5. CASE LoadBin(s)
  <2>1. arena' \in {0, scriptMemory}
    BY <1>2, <1>5 DEF LoadBin
  <2>2. \/ /\ Allocated(s).fits /\ arena' # 0
           /\ registry' = Append(registry, [script |-> s, file |-> OverrideFile(s), arena |-> arena',
                                            parts |-> Allocated(s).parts])
           /\ used' = Allocated(s).used
           /\ Give(s, OverrideFile(s))
        \/ Give(s, Stock(s)) /\ UNCHANGED <<registry, used>>
    BY <1>5 DEF LoadBin
  <2>3. CASE Give(s, Stock(s)) /\ UNCHANGED <<registry, used>>
    BY <1>1, <2>1, <2>3, StockKeeps
  <2>4. CASE ~(Give(s, Stock(s)) /\ UNCHANGED <<registry, used>>)
    BY <1>1, <2>1, <2>2, <2>4, RegisterKeeps
  <2> QED
    BY <2>3, <2>4
<1> QED
  BY <1>3, <1>4, <1>5 DEF FindXAssetHeader

LEMMA ShutdownGameKeeps ==
  ASSUME SourcesInv, NEW freeScripts \in BOOLEAN, ShutdownGame(freeScripts)
  PROVE  SourcesInv'
<1>1. /\ game # "none" /\ mapEnts' = Unknown
      /\ UNCHANGED <<game, mounted, config, listed, chosen, dumped>>
  BY DEF ShutdownGame
<1>2. EntsFromActiveMod'
  BY <1>1 DEF SourcesInv, GivenOfTitle, EntsFromActiveMod
<1>3. CASE freeScripts
  <2>1. /\ scriptMemory' = 3 - scriptMemory /\ given' = [s \in Scripts |-> Unknown]
        /\ IF game = "iw5" THEN ResetLoadedScripts ELSE UNCHANGED <<registry, arena, used>>
    BY <1>3 DEF ShutdownGame
  <2>2. registry' = <<>> /\ arena' = 0 /\ used' = 0
    BY <2>1 DEF ResetLoadedScripts, SourcesInv, TitleState
  <2>3. scriptMemory' \in {1, 2}
    BY <2>1 DEF SourcesInv, RegistryRecords
  <2>4. TitleState'
    BY <1>1, <2>2 DEF SourcesInv, TitleState, ActiveMod
  <2>5. GivenOfTitle'
    <3>1. DOMAIN given' = Scripts /\ \A s \in Scripts : given'[s] = Unknown
      BY <2>1
    <3>2. FromActiveMod'
      BY <3>1 DEF FromActiveMod
    <3> QED
      BY <1>1, <1>2, <3>1, <3>2 DEF GivenOfTitle
  <2> QED
    BY <2>2, <2>3, <2>4, <2>5, EmptyRegistry DEF SourcesInv
<1>4. CASE ~freeScripts
  <2>1. UNCHANGED <<scriptMemory, given, registry, arena, used>>
    BY <1>4 DEF ShutdownGame
  <2>2. TitleState'
    BY <1>1, <2>1 DEF SourcesInv, TitleState, ActiveMod
  <2>3. GivenOfTitle'
    BY <1>1, <1>2, <2>1 DEF SourcesInv, GivenOfTitle, FromActiveMod, Stock, NotDefault, Loaded
  <2> QED
    BY <1>1, <2>1, <2>2, <2>3, SameRegistry DEF SourcesInv
<1> QED
  BY <1>3, <1>4

LEMMA LoadMapEntsKeeps ==
  ASSUME SourcesInv, LoadMapEnts
  PROVE  SourcesInv'
<1>1. UNCHANGED <<game, mounted, config, listed, given, registry, arena, used, chosen, scriptMemory>>
  BY DEF LoadMapEnts
<1>2. /\ game \in {"t4", "t4sp", "iw4sp", "iw3sp"}
      /\ dumped' \in {Stock(Ents), dumped}
      /\ \/ game # "iw3sp" /\ mapEnts' \in {OverrideFile(Ents), Stock(Ents)}
         \/ game = "iw3sp" /\ mapEnts' \in {RawEnts, Stock(Ents)}
  BY DEF LoadMapEnts, Load_clipMap, Load_clipMapIw4, Load_MapEntsPtr, DumpEnts, T4OverrideMapEnts, TryLoadOverride
<1>3. mounted = game /\ ActiveMod = chosen
  BY <1>2 DEF SourcesInv, TitleState
<1>4. TitleState'
  BY <1>1 DEF SourcesInv, TitleState, ActiveMod
<1>5. EntsFromActiveMod'
  <2>1. mapEnts' \in {Unknown, Stock(Ents)}
           \cup [game : {game}, mod : {IF game = "iw3sp" THEN Raw ELSE chosen}, script : {Ents}]
    BY <1>2, <1>3 DEF OverrideFile, RawEnts
  <2>2. dumped' # Unknown => dumped'.mod = NoMod
    BY <1>2 DEF SourcesInv, GivenOfTitle, EntsFromActiveMod, Stock
  <2> QED
    BY <1>1, <2>1, <2>2 DEF EntsFromActiveMod, Stock
<1>6. GivenOfTitle'
  BY <1>1, <1>2, <1>5 DEF SourcesInv, GivenOfTitle, FromActiveMod, Stock, NotDefault, Loaded
<1> QED
  BY <1>1, <1>4, <1>6, SameRegistry DEF SourcesInv

LEMMA EndGameKeeps ==
  ASSUME SourcesInv, EndGame
  PROVE  SourcesInv'
<1>1. /\ game' = "none" /\ config' = Defaults /\ mapEnts' = Unknown /\ scriptMemory' = 3 - scriptMemory
      /\ given' = [s \in Scripts |-> Unknown] /\ UNCHANGED <<mounted, dumped>>
      /\ IF game = "iw5" THEN ResetLoadedScripts ELSE UNCHANGED <<registry, arena, used>>
  BY DEF EndGame
<1>2. registry' = <<>> /\ arena' = 0 /\ used' = 0
  BY <1>1 DEF ResetLoadedScripts, SourcesInv, TitleState
<1>3. scriptMemory' \in {1, 2}
  BY <1>1 DEF SourcesInv, RegistryRecords
<1>4. TitleState'
  BY <1>1, <1>2 DEF TitleState
<1>5. GivenOfTitle'
  <2>1. DOMAIN given' = Scripts /\ \A s \in Scripts : given'[s] = Unknown
    BY <1>1
  <2>2. FromActiveMod' /\ EntsFromActiveMod'
    BY <1>1, <2>1 DEF SourcesInv, GivenOfTitle, FromActiveMod, EntsFromActiveMod
  <2> QED
    BY <1>1, <2>1, <2>2 DEF GivenOfTitle
<1> QED
  BY <1>2, <1>3, <1>4, <1>5, EmptyRegistry DEF SourcesInv

LEMMA SourcesStep ==
  ASSUME SourcesInv, [SourceNext]_sourceVars
  PROVE  SourcesInv'
<1>1. CASE UNCHANGED sourceVars
  <2>1. UNCHANGED <<game, mounted, config, listed, given, registry, arena, used, chosen, scriptMemory, mapEnts,
                    dumped>>
    BY <1>1 DEF sourceVars, entsVars
  <2>2. TitleState'
    BY <2>1 DEF SourcesInv, TitleState, ActiveMod
  <2>3. GivenOfTitle'
    BY <2>1, SameEnts DEF SourcesInv, GivenOfTitle, FromActiveMod, Stock, NotDefault, Loaded
  <2> QED
    BY <2>1, <2>2, <2>3, SameRegistry DEF SourcesInv
<1>2. CASE SourceNext
  BY <1>2, LaunchGameKeeps, LaunchUnmountedKeeps, ListModKeeps, AddSourceBufferKeeps, FindXAssetHeaderKeeps,
     ShutdownGameKeeps, LoadMapEntsKeeps, EndGameKeeps DEF SourceNext
<1> QED
  BY <1>1, <1>2

LEMMA SourcesInitInv ==
  ASSUME SourceInit
  PROVE  SourcesInv
<1>1. /\ game = "none" /\ config = Defaults /\ given = [s \in Scripts |-> Unknown] /\ registry = <<>> /\ arena = 0
      /\ used = 0 /\ scriptMemory = 1 /\ mapEnts = Unknown /\ dumped = Unknown
  BY DEF SourceInit
<1>2. TitleState
  BY <1>1 DEF TitleState
<1>3. GivenOfTitle
  BY <1>1 DEF GivenOfTitle, FromActiveMod, EntsFromActiveMod
<1>4. RegistryRecords
  <2>1. registry \in Seq(LoadedScript)
    BY <1>1
  <2> QED
    BY <1>1, <2>1, ArenaAssumption DEF RegistryRecords
<1>5. RegistryStacked
  BY <1>1 DEF RegistryStacked
<1> QED
  BY <1>2, <1>3, <1>4, <1>5 DEF SourcesInv

(* Whatever ran before, what a title has of its scripts and entities is its *)
(* own or of the mod that was chosen in it, and the compiled scripts of IW5 *)
(* lie whole in the script memory of the session.                          *)
THEOREM ScriptsKeepTheirSource == SourceSpec => []ScriptsFromTheirSource
<1>1. SourceInit => SourcesInv
  BY SourcesInitInv
<1>2. SourcesInv /\ [SourceNext]_sourceVars => SourcesInv'
  BY SourcesStep
<1>3. ASSUME SourcesInv
      PROVE  ScriptsFromTheirSource
  <2>1. FromActiveMod /\ EntsFromActiveMod
    BY <1>3 DEF SourcesInv, GivenOfTitle
  <2>2. \A i \in DOMAIN registry : registry[i].arena = scriptMemory
    <3>1. registry \in Seq(LoadedScript)
      BY <1>3 DEF SourcesInv, RegistryRecords
    <3>2. \A r \in LoadedScript : r.arena = scriptMemory
      BY DEF LoadedScript
    <3> QED
      BY <3>1, <3>2
  <2>3. used \in Nat /\ used <= ArenaSize /\ ArenaSize \in Nat /\ DOMAIN registry \subseteq Nat
    <3>1. registry \in Seq(LoadedScript)
      BY <1>3 DEF SourcesInv, RegistryRecords
    <3>2. DOMAIN registry \subseteq Nat
      BY <3>1
    <3> QED
      BY <1>3, <3>2, ArenaAssumption DEF SourcesInv, RegistryRecords
  <2>4. ASSUME NEW i \in DOMAIN registry, NEW k \in 1..4
        PROVE  /\ registry[i].parts[k][1] \in Nat /\ registry[i].parts[k][2] \in Nat
               /\ 0 <= registry[i].parts[k][1] /\ registry[i].parts[k][2] <= ArenaSize
               /\ \A l \in 1..4 : k < l => registry[i].parts[k][2] <= registry[i].parts[l][1]
    <3>1. Stacked(registry[i].parts, 0, used) /\ Len(registry[i].parts) = 4
      BY <1>3 DEF SourcesInv, RegistryStacked
    <3>2. /\ registry[i].parts[k][1] \in Nat /\ registry[i].parts[k][2] \in Nat
          /\ registry[i].parts[k][2] <= used
          /\ \A l \in 1..4 : k < l => registry[i].parts[k][2] <= registry[i].parts[l][1]
      BY <3>1, FourParts
    <3> QED
      BY <2>3, <3>2
  <2>5. ASSUME NEW i \in DOMAIN registry, NEW j \in DOMAIN registry, NEW k \in 1..4, NEW l \in 1..4,
               <<i, k>> # <<j, l>>
        PROVE  Disjoint(registry[i].parts[k], registry[j].parts[l])
    <3>1. i \in Nat /\ j \in Nat /\ (i # j \/ k # l)
      BY <2>3, <2>5
    <3>2. CASE i < j \/ j < i
      BY <1>3, <3>2 DEF SourcesInv, RegistryStacked, Disjoint
    <3>3. CASE i = j /\ (k < l \/ l < k)
      BY <2>4, <3>3 DEF Disjoint
    <3> QED
      BY <3>1, <3>2, <3>3
  <2>6. \A a, b \in Parts :
          LET first == registry[a[1]].parts[a[2]]  second == registry[b[1]].parts[b[2]]
          IN /\ 0 <= first[1] /\ first[2] <= ArenaSize
             /\ a # b => Disjoint(first, second)
    <3> SUFFICES ASSUME NEW i \in DOMAIN registry, NEW j \in DOMAIN registry, NEW k \in 1..4, NEW l \in 1..4
                 PROVE  /\ 0 <= registry[i].parts[k][1] /\ registry[i].parts[k][2] <= ArenaSize
                        /\ <<i, k>> # <<j, l>> => Disjoint(registry[i].parts[k], registry[j].parts[l])
      BY DEF Parts
    <3> QED
      BY <2>4, <2>5
  <2>7. ScriptsStayWhole
    BY <1>3, <2>2, <2>6 DEF ScriptsStayWhole, SourcesInv, GivenOfTitle
  <2> QED
    BY <2>1, <2>7 DEF ScriptsFromTheirSource
<1>4. SourcesInv => ScriptsFromTheirSource
  BY <1>3
<1> QED
  BY <1>1, <1>2, <1>4, PTL DEF SourceSpec
=============================================================================
