---------------------------- MODULE MCGameContent ----------------------------
(***************************************************************************)
(* What the game loads: zones, scripts and replaced textures.  They share  *)
(* no state but the active mod, so a behaviour moves one of them.          *)
(*                                                                         *)
(* Textures: of one block format with a tail and levels that stream in, of  *)
(* one whose memory holds two levels, of one with a streamed file of        *)
(* another size, of no block format, one that lies in its tail as a whole,  *)
(* and a cube; for each a whole file,                                      *)
(* files that end early and of other forms, sizes and numbers of levels.   *)
(*                                                                         *)
(* Zones: two single player maps, one with an override, multiplayer maps of *)
(* each place, unsigned files, a file of another version and one of no      *)
(* form at all; batches as of a start, a map and the way back.             *)
(*                                                                         *)
(* Scripts and entities: two mods, an arena with room for two of the three *)
(* scripts and a registry with room for no more.                           *)
(***************************************************************************)
EXTENDS ImageReplacement, ZoneLoading, ScriptSources

Texture(map, w, h, format, levels, packed, card, streaming, streamBytes) ==
  [map |-> map, width |-> w, height |-> h, format |-> format, pitch |-> 0, levels |-> levels,
   packed |-> packed, card |-> card, streaming |-> streaming,
   delayed |-> map = "2d" /\ format # "8_8_8_8", streamBytes |-> streamBytes]
MCImages ==
  {Texture("2d", 128, 64, "DXT1", 4, TRUE, 24576, TRUE, 16384),
   Texture("2d", 64, 64, "DXT4_5", 2, FALSE, 16384, FALSE, 0),
   Texture("2d", 128, 128, "DXN", 3, FALSE, 0, TRUE, 4096),
   Texture("2d", 32, 32, "8_8_8_8", 2, FALSE, 0, FALSE, 0),
   Texture("2d", 16, 16, "DXT1", 2, TRUE, 8192, FALSE, 0),
   Texture("cube", 32, 32, "DXT1", 1, FALSE, 0, FALSE, 0)}

DDS(mod, w, h, format, mips, cube, missing) ==
  [mod |-> mod, header |-> TRUE, cube |-> cube, width |-> w, height |-> h, format |-> format, mips |-> mips,
   data |-> (IF cube THEN 6 * LinearLevelSize(w, h, 0, format)
             ELSE SumOver(0..AtLeast1(mips) - 1, LAMBDA l : LinearLevelSize(w, h, l, format))) - missing,
   content |-> IF cube THEN [s \in Faces |-> <<mod, s>>]
               ELSE [l \in 0..AtLeast1(mips) - 1 |-> <<mod, Halved(w, l)>>]]
MCFiles ==
  {DDS("whole", 256, 128, "DXT1", 4, FALSE, 0), DDS("two", 256, 128, "DXT1", 2, FALSE, 0),
   DDS("short", 256, 128, "DXT1", 3, FALSE, 8), DDS("small", 128, 64, "DXT1", 2, FALSE, 0),
   DDS("one", 256, 128, "DXT1", 1, FALSE, 0), DDS("dxt5", 64, 64, "DXT4_5", 2, FALSE, 0),
   DDS("flat", 64, 64, "DXT4_5", 0, FALSE, 0), DDS("faces", 64, 64, "DXT4_5", 2, TRUE, 0),
   DDS("tiny", 16, 16, "DXT1", 2, FALSE, 0), DDS("dxn", 256, 256, "DXN", 4, FALSE, 0), DDS("cube", 32, 32, "DXT1", 1, TRUE, 0),
   DDS("cut", 32, 32, "DXT1", 1, TRUE, 16), [DDS("bare", 32, 32, "DXT1", 1, TRUE, 0) EXCEPT !.cube = FALSE]}
MCNoFile == [mod |-> "none"]

-----------------------------------------------------------------------------
Asked(zone, alloc, free) == [zone |-> zone, alloc |-> alloc, free |-> free]
Map(zone) == <<Asked("none", "none", {"load", "game"}), Asked(zone, "game", {})>>
MCBatches ==
  [iw3 |-> <<<<Asked("code_post_gfx_mp", "code", {}), Asked("common_mp", "common", {})>>,
             Map("airlift"), Map("killhouse"), Map("mp_crash"), Map("mp_strange"),
             <<Asked("none", "none", {"load", "game"})>>>>,
   t4 |-> <<Map("mp_crash"), Map("mp_strange"), <<Asked("patch_mp", "patch", {"patch"})>>>>,
   iw4 |-> <<<<Asked("patch_mp", "patch", {"patch"}), Asked("ui_mp", "ui", {"ui"})>>,
             <<Asked("none", "none", {"ui"}), Asked("mp_rust", "game", {"game"})>>,
             <<Asked("patch_mp", "patch", {"patch"}), Asked("common_mp", "common", {"common"}),
               Asked("mp_rust", "game", {"game"}), Asked("ui_mp", "ui", {"ui"})>>>>]
File(place, zone, magic, version, assets) ==
  [place |-> place, zone |-> zone, magic |-> magic, version |-> version, assets |-> assets, inflates |-> TRUE,
   world |-> IF zone \in {"airlift", "killhouse"} THEN "maps" ELSE "maps/mp"]
MCDisk ==
  {File("disc", "code_post_gfx_mp", "signed", 1, <<"fx">>), File("disc", "common_mp", "signed", 1, <<"weapon">>),
   File("codxe", "airlift", "signed", 1, <<"map_ents", "gameworld_sp", "weapon", "rawfile">>),
   File("codxe", "killhouse", "unsigned", 1, <<"map_ents", "fx", "rawfile">>),
   File("disc", "mp_crash", "signed", 1, <<"map_ents", "weapon">>),
   File("codxe", "mp_crash", "unsigned", 1, <<"map_ents", "gameworld_sp">>),
   File("usermaps", "mp_strange", "unsigned", 2, <<"map_ents">>),
   [File("codxe", "mp_strange", "unsigned", 1, <<"map_ents">>) EXCEPT !.inflates = FALSE],
   File("a", "mod", "unsigned", 1, <<"weapon", "rawfile">>),
   File("disc", "mp_rust", "signed", 1, <<"map_ents">>), File("disc", "patch_mp", "signed", 1, <<"fx">>), File("disc", "ui_mp", "signed", 1, <<>>),
   File("codxe", "codxe_ui_mp", "signed", 1, <<>>), File("codxe", "codxe_patch_mp", "signed", 1, <<"fx">>)}

MCZoneNames == {f.zone : f \in MCDisk}
MCInternal == {<<"airlift", "map_ents">>, <<"airlift", "rawfile">>, <<"killhouse", "rawfile">>}
MCOverrides == [airlift |-> [count |-> 3, delayStart |-> 5]]

-----------------------------------------------------------------------------
MCInstalled ==
  [game : {"iw2", "iw3", "iw5"}, mod : {"a"}, script : Scripts]
    \cup [game : {"iw5"}, mod : {"b"}, script : {"main"}]
    \cup [game : {"t4", "iw4sp"}, mod : {"a"}, script : {"main", "map.ents"}]
    \cup [game : {"iw3sp"}, mod : {"raw", "a"}, script : {"map.ents"}]
MCSize ==
  [main |-> [name |-> 1, text |-> 2, code |-> 3], utility |-> [name |-> 2, text |-> 1, code |-> 2],
   long |-> [name |-> 1, text |-> 3, code |-> 12]]

-----------------------------------------------------------------------------
VARIABLE part

MCInit ==
  /\ part \in {"textures", "zones", "scripts"} /\ ImageInit /\ ZoneInit /\ SourceInit
  /\ part # "zones" => title = "t4"
  /\ part # "textures" => image.map = "cube"
MCNext ==
  /\ \/ part = "textures" /\ ImageNext /\ UNCHANGED <<zoneVars, sourceVars>>
     \/ part = "zones" /\ ZoneNext /\ UNCHANGED <<imageVars, sourceVars>>
     \/ part = "scripts" /\ SourceNext /\ UNCHANGED <<imageVars, zoneVars>>
  /\ UNCHANGED part
MCSpec == MCInit /\ [][MCNext]_<<part, imageVars, zoneVars, sourceVars>>
=============================================================================
