SPECIFICATION MCSpec
CONSTANTS
  Images <- MCImages
  Files <- MCFiles
  NoFile <- MCNoFile
  Titles = {"iw3", "t4", "iw4"}
  Batches <- MCBatches
  Disk <- MCDisk
  SpMaps = {"airlift", "killhouse"}
  MpNamed = {"mp_crash", "mp_strange", "mp_rust"}
  Internal <- MCInternal
  Overrides <- MCOverrides
  Mods = {"a", "b"}
  ModEnts = {"b"}
  MaxZones = 6
  ZoneNames <- MCZoneNames
  Flags = {"none", "load", "game", "code", "common", "patch", "ui", "mod"}
  AssetTypes = {"map_ents", "gameworld_sp", "weapon", "fx", "rawfile"}
  None = "none"
  Games = {"iw2", "iw3", "iw5", "t4", "iw4sp", "iw3sp"}
  ModNames = {"a", "b"}
  Scripts = {"main", "utility", "long"}
  Installed <- MCInstalled
  Size <- MCSize
  ArenaSize = 18
  MaxScripts = 2
  Alignment = 2
INVARIANTS
  PicturesArrive
  LoadedAsMade
  PluginZonesFollowStock
  ScriptsFromTheirSource
CHECK_DEADLOCK FALSE
