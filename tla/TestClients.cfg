SPECIFICATION MCSpec
CONSTANTS
  c1 = c1
  c2 = c2
  NoClient = NoClient
  Clients <- MCClients
  Stock <- MCStock
  Titles <- AllTitles
  ReuseTitles <- MCReuseTitles
  CallbackTitles <- MCCallbackTitles
  Weapons = {1, 2}
  MaxLife = 1
  StopInKillcam = FALSE
  Slots = {0, 1}
  Names = {"alpha", "bravo"}
  NoName = "unnamed"
  MaxDepth = 3
  NameTitles <- AllTitles
  NestTitles <- MCReuseTitles
  DropTitles = {"iw2", "iw4", "iw5"}
  MaxTime = 7
  PlayerWaits = TRUE
INVARIANTS
  FaithfulReplay
  NamedAsAsked
PROPERTIES
  BotsObey
  SelectionKept
