SPECIFICATION MCSpec
CONSTANTS
  Files = {"f", "g"}
  MAX_HANDLES = 2
  Lines = {1, 2}
  MaxSession = 2
  Titles <- AllTitles
  HudElems = {"e1", "e2", "e3"}
  Texts = {"t", "u", "v", "w"}
  MAX_LOCALIZEDSTRINGS = 4
  CallTitles <- AllCallTitles
  Functions = {"f1", "f2", "f3"}
  ClientFunctions = {"c1"}
  Positions = {1, 2, 3, 4}
  MaxShutdowns = 2
  FieldTitles <- AllFieldTitles
  Clients = {"p1", "p2"}
  Others = {"o"}
  Bots = {"p2"}
  Moves <- SticksMoved
  Keys = {"BUTTON_A", "no key"}
  Values = {0, 3}
  MaxSteps = 3
  EntityTitles = {"iw2", "iw3", "t4", "t4sp"}
  Entities = {"e1", "e2", "e3"}
  EntityClients = {"p1"}
  NumSubModels = 3
  MaxCalls = 4
INVARIANT
  MovementAsDocumented
