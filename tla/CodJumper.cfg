SPECIFICATION MCSpec
CONSTANTS
  Variants = {"iw3", "t4", "iw4", "qos", "iw5"}
  NumBrushes = 3
  MaxTitles = 2
  MaxCachedBrushes = 3
  MaxMoves = 3
  MaxEvents = 3
  Clients = {0, 1}
  Moves <- MCMoves
  Turns <- MCTurns
  MaxToggles = 2
  DrawTitles = {"iw3", "iw4"}
  BatchLines = 2
  LineQueues <- MCLineQueues
  StringQueues = {0, 2}
  Rooms = {0, 5, 6, 12, 40}
INVARIANTS
  CollisionFollowsValue
  MirroredOnce
  PatchesKeepTheRest
PROPERTIES
  DrawnIsCurrent
  FillsIn
CHECK_DEADLOCK FALSE
