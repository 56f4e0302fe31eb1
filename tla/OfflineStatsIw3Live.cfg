SPECIFICATION MCSpec
CONSTANTS
  NoNumber = NoNumber
  Users = {"a", "b"}
  MaxProgress = 1
  RereadsOnLive = {"iw3"}
INVARIANTS
  Iw3FilesAreOffline
