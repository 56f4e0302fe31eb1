SPECIFICATION WeaponSpec
CONSTANTS
  Weapons = {1, 2}
  MaxLife = 1
  StopInKillcam = TRUE
PROPERTIES
  KillcamKeepsSelection
