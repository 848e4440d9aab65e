SPECIFICATION RestartSpec

CONSTANTS
  ArgSet <- AutomaticOnly
  MaxRounds = 0
  IntMax = 9
  MaxMessages = 4
  Faults = {"sendFails"}
  KillPoints <- Anywhere
  MaxKills = 2
  MaxLaunches = 2

CHECK_DEADLOCK FALSE

INVARIANTS
  RestartTypeOK
  NoRecordUncalledFor
  OneLeftPerKill
