SPECIFICATION FairSpec

CONSTANTS
  ArgSet <- ShortManual
  MaxRounds = 1
  IntMax = 9
  MaxMessages = 4
  Faults <- NoFaults

CHECK_DEADLOCK FALSE

PROPERTIES
  ExitKeyTerminatesServers
