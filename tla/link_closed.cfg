SPECIFICATION FairSpec

CONSTANTS
  ArgSet <- ShortAutomatic
  MaxRounds = 0
  IntMax = 9
  MaxMessages = 4
  Faults = {"linkClosed"}

CHECK_DEADLOCK FALSE

PROPERTIES
  ReceiveDataReturns
