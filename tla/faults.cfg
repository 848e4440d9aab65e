SPECIFICATION Spec

CONSTANTS
  ArgSet <- MixedArgs
  MaxRounds = 3
  IntMax = 9
  MaxMessages = 4
  Faults = {"openFails", "queueRemoved", "linkClosed", "pipelineFails"}

CHECK_DEADLOCK FALSE

INVARIANTS
  TypeOK
  StopAndWait
  NoRetuneDuringCapture
  RecordsGenuine
  RecordsInOrder
