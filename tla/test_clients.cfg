SPECIFICATION FairSpec

CONSTANTS
  Faults = {"openFails"}
  MaxMessages = 2
  StartValue = 1
  EndValue = 2
  MaxKeys = 2

CHECK_DEADLOCK FALSE

INVARIANTS
  ClientsTypeOK
  PromptMeansGainSet
  RecordsAsAsked
  AckIsAwaited

PROPERTIES
  ExitReleasesTheOthers
  EveryKeyAnswered
