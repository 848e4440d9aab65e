SPECIFICATION FairSpec

CONSTANTS
  Faults = {"openFails"}
  MaxMessages = 3
  Clients = {"ipcClient", "client"}
  Servers = {"ipcServer", "server"}
  Raw = {"client", "server"}

CHECK_DEADLOCK FALSE

INVARIANTS
  Synchronized
  AnswerFollowsRequest

PROPERTIES
  PairsComplete
  RemovalReleasesAll
