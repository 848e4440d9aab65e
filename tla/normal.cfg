SPECIFICATION FairSpec

CONSTANTS
  ArgSet <- NormalArgs
  MaxRounds = 5
  IntMax = 7
  MaxMessages = 2
  Faults <- NoFaults

CHECK_DEADLOCK FALSE

INVARIANTS
  LockStep
  LoopRunsAsSpecified

PROPERTIES
  ServersStayUntilTold
  CampaignCompletes
  ServersFollowCoordinator
  ReceiveDataReturns
  ImplementsCampaign
