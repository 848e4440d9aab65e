SPECIFICATION FairRestartSpec

CONSTANTS
  ArgSet <- AutomaticOrManual
  MaxRounds = 2
  IntMax = 9
  MaxMessages = 4
  Faults <- NoFaults
  KillPoints <- BetweenRoundsOrServing
  MaxKills = 2
  MaxLaunches = 2

CHECK_DEADLOCK FALSE

INVARIANTS
  FileFollowsConsole

PROPERTIES
  EveryCampaignCompletes
  QueueRemovalReleasesServers
