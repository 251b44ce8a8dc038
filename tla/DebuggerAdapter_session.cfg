SPECIFICATION FairSpec
CONSTANTS
  MaxCalls = 3
  MaxDepth = 2
  MaxSent = 1
  Clients <- OrderlyClients
INVARIANTS StopHolds
PROPERTIES StepNotMissed EveryoneLeaves
CHECK_DEADLOCK FALSE
