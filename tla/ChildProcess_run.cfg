SPECIFICATION FairSpec
CONSTANTS
  NoTime = NoTime
  MaxDuration = 4
  ExitCodes = {0, 1}
  Configs <- AllConfigs
INVARIANT FinalizedWhenClosed VerdictIsEarned TimeoutInForce
PROPERTY GraceGiven EveryRunEnds
