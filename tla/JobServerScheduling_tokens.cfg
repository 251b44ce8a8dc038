SPECIFICATION JFairSpec
CONSTANTS
  Suites <- TokenSuites
  Locks = {}
  Slots = 2
  MayDisconnect = TRUE
  PosixSuites <- EnabledSuites
INVARIANTS OneTokenPerTest QueueBacked TokensGivenBack
PROPERTIES Terminates
