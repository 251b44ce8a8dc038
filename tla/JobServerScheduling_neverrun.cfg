SPECIFICATION JSpec
CONSTANTS
  Suites <- TokenSuites
  Locks = {}
  Slots = 2
  MayDisconnect = FALSE
  PosixSuites <- TokenSuites
INVARIANTS CompleteAtEnd
