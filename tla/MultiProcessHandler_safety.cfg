SPECIFICATION Spec
CONSTANTS
  Suites <- SafetySuites
  Locks = {"a"}
INVARIANTS LevelRespected LocksExclusive SerialAlone DependenciesFirst AllResourcesAvailable CompleteAtEnd ResultsRecorded RepeatHonoured CheckpointSound
PROPERTIES NeverTwice InterruptStops
