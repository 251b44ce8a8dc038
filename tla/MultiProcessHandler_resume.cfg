SPECIFICATION Spec
CONSTANTS
  Suites <- ResumeSuites
  Locks = {"a"}
INVARIANTS CompleteAtEnd
