SPECIFICATION FairSpec
CONSTANTS
  Suites <- LivenessSuites
  Locks = {"a"}
PROPERTIES Terminates
