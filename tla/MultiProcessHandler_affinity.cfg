SPECIFICATION Spec
CONSTANTS
  Suites <- AffinitySuites
  Locks = {"a"}
INVARIANTS AffinityDisjoint
