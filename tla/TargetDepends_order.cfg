SPECIFICATION Spec
CONSTANTS
  Families <- AllFamilies
INVARIANTS BuildOrderSafe OrderRespected CyclesReported LinkedFirst SideEffectsKept
