SPECIFICATION Spec
CONSTANTS
  CPU_CORE = 2
  TIMERS = 0
  Co = {main, a, b}
  MainCo = main
  NoCo = NoCo
  APPLY_BUFFER_SIZE = 1
SYMMETRY CoSymmetry
INVARIANT PickupAssertion
CHECK_DEADLOCK FALSE
