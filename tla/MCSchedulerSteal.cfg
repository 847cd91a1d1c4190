SPECIFICATION Spec
CONSTANTS
  CPU_CORE = 2
  TIMERS = 1
  Co = {main, a, b}
  MainCo = main
  NoCo = NoCo
  APPLY_BUFFER_SIZE = 1
SYMMETRY CoSymmetry
INVARIANTS
  TypeOK
  ExactlyOnePlace
  TokensMatchWork
  CountExact
  BufferPathFindsCo
  StackExclusive
  OwnerAgrees
  AssertionsHold
CHECK_DEADLOCK FALSE
