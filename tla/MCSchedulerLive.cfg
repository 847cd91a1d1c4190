SPECIFICATION FairSpec
CONSTANTS
  CPU_CORE = 2
  TIMERS = 0
  Co = {main, a, b}
  MainCo = main
  NoCo = NoCo
  APPLY_BUFFER_SIZE = 1
PROPERTIES
  ImplementsDispatch
  WorkWakes
  TokenRuns
CHECK_DEADLOCK FALSE
