CONSTANTS
  Co = {c1, c2, c3}
  Timer = {}
  Task = {}
  NoCo = NoCo
  NoTask = NoTask
  QUEUE_NUMBER = 2
  init_count = 1
  COUNT_BOUND = 2
SPECIFICATION FairSpec
PROPERTIES ImplementsSemaphore SignalReturns
CHECK_DEADLOCK FALSE
