CONSTANTS
  Co = {c1, c2}
  Timer = {k1}
  Task = {t1, t2}
  NoCo = NoCo
  NoTask = NoTask
  QUEUE_NUMBER = 2
  init_count = 0
  COUNT_BOUND = 2
SPECIFICATION FairSpec
INVARIANTS WaitersMatch Conservation OneWaker
PROPERTY TimedWaitEnds
CHECK_DEADLOCK FALSE
