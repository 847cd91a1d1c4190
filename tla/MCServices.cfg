CONSTANTS
  a1 = a1
  a2 = a2
  a3 = a3
  Thread = {a1, a2, a3}
  MaxSpin = 2
  b1 = b1
  b2 = b2
  p = p
  q = q
  Co = {b1, b2}
  Sched = {p, q}
  Own = {0, 10}
  Slice = {65536, 131072}
  MaxRuntime = 262144
  PoolThread = {b1, b2}
  Block = {a1, a2, a3}
  null = null
  defaultBlockSize = 6
  Length = {2, 3, 7}
  MaxUnits = 4
  use_mmap = TRUE
  Timer = {b1, b2}
  Task = {p, q}
  MaxTime = 2
  MaxResets = 1
  None = None
  Fd = {b1, b2, a1}
  User = {p, q}
  EventsSize = 2
  MaxRequests = 3
SPECIFICATION MCSpec
SYMMETRY Symmetry
INVARIANTS FailsOnlyIfHeld BoostsAccounted UnitsKept CallbacksOnce
PROPERTY ImplementsLock
CHECK_DEADLOCK FALSE
