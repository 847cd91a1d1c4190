CONSTANTS
  a1 = a1
  a2 = a2
  a3 = a3
  b1 = b1
  b2 = b2
  p = p
  q = q
  m = m
  nil = nil
  Threads = {a1, a2, a3}
  Ops = {"rlock", "rtry", "rfor", "rbackoff", "wlock", "wtry", "wbackoff"}
  WriterLimit = 16
  MaxBackoff = 2
  BackoffWidth = 4
SPECIFICATION MCSpec
SYMMETRY Symmetry
INVARIANTS RWSafe QueuesWhole
PROPERTY SkipListIsMultiset
CHECK_DEADLOCK FALSE
