CONSTANTS
  NoValue = NoValue
  Value = {a, b}
  DEFAULT_SIZE = 4
  GROW_FACTOR = 4
  Sizes <- MCSizes
  MaxSize = 9
  MaxVec = 2
  a1 = a1
  a2 = a2
  a3 = a3
  b1 = b1
  b2 = b2
  RingPusher = {p}
  RingPopper = {q}
  Capacity = 3
  MaxPush = 8
  Pusher = {b1, b2}
  Popper = {p, q}
  OnePop = TRUE
  MaxNodes = 4
  MaxPops = 4
  Worker = {a1, a2, a3}
  ListNodes = 3
  ListPops = 1
  BITS_COUNT = 3
  block_bits = 2
  Phases = TRUE
  BitCalls = 1
  Item = {b1, b2, p}
  nil = nil
  MaxCalls = 2
SPECIFICATION MCSpec
SYMMETRY Symmetry
INVARIANTS RingWhole ContainersWhole
PROPERTY ImplementsFifo
CHECK_DEADLOCK FALSE
