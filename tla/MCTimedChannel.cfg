CONSTANTS
  Co = {c1, c2, c3}
  Val = {v1, v2}
  NoVal = NoVal
  SIZE = 1
  Rounds = 2
  Default = v1
SPECIFICATION TimedSpec
SYMMETRY Symmetry
INVARIANTS TimedBufferAsserts
PROPERTY ValuesReported
CHECK_DEADLOCK FALSE
