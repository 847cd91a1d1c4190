CONSTANTS
  Co = {c1, c2, c3}
  Val = {v1, v2, v3}
  NoVal = NoVal
  SIZE = 1
SPECIFICATION FairSpec
INVARIANTS BufferAsserts EachValueOnce NobodyForgotten
PROPERTIES NeverLost PullReturns PushReturns
CHECK_DEADLOCK FALSE
