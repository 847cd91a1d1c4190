CONSTANTS
  Co = {c1, c2}
  Val = {v1, v2}
  NoVal = NoVal
  SIZE = 1
  Rounds = 1
  Default = v1
SPECIFICATION TestSpec
INVARIANT ClearCount
CHECK_DEADLOCK FALSE
