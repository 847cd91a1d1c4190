CONSTANTS
  Co = {main, c1, c2}
  Main = main
  None = None
  Workers = 2
  MaxOps = 4
  ZeroSleep = TRUE
  Careless = FALSE
SPECIFICATION FairSpec
INVARIANT CoroutinesKept
PROPERTIES FreedOnlyAtRest ImplementsJoin CallsEnd
CHECK_DEADLOCK FALSE
