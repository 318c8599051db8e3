CONSTANTS
  Files1 <- MCCollide
  Files2 <- MCCollide
  Name1 <- MCName1
  Name2 <- MCName2
  WordBits = 1
  CacheMax = 2
SPECIFICATION Spec
INVARIANTS ExportMatchesSpec
CHECK_DEADLOCK FALSE
