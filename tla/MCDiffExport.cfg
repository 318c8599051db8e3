CONSTANTS
  Files1 <- MCFiles1
  Files2 <- MCFiles2
  Name1 <- MCName1
  Name2 <- MCName2
  WordBits = 1
  CacheMax = 2
SPECIFICATION Spec
INVARIANTS ExportMatchesSpec
CHECK_DEADLOCK FALSE
