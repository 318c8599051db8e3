CONSTANTS
  CW = {c1, c2}
  PW = {p1, p2}
  Fee = 2
  MaxMsgs = 2
  MaxCrashes = 1
  MaxNotify = 2
  MaxCancels = 1
  RefreshFaults = FALSE
  StoreFaults = TRUE
SPECIFICATION Spec
INVARIANTS TypeOK ReadyImpliesPaidAndResult AwaitingImpliesOrder LeaseExclusion
PROPERTIES ReadyIsFinal LifecycleSpec
CHECK_DEADLOCK FALSE
SYMMETRY WorkerSymmetry
