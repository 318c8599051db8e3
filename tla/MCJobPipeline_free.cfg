CONSTANTS
  CW = {c1, c2}
  PW = {p1, p2}
  Fee = 0
  MaxMsgs = 2
  MaxCrashes = 1
  MaxNotify = 2
  MaxCancels = 1
  RefreshFaults = FALSE
  StoreFaults = FALSE
SPECIFICATION Spec
INVARIANTS ReadyImpliesPaidAndResult CancelledNeverPaid
PROPERTIES LifecycleSpec
CHECK_DEADLOCK FALSE
SYMMETRY WorkerSymmetry
