CONSTANTS
  CW = {c1, c2}
  PW = {p1}
  Fee = 2
  MaxMsgs = 2
  MaxCrashes = 0
  MaxNotify = 1
  MaxCancels = 1
  RefreshFaults = TRUE
  StoreFaults = FALSE
SPECIFICATION Spec
PROPERTIES ReadyIsFinal
CHECK_DEADLOCK FALSE
SYMMETRY WorkerSymmetry
