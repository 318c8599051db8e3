CONSTANTS
  CW = {c1}
  PW = {p1}
  Fee = 2
  MaxMsgs = 2
  MaxCrashes = 0
  MaxNotify = 2
  MaxCancels = 1
  RefreshFaults = FALSE
  StoreFaults = TRUE
SPECIFICATION Spec
INVARIANTS NotifyAckedImpliesPaid
CHECK_DEADLOCK FALSE
