CONSTANTS
  CW = {c1, c2}
  PW = {p1}
  Fee = 2
  MaxMsgs = 2
  MaxCrashes = 1
  MaxNotify = 2
  MaxCancels = 1
  RefreshFaults = FALSE
  StoreFaults = FALSE
SPECIFICATION FairSpec
PROPERTIES JobEventuallySettles
CHECK_DEADLOCK FALSE
