SPECIFICATION Spec
CONSTANTS
  p1 = p1 p2 = p2 p3 = p3
  NULL = NULL
  Uproc <- Uprocs
  Device <- Devices
  Request <- Shared
  MAX_LEN = 2
  maxCyl = 2 maxHead = 2 maxSect = 2
  MAXBLOCK = 2
INVARIANT PromiseKept
CHECK_DEADLOCK FALSE
