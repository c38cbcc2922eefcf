SPECIFICATION FairSpec
CONSTANTS
  p1 = p1 p2 = p2 p3 = p3
  NULL = NULL
  Uproc <- Uprocs
  Device <- Devices
  Request <- Private
  MAX_LEN = 2
  maxCyl = 2 maxHead = 2 maxSect = 2
  MAXBLOCK = 2
INVARIANTS InterruptsPairUp TrueResult
PROPERTY Returns
CHECK_DEADLOCK FALSE
