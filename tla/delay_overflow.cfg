SPECIFICATION Spec
CONSTANTS
  u1 = u1 u2 = u2 u3 = u3 daemon = daemon
  NULL = NULL
  Uproc <- TwoUprocs
  Daemon = daemon
  DELAY_LIST_SIZE = 3
  SECOND = 2
  MAXINT = 7
  Secs <- WithLong
  LastCall = 2
  Horizon = 7
INVARIANT NeverEarly
