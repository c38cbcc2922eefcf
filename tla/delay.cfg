SPECIFICATION FairSpec
CONSTANTS
  u1 = u1 u2 = u2 u3 = u3 daemon = daemon
  NULL = NULL
  Uproc <- TwoUprocs
  Daemon = daemon
  DELAY_LIST_SIZE = 3
  SECOND = 1
  MAXINT = 5
  Secs <- ShortDelays
  LastCall = 3
  Horizon = 5
INVARIANTS AdlInv WakeBalance NeverExhausted
PROPERTIES Implements Wakes
