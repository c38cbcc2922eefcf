SPECIFICATION FairSpec
CONSTANTS
  p1 = p1 p2 = p2 p3 = p3 test = test
  NULL = NULL
  Test = test
  Uproc <- TwoUprocs
  Page <- TextAndStack
  Touches <- ThreePages
  DataPage = 1
  SWAP_POOL_SIZE = 2
  Ending <- First
  Trapping <- Second
  MaxVersion = 1
INVARIANTS TypeOK PageIsolation NoLostPage TlbCoherent NoEarlyHalt
PROPERTIES Served Halts
