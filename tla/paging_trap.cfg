SPECIFICATION Spec
CONSTANTS
  p1 = p1 p2 = p2 p3 = p3 test = test
  NULL = NULL
  Test = test
  Uproc <- ThreeUprocs
  Page <- TextAndStack
  Touches <- OnePageEach
  DataPage = 1
  SWAP_POOL_SIZE = 2
  Ending <- None
  Trapping <- Second
  MaxVersion = 1
INVARIANT PagerExclusive
CHECK_DEADLOCK FALSE
