SPECIFICATION Spec
CONSTANTS
  p1 = p1 p2 = p2 p3 = p3 test = test
  NULL = NULL
  Test = test
  Uproc <- TwoUprocs
  Page <- TextAndStack
  Touches <- ThreePages
  DataPage = 1
  SWAP_POOL_SIZE = 2
  Ending <- First
  Trapping <- None
  MaxVersion = 1
INVARIANT IsolationKept
CHECK_DEADLOCK FALSE
