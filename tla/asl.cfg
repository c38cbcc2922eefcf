SPECIFICATION Spec
CONSTANTS
  p1 = p1 p2 = p2 p3 = p3
  NULL = NULL
  Pcb <- SomePcbs
  Addr <- SomeAddr
  MAXSEMD = 3
SYMMETRY Alike
INVARIANTS ListsInv NeverExhausted
PROPERTY Implements
