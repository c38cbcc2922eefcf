SPECIFICATION Spec
CONSTANTS
  a = a b = b c = c d = d ready = ready sem = sem
  NULL = NULL
  Pcb <- SomePcbs
  Queue <- TwoQueues
SYMMETRY Alike
INVARIANT LinksMirror
PROPERTY Implements
