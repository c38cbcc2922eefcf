SPECIFICATION Spec
CONSTANTS
  root = root daemon = daemon tmpl = tmpl u1 = u1 u2 = u2 u3 = u3
  mutex = mutex clock = clock dev1 = dev1 dev2 = dev2
  NULL = NULL
  Root = root
  Daemon = daemon
  Clock = clock
  Pcb <- AnyPcb
  Template <- Templates
  Sem <- OneMutex
  Device <- OneDev
  Masked <- None
  TestCalls <- AllCalls
  DaemonCalls <- AllButCreateAndKill
  UprocCalls <- AllCalls
  MaxSemVal = 1
  MaxSoft = 3
  MinDevVal <- Low
SYMMETRY Uprocs
INVARIANTS TypeOK OnePlace SemCount SoftBound NoFalseDeadlock WorkConserving ModeInv CountExact NoOrphan
