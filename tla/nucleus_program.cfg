SPECIFICATION FairSpec
CONSTANTS
  root = root daemon = daemon tmpl = tmpl u1 = u1 u2 = u2 u3 = u3
  mutex = mutex clock = clock dev1 = dev1 dev2 = dev2
  NULL = NULL
  Root = root
  Daemon = daemon
  Clock = clock
  Pcb <- AnyPcb
  Template <- Templates
  Sem <- OneMutex
  Device <- TwoDevs
  Masked <- OneDev
  TestCalls <- TestProgram
  DaemonCalls <- DaemonProgram
  UprocCalls <- UprocProgram
  MaxSemVal = 1
  MaxSoft = 3
  MinDevVal <- Low
PROPERTIES ReadyRuns ClockWakes Implements
INVARIANTS NoNullDispatch IoBalance
