SPECIFICATION Spec
CONSTANTS
  test = test daemon = daemon
  NULL = NULL
  Test <- test
  Daemon <- daemon
  UPROCMAX = 2
  SUPPORT_STRUCT_POOL_SIZE = 2
  CallNumber <- Numbers
  MaxPC <- Instructions
  MaxTOD = 1
INVARIANTS TypeOK StacksApart NeverUndercharged
PROPERTIES Implements FreeUntouched
VIEW Alive
CHECK_DEADLOCK FALSE
