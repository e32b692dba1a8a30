CONSTANTS
  MAX_PROCESSES = 3
  MAX_FDS = 3
  MAILBOX_ALLOC = 1
  a = a
  b = b
  Pipes = {a, b}
  StdinPipe = stdin
  MaxLen = 1
  Calls <- PipeCalls
  KillScope = {}
  SendScope = {}
  Faults = {}
SYMMETRY PipeSymmetry
SPECIFICATION Spec
INVARIANTS
  TypeOK
  NoPanic
  RefcountsExact
  NoLostWakeup
  NoStaleWaiter
  SchedulerInv
