CONSTANTS
  MAX_PROCESSES = 4
  MAX_FDS = 3
  MAILBOX_ALLOC = 1
  a = a
  b = b
  Pipes = {}
  StdinPipe = stdin
  MaxLen = 0
  Calls <- LifeCalls
  KillScope = {"ready", "waitpid", "receive"}
  SendScope = {"ready", "read", "waitpid", "receive"}
  Faults = {"page", "other"}
SPECIFICATION Spec
INVARIANTS
  ListsExact
  NoPanic
  NoHeapFault
  NoLostWakeup
  NoStaleWaiter
  KernelInv
  RunsLiveProcess
  ParentAlive
PROPERTIES
  ImplementsLifecycle
