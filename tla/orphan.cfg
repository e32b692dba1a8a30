CONSTANTS
  MAX_PROCESSES = 4
  MAX_FDS = 3
  MAILBOX_ALLOC = 1
  a = a
  b = b
  Pipes = {}
  StdinPipe = stdin
  MaxLen = 1
  Calls <- KillCalls
  KillScope = {}
  SendScope = {"ready", "read", "waitpid", "receive"}
  Faults = {}
SPECIFICATION Spec
INVARIANTS
  ZombieHasParent
