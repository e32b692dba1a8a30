CONSTANTS
  MAX_PROCESSES = 3
  MAX_FDS = 5
  MAILBOX_ALLOC = 1
  a = a
  b = b
  Pipes = {a}
  StdinPipe = stdin
  MaxLen = 1
  Calls <- BlockCalls
  KillScope = {}
  SendScope = {"ready", "read", "waitpid", "receive"}
  Faults = {}
SPECIFICATION FairSpec
PROPERTIES
  BlockedCallsReturn
