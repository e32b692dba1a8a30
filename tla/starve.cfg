CONSTANTS
  MAX_PROCESSES = 5
  MAX_FDS = 3
  MAILBOX_ALLOC = 1
  a = a
  b = b
  Pipes = {}
  StdinPipe = stdin
  MaxLen = 0
  Calls <- StarveCalls
  KillScope = {}
  SendScope = {"ready", "read", "waitpid", "receive"}
  Faults = {}
SPECIFICATION FairSpec
PROPERTIES
  EveryReadyProcessRuns
