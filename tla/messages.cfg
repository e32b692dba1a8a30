CONSTANTS
  IntWidth = 8
  FirstPid = 9
  LastPid = 12
  MAILBOX_ALLOC = 3
  MAX_MESSAGE_SIZE = 20
  PINGS = 3
  NSLAVES = 3
  RING_SIZE = 3
  RING_MAX_PASSES = 7
  MAX_SENDS = 4
  Rounds = 2
  Keys = 4
SPECIFICATION FairSpec
INVARIANTS
  TestsPass
  EverySlaveAnswers
  OneToken
PROPERTIES
  MailboxIsFifo
  TestsFinish
