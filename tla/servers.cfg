SPECIFICATION FairSpec
CONSTANTS
  clqty = 2
  MAX_MSG_PER_TICK = 4
  MaxGiven = 5
  MaxInbox = 1
  SCTP_FIFO_SIZE = 3
  Attempts = 1
INVARIANT TypeOK
INVARIANT WholeMessages
INVARIANT PostsBounded
PROPERTY EveryMessage
PROPERTY FifoDrains
