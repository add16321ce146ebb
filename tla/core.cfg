SPECIFICATION FairSpec
CONSTANTS
  Links = 1
  MSGQUEUESIZE = 6
  SS7BufSize = 17
  Loads <- MCLoads
  LogSlots = 4
  LogBack = 3
  LogRecord = {"start", "launched", "link", "mtp", "tx", "rx", "server"}
  Blank = "blank"
INVARIANT TypeOK
INVARIANT BuffersApart
PROPERTY ImplementsMailbox
PROPERTY ImplementsLog
CHECK_DEADLOCK FALSE
PROPERTY TickEnds
