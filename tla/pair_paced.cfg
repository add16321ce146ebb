SPECIFICATION FairPacedSpec
CONSTANTS
  a = a
  b = b
  none = none
  Links <- MCLinks
  Msu <- MCMsu
  NoMsu = none
  PeerSU = {}
  SeqMod = 5
  TX_QUEUE_GAP = 4
  Slots = 3
  T1value = 800
  T2value = 110
  T3value = 28
  T4value = 10
  MaxPosted = 1
  Filters = TRUE
  Scenarios <- PacedScenarios
  MaxSent = 6
  MaxUndelivered = 4
  FaultKinds = {"loss", "restart", "reset"}
  MaxFaults = 1
PROPERTY AlignsForGood
PROPERTY InOrder
PROPERTY AllDelivered
INVARIANT NoNeedlessNack
CHECK_DEADLOCK FALSE
