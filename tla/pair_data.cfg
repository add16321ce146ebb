SPECIFICATION DataSpec
CONSTANTS
  a = a
  b = b
  none = none
  Links <- MCLinks
  Msu <- MCMsu
  NoMsu = none
  PeerSU = {}
  SeqMod = 3
  TX_QUEUE_GAP = 2
  Slots = 2
  T1value = 3
  T2value = 3
  T3value = 3
  T4value = 1
  MaxPosted = 1
  Filters = TRUE
  Scenarios <- DataScenarios
  MaxSent = 6
  MaxUndelivered = 2
  FaultKinds = {"loss"}
  MaxFaults = 2
PROPERTY InOrder
CHECK_DEADLOCK FALSE
