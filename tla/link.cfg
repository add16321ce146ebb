SPECIFICATION Spec
CONSTANTS
  n1 = n1
  m1 = m1
  none = none
  Links <- MCLinks
  Msu <- OneMsu
  NoMsu = none
  PeerSU <- DataPeer
  SeqMod = 2
  TX_QUEUE_GAP = 2
  Slots = 1
  T1value = 3
  T2value = 2
  T3value = 2
  T4value = 1
  MaxPosted = 1
INVARIANT TypeOK
INVARIANT TsigWithinT1
INVARIANT ServiceAnnounced
PROPERTY ImplementsService
