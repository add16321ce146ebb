SPECIFICATION Spec
CONSTANTS
  n1 = n1
  m1 = m1
  none = none
  Links <- MCLinks
  Msu <- NoMsus
  NoMsu = none
  PeerSU <- TimersPeer
  SeqMod = 2
  TX_QUEUE_GAP = 2
  Slots = 1
  T1value = 4
  T2value = 3
  T3value = 3
  T4value = 2
  MaxPosted = 1
PROPERTY ProvingStartsAfresh
