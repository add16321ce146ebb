SPECIFICATION FairSpec
CONSTANTS
  s1 = s1
  s2 = s2
  s0 = s0
  none = none
  Slots = 3
  SU <- MCSU
  NoLength = s0
  Traffic <- OneRing
  NoSU = none
INVARIANT TypeOK
INVARIANT HandedOver
INVARIANT InPlace
PROPERTY SentWhole
PROPERTY ImplementsQueues
PROPERTY InitEnds
