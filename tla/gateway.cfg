SPECIFICATION FairSpec
CONSTANTS
  linkqty = 2
  sltT1value = 1
  sltT2value = 0
  sltQty = 2
  Labelled = TRUE
  FromPeer <- NetworkMessages
  FromClients <- ClientMessages
  MaxQueue = 5
  MaxNews = 1
  MaxWait = 2
INVARIANT TypeOK
INVARIANT AspTold
INVARIANT DeadLinkNoticed
PROPERTY TestSucceeds
