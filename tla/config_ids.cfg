SPECIFICATION Spec
CONSTANTS
  t1 = t1
  t2 = t2
  t3 = t3
  u1 = u1
  g1 = g1
  g2 = g2
  g3 = g3
  r1 = r1
  r2 = r2
  None = None
  TS <- MCTS
  SecondPcm <- MCSecond
  Gateway <- MCGateway
  Requests <- MCRequests
  Overlaps = 0
  AllowedSgws = 2
  AllowedLinks = 3
  LinksetMax = 2
SYMMETRY Symmetry
INVARIANT LinksApart
