SPECIFICATION FairSpec
CONSTANTS
  c1 = c1
  a = a
  b = b
  c = c
  Conns <- MCConns
  Ids <- MCIds
  Junk <- MCJunk
  Window <- MCWindow
INVARIANTS
  TypeOK
  InSync
  RepliesPaired
  AcceptedIsStored
PROPERTIES
  OffersEnd
