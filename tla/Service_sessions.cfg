SPECIFICATION Spec
CONSTANTS
  c1 = c1
  c2 = c2
  n1 = n1
  n2 = n2
  r1 = r1
  r2 = r2
  g1 = g1
  g2 = g2
  g3 = g3
  g4 = g4
  u = u
  v = v
  Conns <- MCConns
  Nntp <- MCNntp
  Readers <- MCReaders
  Groups <- MCGroups
  Users <- MCUsers
  Open <- MCOpen
  knows <- MCKnows
  Fields <- MCFields
  Given <- MCGiven
  BackendFills = TRUE
SYMMETRY Symmetry
INVARIANTS
  Exclusive
  CapsReady
  LoginIsOwn
