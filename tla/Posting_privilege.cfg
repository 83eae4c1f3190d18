SPECIFICATION Spec
CONSTANTS
  c1 = c1
  a = a
  b = b
  c = c
  Conns <- MCConns
  Ids <- MCTwo
  Junk <- MCJunk
  Window <- MCWindow
INVARIANTS
  PostingIsAllowed
