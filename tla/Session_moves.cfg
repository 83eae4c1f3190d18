SPECIFICATION Spec
CONSTANTS
  g1 = g1
  g2 = g2
  a = a
  b = b
  c = c
  NoId = NoId
  NoName = NoName
  Groups <- MCOneGroup
  Names <- MCOneNames
  MaxNum <- MCMoreNums
  Ids <- MCIds
  IdAt <- MCOneIdAt
  Scribblers <- MCScribblers
INVARIANTS
  NothingBeforeInvalid
PROPERTIES
  GroupSelectsFirst
  MoveSkipsNothing
