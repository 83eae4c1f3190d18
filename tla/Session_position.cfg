SPECIFICATION Spec
CONSTANTS
  g1 = g1
  g2 = g2
  a = a
  b = b
  c = c
  NoId = NoId
  NoName = NoName
  Groups <- MCGroups
  Names <- MCNames
  MaxNum <- MCMaxNum
  Ids <- MCIds
  IdAt <- MCIdAt
  Scribblers <- MCScribblers
INVARIANTS
  TypeOK
  PositionCoherent
  ReplyCoherent
  GroupIsChosen
PROPERTIES
  RefusedKeepsPosition
  ImplementsCurrentArticle
