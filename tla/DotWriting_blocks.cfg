SPECIFICATION Spec
CONSTANTS
  Lines <- MCLines
  Chunks <- MCChunks
  Room <- MCRoom
  Longest <- MCLongest
INVARIANTS
  OneArticle
  ContentKept
  Delivered
  NoFalseEnd
