SPECIFICATION Spec
CONSTANTS
  Size <- MCSize
  Streams <- MCStreams
  EmptyReads = FALSE
  EofWithData = TRUE
INVARIANTS
  TypeOK
  InOrder
  LineExact
  ArticleExact
  DataIntact
