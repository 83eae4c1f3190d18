SPECIFICATION FairSpec
CONSTANTS
  Size <- MCSize
  Streams <- MCFewStreams
  EmptyReads = FALSE
  EofWithData = FALSE
PROPERTIES
  NoLineLost
  ArticleHandled
  ImplementsFraming
