SPECIFICATION FairSpec
CONSTANTS
  Commands <- nntpCommands
  Window <- MCWindow
INVARIANTS
  Paired
  CodesFit
PROPERTIES
  WindowMoves
