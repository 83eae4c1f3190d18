SPECIFICATION HeaderSpec
CONSTANTS
  Posts <- MCPosts
INVARIANTS
  SplitExact
  CutKept
  RawKept
  FieldsPicked
  EndsEarly
CHECK_DEADLOCK FALSE
