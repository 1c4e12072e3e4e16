SPECIFICATION FairSpec
CONSTANTS
  Chars = {"/", ".", "a"}
  Paths <- MCPaths
  Kinds = {"rename"}
  CwdBound = 2
PROPERTY PathConverted
