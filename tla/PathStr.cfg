SPECIFICATION FairSpec
CONSTANTS
  Chars = {"/", ".", "a"}
  Paths <- MCPaths
  Kinds = {"absolute", "relative", "list", "rename"}
  CwdBound = 3
INVARIANT CwdRendered
PROPERTIES ImplementsPathNames Ends
