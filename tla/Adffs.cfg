SPECIFICATION FairSpec
CONSTANTS
  r = r  s1 = s1  s2 = s2  s3 = s3
  na = na  nb = nb  none = none  t1 = t1  t2 = t2
  Sectors <- MCSectors
  Root = r
  NoSector = none
  Names <- MCNames
  Fold <- MCFold
  Real <- MCReal
  ReadOnly = FALSE
  Images <- MCImages
  Threads <- MCThreads
  SingleThreaded = TRUE
  Paths <- MCPaths
  Renames <- MCRenames
  KernelChecked = TRUE
  CwdBound = 2
INVARIANTS TypeOK CurDirLive OnPath RightFile CwdAgrees
PROPERTIES ChangesNamedDirs ImplementsPathFs Answered
