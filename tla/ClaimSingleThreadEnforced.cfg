SPECIFICATION Spec
CONSTANTS
  Number <- MCNumber
  UInt <- MCUInt
  Realpath <- MCRealpath
  Lines <- AnyLines
INVARIANT SingleThreadEnforced
CHECK_DEADLOCK FALSE
