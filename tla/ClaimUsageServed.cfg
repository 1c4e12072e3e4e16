SPECIFICATION Spec
CONSTANTS
  Number <- MCNumber
  UInt <- MCUInt
  Realpath <- MCRealpath
  Lines <- UsageLines
INVARIANT UsageServed
CHECK_DEADLOCK FALSE
