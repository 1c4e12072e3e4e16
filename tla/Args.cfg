SPECIFICATION FairSpec
CONSTANTS
  Number <- MCNumber
  UInt <- MCUInt
  Realpath <- MCRealpath
  Lines <- MCLines
INVARIANTS LineServed OptionsRead RefusedForReason Terminated
PROPERTY Parsed
CHECK_DEADLOCK FALSE
