SPECIFICATION Spec
CONSTANTS
  f = f  d = d
  Files = {f}
  Dirs = {d}
  OtherBits <- MCOtherBits
  InitialAccess <- MCAccess
INVARIANTS TypeOK Granted Withheld
