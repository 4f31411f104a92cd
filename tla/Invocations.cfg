SPECIFICATION Spec
CONSTANTS
  good = good
  other = other
  bad = bad
  open = open
  NoFile = NoFile
  Programs <- MCPrograms
  Options <- MCOptions
  FileArg <- MCFileArg
  Rejected = {bad}
  Unlinkable = {open}
  Concurrent = {good, other}
  MayKill = {good, other, bad}
  Foreign = {other}
CHECK_DEADLOCK FALSE
INVARIANTS
  DriverTypeOK
  OwnResults
  StatusTells
  SuccessIsWhole
PROPERTIES
  LeavesClean
  Terminates
