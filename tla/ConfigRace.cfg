SPECIFICATION ConfigSpec
CONSTANTS
  Requests = {r1, r2}
  Settings = {r1}
  Setup = setup
  Truncated = truncated
  Garbage = garbage
  Serial = FALSE
  Faults = FALSE
INVARIANTS
  NoSaveIsLost
CHECK_DEADLOCK FALSE
