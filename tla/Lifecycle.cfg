SPECIFICATION FairSpec
CONSTANTS
  Savers = {s1, s2}
  Watched = {s1, main}
  Main = main
  None = none
  Serial = TRUE
  Slow = TRUE
INVARIANTS
  OneLoopIsShown

  
CHECK_DEADLOCK FALSE
