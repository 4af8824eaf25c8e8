SPECIFICATION FairSpec
CONSTANTS
  Interval = 2
  BasePenalty = 1
  MaxPenalty = 5
  ResetAfter = 9
  MaxFailures = 4
  MaxBack = 2
INVARIANTS
  WaitIsBounded
PROPERTIES
  
  DueTimerSpec
