SPECIFICATION FairSpec
CONSTANTS
  r1 = r1
  NULL = NULL
  Others = {}
  Requests = {r1}
  MaxSwaps = 1
PROPERTIES
  DueIsCollected
  StopEndsEverything
  SwapTakesEffect
