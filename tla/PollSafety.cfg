SPECIFICATION HSpec
CONSTANTS
  weather = weather
  r1 = r1
  NULL = NULL
  Others = {weather}
  Requests = {r1}
  MaxSwaps = 1
INVARIANTS
  RunsAreExclusive
  PoolNeverSaturated
  StaleOnlyFromSurvivors

  
