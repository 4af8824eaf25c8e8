SPECIFICATION FairSpec
CONSTANTS
  Sources = {modem, cm}
  MaxExecs = 2
  MaxResults = 2
  MinInterval = 1
  Day = 2
  DailyCap = 1
  Window = 1
  ExpireAfter = 2
  Backfill = 1
  Free = free
INVARIANTS
  LimitsOnRuns
  LinksAreSound
PROPERTIES
  LifecycleSpec
