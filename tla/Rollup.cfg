CONSTANTS
  TierAge <- TierAgeValue
  TierWidth <- TierWidthValue
  DayLength = 4
  Retention = 13
  PinDays = {1}
  MaxNow = 15
  Levels = {60, 100}
  SaturatedFrom = 80
  MinMinutes = 2
  FineAfter = 3
  CoarseAfter = 8
  FineBucket = 4
  CoarseBucket = 8
  MaxMinutes = 6
  TraceTargets = {t1, t2}
  LastTrigger = 2
  NoTrace = none
  MaxJobs = 2
  Channels = {d1, d2}
  Size = 8
  Starts = {7}
  Growths = {1, 5}
  MaxPolls = 3
  MaxUpsets = 2
  NoCounts = unknown
  Hosts = {h1, h2}
  SeqSpace = 8
  MaxBatches = 2
  Ids = {c1, c2, c3}
  Modulations = {1, 2}
  Absent = absent
  Files = {main, config}
  Databases = {main}
  Writers = {w1, w2}
  Restorers = {q1, q2}
  Here = here
  Elsewhere = elsewhere
  Broken = broken
  Keep = 1
  MaxArchives = 2
  Names = {n1, n2}
  MaxPuts = 3
  MaxFailures = 2
  MaxLaunchers = 3
  MaxStarts = 2
  MaxKills = 1
  MaxFaults = 2
  None = nothing
  DsScQam = {x1, x2}
  DsOfdm = {o1}
  UsScQam = {u1}
  UsOfdma = {a1}
  Missing = missing
  MaxFlaws = 2
  Profiles = {vfkd, own}
  Themes = {classic, dusk}
  Shipped = {vfkd, classic}
  Clients = {k1, k2}
  MaxRequests = 4
  Requests = {r1, r2, r3}
  Settings = {r1, r2}
  Setup = setup
  Truncated = truncated
  Garbage = garbage
  Serial = TRUE
  Faults = TRUE
  DriverPair = {m1, m2}
  Operator = operator
  NoClient = nobody
  OptionalTables = 1
  MaxLosses = 1
  HasLegacyTLS = TRUE
  MaxReads = 2
  MaxGlitches = 2
  Carriers = {"a", "b"}
  Reports <- ReportsValue
  Unknown = unnamed
  MaxSnapshots = 3
  MaxDay = 2
  MaxGenerations = 2
  MaxServerPolls = 3
  Channel = {"a", "b", "u"}
  DirectionOf <- DirectionOfValue
  MaxManual = 2
  Ranges = {1, 2}
  MaxAsked = 3
  PageSize = 1
  MaxEvents = 4
  MaxTickets = 3
  MaxWire = 2
SPECIFICATION Spec
PROPERTY RollUpKeepsSamples
CHECK_DEADLOCK FALSE
