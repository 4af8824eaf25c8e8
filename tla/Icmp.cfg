SPECIFICATION ProbeSpec
CONSTANTS
  Hosts = {h1, h2}
  SeqSpace = 8
  MaxBatches = 2
INVARIANT AnswersAreOwn
CHECK_DEADLOCK FALSE
