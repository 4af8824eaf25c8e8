SPECIFICATION Spec
CONSTANTS
  Healths = {good, marginal, critical}
  Devices = {d1, d2}
  None = none
  Hystereses = {0, 3}
  MaxFaults = 2
INVARIANTS
  LogHoldsSteadyHealth
PROPERTIES
  EventsAreConfirmed
  
  SteadyStateIsLearned
