SPECIFICATION SwitchSpec
CONSTANTS
  Profiles = {vfkd, own}
  Themes = {classic, dusk}
  Shipped = {vfkd, classic}
  Clients = {k1}
  MaxRequests = 5
PROPERTY DisablingLeavesAProfile
CHECK_DEADLOCK FALSE
