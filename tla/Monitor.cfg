CONSTANTS
  Targets = {t1, t2}
  Threshold = 2
  MaxFaults = 1
SPECIFICATION Spec
 
PROPERTIES LastingOutageIsLogged
CHECK_DEADLOCK FALSE
