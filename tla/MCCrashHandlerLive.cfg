SPECIFICATION Spec
CONSTANTS
  Threads = {t1, t2}
  MaxRaises = 2
  MaxSecond = 0
  MaxIoErrors = 1
  MaxFaults = 1
PROPERTIES
  GateReopens
CHECK_DEADLOCK FALSE
