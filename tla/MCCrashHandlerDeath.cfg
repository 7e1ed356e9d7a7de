SPECIFICATION Spec
CONSTANTS
  Threads = {t1, t2}
  MaxRaises = 2
  MaxSecond = 0
  MaxIoErrors = 0
  MaxFaults = 0
INVARIANTS
  CrashLeavesReport
CHECK_DEADLOCK FALSE
