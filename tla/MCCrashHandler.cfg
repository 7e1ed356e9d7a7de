SPECIFICATION Spec
CONSTANTS
  Threads = {t1, t2}
  MaxRaises = 2
  MaxSecond = 1
  MaxIoErrors = 1
  MaxFaults = 1
SYMMETRY ThreadSymmetry
INVARIANTS
  OneReporter
  ReportsNotMixed
  ReportBeforeDeath
  SingleFailureLeavesText
  SidecarFollowsReport
CHECK_DEADLOCK FALSE
