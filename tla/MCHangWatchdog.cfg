SPECIFICATION HangSpec
CONSTANTS
  Threads = {t1, t2}
  Tids = {id1}
  SlotCount = 2
  MaxTime = 7
  Threshold = 2
  MaxFreezes = 1
  MaxIoErrors = 1
  MaxMisreads = 1
INVARIANTS
  OneReportPerSilence
PROPERTIES
  HangReported
  SilenceIsTrue
CHECK_DEADLOCK FALSE
