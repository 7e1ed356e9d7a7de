SPECIFICATION Spec
CONSTANTS
  Threads = {t1, t2, t3}
  Tids = {id1, id2}
  SlotCount = 2
  MaxTime = 3
SYMMETRY ThreadSymmetry
INVARIANTS
  SlotsExclusive
  HeartbeatCurrent
CHECK_DEADLOCK FALSE
