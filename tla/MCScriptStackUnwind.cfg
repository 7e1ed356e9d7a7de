SPECIFICATION Spec
CONSTANTS
  Threads = {t1}
  Functions = {f1, f2}
  NoFunction = none
  kMaxDepth = 3
  MaxCalls = 5
  MaxUnwinds = 2
INVARIANTS
  ListedFramesInFlight
