SPECIFICATION PipelineSpec
CONSTANTS
  game = game
  worker = worker
  Threads = {game, worker}
  WorkerThread = worker
  MaxRaises = 2
  MaxSecond = 0
  MaxIoErrors = 0
  MaxFaults = 0
  MaxTick = 3
  MaxGen = 1
INVARIANTS
  ReportCoherent
PROPERTIES
  WorkerContract
CHECK_DEADLOCK FALSE
