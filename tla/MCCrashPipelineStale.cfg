SPECIFICATION PipelineSpec
CONSTANTS
  game = game
  worker = worker
  Threads = {game, worker}
  WorkerThread = worker
  MaxRaises = 2
  MaxSecond = 0
  MaxIoErrors = 0
  MaxFaults = 0
  MaxTick = 2
  MaxGen = 1
INVARIANTS
  SnapshotLiveAtCrash
CHECK_DEADLOCK FALSE
