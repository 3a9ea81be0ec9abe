SPECIFICATION ProgressSpec
CONSTANTS
  pool = pool
  tok = tok
  rebalance = rebalance
  buyback = buyback
  Pools = {pool}
  Tokens = {tok}
  TaskOrder <- TwoTasks
  BuybackTask = buyback
  Modes = {"observe", "active"}
  MaxFailures = 2
  MaxBlock = 1
  MaxIntents = 1
  MaxManual = 1
  MaxRestarts = 1
  TaskIds <- Order
  Interval <- Intervals
  Jitter <- Jitters
  TICK = 1
  MaxRunTime = 1
  MaxManualRuns = 1
  Simulators = {"pipeline", "runner"}
  Ports = {1, 2}
  MaxRetries = 2
  MaxLag = 1
  CacheBlocks = 1
  LogIndexes = {1, 2}
  ObservedBlocks = 3
  MaxSwaps = 2
  Polls = {f1, f2}
INVARIANTS
  TypeOK
  RunningIsReal
PROPERTIES
  EveryRunEnds
  RunnerServesAll
  NoOrphan
  EventuallyCurrent
CHECK_DEADLOCK FALSE
