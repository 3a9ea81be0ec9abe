SPECIFICATION Spec
CONSTANTS
  pool = pool
  tok = tok
  rebalance = rebalance
  buyback = buyback
  Pools = {pool}
  Tokens = {tok}
  TaskOrder <- OneTask
  BuybackTask = buyback
  Modes = {"active"}
  MaxFailures = 2
  MaxBlock = 2
  MaxIntents = 2
  MaxManual = 0
  MaxRestarts = 0
INVARIANTS
  ExecutedSwapsRan
CHECK_DEADLOCK FALSE
