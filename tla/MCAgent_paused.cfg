SPECIFICATION Spec
CONSTANTS
  pool = pool
  tok = tok
  rebalance = rebalance
  buyback = buyback
  Pools = {pool}
  Tokens = {tok}
  TaskOrder <- OneTask
  BuybackTask = buyback
  Modes = {"active"}
  MaxFailures = 2
  MaxBlock = 2
  MaxIntents = 1
  MaxManual = 1
  MaxRestarts = 0
PROPERTIES
  PausedAfterTrip
CHECK_DEADLOCK FALSE
