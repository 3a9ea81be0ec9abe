SPECIFICATION Spec
CONSTANTS
  pool = pool
  tok = tok
  rebalance = rebalance
  buyback = buyback
  Pools = {pool}
  Tokens = {tok}
  TaskOrder <- OneTask
  BuybackTask = buyback
  Modes = {"simulate", "active"}
  MaxFailures = 2
  MaxBlock = 2
  MaxIntents = 2
  MaxManual = 1
  MaxRestarts = 1
INVARIANTS
  OneSwapAfterTrip
  SwapsAreVerified
  BreakerSeesEveryFailure
  RecordsMatchChain
PROPERTIES
  BlocksOnlyAdvance
CHECK_DEADLOCK FALSE
