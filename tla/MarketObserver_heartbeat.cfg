SPECIFICATION Spec
CONSTANTS
  Pools = {p1}
  MaxLag = 0
  CacheBlocks = 0
  LogIndexes = {1}
  MaxBlock = 2
  MaxSwaps = 1
  Polls = {f1}
INVARIANTS
  HeartbeatGoesOn
CHECK_DEADLOCK FALSE
