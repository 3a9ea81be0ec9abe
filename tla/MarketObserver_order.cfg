SPECIFICATION Spec
CONSTANTS
  Pools = {p1}
  MaxLag = 0
  CacheBlocks = 0
  LogIndexes = {1, 2}
  MaxBlock = 2
  MaxSwaps = 2
  Polls = {f1}
PROPERTIES
  NeverGoesBack
CHECK_DEADLOCK FALSE
