SPECIFICATION Spec
CONSTANTS
  module = module
  agentA = agentA
  tokA = tokA
  tokB = tokB
  router = router
  Addresses = {module}
  Agents = {agentA}
  NoAddress = NoAddress
  Tokens = {tokA, tokB}
  Routers = {router}
  Decimals <- MixedDecimals
  DAY = 2
  StartTime = 2
  MaxTime = 6
  InitialOwner = module
  InitialPolicy <- OwnerPolicy
  Requests <- OwnerRequests
  Amounts = {0, 1, 4}
  Durations = {0, 2}
  BpsValues = {0, 10001}
  InitialRate = 100
  Rates = {0, 103}
  MaxOwnerCalls = 1
INVARIANTS
  DayVolumeWithinLimit
  CooldownSeparates
  PriceFloor
  VolumeIsAudited
  AnyDayWithinWeightedLimit
  BudgetRecovers
PROPERTIES
  BudgetOnlyRecovers
CHECK_DEADLOCK FALSE
