SPECIFICATION ModuleSpec
CONSTANTS
  Module = Module
  ThisGuard = ThisGuard
  OtherGuard = OtherGuard
  NoAddress = NoAddress
  agentA = agentA
  agentB = agentB
  tokA = tokA
  tokB = tokB
  coin = coin
  router = router
  Addresses = {Module}
  Agents = {agentA, agentB}
  Tokens = {tokA, tokB, coin}
  Routers = {router}
  Native = coin
  QuietTokens = {tokA}
  Decimals <- Decimals18
  DAY = 1
  StartTime = 1
  MaxTime = 1
  InitialOwner = Module
  InitialPolicy <- SafePolicy
  Requests <- SafeRequests
  Amounts = {}
  Durations = {}
  BpsValues = {}
  InitialRate = 1
  Rates = {2}
  MaxOwnerCalls = 0
  Selectors <- AllSelectors
  Calldatas <- SafeCalldatas
  LegacyAllowance <- SafeLegacy
  StartBalance <- SafeBalances
  MaxBalance = 2
  MaxDue = 2
  InitialAgent = agentA
  InitialSelectors <- SafeSelectors
  MaxModuleOwnerCalls = 1
  InitialProtected <- SafeProtected
INVARIANTS
  ModuleTypeOK
  OutflowIsCharged
  NoAllowanceLeft
  RoutersTakeTheirDue
PROPERTIES
  SafePaidOraclePrice
CHECK_DEADLOCK FALSE
