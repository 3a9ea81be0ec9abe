SPECIFICATION TradingSpec
CONSTANTS
  ONE = 100
  PRICE_ONE = 10
  TOKEN_ONE <- TokenOne
  MAX_BPS = 100
  NoPrice = NoPrice
  Config <- TradeConfig
  Actors <- TradeActors
  TradeModes = {"canary", "active"}
  Stable <- OnlyStableB
  Feeds <- SomeFeeds
  GuardQuotes <- SomeGuardQuotes
  PoolPrices <- SomePools
  Balances = {20, 1000}
  Outputs = {0, 7, 160, 333}
  GasPrices = {1, 3}
  SlippageBps = {1, 3}
  MaxClock = 2
  BlockLag = 1
INVARIANTS
  DeadlineFitsGuard
