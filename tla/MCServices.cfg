SPECIFICATION ServicesSpec
CONSTANTS
  ONE = 100
  PRICE_ONE = 10
  TOKEN_ONE <- TokenOne
  MAX_BPS = 100
  NoPrice = NoPrice
  Config <- TradeConfig
  Actors <- TradeActors
  TradeModes = {"canary", "active"}
  Stable <- OnlyStableB
  Feeds <- SomeFeeds
  GuardQuotes <- SomeGuardQuotes
  PoolPrices <- SomePools
  Balances = {20, 400}
  Outputs = {0, 7, 160, 333}
  GasPrices = {1, 3}
  SlippageBps = {1, 3}
  MaxClock = 2
  BlockLag = 1
  Assets = {"usdt"}
  Readers = {"pipeline", "runner"}
  EndpointLag = 1
  MaxHead = 3
  Harvester = "runner"
  StableAsset = "usdt"
  ReinvestShare = 100
  MinHarvest = 1
  MaxStable = 1
  MaxPlanned = 1
  Spikes = {"policy-rejection-spike"}
  Window = 3
  SpikeThreshold = 2
  RpcInterval = 2
  RpcThreshold = 2
  RpcCooldown = 3
  SlowestCheck = 3
  FirstTime = 3
  LastTime = 12
  MaxSignals = 4
  Writers = {"pipeline", "runner"}
  Dates = {1, 2}
  MaxLines = 3
  MaxEntries = 5
  PageLimit = 2
  WINDOW_MS = 6
  MAX_TOKENS = 2
  EndOfTime = 12
  N = 5
  Keys = {"ours", "theirs"}
  AgentKey = "ours"
  NoKey = "none"
  Deployments = {1, 2}
  Wallets = {"hot", "kms"}
  REQUIRED = 4
  POLL = 2
  SoakHours = {2, 4}
  MaxReports = 2
  Pools = {p1}
  MaxLag = 1
  CacheBlocks = 1
  LogIndexes = {1, 2}
  MaxBlock = 3
  MaxSwaps = 2
  Polls = {f1, f2}
  Tokens = {t1, t2, t3, t4, t5}
  Quoted = {"usdt", "six"}
  Unit <- Decimals
  Aggregators = {"f8", "f0"}
  FeedOne <- FeedDecimals
  Answers = {0, 3}
  Amounts = {0, 1, 7, 30}
  Admins = {"owner", "next"}
  Nobody = "nobody"
INVARIANTS
  BuiltIntentAccepted
  SellsTheDearToken
  RebalanceNarrowsDrift
  CanaryCapHolds
  CacheAddsNoLag
  HarvestWithinGains
  LabelWithinLag
  SpikeIsHeard
  LastWordIsTrue
  PagesInOrder
  TornCostsOne
  BurstBounded
  BroadcastIsOurs
  ValidatedMeansComplete
  CloseoutIsEarned
  ListMatchesFlags
  QuotesAreFair
CHECK_DEADLOCK FALSE
