------------------------------- MODULE Trading -------------------------------
(***************************************************************************)
(* One trade from the market to the point of submission: the prices both   *)
(* actors take (oracle-service.ts, guard-oracle-service.ts and the         *)
(* fallbacks of index.ts and autonomous-task-runner.ts), what each then    *)
(* proposes (rebalance-detector.ts and the runner's planners), the intent  *)
(* (intent-builder.ts, math.ts) and the checks it has to pass              *)
(* (profitability.ts, SwapGuard's on amounts and deadline,                 *)
(* runtime-policy.ts).  Agent models how trades interleave; this module is *)
(* about their amounts.                                                    *)
(*                                                                         *)
(* Amounts are raw token units.  The code's powers of ten are constants,   *)
(* so that small ones can be checked: ONE is 10^18, PRICE_ONE the 10^8 of  *)
(* a Pyth price, TOKEN_ONE[t] is 10^decimals, MAX_BPS is 10 000.           *)
(***************************************************************************)
EXTENDS Integers, FiniteSets

CONSTANTS
    ONE, PRICE_ONE, TOKEN_ONE, MAX_BPS,
    NoPrice,
    Config,          \* the parsed environment: the fields of config/index.ts used here
    Actors,          \* bound: "pipeline" and the tasks considered
    TradeModes,      \* bound: execution modes considered
    Stable,          \* [{"pipeline", "task"} -> the tokens in its KNOWN_STABLECOINS]
    Feeds,           \* bound: Hermes' answers for a token, [price, age, unsure], or NoPrice
    GuardQuotes,     \* bound: answers of the guard's oracle, [amountOut, age], or NoPrice
    PoolPrices,      \* bound: pool prices, raw token1 per raw token0 as [num, den]
    Balances,        \* bound: balances of the Safe
    Outputs,         \* bound: amounts the quoter answers
    GasPrices,       \* bound
    SlippageBps,     \* bound: settings of the guard
    MaxClock,        \* bound: seconds a trade may take
    BlockLag         \* bound: seconds the last block may lie behind the host's clock

Coins == {"A", "B"}
Other(t) == CHOOSE u \in Coins : u # t

ASSUME TradingAssumption ==
    /\ {ONE, PRICE_ONE, MAX_BPS} \subseteq Nat \ {0}
    /\ TOKEN_ONE \in [Coins -> Nat \ {0}]
    /\ ONE % PRICE_ONE = 0
    /\ Outputs \cup Balances \subseteq Nat /\ SlippageBps \subseteq 0 .. MAX_BPS
    /\ Actors \subseteq {"pipeline", "delta-neutral-rebalance", "convex-lp-migration",
                        "protocol-buyback-burn"}
    \* dollar prices are not negative; the code does not look at their sign
    /\ \A feed \in Feeds \ {NoPrice} : feed.price \in Nat /\ feed.age \in Nat
    /\ \A quote \in GuardQuotes \ {NoPrice} : quote.amountOut \in Nat /\ quote.age \in Nat
    /\ PoolPrices \subseteq [num : Nat, den : Nat \ {0}]
    /\ Config.MIN_DEVIATION_BPS \in Nat \ {0}
    /\ {Config.maxDeadlineDelay, Config.minTradeAmount, Config.TASK_REBALANCE_SHARE_BPS,
        Config.TASK_MAX_NOTIONAL_USD, Config.TASK_MIGRATION_SHARE_BPS,
        Config.TASK_BUYBACK_SHARE_BPS, Config.CANARY_MAX_TRADE_USD} \subseteq Nat

VARIABLES
    clock,           \* Date.now in seconds since the trade began
    params,          \* policyParams: the guard's settings read once at startup
    guardParams,     \* the guard's settings now
    token0,          \* which of the pair's tokens has the lower address
    tradeStage,      \* how far the trade is
    actor, tradeMode,
    snapshot,        \* MarketSnapshot
    plan,            \* RebalanceOpportunity or TaskSwapPlan
    intent           \* RebalanceIntent

tradeVars == <<clock, params, guardParams, token0, tradeStage, actor, tradeMode,
               snapshot, plan, intent>>

Abs(n) == IF n < 0 THEN -n ELSE n

-----------------------------------------------------------------------------
(* Prices.                                                                 *)

\* getPrices: what Hermes answers for a token, unless it is stale or its confidence
\* interval is wide.
PythPrice(feed) ==
    IF feed = NoPrice \/ feed.age > Config.MAX_STALENESS_SECONDS \/ feed.unsure THEN NoPrice
    ELSE [price |-> feed.price, publishTime |-> clock - feed.age]

\* deriveQuoteTokenUsdFromBaseToken
DeriveFrom(base, quoteToken, quote) ==
    IF quote = NoPrice \/ quote.amountOut = 0 \/ quote.age > Config.maxOracleStaleness THEN NoPrice
    ELSE LET price == (base.price * TOKEN_ONE[quoteToken]) \div quote.amountOut
         IN  IF price <= 0 THEN NoPrice
             ELSE [price |-> price, publishTime |-> clock - quote.age]

\* The fallbacks of buildSnapshot and runPipeline, in their order: Pyth, the other
\* token's price through the guard's oracle, one dollar for a stablecoin.
OraclePrices(who, feeds, quote) ==
    LET pyth == [t \in Coins |-> PythPrice(feeds[t])]
        derived == [t \in Coins |->
            IF pyth[t] = NoPrice /\ pyth[Other(t)] # NoPrice
            THEN DeriveFrom(pyth[Other(t)], t, quote) ELSE pyth[t]]
        stables == Stable[IF who = "pipeline" THEN "pipeline" ELSE "task"]
    IN  [t \in Coins |-> IF derived[t] = NoPrice /\ t \in stables
                         THEN [price |-> PRICE_ONE, publishTime |-> clock] ELSE derived[t]]

\* normalizePythPrice
NormalizePythPrice(p) == (p.price * ONE) \div PRICE_ONE

\* toUsdValue and fromUsdValue: dollars times ONE
ToUsdValue(amount, t, p) == (amount * NormalizePythPrice(p)) \div TOKEN_ONE[t]
FromUsdValue(usd, t, p) ==
    IF NormalizePythPrice(p) <= 0 THEN 0 ELSE (usd * TOKEN_ONE[t]) \div NormalizePythPrice(p)

-----------------------------------------------------------------------------
(* What to trade: the token sold and how much of it.  Other(sell) is bought. *)

NoPlan == [sell |-> "none", amountIn |-> 0]
Sell(t, amount) == IF amount <= 0 THEN NoPlan ELSE [sell |-> t, amountIn |-> amount]
Share(amount, bps) == (amount * bps) \div MAX_BPS

\* sqrtPriceX96ToPrice: token0's price in token1, times ONE
SqrtPriceX96ToPrice(pool) ==
    (pool.num * TOKEN_ONE[token0] * ONE) \div (pool.den * TOKEN_ONE[Other(token0)])

CalculateDeviationBps(a, b) == IF a = 0 \/ b = 0 THEN 0 ELSE (Abs(a - b) * MAX_BPS) \div b

\* calculateTradeSize
CalculateTradeSize(balance, minTrade) ==
    IF balance \div 10 < minTrade THEN minTrade ELSE balance \div 10

\* Mutant: the oracle's rate is always that of A in B.
CrossRateOfA(s) ==
    (NormalizePythPrice(s.price["A"]) * ONE) \div NormalizePythPrice(s.price["B"])

\* The oracle's price of token0 in token1, times ONE.
OracleCrossRate(s) ==
    (NormalizePythPrice(s.price[token0]) * ONE) \div NormalizePythPrice(s.price[Other(token0)])

\* detect
Detect(s) ==
    IF \E t \in Coins : s.price[t] = NoPrice \/ NormalizePythPrice(s.price[t]) = 0 THEN NoPlan
    ELSE LET dex == SqrtPriceX96ToPrice(s.pool)
             rate == OracleCrossRate(s)
             sell == IF dex < rate THEN Other(token0) ELSE token0
         IN  IF \/ dex = 0 \/ rate = 0
                \/ CalculateDeviationBps(dex, rate) < Config.MIN_DEVIATION_BPS
                \/ s.balance[sell] < Config.minTradeAmount
             THEN NoPlan
             ELSE [sell |-> sell,
                   amountIn |-> CalculateTradeSize(s.balance[sell], Config.minTradeAmount)]

\* Mutant: the share is taken of the larger side and not of the difference.
ShareOfTotal(valueA, valueB) == Share(valueA + valueB, Config.TASK_REBALANCE_SHARE_BPS)
RebalanceUsd(valueA, valueB) == Share(Abs(valueA - valueB), Config.TASK_REBALANCE_SHARE_BPS)

\* buildDeltaNeutralPlan.  The values are dollars times ONE; the cap is dollars.
DeltaNeutralPlan(s) ==
    LET value == [t \in Coins |-> ToUsdValue(s.balance[t], t, s.price[t])]
        total == value["A"] + value["B"]
        usd == RebalanceUsd(value["A"], value["B"])
        capped == IF usd > Config.TASK_MAX_NOTIONAL_USD THEN Config.TASK_MAX_NOTIONAL_USD ELSE usd
        sell == IF value["A"] >= value["B"] THEN "A" ELSE "B"
    IN  IF \/ \E t \in Coins : s.price[t] = NoPrice
           \/ total = 0
           \/ (Abs(value["A"] - value["B"]) * MAX_BPS) \div total < Config.TASK_REBALANCE_DRIFT_BPS
        THEN NoPlan
        ELSE Sell(sell, FromUsdValue(capped, sell, s.price[sell]))

\* buildLpMigrationPlan, for a pair whose tokenA is the base: it needs two fee tiers
\* that quote, the better one by enough.
LpMigrationPlan(s, outs) ==
    LET best == IF outs[1] > outs[2] THEN outs[1] ELSE outs[2]
        second == IF outs[1] > outs[2] THEN outs[2] ELSE outs[1]
    IN  IF second = 0 \/ ((best - second) * MAX_BPS) \div second < Config.TASK_ROUTE_IMPROVEMENT_BPS
        THEN NoPlan
        ELSE Sell("B", Share(s.balance["B"], Config.TASK_MIGRATION_SHARE_BPS))

\* buildBuybackPlan.  Again the value is dollars times ONE and the threshold dollars.
BuybackPlan(s) ==
    IF \/ s.price["B"] = NoPrice
       \/ ToUsdValue(s.balance["B"], "B", s.price["B"]) < Config.TASK_BUYBACK_MIN_STABLE_USD
    THEN NoPlan
    ELSE Sell("B", Share(s.balance["B"], Config.TASK_BUYBACK_SHARE_BPS))

\* detect for the pipeline, buildTaskPlan for a task (the harvest is in TaskRunner).
Plans(s) ==
    CASE actor = "pipeline" -> {Detect(s)}
      [] actor = "delta-neutral-rebalance" -> {DeltaNeutralPlan(s)}
      [] actor = "convex-lp-migration" -> {LpMigrationPlan(s, o) : o \in [1 .. 2 -> Outputs]}
      [] actor = "protocol-buyback-burn" -> {BuybackPlan(s)}

-----------------------------------------------------------------------------
(* The pipeline's checks on gas and profit.                                *)

\* deriveNativePrice, the native coin being token A
NativePrice(s, t) ==
    IF t = "A" THEN ONE
    ELSE (NormalizePythPrice(s.price[t]) * ONE) \div NormalizePythPrice(s.price["A"])

\* isGasPriceAcceptable and checkProfitability.  Multipliers are in hundredths.
CheckProfitability(s, p, out, gasPrice) ==
    LET buy == Other(p.sell)
        gross == (out * NativePrice(s, buy)) \div TOKEN_ONE[buy]
                 - (p.amountIn * NativePrice(s, p.sell)) \div TOKEN_ONE[p.sell]
    IN  /\ gasPrice <= (Config.gasRollingAverage * Config.MAX_GAS_PRICE_MULTIPLIER) \div 100
        /\ \A t \in Coins : NativePrice(s, t) # 0
        /\ gross > 0
        /\ gross * 100 > gasPrice * Config.ESTIMATED_SWAP_GAS_UNITS * Config.MIN_PROFIT_MULTIPLIER

-----------------------------------------------------------------------------
(* The intent and its checks.                                              *)

\* Mutant: the tolerance is taken off twice.
SlippageTwice(amount, bps) == (amount * (MAX_BPS - 2 * bps)) \div MAX_BPS

ApplySlippage(amount, bps) == (amount * (MAX_BPS - bps)) \div MAX_BPS

\* IntentBuilder.build and toSwapRequest
Build(p, out) ==
    [sell |-> p.sell, amountIn |-> p.amountIn, expectedAmountOut |-> out,
     minAmountOut |-> ApplySlippage(out, params.maxSlippageBps),
     deadline |-> clock + params.maxDeadlineDelay]

NoIntent == [sell |-> "none", amountIn |-> 0, expectedAmountOut |-> 0, minAmountOut |-> 0,
             deadline |-> 0]

\* The guard's checks of checkSwap that the agent's own arithmetic has to meet.
ToleranceAccepts(i, bps) ==
    /\ i.expectedAmountOut > 0 /\ i.minAmountOut <= i.expectedAmountOut
    /\ ((i.expectedAmountOut - i.minAmountOut) * MAX_BPS) \div i.expectedAmountOut <= bps
DeadlineAccepts(i, blockTime) ==
    /\ i.deadline >= blockTime
    /\ i.deadline <= blockTime + guardParams.maxDeadlineDelay

\* Mutant: the price of the token bought is taken.
PriceOfBought(s, t) == s.price[Other(t)]

\* pickOraclePrice
PickOraclePrice(s, t) == s.price[t]

\* estimateNotionalUsdE8: dollars times PRICE_ONE
EstimateNotional(i, p) == (i.amountIn * p.price) \div TOKEN_ONE[i.sell]

\* validatePreSubmit.  The pipeline passes the time it began, the runner the present.
ValidatePreSubmit(i, p, pipelineStart) ==
    LET below(cap) == EstimateNotional(i, p) <= cap * PRICE_ONE
    IN  /\ tradeMode \in {"canary", "active"}
        /\ i.minAmountOut # 0
        /\ i.deadline >= clock + Config.DEADLINE_BUFFER_SECONDS
        /\ p # NoPrice => pipelineStart - p.publishTime <= Config.MAX_ORACLE_AGE_SECONDS
        /\ Config.RUNTIME_MAX_NOTIONAL_USD > 0 => p # NoPrice /\ below(Config.RUNTIME_MAX_NOTIONAL_USD)
        /\ tradeMode = "canary" => p # NoPrice /\ below(Config.CANARY_MAX_TRADE_USD)

-----------------------------------------------------------------------------
NoSnapshot == [pool |-> "none"]
TradeFields == <<snapshot, plan, intent>>
Fixed == <<params, guardParams, token0, actor, tradeMode>>

\* Startup has read the guard's settings; the owner may have changed them since.
TradingInit ==
    /\ clock = 0
    /\ \E then, since \in SlippageBps :
          /\ params = [maxSlippageBps |-> then, maxDeadlineDelay |-> Config.maxDeadlineDelay]
          /\ guardParams = [params EXCEPT !.maxSlippageBps = since]
    /\ token0 \in Coins
    /\ tradeStage = "observing" /\ actor \in Actors /\ tradeMode \in TradeModes
    /\ snapshot = NoSnapshot /\ plan = NoPlan /\ intent = NoIntent

\* buildSnapshot, and the first part of runPipeline
Observe ==
    /\ tradeStage = "observing"
    /\ \E feeds \in [Coins -> Feeds], quote \in GuardQuotes, pool \in PoolPrices,
          balance \in [Coins -> Balances] :
          snapshot' = [pool |-> pool, balance |-> balance,
                       price |-> OraclePrices(actor, feeds, quote)]
    /\ tradeStage' = "planning"
    /\ UNCHANGED <<clock, Fixed, plan, intent>>

MakePlan ==
    /\ tradeStage = "planning"
    /\ plan' \in Plans(snapshot) \ {NoPlan}
    /\ tradeStage' = "quoting"
    /\ UNCHANGED <<clock, Fixed, snapshot, intent>>

\* The quote comes, and for the pipeline gas and profit are acceptable.
QuoteAndBuild ==
    /\ tradeStage = "quoting"
    /\ \E out \in Outputs \ {0}, gasPrice \in GasPrices :
          /\ actor = "pipeline" => CheckProfitability(snapshot, plan, out, gasPrice)
          /\ intent' = Build(plan, out)
    /\ tradeStage' = "built"
    /\ UNCHANGED <<clock, Fixed, snapshot, plan>>

\* The policy check, on the last block, and the simulation take their time.
Verify ==
    /\ tradeStage = "built"
    /\ ToleranceAccepts(intent, guardParams.maxSlippageBps)
    /\ \E checked \in clock .. MaxClock :
          /\ \E lag \in 0 .. BlockLag : DeadlineAccepts(intent, checked - lag)
          /\ clock' \in checked .. MaxClock
    /\ tradeStage' = "verified"
    /\ UNCHANGED <<Fixed, TradeFields>>

Submit ==
    /\ tradeStage = "verified"
    /\ ValidatePreSubmit(intent, PickOraclePrice(snapshot, intent.sell),
                         IF actor = "pipeline" THEN 0 ELSE clock)
    /\ tradeStage' = "submitted"
    /\ UNCHANGED <<clock, Fixed, TradeFields>>

\* The trade ends, executed or at one of its checks, and some actor begins another.
NextTrade ==
    /\ tradeStage # "observing"
    /\ tradeStage' = "observing" /\ clock' = 0
    /\ actor' \in Actors
    /\ snapshot' = NoSnapshot /\ plan' = NoPlan /\ intent' = NoIntent
    /\ UNCHANGED <<params, guardParams, token0, tradeMode>>

TradingNext == Observe \/ MakePlan \/ QuoteAndBuild \/ Verify \/ Submit \/ NextTrade

TradingSpec == TradingInit /\ [][TradingNext]_tradeVars

-----------------------------------------------------------------------------
\* An intent the agent builds is within the guard's slippage tolerance, though the
\* minimum is rounded down to whole units and the guard rounds basis points down
\* again, whenever the owner has not tightened the tolerance since startup and the
\* amount expected is at least MAX_BPS units.
BuiltIntentAccepted ==
    (/\ intent # NoIntent
     /\ guardParams.maxSlippageBps >= params.maxSlippageBps
     /\ intent.expectedAmountOut >= MAX_BPS)
    => ToleranceAccepts(intent, guardParams.maxSlippageBps)

\* What the pipeline sells is never cheaper on the DEX than at the oracle, whichever
\* token has the lower address and however the rates are rounded.
SellsTheDearToken ==
    (actor = "pipeline" /\ plan # NoPlan) =>
        LET s == plan.sell
            \* raw units bought per raw unit sold, at the pool: num over den
            atPool == IF s = token0 THEN snapshot.pool
                      ELSE [num |-> snapshot.pool.den, den |-> snapshot.pool.num]
        IN  atPool.num * TOKEN_ONE[s] * snapshot.price[Other(s)].price
            >= atPool.den * TOKEN_ONE[Other(s)] * snapshot.price[s].price

\* Carried out at the oracle's prices, a delta-neutral plan leaves the Safe's two
\* sides no further apart than they were.
RebalanceNarrowsDrift ==
    (actor = "delta-neutral-rebalance" /\ plan # NoPlan) =>
        LET usd(t) == snapshot.balance[t] * snapshot.price[t].price * TOKEN_ONE[Other(t)]
            sold == plan.amountIn * snapshot.price[plan.sell].price * TOKEN_ONE[Other(plan.sell)]
            gap == usd(plan.sell) - usd(Other(plan.sell))
        IN  Abs(gap - 2 * sold) <= Abs(gap)

\* In canary mode nothing worth more than the canary cap is submitted, at the dollar
\* price of the very token sold and in its own decimals.
CanaryCapHolds ==
    (tradeStage = "submitted" /\ tradeMode = "canary") =>
        intent.amountIn * snapshot.price[intent.sell].price
            < (Config.CANARY_MAX_TRADE_USD * PRICE_ONE + 1) * TOKEN_ONE[intent.sell]

-----------------------------------------------------------------------------
(* Statements of the repository that the code does not keep.               *)

\* autonomous-task-runner.ts:376: a buyback runs when "Stable reserves exceeded buyback
\* threshold", TASK_BUYBACK_MIN_STABLE_USD dollars.
BuybackAboveThreshold ==
    (actor = "protocol-buyback-burn" /\ plan # NoPlan) =>
        snapshot.balance["B"] * snapshot.price["B"].price
            >= Config.TASK_BUYBACK_MIN_STABLE_USD * PRICE_ONE * TOKEN_ONE["B"]

\* intent-builder.ts:43: the deadline counts from the "Current block timestamp", so an
\* intent is within the guard's deadline limit while its settings are those read at
\* startup.
DeadlineFitsGuard ==
    (tradeStage = "built" /\ params = guardParams) =>
        \A lag \in 0 .. BlockLag : DeadlineAccepts(intent, clock - lag)
=============================================================================
