---------------------------- MODULE TradingProofs ----------------------------
(***************************************************************************)
(* What the arithmetic of a trade promises for all amounts, prices,        *)
(* decimals and settings: the intents built fit the guard's tolerance, the *)
(* pipeline sells the token that is dear, a rebalance does not overshoot,  *)
(* the canary's cap holds.                                                 *)
(***************************************************************************)
EXTENDS Trading, ArithmeticLemmas

-----------------------------------------------------------------------------
(* Arithmetic.                                                             *)

\* A number below d * (k + 1) has a quotient of at most k.
LEMMA QuotientAtMost ==
    ASSUME NEW n \in Nat, NEW d \in Nat \ {0}, NEW k \in Nat, n < d * (k + 1)
    PROVE  n \div d <= k
<1> DEFINE q == n \div d
<1>1. q \in Nat /\ d * q \in Nat /\ d * q <= n
  <2>1. q \in Nat /\ n % d \in 0 .. d - 1 /\ n = d * q + (n % d)
    BY DivisionDef
  <2> HIDE DEF q
  <2> QED BY <2>1
<1> HIDE DEF q
<1>2. CASE q >= k + 1
  <2>1. d * (k + 1) <= d * q
    BY <1>1, <1>2, TimesMonotone
  <2> QED BY <1>1, <2>1
<1>3. CASE q <= k
  BY <1>3 DEF q
<1> QED BY <1>1, <1>2, <1>3

\* A positive factor cancels from an inequality.
LEMMA TimesCancels ==
    ASSUME NEW v \in Nat \ {0}, NEW a \in Nat, NEW b \in Nat, a * v < b * v
    PROVE  a < b
<1>1. CASE b <= a
  <2>1. v * b <= v * a
    BY <1>1, TimesMonotone
  <2>2. v * b = b * v /\ v * a = a * v /\ v * b \in Nat /\ v * a \in Nat
    OBVIOUS
  <2> QED BY <2>1, <2>2
<1> QED BY <1>1

\* Quotients that differ come from fractions that differ, and the same way.
LEMMA FloorsCompare ==
    ASSUME NEW a \in Nat, NEW b \in Nat \ {0}, NEW c \in Nat, NEW d \in Nat \ {0},
           a \div b < c \div d
    PROVE  a * d < c * b
<1> DEFINE p == a \div b
           q == c \div d
<1>1. p \in Nat /\ q \in Nat /\ p + 1 <= q
  BY DivisionDef
<1>2. a < b * (p + 1)
  <2>1. a % b \in 0 .. b - 1 /\ a = b * p + (a % b)
    BY DivisionDef
  <2> HIDE DEF p
  <2>2. b * (p + 1) = b * p + b /\ b * p \in Nat
    BY <1>1
  <2> QED BY <2>1, <2>2
<1>3. d * q <= c /\ d * q \in Nat
  <2>1. c % d \in 0 .. d - 1 /\ c = d * q + (c % d)
    BY DivisionDef
  <2> HIDE DEF q
  <2>2. d * q \in Nat
    BY <1>1
  <2> QED BY <2>1, <2>2
<1> HIDE DEF p, q
<1>4. b * (p + 1) <= b * q /\ b * q \in Nat /\ b * (p + 1) \in Nat
  BY <1>1, TimesMonotone
<1>5. a < b * q
  BY <1>2, <1>4
<1>6. a * d < (b * q) * d
  <2>1. d * (a + 1) <= d * (b * q) /\ d * (b * q) \in Nat
    BY <1>4, <1>5, TimesMonotone
  <2>2. d * (a + 1) = a * d + d /\ a * d \in Nat
    OBVIOUS
  <2>3. d * (b * q) = (b * q) * d
    BY <1>4
  <2> QED BY <2>1, <2>2, <2>3
<1>7. b * (d * q) <= b * c /\ b * (d * q) \in Nat /\ b * c \in Nat
  BY <1>3, TimesMonotone
<1>8. (b * q) * d = b * (d * q) /\ b * c = c * b
  BY <1>1
<1>9. a * d \in Nat
  OBVIOUS
<1> QED BY <1>6, <1>7, <1>8, <1>9

\* What is bought for the difference of two rounded values, less one, is not worth more
\* than the difference before rounding.  A side's value is x * k / ts, or y * k / to.
LEMMA SoldWithinGap ==
    ASSUME NEW x \in Nat, NEW y \in Nat, NEW ts \in Nat \ {0}, NEW to \in Nat \ {0},
           NEW k \in Nat \ {0}, NEW p \in Nat \ {0}, NEW c \in Nat,
           c + (y * k) \div to + 1 <= (x * k) \div ts
    PROVE  /\ (c * ts) \div (p * k) \in Nat
           /\ (((c * ts) \div (p * k)) * p) * to + y * ts <= x * to
<1> DEFINE r == p * k
           xk == x * k
           yk == y * k
           cts == c * ts
           a == cts \div r
           vs == xk \div ts
           vo == yk \div to
<1>1. r \in Nat \ {0} /\ xk \in Nat /\ yk \in Nat /\ cts \in Nat
  <2>1. r \in Nat /\ r # 0
    OBVIOUS
  <2> QED BY <2>1
<1>2. /\ vs \in Nat /\ vs * ts <= xk
      /\ vo \in Nat /\ yk < vo * to + to
      /\ a \in Nat /\ a * r <= cts
  <2> HIDE DEF r, xk, yk, cts
  <2>1. vs \in Nat /\ vs * ts <= xk
    BY <1>1, FloorBounds
  <2>2. vo \in Nat /\ yk < vo * to + to
    BY <1>1, FloorBounds
  <2>3. a \in Nat /\ a * r <= cts
    BY <1>1, FloorBounds
  <2> QED BY <2>1, <2>2, <2>3
<1>3. c + vo + 1 <= vs
  OBVIOUS
<1> HIDE DEF a, vs, vo
<1>4. (vs * ts) * to <= xk * to /\ (vs * ts) * to \in Nat /\ xk * to \in Nat
  <2>1. vs * ts \in Nat
    BY <1>2
  <2> HIDE DEF xk
  <2> QED BY <1>1, <1>2, <2>1, TimesWeak
<1>5. yk * ts <= ((vo + 1) * to) * ts /\ yk * ts \in Nat
  <2>1. (vo + 1) * to = vo * to + to /\ (vo + 1) * to \in Nat /\ vo * to \in Nat
    BY <1>2
  <2> HIDE DEF yk
  <2>2. yk <= (vo + 1) * to
    BY <1>1, <1>2, <2>1
  <2> QED BY <1>1, <2>1, <2>2, TimesWeak
<1>6. (a * r) * to <= cts * to /\ (a * r) * to \in Nat /\ cts * to \in Nat
  <2>1. a * r \in Nat
    BY <1>1, <1>2
  <2> HIDE DEF r, cts
  <2> QED BY <1>1, <1>2, <2>1, TimesWeak
<1>7. cts * to + ((vo + 1) * to) * ts <= (vs * ts) * to
  <2> DEFINE u == ts * to
  <2>1. u \in Nat
    OBVIOUS
  <2>2. /\ cts * to = c * u
        /\ ((vo + 1) * to) * ts = (vo + 1) * u
        /\ (vs * ts) * to = vs * u
    BY <1>2
  <2>3. c * u + (vo + 1) * u = (c + vo + 1) * u
    BY <1>2, <2>1
  <2> HIDE DEF u
  <2>4. (c + vo + 1) * u <= vs * u
    BY <1>2, <1>3, <2>1, TimesWeak
  <2> QED BY <2>2, <2>3, <2>4
<1>8. (a * r) * to + yk * ts <= xk * to
  <2>1. cts * to \in Nat /\ ((vo + 1) * to) * ts \in Nat
    BY <1>1, <1>2
  <2> HIDE DEF r, cts, yk, xk
  <2> DEFINE n1 == (a * r) * to
             n2 == cts * to
             n3 == yk * ts
             n4 == ((vo + 1) * to) * ts
             n5 == (vs * ts) * to
             n6 == xk * to
  <2>2. /\ n1 \in Nat /\ n2 \in Nat /\ n3 \in Nat /\ n4 \in Nat /\ n5 \in Nat /\ n6 \in Nat
        /\ n1 <= n2 /\ n3 <= n4 /\ n2 + n4 <= n5 /\ n5 <= n6
    BY <1>4, <1>5, <1>6, <1>7, <2>1
  <2>3. n1 + n3 <= n6
    <3> HIDE DEF n1, n2, n3, n4, n5, n6
    <3> QED BY <2>2
  <2> QED BY <2>3
<1> DEFINE left == (a * p) * to + y * ts
           right == x * to
<1>9. /\ left \in Nat /\ right \in Nat
      /\ (a * r) * to + yk * ts = left * k /\ xk * to = right * k
  <2>1. (a * r) * to = ((a * p) * to) * k /\ yk * ts = (y * ts) * k /\ xk * to = right * k
    BY <1>2
  <2>2. (a * p) * to \in Nat /\ y * ts \in Nat /\ right \in Nat
    BY <1>2
  <2>3. ((a * p) * to) * k + (y * ts) * k = left * k
    BY <2>2
  <2> QED BY <2>1, <2>2, <2>3
<1>10. left * k <= right * k
  BY <1>8, <1>9
<1> HIDE DEF left, right
<1>11. left <= right
  <2>1. CASE right < left
    <3>1. right * k < left * k /\ right * k \in Nat /\ left * k \in Nat
      BY <1>9, <2>1, TimesStrict
    <3> QED BY <1>10, <3>1
  <2> QED BY <1>9, <2>1
<1> QED BY <1>2, <1>11 DEF left, right, a

-----------------------------------------------------------------------------
(* Slippage.                                                               *)

\* What applySlippage leaves is within the tolerance as the guard reckons it, once the
\* amount has as many units as there are basis points.
LEMMA SlippageFits ==
    ASSUME NEW e \in Nat, NEW b \in 0 .. MAX_BPS, NEW g \in Nat, b <= g, e >= MAX_BPS,
           NEW i, i.expectedAmountOut = e, i.minAmountOut = ApplySlippage(e, b)
    PROVE  ToleranceAccepts(i, g)
<1> DEFINE M == MAX_BPS
           m == (e * (M - b)) \div M
           n == (e - m) * M
           r == (e * (M - b)) % M
<1>1. M \in Nat \ {0} /\ b \in Nat /\ M - b \in Nat /\ M - b <= M /\ e > 0
  <2>1. MAX_BPS \in Nat \ {0}
    BY TradingAssumption
  <2> QED BY <2>1
<1>2. e * (M - b) \in Nat /\ e * (M - b) <= e * M /\ e * M \in Nat
  BY <1>1, TimesMonotone
<1>3. m \in Nat /\ r \in Nat /\ r < M /\ e * (M - b) = M * m + r
  <2> DEFINE x == e * (M - b)
  <2>1. x \in Nat /\ M \in Nat \ {0}
    BY <1>1, <1>2
  <2> HIDE DEF x
  <2>2. x \div M \in Nat /\ x % M \in 0 .. M - 1 /\ x = M * (x \div M) + (x % M)
    BY <2>1, DivisionDef
  <2>3. x % M \in Nat /\ x % M < M
    BY <1>1, <2>2
  <2> QED BY <2>2, <2>3 DEF x
<1>4. m <= e
  <2>1. m <= (e * M) \div M
    BY <1>1, <1>2, DivisionMonotone
  <2> QED BY <1>1, <2>1, DivisionCancels
<1> HIDE DEF m, r
<1>5. n \in Nat /\ n = e * b + r
  <2>1. n = e * M - m * M /\ m * M = M * m /\ M * m \in Nat
    BY <1>1, <1>3, <1>4
  <2>2. e * (M - b) = e * M - e * b /\ e * b \in Nat
    BY <1>1
  <2> QED BY <1>2, <1>3, <2>1, <2>2
<1> HIDE DEF n
<1>6. n < e * (b + 1)
  <2>1. e * (b + 1) = e * b + e /\ e * b \in Nat
    BY <1>1
  <2> QED BY <1>1, <1>3, <1>5, <2>1
<1>7. n \div e <= b
  BY <1>1, <1>5, <1>6, QuotientAtMost
<1>8. n \div e <= g
  <2>1. n \div e \in Nat
    BY <1>1, <1>5, DivisionDef
  <2> QED BY <1>1, <1>7, <2>1
<1>9. i.minAmountOut = m
  BY DEF ApplySlippage, m
<1> QED BY <1>1, <1>4, <1>8, <1>9 DEF ToleranceAccepts, n

-----------------------------------------------------------------------------
(* Prices and plans.                                                       *)

Quotes == {NoPrice} \cup [price : Nat, publishTime : Int]
Snapshots == [pool : PoolPrices, balance : [Coins -> Nat], price : [Coins -> Quotes]]
TypedPlans == [sell : Coins, amountIn : Nat]

LEMMA OtherCoin ==
    ASSUME NEW t \in Coins
    PROVE  Other(t) \in Coins /\ Other(t) # t /\ Other(Other(t)) = t
BY DEF Other, Coins

LEMMA Scales ==
    /\ ONE \in Nat \ {0} /\ PRICE_ONE \in Nat \ {0} /\ MAX_BPS \in Nat \ {0}
    /\ \A t \in Coins : TOKEN_ONE[t] \in Nat \ {0}
    /\ \E k \in Nat \ {0} : ONE = PRICE_ONE * k
<1>1. /\ ONE \in Nat \ {0} /\ PRICE_ONE \in Nat \ {0} /\ MAX_BPS \in Nat \ {0}
      /\ \A t \in Coins : TOKEN_ONE[t] \in Nat \ {0}
      /\ ONE % PRICE_ONE = 0
  BY TradingAssumption
<1>2. ONE \div PRICE_ONE \in Nat /\ ONE = PRICE_ONE * (ONE \div PRICE_ONE) + (ONE % PRICE_ONE)
  BY <1>1, DivisionDef
<1>3. ONE \div PRICE_ONE \in Nat \ {0} /\ ONE = PRICE_ONE * (ONE \div PRICE_ONE)
  <2> DEFINE k == ONE \div PRICE_ONE
  <2>1. k \in Nat /\ ONE = PRICE_ONE * k + 0 /\ PRICE_ONE * k \in Nat
    BY <1>1, <1>2
  <2> HIDE DEF k
  <2>2. k # 0
    BY <1>1, <2>1
  <2> QED BY <1>1, <2>1, <2>2 DEF k
<1> QED BY <1>1, <1>3

\* normalizePythPrice loses nothing: its scale divides the one it converts to.
LEMMA NormalizeExact ==
    ASSUME NEW k \in Nat, ONE = PRICE_ONE * k, NEW q \in [price : Nat, publishTime : Int]
    PROVE  NormalizePythPrice(q) = q.price * k /\ q.price * k \in Nat
<1>1. q.price \in Nat /\ q.price * k \in Nat /\ PRICE_ONE \in Nat \ {0}
  BY Scales
<1>2. q.price * ONE = (q.price * k) * PRICE_ONE
  BY <1>1
<1>3. ((q.price * k) * PRICE_ONE) \div PRICE_ONE = q.price * k
  BY <1>1, DivisionCancels
<1> QED BY <1>1, <1>2, <1>3 DEF NormalizePythPrice

\* The prices both actors take are numbers, or missing.
LEMMA OraclePricesTyped ==
    ASSUME NEW who, NEW feeds \in [Coins -> Feeds], NEW quote \in GuardQuotes, clock \in Int
    PROVE  OraclePrices(who, feeds, quote) \in [Coins -> Quotes]
<1> DEFINE pyth == [t \in Coins |-> PythPrice(feeds[t])]
           derived == [t \in Coins |->
               IF pyth[t] = NoPrice /\ pyth[Other(t)] # NoPrice
               THEN DeriveFrom(pyth[Other(t)], t, quote) ELSE pyth[t]]
<1>1. pyth \in [Coins -> Quotes]
  <2>1. ASSUME NEW feed \in Feeds PROVE PythPrice(feed) \in Quotes
    <3>1. CASE feed = NoPrice
      BY <3>1 DEF PythPrice, Quotes
    <3>2. CASE feed # NoPrice
      <4>1. feed.price \in Nat /\ feed.age \in Nat
        BY <3>2, TradingAssumption
      <4> QED BY <4>1 DEF PythPrice, Quotes
    <3> QED BY <3>1, <3>2
  <2> QED BY <2>1
<1> HIDE DEF pyth
<1>2. ASSUME NEW base \in [price : Nat, publishTime : Int], NEW t \in Coins
      PROVE  DeriveFrom(base, t, quote) \in Quotes
  <2>1. CASE quote = NoPrice
    BY <2>1 DEF DeriveFrom, Quotes
  <2>2. CASE quote # NoPrice /\ quote.amountOut # 0
    <3>1. quote.amountOut \in Nat \ {0} /\ quote.age \in Nat
      BY <2>2, TradingAssumption
    <3>2. base.price * TOKEN_ONE[t] \in Nat
      BY Scales
    <3>3. (base.price * TOKEN_ONE[t]) \div quote.amountOut \in Nat
      BY <3>1, <3>2, DivisionDef
    <3> QED BY <3>1, <3>3 DEF DeriveFrom, Quotes
  <2>3. CASE quote # NoPrice /\ quote.amountOut = 0
    BY <2>3 DEF DeriveFrom, Quotes
  <2> QED BY <2>1, <2>2, <2>3
<1>3. derived \in [Coins -> Quotes]
  BY <1>1, <1>2, OtherCoin DEF Quotes
<1> HIDE DEF derived
<1>4. [price |-> PRICE_ONE, publishTime |-> clock] \in Quotes
  BY Scales DEF Quotes
<1>5. OraclePrices(who, feeds, quote) =
          [t \in Coins |-> IF derived[t] = NoPrice
                              /\ t \in Stable[IF who = "pipeline" THEN "pipeline" ELSE "task"]
                           THEN [price |-> PRICE_ONE, publishTime |-> clock] ELSE derived[t]]
  BY DEF OraclePrices, derived, pyth
<1> QED BY <1>3, <1>4, <1>5

\* Shares and conversions are natural numbers.
LEMMA ConversionsTyped ==
    ASSUME NEW q \in [price : Nat, publishTime : Int], NEW t \in Coins, NEW n \in Nat,
           NEW bps \in Nat
    PROVE  /\ NormalizePythPrice(q) \in Nat
           /\ ToUsdValue(n, t, q) \in Nat
           /\ FromUsdValue(n, t, q) \in Nat
           /\ Share(n, bps) \in Nat
<1>1. NormalizePythPrice(q) \in Nat
  <2>1. PICK k \in Nat : ONE = PRICE_ONE * k
    BY Scales
  <2> QED BY <2>1, NormalizeExact
<1>2. n * NormalizePythPrice(q) \in Nat /\ n * TOKEN_ONE[t] \in Nat /\ n * bps \in Nat
  BY <1>1, Scales
<1>3. TOKEN_ONE[t] \in Nat \ {0} /\ MAX_BPS \in Nat \ {0}
  BY Scales
<1>4. (n * NormalizePythPrice(q)) \div TOKEN_ONE[t] \in Nat /\ (n * bps) \div MAX_BPS \in Nat
  BY <1>2, <1>3, DivisionDef
<1>5. NormalizePythPrice(q) > 0 => (n * TOKEN_ONE[t]) \div NormalizePythPrice(q) \in Nat
  BY <1>1, <1>2, DivisionDef
<1> QED BY <1>1, <1>4, <1>5 DEF ToUsdValue, FromUsdValue, Share

LEMMA SellTyped ==
    ASSUME NEW t \in Coins, NEW n \in Nat
    PROVE  Sell(t, n) = NoPlan \/ Sell(t, n) \in TypedPlans
BY DEF Sell, TypedPlans

\* Each planner proposes nothing, or a natural amount of one of the tokens.
LEMMA PlansTyped ==
    ASSUME actor \in Actors, token0 \in Coins, NEW s \in Snapshots, NEW p \in Plans(s)
    PROVE  p = NoPlan \/ p \in TypedPlans
<1>1. /\ \A t \in Coins : s.balance[t] \in Nat
      /\ \A t \in Coins : s.price[t] # NoPrice => s.price[t] \in [price : Nat, publishTime : Int]
  BY DEF Snapshots, Quotes
<1>2. /\ "A" \in Coins /\ "B" \in Coins
      /\ {Config.minTradeAmount, Config.TASK_REBALANCE_SHARE_BPS, Config.TASK_MAX_NOTIONAL_USD,
          Config.TASK_MIGRATION_SHARE_BPS, Config.TASK_BUYBACK_SHARE_BPS} \subseteq Nat
  BY TradingAssumption DEF Coins
<1>3. CASE actor = "pipeline"
  <2>1. p = Detect(s)
    BY <1>3 DEF Plans
  <2>2. ASSUME NEW t \in Coins
        PROVE  CalculateTradeSize(s.balance[t], Config.minTradeAmount) \in Nat
    BY <1>1, <1>2 DEF CalculateTradeSize
  <2> DEFINE sell == IF SqrtPriceX96ToPrice(s.pool) < OracleCrossRate(s) THEN Other(token0) ELSE token0
  <2>3. sell \in Coins
    BY OtherCoin
  <2>4. \/ Detect(s) = NoPlan
        \/ Detect(s) = [sell |-> sell,
                        amountIn |-> CalculateTradeSize(s.balance[sell], Config.minTradeAmount)]
    BY DEF Detect
  <2> HIDE DEF sell
  <2> QED BY <2>1, <2>2, <2>3, <2>4 DEF TypedPlans
<1>4. CASE actor = "delta-neutral-rebalance"
  <2>1. p = DeltaNeutralPlan(s)
    BY <1>4 DEF Plans
  <2>2. CASE \E t \in Coins : s.price[t] = NoPrice
    BY <2>1, <2>2 DEF DeltaNeutralPlan
  <2>3. CASE \A t \in Coins : s.price[t] # NoPrice
    <3> DEFINE value == [t \in Coins |-> ToUsdValue(s.balance[t], t, s.price[t])]
               usd == RebalanceUsd(value["A"], value["B"])
               capped == IF usd > Config.TASK_MAX_NOTIONAL_USD THEN Config.TASK_MAX_NOTIONAL_USD
                         ELSE usd
               sell == IF value["A"] >= value["B"] THEN "A" ELSE "B"
    <3>1. value["A"] \in Nat /\ value["B"] \in Nat
      BY <1>1, <1>2, <2>3, ConversionsTyped
    <3>2. Abs(value["A"] - value["B"]) \in Nat
      <4> HIDE DEF value
      <4> QED BY <3>1 DEF Abs
    <3>3. usd \in Nat
      <4>1. s.price["A"] \in [price : Nat, publishTime : Int]
        BY <1>1, <1>2, <2>3
      <4> HIDE DEF value
      <4> QED BY <1>2, <3>2, <4>1, ConversionsTyped DEF RebalanceUsd
    <3>4. capped \in Nat /\ sell \in Coins
      BY <1>2, <3>3
    <3>5. p = NoPlan \/ p = Sell(sell, FromUsdValue(capped, sell, s.price[sell]))
      BY <2>1 DEF DeltaNeutralPlan
    <3> HIDE DEF capped, sell
    <3>6. FromUsdValue(capped, sell, s.price[sell]) \in Nat
      BY <1>1, <1>2, <2>3, <3>4, ConversionsTyped
    <3> QED BY <3>4, <3>5, <3>6, SellTyped
  <2> QED BY <2>2, <2>3
<1>5. CASE actor \in {"convex-lp-migration", "protocol-buyback-burn"}
  <2>1. p = NoPlan \/ \E bps \in Nat : p = Sell("B", Share(s.balance["B"], bps))
    BY <1>2, <1>5 DEF Plans, LpMigrationPlan, BuybackPlan
  <2>2. ASSUME NEW bps \in Nat PROVE Share(s.balance["B"], bps) \in Nat
    <3>1. s.balance["B"] * bps \in Nat
      BY <1>1, <1>2
    <3> QED BY <3>1, Scales, DivisionDef DEF Share
  <2> QED BY <1>2, <2>1, <2>2, SellTyped
<1> QED BY <1>3, <1>4, <1>5, TradingAssumption

\* A share of less than the whole leaves at least one unit.
LEMMA ShareIsPart ==
    ASSUME NEW n \in Nat \ {0}, NEW bps \in Nat, bps < MAX_BPS
    PROVE  Share(n, bps) \in Nat /\ Share(n, bps) + 1 <= n
<1> DEFINE m == n * bps
           q == m \div MAX_BPS
<1>1. MAX_BPS \in Nat \ {0} /\ m \in Nat /\ n * MAX_BPS \in Nat
  BY Scales
<1>2. m < n * MAX_BPS
  <2>1. bps * n < MAX_BPS * n
    BY Scales, TimesStrict
  <2> QED BY <1>1, <2>1
<1> HIDE DEF m
<1>3. q \in Nat /\ q * MAX_BPS <= m
  BY <1>1, FloorBounds
<1> HIDE DEF q
<1>4. q < n
  <2>1. q * MAX_BPS < n * MAX_BPS
    <3>1. q * MAX_BPS \in Nat
      BY <1>1, <1>3
    <3> QED BY <1>1, <1>2, <1>3, <3>1
  <2> QED BY <1>1, <1>3, <2>1, TimesCancels
<1>5. Share(n, bps) = q
  BY DEF Share, q, m
<1> QED BY <1>3, <1>4, <1>5

\* The delta-neutral task sells the larger side, and no more of it than the gap to the
\* other.
LEMMA DeltaNeutralWithinGap ==
    ASSUME NEW s \in Snapshots, Config.TASK_REBALANCE_SHARE_BPS < MAX_BPS,
           NEW p, p = DeltaNeutralPlan(s), p # NoPlan
    PROVE  LET t == p.sell
               u == Other(t)
           IN  /\ t \in Coins /\ p.amountIn \in Nat
               /\ s.price[t] # NoPrice /\ s.price[u] # NoPrice
               /\ p.amountIn * s.price[t].price * TOKEN_ONE[u]
                     + s.balance[u] * s.price[u].price * TOKEN_ONE[t]
                  <= s.balance[t] * s.price[t].price * TOKEN_ONE[u]
<1> DEFINE value == [t \in Coins |-> ToUsdValue(s.balance[t], t, s.price[t])]
           usd == RebalanceUsd(value["A"], value["B"])
           capped == IF usd > Config.TASK_MAX_NOTIONAL_USD THEN Config.TASK_MAX_NOTIONAL_USD
                     ELSE usd
           t == IF value["A"] >= value["B"] THEN "A" ELSE "B"
           u == Other(t)
           amount == FromUsdValue(capped, t, s.price[t])
<1>1. /\ \A c \in Coins : s.price[c] # NoPrice
      /\ p = Sell(t, amount)
  BY DEF DeltaNeutralPlan
<1>2. /\ \A c \in Coins : s.balance[c] \in Nat /\ s.price[c] \in [price : Nat, publishTime : Int]
      /\ "A" \in Coins /\ "B" \in Coins
      /\ Config.TASK_REBALANCE_SHARE_BPS \in Nat /\ Config.TASK_MAX_NOTIONAL_USD \in Nat
  <2>1. /\ Config.TASK_REBALANCE_SHARE_BPS \in Nat /\ Config.TASK_MAX_NOTIONAL_USD \in Nat
        /\ "A" \in Coins /\ "B" \in Coins
    BY TradingAssumption, SMTT(30) DEF Coins
  <2>2. \A c \in Coins : s.price[c] \in [price : Nat, publishTime : Int]
    BY <1>1 DEF Snapshots, Quotes
  <2> QED BY <2>1, <2>2 DEF Snapshots
<1>3. /\ \A c \in Coins : value[c] \in Nat
      /\ t \in Coins /\ u \in Coins
      /\ value[u] <= value[t] /\ Abs(value["A"] - value["B"]) = value[t] - value[u]
  <2>1. \A c \in Coins : value[c] \in Nat
    BY <1>2, ConversionsTyped
  <2> HIDE DEF value
  <2>2. Other("A") = "B" /\ Other("B") = "A"
    BY DEF Other, Coins
  <2> QED BY <1>2, <2>1, <2>2 DEF Abs
<1> DEFINE diff == value[t] - value[u]
<1>4. capped \in Nat /\ (capped # 0 => capped + 1 <= diff)
  <2>1. usd = Share(diff, Config.TASK_REBALANCE_SHARE_BPS)
    BY <1>3 DEF RebalanceUsd
  <2>2. diff \in Nat
    <3> HIDE DEF value, t, u
    <3> QED BY <1>3
  <2> HIDE DEF diff, usd
  <2>3. CASE diff = 0
    <3>1. usd = 0
      <4>1. 0 * Config.TASK_REBALANCE_SHARE_BPS = 0 * MAX_BPS
        BY <1>2, Scales
      <4>2. (0 * MAX_BPS) \div MAX_BPS = 0
        BY Scales, DivisionCancels
      <4> QED BY <2>1, <2>3, <4>1, <4>2 DEF Share
    <3> QED BY <1>2, <3>1
  <2>4. CASE diff # 0
    <3>1. usd \in Nat /\ usd + 1 <= diff
      BY <1>2, <2>1, <2>2, <2>4, ShareIsPart
    <3> QED BY <1>2, <2>2, <3>1
  <2> QED BY <2>3, <2>4
<1>5. PICK k \in Nat \ {0} : ONE = PRICE_ONE * k
  BY Scales
<1> DEFINE ps == s.price[t].price
           po == s.price[u].price
           bs == s.balance[t]
           bo == s.balance[u]
           ts == TOKEN_ONE[t]
           to == TOKEN_ONE[u]
<1>6. /\ ps \in Nat /\ po \in Nat /\ bs \in Nat /\ bo \in Nat
      /\ ts \in Nat \ {0} /\ to \in Nat \ {0}
      /\ NormalizePythPrice(s.price[t]) = ps * k /\ NormalizePythPrice(s.price[u]) = po * k
  <2> HIDE DEF t, u
  <2> QED BY <1>2, <1>3, <1>5, Scales, NormalizeExact
<1>7. /\ value[t] = (bs * (ps * k)) \div ts
      /\ value[u] = (bo * (po * k)) \div to
  <2> HIDE DEF t, u
  <2> QED BY <1>3, <1>6 DEF ToUsdValue
<1>8. p = [sell |-> t, amountIn |-> amount] /\ ~(amount <= 0)
  <2> HIDE DEF t, amount
  <2> QED BY <1>1 DEF Sell
<1>9. /\ amount = (capped * ts) \div (ps * k) /\ capped # 0 /\ ps \in Nat \ {0}
  <2> HIDE DEF t, u, capped
  <2>1. ps * k \in Nat
    BY <1>5, <1>6
  <2>2. /\ ~(ps * k <= 0) /\ amount = (capped * ts) \div (ps * k)
    BY <1>6, <1>8 DEF FromUsdValue
  <2>3. ps # 0
    BY <1>5, <2>2
  <2>4. capped # 0
    <3>1. SUFFICES ASSUME capped = 0 PROVE FALSE
      OBVIOUS
    <3> DEFINE r == ps * k
    <3>2. r \in Nat \ {0}
      BY <2>1, <2>2
    <3>3. amount = (0 * r) \div r
      <4>1. 0 * ts = 0 * r
        BY <1>6, <2>1
      <4> QED BY <2>2, <3>1, <4>1
    <3> HIDE DEF r, amount
    <3>4. amount = 0
      BY <3>2, <3>3, DivisionCancels
    <3> QED BY <1>8, <3>4
  <2> QED BY <1>6, <2>2, <2>3, <2>4
<1> HIDE DEF t, u, value, capped, amount
<1>10. (capped + ((bo * po) * k) \div to) + 1 <= ((bs * ps) * k) \div ts
  <2>1. (bo * po) * k = bo * (po * k) /\ (bs * ps) * k = bs * (ps * k)
    BY <1>5, <1>6
  <2>2. value[t] \in Nat /\ value[u] \in Nat
    BY <1>3
  <2> QED BY <1>4, <1>7, <1>9, <2>1, <2>2
<1>11. /\ amount \in Nat
       /\ (amount * ps) * to + (bo * po) * ts <= (bs * ps) * to
  <2>1. bs * ps \in Nat /\ bo * po \in Nat
    BY <1>6
  <2> HIDE DEF bs, bo, ps, po, ts, to
  <2> QED BY <1>4, <1>5, <1>6, <1>9, <1>10, <2>1, SoldWithinGap
<1> QED BY <1>1, <1>3, <1>8, <1>11 DEF u

\* What detect sells is not cheaper at the pool than at the oracle: the pool pays at
\* least num / den of the one bought for one unit sold.
LEMMA DetectSellsDear ==
    ASSUME token0 \in Coins, NEW s \in Snapshots, Detect(s) # NoPlan
    PROVE  LET sell == Detect(s).sell
               atPool == IF sell = token0 THEN s.pool ELSE [num |-> s.pool.den, den |-> s.pool.num]
           IN  atPool.num * TOKEN_ONE[sell] * s.price[Other(sell)].price
               >= atPool.den * TOKEN_ONE[Other(sell)] * s.price[sell].price
<1> DEFINE t1 == Other(token0)
           T0 == TOKEN_ONE[token0]
           T1 == TOKEN_ONE[t1]
           p0 == s.price[token0].price
           p1 == s.price[t1].price
           num == s.pool.num
           den == s.pool.den
<1>1. PICK k \in Nat \ {0} : ONE = PRICE_ONE * k
  BY Scales
<1>2. /\ t1 \in Coins /\ t1 # token0 /\ Other(t1) = token0
      /\ T0 \in Nat \ {0} /\ T1 \in Nat \ {0} /\ ONE \in Nat \ {0}
  BY OtherCoin, Scales
<1>3. /\ \A t \in Coins : s.price[t] # NoPrice /\ NormalizePythPrice(s.price[t]) # 0
      /\ Detect(s).sell = IF SqrtPriceX96ToPrice(s.pool) < OracleCrossRate(s) THEN t1 ELSE token0
      /\ ~(CalculateDeviationBps(SqrtPriceX96ToPrice(s.pool), OracleCrossRate(s))
              < Config.MIN_DEVIATION_BPS)
      /\ OracleCrossRate(s) # 0
  <2> DEFINE dex == SqrtPriceX96ToPrice(s.pool)
             rate == OracleCrossRate(s)
             sell == IF dex < rate THEN t1 ELSE token0
             size == CalculateTradeSize(s.balance[sell], Config.minTradeAmount)
  <2>1. \/ Detect(s) = NoPlan
        \/ /\ Detect(s) = [sell |-> sell, amountIn |-> size]
           /\ \A t \in Coins : s.price[t] # NoPrice /\ NormalizePythPrice(s.price[t]) # 0
           /\ rate # 0
           /\ ~(CalculateDeviationBps(dex, rate) < Config.MIN_DEVIATION_BPS)
    BY DEF Detect
  <2> HIDE DEF sell, size
  <2>2. Detect(s).sell = sell
    BY <2>1
  <2> QED BY <2>1, <2>2 DEF sell
<1>4. /\ p0 \in Nat /\ p1 \in Nat /\ num \in Nat /\ den \in Nat \ {0}
      /\ NormalizePythPrice(s.price[token0]) = p0 * k
      /\ NormalizePythPrice(s.price[t1]) = p1 * k
  <2>1. \A t \in Coins : s.price[t] \in [price : Nat, publishTime : Int]
    BY <1>3 DEF Snapshots, Quotes
  <2>2. s.pool \in [num : Nat, den : Nat \ {0}]
    BY TradingAssumption DEF Snapshots
  <2> QED BY <1>1, <1>2, <2>1, <2>2, NormalizeExact
<1> HIDE DEF t1, T0, T1, p0, p1, num, den
<1>5. p1 * k \in Nat \ {0} /\ den * T1 \in Nat \ {0}
  <2>1. p1 * k \in Nat /\ p1 * k # 0
    BY <1>2, <1>3, <1>4
  <2>2. den * T1 \in Nat /\ den * T1 # 0
    BY <1>2, <1>4
  <2> QED BY <2>1, <2>2
<1>6. /\ SqrtPriceX96ToPrice(s.pool) = (num * T0 * ONE) \div (den * T1)
      /\ OracleCrossRate(s) = ((p0 * k) * ONE) \div (p1 * k)
  BY <1>4 DEF SqrtPriceX96ToPrice, OracleCrossRate, T0, T1, t1, num, den
<1>7. /\ num * T0 * ONE \in Nat /\ (p0 * k) * ONE \in Nat
      /\ SqrtPriceX96ToPrice(s.pool) \in Nat /\ OracleCrossRate(s) \in Nat
  <2>1. num * T0 * ONE \in Nat /\ (p0 * k) * ONE \in Nat
    BY <1>2, <1>4
  <2>2. \A m, d : m \in Nat /\ d \in Nat \ {0} => m \div d \in Nat
    BY DivisionDef
  <2>3. SqrtPriceX96ToPrice(s.pool) \in Nat
    BY <1>5, <1>6, <2>1, <2>2, Zenon
  <2>4. OracleCrossRate(s) \in Nat
    BY <1>5, <1>6, <2>1, <2>2, Zenon
  <2> QED BY <2>1, <2>3, <2>4
\* Scaled by ONE * k, each side is what the quotients compared.
<1>8. /\ num * T0 * p1 \in Nat /\ den * T1 * p0 \in Nat /\ ONE * k \in Nat \ {0}
      /\ (num * T0 * ONE) * (p1 * k) = (num * T0 * p1) * (ONE * k)
      /\ ((p0 * k) * ONE) * (den * T1) = (den * T1 * p0) * (ONE * k)
  <2>1. num * T0 * p1 \in Nat /\ den * T1 * p0 \in Nat
    BY <1>2, <1>4
  <2>2. ONE * k \in Nat /\ ONE * k # 0
    BY <1>2
  <2>3. (num * T0 * ONE) * (p1 * k) = (num * T0 * p1) * (ONE * k)
    BY <1>2, <1>4
  <2>4. ((p0 * k) * ONE) * (den * T1) = (den * T1 * p0) * (ONE * k)
    BY <1>2, <1>4
  <2> QED BY <2>1, <2>2, <2>3, <2>4
<1>9. CASE SqrtPriceX96ToPrice(s.pool) < OracleCrossRate(s)
  <2>1. (num * T0 * ONE) * (p1 * k) < ((p0 * k) * ONE) * (den * T1)
    BY <1>5, <1>6, <1>7, <1>9, FloorsCompare
  <2>2. num * T0 * p1 < den * T1 * p0
    BY <1>8, <2>1, TimesCancels
  <2>3. Detect(s).sell = t1
    BY <1>3, <1>9
  <2>4. den * T1 * p0 >= num * T0 * p1
    BY <1>8, <2>2
  <2> QED BY <1>2, <2>3, <2>4 DEF T0, T1, p0, p1, num, den
<1>10. CASE ~(SqrtPriceX96ToPrice(s.pool) < OracleCrossRate(s))
  <2>1. SqrtPriceX96ToPrice(s.pool) # OracleCrossRate(s)
    <3>1. SUFFICES ASSUME SqrtPriceX96ToPrice(s.pool) = OracleCrossRate(s) PROVE FALSE
      OBVIOUS
    <3> DEFINE r == OracleCrossRate(s)
    <3>2. r \in Nat \ {0}
      BY <1>3, <1>7
    <3> HIDE DEF r
    <3>3. CalculateDeviationBps(r, r) = 0
      <4>1. Abs(r - r) * MAX_BPS = 0
        BY <3>2, Scales DEF Abs
      <4>2. 0 \div r = 0
        BY <3>2
      <4> QED BY <4>1, <4>2 DEF CalculateDeviationBps
    <3>4. Config.MIN_DEVIATION_BPS \in Nat \ {0}
      BY TradingAssumption
    <3>5. ~(CalculateDeviationBps(r, r) < Config.MIN_DEVIATION_BPS)
      BY <1>3, <3>1 DEF r
    <3> QED BY <3>3, <3>4, <3>5
  <2>2. OracleCrossRate(s) < SqrtPriceX96ToPrice(s.pool)
    BY <1>7, <1>10, <2>1
  <2>3. ((p0 * k) * ONE) * (den * T1) < (num * T0 * ONE) * (p1 * k)
    BY <1>5, <1>6, <1>7, <2>2, FloorsCompare
  <2>4. den * T1 * p0 < num * T0 * p1
    BY <1>8, <2>3, TimesCancels
  <2>5. Detect(s).sell = token0
    BY <1>3, <1>10
  <2>6. num * T0 * p1 >= den * T1 * p0
    BY <1>8, <2>4
  <2> QED BY <1>2, <2>5, <2>6 DEF T0, T1, p0, p1, num, den, t1
<1> QED BY <1>9, <1>10

-----------------------------------------------------------------------------
(* The invariant: what each stage of a trade has at hand.                  *)

Before == {"observing", "planning"}
After == {"built", "verified", "submitted"}

SettingsTyped ==
    /\ params.maxSlippageBps \in 0 .. MAX_BPS /\ guardParams.maxSlippageBps \in 0 .. MAX_BPS
    /\ clock \in Int /\ actor \in Actors /\ token0 \in Coins
    /\ tradeStage \in Before \cup After \cup {"quoting"}

\* A plan is one its actor's planner makes of the snapshot; an intent sells what it says.
StagesMatch ==
    /\ tradeStage # "observing" => snapshot \in Snapshots
    /\ tradeStage \in Before => plan = NoPlan
    /\ tradeStage \notin Before => plan \in TypedPlans /\ plan \in Plans(snapshot)
    /\ tradeStage \notin After => intent = NoIntent
    /\ tradeStage \in After =>
          /\ intent.sell \in Coins /\ intent.amountIn \in Nat
          /\ intent.expectedAmountOut \in Nat
          /\ intent.minAmountOut = ApplySlippage(intent.expectedAmountOut, params.maxSlippageBps)

\* validatePreSubmit has let the intent through.
WithinCanary ==
    (tradeStage = "submitted" /\ tradeMode = "canary") =>
        /\ snapshot.price[intent.sell] # NoPrice
        /\ EstimateNotional(intent, snapshot.price[intent.sell])
              <= Config.CANARY_MAX_TRADE_USD * PRICE_ONE

TradingInv == SettingsTyped /\ StagesMatch /\ WithinCanary

LEMMA InitTradingInv == TradingInit => TradingInv
<1> SUFFICES ASSUME TradingInit PROVE TradingInv
  OBVIOUS
<1>1. PICK then \in SlippageBps, since \in SlippageBps :
         /\ params = [maxSlippageBps |-> then, maxDeadlineDelay |-> Config.maxDeadlineDelay]
         /\ guardParams = [params EXCEPT !.maxSlippageBps = since]
  BY DEF TradingInit
<1>2. params.maxSlippageBps \in 0 .. MAX_BPS /\ guardParams.maxSlippageBps \in 0 .. MAX_BPS
  <2>1. SlippageBps \subseteq 0 .. MAX_BPS
    BY TradingAssumption
  <2> QED BY <1>1, <2>1
<1>3. SettingsTyped
  BY <1>2 DEF SettingsTyped, TradingInit, Before, After
<1>4. StagesMatch /\ WithinCanary
  BY DEF TradingInit, StagesMatch, WithinCanary, Before, After
<1> QED BY <1>3, <1>4 DEF TradingInv

LEMMA ObserveKeeps == TradingInv /\ Observe => TradingInv'
<1> SUFFICES ASSUME TradingInv, Observe PROVE TradingInv'
  OBVIOUS
<1>1. PICK feeds \in [Coins -> Feeds], quote \in GuardQuotes, pool \in PoolPrices,
           balance \in [Coins -> Balances] :
         snapshot' = [pool |-> pool, balance |-> balance,
                      price |-> OraclePrices(actor, feeds, quote)]
  BY DEF Observe
<1>2. OraclePrices(actor, feeds, quote) \in [Coins -> Quotes]
  BY OraclePricesTyped DEF TradingInv, SettingsTyped
<1>3. balance \in [Coins -> Nat]
  <2>1. Balances \subseteq Nat
    BY TradingAssumption
  <2> QED BY <2>1
<1>4. snapshot' \in Snapshots
  BY <1>1, <1>2, <1>3 DEF Snapshots
<1>5. SettingsTyped'
  BY DEF TradingInv, SettingsTyped, Observe, Fixed, Before, After
<1>6. StagesMatch' /\ WithinCanary'
  BY <1>4 DEF TradingInv, StagesMatch, WithinCanary, Observe, Before, After
<1> QED BY <1>5, <1>6 DEF TradingInv

LEMMA MakePlanKeeps == TradingInv /\ MakePlan => TradingInv'
<1> SUFFICES ASSUME TradingInv, MakePlan PROVE TradingInv'
  OBVIOUS
<1>1. /\ plan' \in Plans(snapshot) /\ plan' # NoPlan /\ snapshot \in Snapshots
      /\ actor \in Actors /\ token0 \in Coins
  BY DEF TradingInv, SettingsTyped, StagesMatch, MakePlan
<1>2. plan' \in TypedPlans
  BY <1>1, PlansTyped
<1>3. Plans(snapshot)' = Plans(snapshot) /\ UNCHANGED <<snapshot, intent>>
  BY DEF MakePlan, Fixed, Plans, Detect, SqrtPriceX96ToPrice, OracleCrossRate
<1>4. SettingsTyped'
  BY DEF TradingInv, SettingsTyped, MakePlan, Fixed, Before, After
<1>5. StagesMatch' /\ WithinCanary'
  BY <1>1, <1>2, <1>3 DEF TradingInv, StagesMatch, WithinCanary, MakePlan, Before, After
<1> QED BY <1>4, <1>5 DEF TradingInv

LEMMA QuoteAndBuildKeeps == TradingInv /\ QuoteAndBuild => TradingInv'
<1> SUFFICES ASSUME TradingInv, QuoteAndBuild PROVE TradingInv'
  OBVIOUS
<1>1. PICK out \in Outputs : intent' = Build(plan, out)
  BY DEF QuoteAndBuild
<1>2. out \in Nat /\ plan \in TypedPlans
  BY TradingAssumption DEF TradingInv, StagesMatch, QuoteAndBuild, Before
<1>3. /\ intent'.sell \in Coins /\ intent'.amountIn \in Nat /\ intent'.expectedAmountOut \in Nat
      /\ intent'.minAmountOut = ApplySlippage(intent'.expectedAmountOut, params.maxSlippageBps)
  BY <1>1, <1>2 DEF Build, TypedPlans
<1>4. Plans(snapshot)' = Plans(snapshot) /\ UNCHANGED <<snapshot, plan, params>>
  BY DEF QuoteAndBuild, Fixed, Plans, Detect, SqrtPriceX96ToPrice, OracleCrossRate
<1>5. SettingsTyped'
  BY DEF TradingInv, SettingsTyped, QuoteAndBuild, Fixed, Before, After
<1>6. StagesMatch' /\ WithinCanary'
  BY <1>3, <1>4 DEF TradingInv, StagesMatch, WithinCanary, QuoteAndBuild, Before, After,
     ApplySlippage
<1> QED BY <1>5, <1>6 DEF TradingInv

LEMMA VerifyKeeps == TradingInv /\ Verify => TradingInv'
<1> SUFFICES ASSUME TradingInv, Verify PROVE TradingInv'
  OBVIOUS
<1>1. clock' \in Int
  BY DEF Verify
<1>2. Plans(snapshot)' = Plans(snapshot) /\ UNCHANGED <<snapshot, plan, intent, params>>
  BY DEF Verify, Fixed, TradeFields, Plans, Detect, SqrtPriceX96ToPrice, OracleCrossRate
<1>3. SettingsTyped'
  BY <1>1 DEF TradingInv, SettingsTyped, Verify, Fixed, Before, After
<1>4. StagesMatch' /\ WithinCanary'
  BY <1>2 DEF TradingInv, StagesMatch, WithinCanary, Verify, Before, After, ApplySlippage
<1> QED BY <1>3, <1>4 DEF TradingInv

LEMMA SubmitKeeps == TradingInv /\ Submit => TradingInv'
<1> SUFFICES ASSUME TradingInv, Submit PROVE TradingInv'
  OBVIOUS
<1>1. tradeMode = "canary" =>
          /\ snapshot.price[intent.sell] # NoPrice
          /\ EstimateNotional(intent, snapshot.price[intent.sell])
                <= Config.CANARY_MAX_TRADE_USD * PRICE_ONE
  BY DEF Submit, ValidatePreSubmit, PickOraclePrice
<1>2. /\ Plans(snapshot)' = Plans(snapshot)
      /\ UNCHANGED <<snapshot, plan, intent, params, tradeMode>>
  BY DEF Submit, Fixed, TradeFields, Plans, Detect, SqrtPriceX96ToPrice, OracleCrossRate
<1>3. SettingsTyped'
  BY DEF TradingInv, SettingsTyped, Submit, Fixed, Before, After
<1>4. StagesMatch'
  BY <1>2 DEF TradingInv, StagesMatch, Submit, Before, After, ApplySlippage
<1>5. WithinCanary'
  BY <1>1, <1>2 DEF WithinCanary, EstimateNotional
<1> QED BY <1>3, <1>4, <1>5 DEF TradingInv

LEMMA NextTradingInv == TradingInv /\ [TradingNext]_tradeVars => TradingInv'
<1> SUFFICES ASSUME TradingInv, [TradingNext]_tradeVars PROVE TradingInv'
  OBVIOUS
<1>1. CASE NextTrade
  BY <1>1 DEF NextTrade, TradingInv, SettingsTyped, StagesMatch, WithinCanary, Before, After
<1>2. CASE UNCHANGED tradeVars
  <2>1. Plans(snapshot)' = Plans(snapshot)
    BY <1>2 DEF tradeVars, Plans, Detect, SqrtPriceX96ToPrice, OracleCrossRate
  <2> QED
    BY <1>2, <2>1 DEF tradeVars, TradingInv, SettingsTyped, StagesMatch, WithinCanary, Before,
       After, ApplySlippage, EstimateNotional
<1> QED
  BY <1>1, <1>2, ObserveKeeps, MakePlanKeeps, QuoteAndBuildKeeps, VerifyKeeps, SubmitKeeps
  DEF TradingNext

-----------------------------------------------------------------------------
\* An intent built by IntentBuilder with the slippage setting read at startup passes
\* SwapGuard's tolerance as long as the owner has not tightened it, for all amounts of
\* at least MAX_BPS units, though both sides round.
THEOREM IntentsFitTolerance == TradingSpec => []BuiltIntentAccepted
<1>1. TradingInv => BuiltIntentAccepted
  <2> SUFFICES ASSUME TradingInv, intent # NoIntent,
                      guardParams.maxSlippageBps >= params.maxSlippageBps,
                      intent.expectedAmountOut >= MAX_BPS
               PROVE  ToleranceAccepts(intent, guardParams.maxSlippageBps)
    BY DEF BuiltIntentAccepted
  <2>1. /\ intent.expectedAmountOut \in Nat
        /\ intent.minAmountOut = ApplySlippage(intent.expectedAmountOut, params.maxSlippageBps)
    BY DEF TradingInv, StagesMatch
  <2>2. /\ params.maxSlippageBps \in 0 .. MAX_BPS /\ guardParams.maxSlippageBps \in Nat
        /\ params.maxSlippageBps <= guardParams.maxSlippageBps
    BY Scales DEF TradingInv, SettingsTyped
  <2> QED BY <2>1, <2>2, SlippageFits
<1> QED BY <1>1, InitTradingInv, NextTradingInv, PTL DEF TradingSpec

\* The pipeline's detector never sells what is cheaper on the DEX than at the oracle,
\* for all prices, decimals and orders of the two addresses.
THEOREM DetectorSellsDear == TradingSpec => []SellsTheDearToken
<1>1. TradingInv => SellsTheDearToken
  <2> SUFFICES ASSUME TradingInv, actor = "pipeline", plan # NoPlan PROVE SellsTheDearToken
    BY DEF SellsTheDearToken
  <2>1. snapshot \in Snapshots /\ plan \in Plans(snapshot) /\ token0 \in Coins
    BY DEF TradingInv, SettingsTyped, StagesMatch, Before
  <2>2. plan = Detect(snapshot)
    BY <2>1 DEF Plans
  <2> QED BY <2>1, <2>2, DetectSellsDear DEF SellsTheDearToken
<1> QED BY <1>1, InitTradingInv, NextTradingInv, PTL DEF TradingSpec

\* Carried out at the oracle's prices, a delta-neutral plan leaves the sides no further
\* apart, for all balances, prices and decimals, if TASK_REBALANCE_SHARE_BPS is less than
\* the whole.  At the whole, which the settings allow, the rounding of the two values may
\* sell a fraction of 10^-18 dollars more than the gap.
THEOREM RebalancesNarrow ==
    ASSUME Config.TASK_REBALANCE_SHARE_BPS < MAX_BPS
    PROVE  TradingSpec => []RebalanceNarrowsDrift
<1>1. TradingInv => RebalanceNarrowsDrift
  <2> SUFFICES ASSUME TradingInv, actor = "delta-neutral-rebalance", plan # NoPlan
               PROVE  RebalanceNarrowsDrift
    BY DEF RebalanceNarrowsDrift
  <2> DEFINE t == plan.sell
             u == Other(t)
             usdT == snapshot.balance[t] * snapshot.price[t].price * TOKEN_ONE[u]
             usdU == snapshot.balance[u] * snapshot.price[u].price * TOKEN_ONE[t]
             sold == plan.amountIn * snapshot.price[t].price * TOKEN_ONE[u]
  <2>1. snapshot \in Snapshots /\ plan = DeltaNeutralPlan(snapshot)
    BY DEF TradingInv, SettingsTyped, StagesMatch, Before, Plans
  <2>2. /\ t \in Coins /\ u \in Coins /\ Other(u) = t /\ plan.amountIn \in Nat
        /\ snapshot.price[t] # NoPrice /\ snapshot.price[u] # NoPrice
        /\ sold + usdU <= usdT
    BY <2>1, DeltaNeutralWithinGap, OtherCoin
  <2>3. usdT \in Nat /\ usdU \in Nat /\ sold \in Nat
    <3>1. /\ snapshot.price[t].price \in Nat /\ snapshot.price[u].price \in Nat
          /\ snapshot.balance[t] \in Nat /\ snapshot.balance[u] \in Nat
          /\ TOKEN_ONE[t] \in Nat /\ TOKEN_ONE[u] \in Nat
      BY <2>1, <2>2, Scales DEF Snapshots, Quotes
    <3> QED BY <2>2, <3>1
  <2>4. Abs((usdT - usdU) - 2 * sold) <= Abs(usdT - usdU)
    <3> HIDE DEF usdT, usdU, sold
    <3> QED BY <2>2, <2>3 DEF Abs
  <2> QED BY <2>2, <2>4 DEF RebalanceNarrowsDrift
<1> QED BY <1>1, InitTradingInv, NextTradingInv, PTL DEF TradingSpec

\* validatePreSubmit keeps the canary's cap in dollars of the token sold, whichever
\* fallback its price came from, for all decimals.
THEOREM CanaryNeverExceedsCap == TradingSpec => []CanaryCapHolds
<1>1. TradingInv => CanaryCapHolds
  <2> SUFFICES ASSUME TradingInv, tradeStage = "submitted", tradeMode = "canary"
               PROVE  intent.amountIn * snapshot.price[intent.sell].price
                        < (Config.CANARY_MAX_TRADE_USD * PRICE_ONE + 1) * TOKEN_ONE[intent.sell]
    BY DEF CanaryCapHolds
  <2> DEFINE n == intent.amountIn * snapshot.price[intent.sell].price
             d == TOKEN_ONE[intent.sell]
             cap == Config.CANARY_MAX_TRADE_USD * PRICE_ONE
  <2>1. /\ intent.sell \in Coins /\ intent.amountIn \in Nat /\ snapshot \in Snapshots
        /\ snapshot.price[intent.sell] # NoPrice /\ n \div d <= cap
    BY DEF TradingInv, StagesMatch, WithinCanary, After, EstimateNotional
  <2>2. n \in Nat /\ d \in Nat \ {0}
    BY <2>1, Scales DEF Snapshots, Quotes
  <2>3. cap \in Nat
    BY Scales, TradingAssumption
  <2> HIDE DEF n, d, cap
  <2>4. n \div d \in Nat /\ n % d \in 0 .. d - 1 /\ n = d * (n \div d) + (n % d)
    BY <2>2, DivisionDef
  <2>5. d * (n \div d) <= d * cap /\ d * cap \in Nat /\ d * (n \div d) \in Nat
    BY <2>1, <2>2, <2>3, <2>4, TimesMonotone
  <2>6. (cap + 1) * d = d * cap + d
    BY <2>2, <2>3
  <2>7. n < (cap + 1) * d
    BY <2>2, <2>4, <2>5, <2>6
  <2> QED BY <2>7 DEF n, d, cap
<1> QED BY <1>1, InitTradingInv, NextTradingInv, PTL DEF TradingSpec
===============================================================================
