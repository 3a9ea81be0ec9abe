------------------------------ MODULE MCTrading ------------------------------
(* Round numbers for the arithmetic of Trading, for TLC: a token of one    *)
(* decimal and one of two, prices of one decimal, a hundred basis points.  *)
EXTENDS Trading

TokenOne == [t \in Coins |-> IF t = "A" THEN 10 ELSE 100]

\* Shares of 30, 10 and 20 hundredths, a drift of 5, a deviation of 2; a trade has to
\* earn one and a half times its gas.
TradeConfig ==
    [MAX_STALENESS_SECONDS |-> 3, maxOracleStaleness |-> 9, MAX_ORACLE_AGE_SECONDS |-> 6,
     DEADLINE_BUFFER_SECONDS |-> 3, maxDeadlineDelay |-> 4, MIN_DEVIATION_BPS |-> 2,
     minTradeAmount |-> 20, TASK_REBALANCE_SHARE_BPS |-> 30, TASK_REBALANCE_DRIFT_BPS |-> 5,
     TASK_MAX_NOTIONAL_USD |-> 500000, TASK_ROUTE_IMPROVEMENT_BPS |-> 5,
     TASK_MIGRATION_SHARE_BPS |-> 10, TASK_BUYBACK_MIN_STABLE_USD |-> 3,
     TASK_BUYBACK_SHARE_BPS |-> 20, gasRollingAverage |-> 2, MAX_GAS_PRICE_MULTIPLIER |-> 100,
     ESTIMATED_SWAP_GAS_UNITS |-> 1, MIN_PROFIT_MULTIPLIER |-> 150,
     CANARY_MAX_TRADE_USD |-> 2, RUNTIME_MAX_NOTIONAL_USD |-> 9]

AllTasks == {"delta-neutral-rebalance", "convex-lp-migration", "protocol-buyback-burn"}
TradeActors == {"pipeline"} \cup AllTasks

Feed(price, age) == [price |-> price, age |-> age, unsure |-> FALSE]
SomeFeeds == {NoPrice, Feed(10, 0), Feed(25, 2), Feed(25, 4)}
SomeGuardQuotes == {NoPrice, [amountOut |-> 190, age |-> 8]}

\* Two and a half B for one A, two, and the same the other way round.
SomePools == {[num |-> 25, den |-> 1], [num |-> 20, den |-> 1], [num |-> 1, den |-> 20]}
OnlyStableB == [w \in {"pipeline", "task"} |-> IF w = "task" THEN {"B"} ELSE {}]
=============================================================================
