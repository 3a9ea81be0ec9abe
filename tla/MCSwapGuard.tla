----------------------------- MODULE MCSwapGuard -----------------------------
(* A small instance of SwapGuard for TLC.                                  *)
EXTENDS SwapGuard

CONSTANTS module, agentA, tokA, tokB, router

\* A guard whose owner has listed everything and set the limits.
Configured(limit, cooldown) ==
    [ConstructorPolicy(0, cooldown, MaxTime, MaxTime) EXCEPT
        !.allowedRouters = Routers, !.allowedTokens = Tokens,
        !.authorizedExecutors = {module},
        !.maxDailyVolumeByToken = [k \in Tokens |-> limit],
        !.oracleConfigured = TRUE]

\* An exact-input request at the oracle's price 100, asking for minOut.
ExactIn(in, out, amount, minOut) ==
    [swapType |-> 0, router |-> router, tokenIn |-> in, tokenOut |-> out,
     amountIn |-> amount, minAmountOut |-> minOut,
     expectedAmountIn |-> amount, expectedAmountOut |-> 100 * amount,
     deadline |-> MaxTime]

\* The owner changes any setting between swaps of both tokens and types.
\* tokB has no explicit limit, and 17 decimals, so that its limit is a tenth of the
\* default; quotes lie around the thresholds, feeds go stale after a second.
OwnerPolicy ==
    [Configured(3, 1) EXCEPT !.maxDailyVolumeByToken[tokB] = 0,
                             !.defaultMaxDailyVolume = 10,
                             !.requireExplicitTokenLimits = FALSE,
                             !.maxOracleStaleness = 1]
MixedDecimals == [k \in Tokens |-> IF k = tokB THEN 17 ELSE 18]

ExactOut(in, out, amount, expectedIn, amountOut) ==
    [swapType |-> 1, router |-> router, tokenIn |-> in, tokenOut |-> out,
     amountIn |-> amount, minAmountOut |-> amountOut,
     expectedAmountIn |-> expectedIn, expectedAmountOut |-> amountOut,
     deadline |-> MaxTime - 1]
OwnerRequests ==
    {ExactIn(tokA, tokB, 2, 194), ExactIn(tokB, tokA, 1, 97), ExactOut(tokA, tokB, 2, 1, 100)}
    \cup {[ExactIn(tokA, tokB, 1, min) EXCEPT !.expectedAmountOut = 97] : min \in {94, 95}}
=============================================================================
