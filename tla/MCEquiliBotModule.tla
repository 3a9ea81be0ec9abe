-------------------------- MODULE MCEquiliBotModule --------------------------
(* A Safe with two ERC-20s and native coin, for TLC.                       *)
EXTENDS EquiliBotModule

CONSTANTS agentA, agentB, tokA, tokB, coin, router

\* Prices are one to one and the oracle exact, so that single units tell the
\* amounts apart; an agent may spend two of a token a day.
SafePolicy ==
    [ConstructorPolicy(0, 0, MaxTime, MaxTime) EXCEPT
        !.allowedRouters = Routers, !.allowedTokens = Tokens,
        !.authorizedExecutors = {Module},
        !.maxDailyVolumeByToken = [k \in Tokens |-> IF k = tokB THEN 2 ELSE 1],
        !.maxExactOutputInputBufferBps = 10000,
        !.oracleConfigured = TRUE, !.maxOracleDeviationBps = 0]

Decimals18 == [k \in Tokens |-> 18]

Request(type, in, out, amountIn, minOut, expectedIn, expectedOut) ==
    [swapType |-> type, router |-> router, tokenIn |-> in, tokenOut |-> out,
     amountIn |-> amountIn, minAmountOut |-> minOut, expectedAmountIn |-> expectedIn,
     expectedAmountOut |-> expectedOut, deadline |-> MaxTime]

\* One tokA for one tokB, one coin for one tokA, at most two tokB for one coin.
SellA == Request(0, tokA, tokB, 1, 1, 1, 1)
SellCoin == Request(0, coin, tokA, 1, 1, 0, 1)
BuyCoin == Request(1, tokB, coin, 2, 1, 1, 1)
SafeRequests == {SellA, SellCoin, BuyCoin}

\* The calldata the agent builds for each request, and some that does not fit.
Fitting(r) ==
    [selector |-> IF r.swapType = 0 THEN "exactInputSingle" ELSE "swapTokensForExactTokens",
     canonical |-> TRUE, recipient |-> "safe", tokenIn |-> r.tokenIn, tokenOut |-> r.tokenOut,
     amountIn |-> r.amountIn, amountOut |-> r.minAmountOut, deadline |-> r.deadline]
SafeCalldatas ==
    {Fitting(r) : r \in SafeRequests}
    \cup {[Fitting(SellA) EXCEPT !.recipient = "other"]}

\* An earlier owner of the Safe left the router allowances.
SafeLegacy == [x \in Routers |-> [k \in ERC20 |-> 1]]
SafeBalances == [k \in Tokens |-> IF k = tokA THEN 2 ELSE 1]
SafeProtected == <<tokA, tokB>>
AllSelectors == {SELECTOR_SWAP_EXACT_TOKENS_FOR_TOKENS, SELECTOR_SWAP_TOKENS_FOR_EXACT_TOKENS,
                 SELECTOR_EXACT_INPUT_SINGLE}
SafeSelectors == [x \in Routers |-> {SELECTOR_EXACT_INPUT_SINGLE,
                                     SELECTOR_SWAP_TOKENS_FOR_EXACT_TOKENS}]
=============================================================================
