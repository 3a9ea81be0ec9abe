----------------------------- MODULE PriceOracle -----------------------------
(***************************************************************************)
(* contracts/src/oracles/ChainlinkPriceOracleAdapter.sol, the price oracle *)
(* DeployPhase1 makes for the guard: the feed its owner has set for a pair *)
(* of tokens, in either direction and perhaps inverted, and the amount     *)
(* getQuote makes of the feed's answer in integers.  A call that reverts   *)
(* changes nothing and is no step.                                         *)
(***************************************************************************)
EXTENDS Integers

CONSTANTS
    Quoted,          \* tokens
    Unit,            \* [Quoted -> 10^decimals]; address(0) has nativeTokenDecimals
    Aggregators,     \* Chainlink feeds
    FeedOne,         \* [Aggregators -> 10^feedDecimals]
    Answers,         \* bound: what a feed may answer, also zero and negative
    Amounts,         \* bound: the amounts asked for
    Admins,          \* addresses that call the adapter
    Nobody           \* address(0)

ASSUME OracleAssumption ==
    /\ Unit \in [Quoted -> Nat \ {0}] /\ FeedOne \in [Aggregators -> Nat \ {0}]
    /\ \A a, b \in Quoted : Unit[a] <= Unit[b] => Unit[b] % Unit[a] = 0
    /\ Answers \subseteq Int /\ Amounts \subseteq Nat
    /\ Nobody \notin Admins /\ "none" \notin Aggregators

VARIABLES
    oracleOwner, pendingOracleOwner,   \* owner and pendingOwner
    feedByPair,                        \* [pairs -> [feed, inverse]], or NoFeed
    answer                             \* the answer of each aggregator's last round

oracleVars == <<oracleOwner, pendingOracleOwner, feedByPair, answer>>

NoFeed == [feed |-> "none", inverse |-> FALSE]

PriceOracleInit ==
    /\ oracleOwner \in Admins /\ pendingOracleOwner = Nobody
    /\ feedByPair = [pair \in Quoted \X Quoted |-> NoFeed]
    /\ answer \in [Aggregators -> Answers]

TransferOracle(sender, newOwner) ==
    /\ sender = oracleOwner
    /\ pendingOracleOwner' = newOwner
    /\ UNCHANGED <<oracleOwner, feedByPair, answer>>

AcceptOracle(sender) ==
    /\ sender = pendingOracleOwner
    /\ oracleOwner' = sender /\ pendingOracleOwner' = Nobody
    /\ UNCHANGED <<feedByPair, answer>>

SetFeed(sender, pair, feed, inverse) ==
    /\ sender = oracleOwner
    /\ feedByPair' = [feedByPair EXCEPT ![pair] = [feed |-> feed, inverse |-> inverse]]
    /\ UNCHANGED <<oracleOwner, pendingOracleOwner, answer>>

\* External: the aggregator's next round.
NewRound(feed, n) ==
    /\ answer' = [answer EXCEPT ![feed] = n]
    /\ UNCHANGED <<oracleOwner, pendingOracleOwner, feedByPair>>

PriceOracleNext ==
    \/ \E sender \in Admins :
          \/ \E newOwner \in Admins : TransferOracle(sender, newOwner)
          \/ AcceptOracle(sender)
          \/ \E pair \in Quoted \X Quoted, feed \in Aggregators, inverse \in BOOLEAN :
                SetFeed(sender, pair, feed, inverse)
    \/ \E feed \in Aggregators, n \in Answers : NewRound(feed, n)

PriceOracleSpec == PriceOracleInit /\ [][PriceOracleNext]_oracleVars

\* The pairs getQuote answers for instead of reverting.
HasQuote(pair) == feedByPair[pair] # NoFeed /\ answer[feedByPair[pair].feed] > 0

\* What an amount is multiplied with and divided by.
Times(pair) ==
    LET config == feedByPair[pair]
    IN  IF config.inverse THEN FeedOne[config.feed] ELSE answer[config.feed]
Over(pair) ==
    LET config == feedByPair[pair]
    IN  IF config.inverse THEN answer[config.feed] ELSE FeedOne[config.feed]

\* Mutant: tokenOut's decimals are taken for tokenIn's.
RescaledBack(normalized, tokenIn, tokenOut) ==
    IF Unit[tokenIn] >= Unit[tokenOut] THEN normalized * (Unit[tokenIn] \div Unit[tokenOut])
    ELSE normalized \div (Unit[tokenOut] \div Unit[tokenIn])

Rescaled(normalized, tokenIn, tokenOut) ==
    IF Unit[tokenOut] >= Unit[tokenIn] THEN normalized * (Unit[tokenOut] \div Unit[tokenIn])
    ELSE normalized \div (Unit[tokenIn] \div Unit[tokenOut])

\* getQuote's amountOut; updatedAt is the round's time, which SwapGuard looks at.
GetQuote(pair, amountIn) ==
    Rescaled((amountIn * Times(pair)) \div Over(pair), pair[1], pair[2])

-----------------------------------------------------------------------------
\* A quote is never above the feed's price, and below it by less than one unit of the
\* token with fewer decimals, though it is rounded before and perhaps again after the
\* decimals are scaled.
QuotesRoundDown ==
    \A pair \in Quoted \X Quoted, amount \in Amounts : HasQuote(pair) =>
        LET unitOut == Over(pair) * Unit[pair[1]]
            exact == amount * Times(pair) * Unit[pair[2]]
            step == IF Unit[pair[2]] >= Unit[pair[1]] THEN Unit[pair[2]] \div Unit[pair[1]] ELSE 1
        IN  /\ GetQuote(pair, amount) * unitOut <= exact
            /\ exact < (GetQuote(pair, amount) + step) * unitOut

\* Where both directions of a pair are set to one feed, one of them inverted, quoting
\* an amount there and back never makes more of it.
NoGainThereAndBack ==
    \A a, b \in Quoted, amount \in Amounts :
        LET there == feedByPair[<<a, b>>]
            back == feedByPair[<<b, a>>]
        IN  (/\ HasQuote(<<a, b>>) /\ HasQuote(<<b, a>>)
             /\ there.feed = back.feed /\ there.inverse # back.inverse)
            => GetQuote(<<b, a>>, GetQuote(<<a, b>>, amount)) <= amount

\* What the guard's oracle answers is a price to be held to: rounded against the swap,
\* within a unit, and not to be gained from.
QuotesAreFair == QuotesRoundDown /\ NoGainThereAndBack
=============================================================================
