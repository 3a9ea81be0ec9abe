------------------------------ MODULE SwapGuard ------------------------------
(***************************************************************************)
(* contracts/src/SwapGuard.sol: the on-chain spending policy.  Every swap  *)
(* of the Safe passes validateAndConsume, which checks a request against   *)
(* the owner's limits and the price oracle, and charges the agent's daily  *)
(* volume and cooldown.  A reverting call changes nothing, so it is no     *)
(* step here: the guard of each action is the conjunction of the checks    *)
(* its function makes.                                                     *)
(*                                                                         *)
(* log is history only (the SwapConsumed events, each with the policy in   *)
(* force and the oracle's answer when it was emitted); no action reads it. *)
(***************************************************************************)
EXTENDS Integers, Sequences, FiniteSetsExt

CONSTANTS
    Addresses,      \* accounts: owners and executors
    Agents,         \* accounts a swap is charged to
    NoAddress,      \* address(0)
    Tokens, Routers,
    Decimals,       \* [Tokens -> Nat]: what a token's decimals() answers
    DAY,            \* 1 days
    StartTime,      \* timestamp of the deployment block, in day 1 or later
    MaxTime,        \* bound: the last block timestamp considered
    InitialOwner, InitialPolicy,
    Requests,       \* the swap requests submitted
    Amounts,        \* bound: token amounts an owner sets as a limit
    Durations,      \* bound: durations an owner sets
    BpsValues,      \* bound: basis points an owner sets
    InitialRate,    \* the oracle's price: tokenOut units for one of tokenIn
    Rates,          \* bound: the prices it publishes later
    MaxOwnerCalls   \* bound: the owner's transactions after deployment

MAX_BPS == 10000
SWAP_TYPE_EXACT_INPUT == 0
SWAP_TYPE_EXACT_OUTPUT == 1

\* The storage the owner's setters write.
PolicyType ==
    [paused : BOOLEAN,
     allowedRouters : SUBSET Routers,
     allowedTokens : SUBSET Tokens,
     authorizedExecutors : SUBSET Addresses,
     minTradeAmount : [Tokens -> Nat],
     maxTradeAmountByToken : [Tokens -> Nat],
     maxDailyVolumeByToken : [Tokens -> Nat],
     defaultMaxDailyVolume : Nat,
     requireExplicitTokenLimits : BOOLEAN,
     cooldownSeconds : Nat,
     maxDeadlineDelay : Nat,
     maxSlippageBps : 0 .. MAX_BPS,
     maxExactOutputInputBufferBps : 0 .. MAX_BPS,
     oracleConfigured : BOOLEAN,
     maxOracleStaleness : Nat,
     maxOracleDeviationBps : 0 .. MAX_BPS]

SwapRequest ==
    [swapType : 0 .. 255, router : Routers,
     tokenIn : Tokens, tokenOut : Tokens,
     amountIn : Nat, minAmountOut : Nat,
     expectedAmountIn : Nat, expectedAmountOut : Nat,
     deadline : Nat]

\* Time starts after day 0, as block timestamps do.
ASSUME TimeAssumption ==
    /\ DAY \in Nat \ {0}
    /\ StartTime \in Nat /\ StartTime >= DAY
    /\ MaxTime \in Nat /\ StartTime <= MaxTime

ASSUME ConstantAssumption ==
    /\ NoAddress \notin Addresses
    /\ InitialOwner \in Addresses
    /\ InitialPolicy \in PolicyType
    /\ Decimals \in [Tokens -> 0 .. 255]
    /\ Requests \subseteq SwapRequest
    /\ Amounts \subseteq Nat /\ Durations \subseteq Nat /\ BpsValues \subseteq Nat
    /\ InitialRate \in Nat /\ Rates \subseteq Nat
    /\ MaxOwnerCalls \in Nat

\* The power of ten between a token's unit and one of 18 decimals.
UnitScale(k) == 10 ^ (IF Decimals[k] <= 18 THEN 18 - Decimals[k] ELSE Decimals[k] - 18)

\* Arithmetic the provers do not know: a power of ten is a positive number.
ASSUME ScaleAssumption == \A k \in Tokens : UnitScale(k) \in Nat \ {0}

\* Storage as the constructor leaves it, for the constructor's arguments.
ConstructorPolicy(maxDailyVolume, cooldown, deadlineDelay, staleness) ==
    [paused |-> FALSE, allowedRouters |-> {}, allowedTokens |-> {},
     authorizedExecutors |-> {},
     minTradeAmount |-> [k \in Tokens |-> 0],
     maxTradeAmountByToken |-> [k \in Tokens |-> 0],
     maxDailyVolumeByToken |-> [k \in Tokens |-> 0],
     defaultMaxDailyVolume |-> maxDailyVolume,
     requireExplicitTokenLimits |-> TRUE,
     cooldownSeconds |-> cooldown,
     maxDeadlineDelay |-> deadlineDelay,
     maxSlippageBps |-> 300, maxExactOutputInputBufferBps |-> 300,
     oracleConfigured |-> FALSE,
     maxOracleStaleness |-> staleness, maxOracleDeviationBps |-> 300]

Days == 0 .. (MaxTime \div DAY)
Pairs == Tokens \X Tokens

\* One SwapConsumed event, the policy it was checked against, the oracle's answer.
Event == [agent : Agents, request : SwapRequest, at : Nat,
          policy : PolicyType, oracleOut : Nat]

VARIABLES
    now,                      \* block.timestamp
    owner, pendingOwner,
    policy,
    feed,                     \* the price oracle: its rate and its update time
    dailyVolumeByAgentToken,  \* [agent -> [tokenIn -> [day -> amount]]]
    lastExecutionAt, lastExecutionAtByToken, lastExecutionAtByPair,
    ownerCalls,               \* transactions the owner sent (bounded)
    log

ledger == <<dailyVolumeByAgentToken, lastExecutionAt, lastExecutionAtByToken,
            lastExecutionAtByPair>>
vars == <<now, owner, pendingOwner, policy, feed, ledger, ownerCalls, log>>

-----------------------------------------------------------------------------
(* _validate, one operator per group of checks.                            *)

DayKey(t) == t \div DAY

\* Mutant: the weight of yesterday grows through the day.
ElapsedReversed(t) == DAY - (t % DAY)
Elapsed(t) == t % DAY

Allowlisted(r) ==
    /\ r.router \in policy.allowedRouters
    /\ {r.tokenIn, r.tokenOut} \subseteq policy.allowedTokens
    /\ r.tokenIn # r.tokenOut

AmountWithinBounds(r) ==
    /\ r.amountIn >= policy.minTradeAmount[r.tokenIn]
    /\ \/ policy.maxTradeAmountByToken[r.tokenIn] = 0
       \/ r.amountIn <= policy.maxTradeAmountByToken[r.tokenIn]

\* Mutant: the slippage of the minimum is not checked.
ExactInputNoSlippageCheck(r) ==
    /\ r.expectedAmountOut # 0 /\ r.minAmountOut <= r.expectedAmountOut
    /\ r.expectedAmountIn \in {0, r.amountIn}

ExactInputConsistent(r) ==
    /\ r.expectedAmountOut # 0 /\ r.minAmountOut <= r.expectedAmountOut
    /\ r.expectedAmountIn \in {0, r.amountIn}
    /\ ((r.expectedAmountOut - r.minAmountOut) * MAX_BPS) \div r.expectedAmountOut
         <= policy.maxSlippageBps

ExactOutputConsistent(r) ==
    /\ r.expectedAmountOut # 0 /\ r.minAmountOut = r.expectedAmountOut
    /\ r.expectedAmountIn # 0 /\ r.expectedAmountIn <= r.amountIn
    /\ ((r.amountIn - r.expectedAmountIn) * MAX_BPS) \div r.expectedAmountIn
         <= policy.maxExactOutputInputBufferBps

QuoteConsistent(r) ==
    \/ r.swapType = SWAP_TYPE_EXACT_INPUT /\ ExactInputConsistent(r)
    \/ r.swapType = SWAP_TYPE_EXACT_OUTPUT /\ ExactOutputConsistent(r)

\* IPriceOracle.getQuote, as _validateAgainstOracle asks for it.
OracleAmountOut(r) ==
    feed.rate * (IF r.swapType = SWAP_TYPE_EXACT_INPUT THEN r.amountIn
                                                       ELSE r.expectedAmountIn)

OracleAgrees(r) ==
    /\ policy.oracleConfigured
    /\ OracleAmountOut(r) # 0
    /\ \/ policy.maxOracleStaleness = 0
       \/ now <= feed.updatedAt + policy.maxOracleStaleness
    /\ r.expectedAmountOut >=
         (OracleAmountOut(r) * (MAX_BPS - policy.maxOracleDeviationBps)) \div MAX_BPS

DeadlineAcceptable(r) ==
    /\ now <= r.deadline
    /\ r.deadline <= now + policy.maxDeadlineDelay

\* Mutant: the cooldown ends a second early.
CooldownOneEarly(agent, k) ==
    \/ policy.cooldownSeconds = 0
    \/ lastExecutionAtByToken[agent][k] = 0
    \/ now + 1 >= lastExecutionAtByToken[agent][k] + policy.cooldownSeconds

CooldownElapsed(agent, k) ==
    \/ policy.cooldownSeconds = 0
    \/ lastExecutionAtByToken[agent][k] = 0
    \/ now >= lastExecutionAtByToken[agent][k] + policy.cooldownSeconds

\* Volume counted against the limit: all of today's, and yesterday's weighted
\* by the part of the day that is left.
\* Mutants: yesterday is not counted; the day before it is.
NoPreviousDay(agent, k, d) == 0
DayBeforePrevious(agent, k, d) ==
    IF d < 2 THEN 0 ELSE dailyVolumeByAgentToken[agent][k][d - 2]

PreviousDayVolume(agent, k, d) ==
    IF d = 0 THEN 0 ELSE dailyVolumeByAgentToken[agent][k][d - 1]

RollingConsumed(agent, k) ==
    dailyVolumeByAgentToken[agent][k][DayKey(now)]
      + (PreviousDayVolume(agent, k, DayKey(now)) * (DAY - Elapsed(now))) \div DAY

\* _scaleDefaultLimitForToken: the default limit is stated for 18 decimals.
\* Decimals above 77 revert (see LimitConfigured).
ScaledDefaultLimit(p, k) ==
    IF Decimals[k] <= 18 THEN p.defaultMaxDailyVolume \div UnitScale(k)
                         ELSE p.defaultMaxDailyVolume * UnitScale(k)

EffectiveLimit(p, k) ==
    IF p.maxDailyVolumeByToken[k] # 0 THEN p.maxDailyVolumeByToken[k]
                                      ELSE ScaledDefaultLimit(p, k)

LimitConfigured(k) ==
    \/ policy.maxDailyVolumeByToken[k] # 0
    \/ /\ ~policy.requireExplicitTokenLimits
       /\ Decimals[k] <= 77
       /\ EffectiveLimit(policy, k) # 0

\* Mutant: the limit is compared before the amount is added.
LimitBeforeAmount(agent, r) ==
    /\ LimitConfigured(r.tokenIn)
    /\ RollingConsumed(agent, r.tokenIn) <= EffectiveLimit(policy, r.tokenIn)

WithinDailyLimit(agent, r) ==
    /\ LimitConfigured(r.tokenIn)
    /\ RollingConsumed(agent, r.tokenIn) + r.amountIn
         <= EffectiveLimit(policy, r.tokenIn)

\* checkSwap and _validate: the request passes for this agent, now.
Validate(agent, r) ==
    /\ ~policy.paused
    /\ Allowlisted(r)
    /\ AmountWithinBounds(r)
    /\ QuoteConsistent(r)
    /\ OracleAgrees(r)
    /\ DeadlineAcceptable(r)
    /\ CooldownElapsed(agent, r.tokenIn)
    /\ WithinDailyLimit(agent, r)

-----------------------------------------------------------------------------
Init ==
    /\ now = StartTime
    /\ owner = InitialOwner
    /\ pendingOwner = NoAddress
    /\ policy = InitialPolicy
    /\ feed = [rate |-> InitialRate, updatedAt |-> StartTime]
    /\ dailyVolumeByAgentToken = [a \in Agents |-> [k \in Tokens |-> [d \in Days |-> 0]]]
    /\ lastExecutionAt = [a \in Agents |-> 0]
    /\ lastExecutionAtByToken = [a \in Agents |-> [k \in Tokens |-> 0]]
    /\ lastExecutionAtByPair = [a \in Agents |-> [p \in Pairs |-> 0]]
    /\ ownerCalls = 0
    /\ log = <<>>

\* A setter: the owner alone writes the policy.
OwnerSets(sender, newPolicy) ==
    /\ sender = owner
    /\ ownerCalls < MaxOwnerCalls
    /\ ownerCalls' = ownerCalls + 1
    /\ policy' = newPolicy
    /\ UNCHANGED <<now, owner, pendingOwner, feed, ledger, log>>

TransferOwnership(sender, newOwner) ==
    /\ sender = owner
    /\ ownerCalls < MaxOwnerCalls
    /\ ownerCalls' = ownerCalls + 1
    /\ pendingOwner' = newOwner
    /\ UNCHANGED <<now, owner, policy, feed, ledger, log>>

AcceptOwnership(sender) ==
    /\ sender = pendingOwner
    /\ owner' = sender
    /\ pendingOwner' = NoAddress
    /\ UNCHANGED <<now, policy, feed, ledger, ownerCalls, log>>

SetPaused(sender, isPaused) ==
    OwnerSets(sender, [policy EXCEPT !.paused = isPaused])

\* A mapping(address => bool) as the set of the addresses it maps to true.
Toggled(set, x, allowed) == IF allowed THEN set \cup {x} ELSE set \ {x}

SetRouterAllowed(sender, router, allowed) ==
    OwnerSets(sender, [policy EXCEPT !.allowedRouters = Toggled(@, router, allowed)])

SetTokenAllowed(sender, k, allowed) ==
    OwnerSets(sender, [policy EXCEPT !.allowedTokens = Toggled(@, k, allowed)])

SetAuthorizedExecutor(sender, executor, allowed) ==
    OwnerSets(sender, [policy EXCEPT !.authorizedExecutors = Toggled(@, executor, allowed)])

SetMinTradeAmount(sender, k, amount) ==
    OwnerSets(sender, [policy EXCEPT !.minTradeAmount[k] = amount])

SetMaxTradeAmountForToken(sender, k, amount) ==
    OwnerSets(sender, [policy EXCEPT !.maxTradeAmountByToken[k] = amount])

SetMaxDailyVolume(sender, amount) ==
    OwnerSets(sender, [policy EXCEPT !.defaultMaxDailyVolume = amount])

SetMaxDailyVolumeForToken(sender, k, amount) ==
    OwnerSets(sender, [policy EXCEPT !.maxDailyVolumeByToken[k] = amount])

SetRequireExplicitTokenLimits(sender, shouldRequire) ==
    OwnerSets(sender, [policy EXCEPT !.requireExplicitTokenLimits = shouldRequire])

SetCooldownSeconds(sender, seconds) ==
    OwnerSets(sender, [policy EXCEPT !.cooldownSeconds = seconds])

SetMaxDeadlineDelay(sender, delay) ==
    OwnerSets(sender, [policy EXCEPT !.maxDeadlineDelay = delay])

SetMaxSlippageBps(sender, bps) ==
    /\ bps <= MAX_BPS
    /\ OwnerSets(sender, [policy EXCEPT !.maxSlippageBps = bps])

SetMaxExactOutputInputBufferBps(sender, bps) ==
    /\ bps <= MAX_BPS
    /\ OwnerSets(sender, [policy EXCEPT !.maxExactOutputInputBufferBps = bps])

SetOracleConfig(sender, staleness, bps) ==
    /\ bps <= MAX_BPS
    /\ OwnerSets(sender, [policy EXCEPT !.oracleConfigured = TRUE,
                                        !.maxOracleStaleness = staleness,
                                        !.maxOracleDeviationBps = bps])

\* Mutant: the day's volume is overwritten.
OverwriteVolume(agent, r) ==
    [dailyVolumeByAgentToken EXCEPT ![agent][r.tokenIn][DayKey(now)] = r.amountIn]

\* The volume charged with request r as well.
AddVolume(agent, r) ==
    [dailyVolumeByAgentToken EXCEPT ![agent][r.tokenIn][DayKey(now)] = @ + r.amountIn]

PairKey(r) == <<r.tokenIn, r.tokenOut>>

\* The executor is the module; it passes its caller as the agent.
ValidateAndConsume(sender, agent, r) ==
    /\ sender \in policy.authorizedExecutors
    /\ Validate(agent, r)
    /\ dailyVolumeByAgentToken' = AddVolume(agent, r)
    /\ lastExecutionAt' = [lastExecutionAt EXCEPT ![agent] = now]
    /\ lastExecutionAtByToken' = [lastExecutionAtByToken EXCEPT ![agent][r.tokenIn] = now]
    /\ lastExecutionAtByPair' = [lastExecutionAtByPair EXCEPT ![agent][PairKey(r)] = now]
    /\ log' = Append(log, [agent |-> agent, request |-> r, at |-> now,
                           policy |-> policy, oracleOut |-> OracleAmountOut(r)])
    /\ UNCHANGED <<now, owner, pendingOwner, policy, feed, ownerCalls>>

\* External: the next block has a later timestamp.
NextBlock ==
    /\ now < MaxTime
    /\ now' = now + 1
    /\ UNCHANGED <<owner, pendingOwner, policy, feed, ledger, ownerCalls, log>>

\* External: the oracle publishes a price.
FeedUpdate(rate) ==
    /\ feed' = [rate |-> rate, updatedAt |-> now]
    /\ UNCHANGED <<now, owner, pendingOwner, policy, ledger, ownerCalls, log>>

OwnerStep(s) ==
    \/ \E x \in Addresses : TransferOwnership(s, x)
    \/ AcceptOwnership(s)
    \/ \E b \in BOOLEAN :
          \/ SetPaused(s, b)
          \/ \E x \in Routers : SetRouterAllowed(s, x, b)
          \/ \E k \in Tokens : SetTokenAllowed(s, k, b)
          \/ \E x \in Addresses : SetAuthorizedExecutor(s, x, b)
          \/ SetRequireExplicitTokenLimits(s, b)
    \/ \E v \in Amounts :
          \/ \E k \in Tokens :
                \/ SetMinTradeAmount(s, k, v)
                \/ SetMaxTradeAmountForToken(s, k, v)
                \/ SetMaxDailyVolumeForToken(s, k, v)
          \/ SetMaxDailyVolume(s, v)
    \/ \E t \in Durations :
          \/ SetCooldownSeconds(s, t)
          \/ SetMaxDeadlineDelay(s, t)
          \/ \E bps \in BpsValues : SetOracleConfig(s, t, bps)
    \/ \E bps \in BpsValues :
          \/ SetMaxSlippageBps(s, bps)
          \/ SetMaxExactOutputInputBufferBps(s, bps)

Next ==
    \/ \E s \in Addresses : OwnerStep(s)
    \/ \E s \in Addresses, a \in Agents, r \in Requests : ValidateAndConsume(s, a, r)
    \/ \E rate \in Rates : FeedUpdate(rate)
    \/ NextBlock

Spec == Init /\ [][Next]_vars

-----------------------------------------------------------------------------
\* Storage holds values of its declared types, the owner and a pending owner are
\* accounts, and every event was a well-formed request.
TypeOK ==
    /\ now \in StartTime .. MaxTime
    /\ owner \in Addresses
    /\ pendingOwner \in Addresses \cup {NoAddress}
    /\ policy \in PolicyType
    /\ feed \in [rate : Nat, updatedAt : Nat]
    /\ dailyVolumeByAgentToken \in [Agents -> [Tokens -> [Days -> Nat]]]
    /\ lastExecutionAt \in [Agents -> Nat]
    /\ lastExecutionAtByToken \in [Agents -> [Tokens -> Nat]]
    /\ lastExecutionAtByPair \in [Agents -> [Pairs -> Nat]]
    /\ ownerCalls \in 0 .. MaxOwnerCalls
    /\ log \in Seq(Event)

\* The events of one agent spending one token.
Spends(agent, k) ==
    {i \in DOMAIN log : log[i].agent = agent /\ log[i].request.tokenIn = k}

\* What those events with an index in S spent together.
Spent(S) == SumFunctionOnSet([i \in DOMAIN log |-> log[i].request.amountIn], S)

\* The volume the guard charges to a day is what the accepted swaps of that day
\* spent: nothing is counted twice, dropped, or charged to another day.
VolumeIsAudited ==
    \A a \in Agents, k \in Tokens, d \in Days :
        dailyVolumeByAgentToken[a][k][d] =
            Spent({i \in Spends(a, k) : DayKey(log[i].at) = d})

\* Whatever the owner did to the limits during the day, the volume charged to it
\* is within a limit that was in force when one of the day's swaps was accepted.
DayVolumeWithinLimit ==
    \A a \in Agents, k \in Tokens, d \in Days :
        \/ dailyVolumeByAgentToken[a][k][d] = 0
        \/ \E i \in Spends(a, k) :
              /\ DayKey(log[i].at) = d
              /\ dailyVolumeByAgentToken[a][k][d] <= EffectiveLimit(log[i].policy, k)

\* Over any 24 hours, not only over a calendar day, an agent spends at most the largest
\* limit in force and the share of it that time since midnight has freed: the weight on
\* yesterday's volume keeps two full budgets from meeting at midnight.
AnyDayWithinWeightedLimit ==
    \A a \in Agents, k \in Tokens : \A j \in Spends(a, k) :
        LET window == {i \in Spends(a, k) : i <= j /\ log[i].at > log[j].at - DAY}
            limit == Max({EffectiveLimit(log[i].policy, k) : i \in Spends(a, k)})
            freed == (limit * (log[j].at % DAY) + DAY - 1) \div DAY
        IN  Spent(window) <= limit + freed

\* Two swaps by which an agent spends the same token are at least the cooldown
\* apart that was in force at the later one, however often the owner changed it
\* and whatever other tokens and agents traded in between.
CooldownSeparates ==
    \A i, j \in DOMAIN log :
        (/\ i < j
         /\ log[i].agent = log[j].agent
         /\ log[i].request.tokenIn = log[j].request.tokenIn)
        => log[j].at >= log[i].at + log[j].policy.cooldownSeconds

\* An exact-input swap never accepts less than the oracle's price less both
\* tolerances.  Each check rounds down by less than a basis point of its
\* base, which is what the two "+ 1" stand for.
PriceFloor ==
    \A i \in DOMAIN log :
        LET e == log[i]
            oracleFloor == (e.oracleOut * (MAX_BPS - e.policy.maxOracleDeviationBps)) \div MAX_BPS
        IN  e.request.swapType = SWAP_TYPE_EXACT_INPUT =>
              e.request.minAmountOut * MAX_BPS
                >= oracleFloor * (MAX_BPS - (e.policy.maxSlippageBps + 1))

\* The passing of time alone never shrinks what an agent may spend: the weighted
\* volume falls within a day and does not jump at midnight.
BudgetOnlyRecovers ==
    [][now' # now =>
          \A a \in Agents, k \in Tokens :
              RollingConsumed(a, k)' <= RollingConsumed(a, k)]_vars

\* Two days after its last swap of a token an agent has its whole budget back.
BudgetRecovers ==
    \A a \in Agents, k \in Tokens :
        (\A i \in Spends(a, k) : log[i].at + 2 * DAY <= now)
        => RollingConsumed(a, k) = 0

=============================================================================
