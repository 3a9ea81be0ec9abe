# EquiliBot in TLA+

EquiliBot rebalances the treasury held by a Safe on BNB Chain. An off-chain agent
watches PancakeSwap pools, builds swap intents, checks and simulates them, and asks an
on-chain module of the Safe to execute them; an on-chain guard decides what the agent
may spend. This directory holds TLA+ modules of the parts that carry those decisions,
TLC configurations that check them on small instances, and proofs that TLAPS checks for
every value of the constants. `PROJECT.json` maps each definition to its source lines.

    tlc -workers 2 -config MCSwapGuard.cfg MCSwapGuard.tla
    tlapm SwapGuardProofs.tla

## 1. The system

### Components

| component | source | state | operations |
| --- | --- | --- | --- |
| SwapGuard | `contracts/src/SwapGuard.sol` | owner, policy, ledger of volume per agent, token and day, three execution clocks | `validateAndConsume`, `checkSwap`, 14 setters, two-step ownership |
| EquiliBotModule | `contracts/src/EquiliBotModule.sol` | owner, agent, guard, flags, selector allowlist, protected tokens | `executeSwap`, 7 setters, two-step ownership |
| Price oracle adapter | `contracts/src/oracles/ChainlinkPriceOracleAdapter.sol` | owner, feeds | `setFeed`, `getQuote` |
| Pipeline | `agent/src/index.ts` | `isProcessing`, `lastProcessedBlock` | update callback, `runPipeline` |
| Task runner | `agent/src/strategy/autonomous-task-runner.ts` | `inFlight`, task states, next run times, harvest snapshot | `runDueTasks`, `runTask` |
| Execution service | `agent/src/services/execution-service.ts` | none of its own; nonces are the chain's | `execute`, `executeBurnTransfer` |
| Circuit breaker | `agent/src/utils/circuit-breaker.ts` | failure counter, tripped | `recordFailure`, `recordSuccess`, `isTripped` |
| Telemetry server | `agent/src/services/telemetry-server.ts` | none | manual task run; reads |
| Market observer | `agent/src/services/market-observer.ts` | pool states, a stale timer per pool | Swap events, `fetchSlot0`, `stop` |
| Policy service | `agent/src/services/policy-service.ts` | none | `checkSwap` call |
| Simulation service | `agent/src/services/simulation-service.ts` | an Anvil process per simulation | `simulate`, `waitForAnvil`, `killAnvil` |
| Intent builder, profitability, rebalance detector, runtime policy | `agent/src/strategy/` | none (a counter of intents) | arithmetic on prices, balances, amounts |
| Balance service | `agent/src/services/balance-service.ts` | cache by asset | `getBalance`, `invalidateAll` |
| Gas, quote, oracle, guard-oracle services | `agent/src/services/` | rolling gas prices | reads of the chain and of Pyth |
| Risk monitor, alert service, RPC health timer | `agent/src/services/`, `agent/src/index.ts` | sliding windows, time of last alert, failures in a row | record, notify |
| Audit store, Greenfield mirror | `agent/src/services/audit-store.ts`, `greenfield-uploader.ts` | NDJSON files, upload queue | write, read pages |
| Signer | `agent/src/services/signer.ts` | KMS key, resolved address | health check, sign |
| Config, metrics, logger, retry | `agent/src/` | counters | - |
| Dashboard | `frontend/src/` | rate-limiter buckets | proxy, pages |
| Deployment scripts | `contracts/script/` | contracts, Safe modules, `.env` | deploy, enable, validate |
| Soak runner, closeout | `agent/scripts/` | reports, status files | run, gate, mark |
| Preflight, drill, profile scripts | `agent/scripts/` | none | run once |

### How they interact

    pool events --> MarketObserver --onUpdate--> pipeline --+
                                                            +--> PolicyService --checkSwap--> SwapGuard
    timer, telemetry request ------> task runner -----------+--> SimulationService
                                                            +--> ExecutionService --executeSwap--> EquiliBotModule
                                                                                                     |-> SwapGuard.validateAndConsume
                                                                                                     |-> Safe -> token.approve, router

The pipeline and the runner are two actors in one single-threaded process. Each has a
lock of its own (`isProcessing`, `inFlight`) and none in common, so they interleave at
every `await`; they share the circuit breaker, the audit file, the signer's nonce and
the guard's ledger.

### What is hard, and what makes each part correct

* **SwapGuard.** A limit per 24 hours kept in calendar-day buckets; limits, cooldown and
  tolerances that change between swaps; integer rounding. It is correct when the ledger
  is what was spent, the budget cannot be passed by choosing times or by owner calls in
  between, and the price accepted follows the oracle's.
* **EquiliBotModule.** One transaction that hands an untrusted router an allowance. It is
  correct when whatever leaves the Safe was charged, nothing stays allowed, and what
  comes back is the tolerated price.
* **Agent.** Two actors, a breaker, timeouts, lost answers, transactions that replace each
  other, restarts. It is correct when only verified swaps are submitted, once; when
  failures stop it; when its records agree with the chain; when every run ends.
* **MarketObserver.** Events and polls that overlap; an endpoint and a cache that are
  behind; timers. It is correct when the map never goes back in time and catches up.
* **Amounts.** Raw units, dollars times 10^18, basis points, sqrt prices, tokens of any
  decimals and either address order. A trade is correct when it is in the right
  direction, not too large, and within what the guard will accept.
* **Services.** Each is small and has one thing that can go wrong: a cache filled out of
  order, two cooldowns read from two clocks, a file rotated under a reader, a fork
  process that outlives its simulation, a key that rotates, a script that stops half way.

The full list of hazards, each at its line and with the properties that are about it, is
in `PROJECT.json`.

## 2. Modules

| module | models | composed of |
| --- | --- | --- |
| `SwapGuard` | the guard contract, every storage-changing function | - |
| `ProtectedTokenList` | the module's array, flags and indexes of protected tokens | - |
| `EquiliBotModule` | the module contract, the Safe's balances and allowances, any router | `SwapGuard`, `ProtectedTokenList` |
| `PriceOracle` | the adapter of Chainlink feeds the guard asks for prices | - |
| `Agent` | pipeline, runner, execution service, breaker, telemetry trigger, audit records, chain | - |
| `MarketObserver` | map of pool states, events, polls, timers | - |
| `Trading` | one trade from prices to submission, its amounts | - |
| `TaskRunner` | the runner's clock, cadences, ticks | - |
| `Balances` | balance cache and the reads in flight | - |
| `Harvest` | the harvest task and its snapshot of the stable balance | `Balances` |
| `Alerting` | risk monitor, alert service, RPC health timer | - |
| `AuditTrail` | audit files, rotation, torn appends, readers | - |
| `RateLimiter` | the dashboard's token bucket | - |
| `Anvil` | fork processes of simulations, ports, probes, cleanup | - |
| `Signing` | KMS and local signing up to broadcast | - |
| `Deployment` | deploy, enable, validate, start | - |
| `Soak` | soak runner and phase closeout | - |
| `MCSwapGuard`, `MCEquiliBotModule`, `MCAgent`, `MCTrading` | instances for TLC | the module named |
| `MCProgress` | components whose progress matters, one at a time | `MCAgent`, `TaskRunner`, `Anvil`, `MarketObserver` |
| `MCServices` | components that share no state, one at a time | `MCTrading`, `Harvest`, `Alerting`, `AuditTrail`, `RateLimiter`, `Signing`, `Deployment`, `Soak`, `MarketObserver`, `ProtectedTokenList`, `PriceOracle` |
| `ArithmeticLemmas` | quotients, products, finite sums, least elements | - |
| `SwapGuardProofs`, `EquiliBotModuleProofs`, `ProtectedTokenListProofs`, `AgentProofs`, `MarketObserverProofs`, `TradingProofs` | proofs | the module named, `ArithmeticLemmas`; `EquiliBotModuleProofs`: the guard's and the list's proofs too |
| `ServiceProofs` | proofs | `Balances` and `Harvest`, `Signing`, `Deployment`, `Soak`, `PriceOracle`, `RateLimiter`, `Alerting`, `AuditTrail` |

**SwapGuard.** A reverting call changes nothing and is no step, so an action's guard is
the conjunction of the checks its function makes. Storage is kept under its names; the
owner's settings are one record, `policy`, since every setter writes exactly one field of
it (`setOracleConfig` three). `Validate` is `_validate`, one operator per group of checks.
`log` is history (the emitted events with the policy then in force) and no action reads
it. Time is `block.timestamp`, advancing by one; `DAY` is a constant, so that a day of a
few seconds is enough for TLC and every length is covered by the proofs.

**EquiliBotModule.** `ExecuteSwap` is the whole transaction, the guard's charge included.
The router's effect (`RouterOutcomes`) is any change of balances that its allowances and
the value sent permit. A token in `QuietTokens` may answer `false` to `approve` and do
nothing, as the module ignores what `approve` returns. `RouterActs` is a transaction of the
router's own: it pulls what a quiet token's failed `approve(0)` or an approval from before
has left it. `outflow` is history of what swaps through this guard took; `due` is history,
by router and token, of what it may have (allowances from before, amounts agents asked it
to sell, whichever guard let them) less what it took. A token that does not count down an
allowance of 2^256 - 1 is left out: such an approval from before has no bound. The Safe's
other operations are outside the model: the Safe's owners can do anything.

**PriceOracle.** Owner, pending owner and feeds by directed pair; an aggregator is its
last answer, zero and negative ones too. `GetQuote` is the view, in the adapter's order
of roundings. Units are 10^decimals; only that one divides the other is used.

**Agent.** One step is the code from one `await` that another actor can notice to the
next; the stages are named after what is being awaited. What the market, the oracles and
the arithmetic decide is a choice: there is something to do (`BuildIntent`), there is not
(`ObserveNothing`), or a read throws (`ObserveThrows`); `Trading` is about how it is
decided. What the guard would refuse is a set of tokens: a swap of one of them fails
policy check and simulation, and an executed swap adds its token to it (cooldown or
limit) until `GuardRecovers`. The node takes a transaction with the next nonce, or lets it
replace the pending one of its nonce (`Accepts`), as both actors read the pending count
before either sends; the wait for a receipt ends with that of whatever was mined under the
nonce. A send may be accepted and its answer lost; a confirmation may time out and the
transaction be mined later. An audit write that fails is logged and
no more, as in `AuditStore.write`. A restart clears memory and keeps chain and audit file.

**MarketObserver.** What a pool looks like is the number of its last swap (`version`), so
that "older" is a comparison; the label (block, log index) is what the code compares. A
poll's two reads and its store are separate steps. Each answer of the HTTP endpoint may
come from a block up to `MaxLag` behind the head, and the block number from viem's client
cache, which all pools share, up to `CacheBlocks` further behind. Events may be late,
repeated, reordered or lost. The reconnection of the WebSocket is that events stop for a
while.

**Trading.** `Observe` makes a snapshot of any prices, balances and pool price through
the fallbacks in their order (Pyth, the guard's oracle, one dollar for a stablecoin);
`MakePlan` is the detector for the pipeline and the task's planner for a task;
`QuoteAndBuild` is the profitability check and the intent; `Verify` the guard's checks of
amounts and deadline on the last block, which lags; `Submit` the runtime policy. All
integer divisions are where the code has them. Powers of ten are constants.

**TaskRunner.** Times are counted down, so that behaviours are infinite and starvation can
be asked about.

**Balances.** A balance is the block it was read at. A read is three steps: the miss, the
node's answer, the store; `InvalidateAll` may come between any two. The block asked for
comes from the WebSocket's events and the balance from the HTTP endpoint, so that it may be
up to `EndpointLag` blocks behind the head.

**Harvest.** The runner's read of the stable balance is one of the readers of `Balances`, so
that what it gets may come from the cache, be late, or be older than what it got before.
`FinishHarvest` moves the snapshot whatever becomes of the plan. Each block leaves some
balance, with what it had gained by then. `wentBack` is history: a snapshot was older
than the one before.

**Alerting.** Monitor and alert service read the clock one after the other, so a tick may
fall between them; health checks may last longer than their timer. The least severity
that the service lets through is chosen at the start, each of the four.

**AuditTrail.** A line is what lies between two line ends. An append that fails has written
nothing, a part, or the whole text without its line end; after the last two the next entry
is glued to the line. A line without its end parses until then. A reader pages by
offset; the soak runner reads every place (file and line) that parses.

**RateLimiter.** One address's bucket over all request times; addresses do not interact.

**Anvil.** A simulation talks to a port, which another simulation's process may hold. Each
of its awaits may fail. SIGTERM ends a process.

**Signing.** A signature is its key, its `s` and its parity; recovery is what makes them
belong together. KMS answers anything of that form, and malformed blobs.

**Deployment.** The script is the sequence of its transactions, any prefix of which may
have been mined; it may be run again. The operator's edits of `.env` are steps.

**Soak.** The loop with its poll, the agent's exit at any time, the report; the closeout
with its two writes and a crash between them.

## 3. What is checked

Every run explores all reachable states of its instance. Runs whose clock or counters
are bounded stop at the bound and say `CHECK_DEADLOCK FALSE`.

| run | properties | shows | bounds |
| --- | --- | --- | --- |
| `guard` | `DayVolumeWithinLimit`, `CooldownSeparates`, `PriceFloor`, `VolumeIsAudited`, `AnyDayWithinWeightedLimit`, `BudgetRecovers`, `BudgetOnlyRecovers` | a changing policy and oracle never let volume, frequency or price pass what was in force; the ledger is what was spent; a budget bounds any 24 hours, only recovers with time, and fully within two days | two tokens with 17 and 18 decimals, explicit and default limits, three days of two seconds, a feed that moves, stops and goes stale, one owner call of any kind |
| `module_funds` | `ModuleTypeOK`, `OutflowIsCharged`, `NoAllowanceLeft`, `RoutersTakeTheirDue`, `SafePaidOraclePrice` | in a swap through this guard no router and no old allowance moves funds past the ledger; no allowance stays; within swaps and between them a router gets no more than it was asked to sell and was allowed before; the price is paid | balances to 2, dues to 2, daily limits of 1 and 2, three requests, allowances of 1 from before, one owner call of the module |
| `agent_trades` | `OneSwapAfterTrip`, `SwapsAreVerified`, `BreakerSeesEveryFailure`, `RecordsMatchChain`, `BlocksOnlyAdvance` | submissions verified and single; after a trip at most the swap under way; failures of both actors counted; a record says what was mined under the transaction's nonce; no block taken up twice | 2 intents (one per actor or two of one), 2 blocks, 2 failures trip, a manual trigger, a restart, simulate and active |
| `progress` | see below | each of four components, by itself, gets on | see below |
| `services` | see below | safety of eleven components, each by itself | see below |

The guard's `TypeOK` is the first conjunct of `ModuleTypeOK`, which `module_funds` checks,
and is proved as `TypeCorrect`.

The components that `MCProgress` and `MCServices` put side by side share no state. The
variable `service` chooses one of them in the initial state, which then takes all the steps
while the others rest in an initial state: the behaviours are exactly those of each
component's own specification (but for the bound on `Harvest` below), with its own fairness
in `MCProgress`. `MarketObserver` is in both, for its liveness and its safety.

In `progress`:

| component | properties | shows | bounds |
| --- | --- | --- | --- |
| `Agent` | `TypeOK`, `RunningIsReal`, `EveryRunEnds` | telemetry shows RUNNING only for what runs; locks are always released | one intent, one block, two tasks, a manual trigger, a restart, observe and active |
| `TaskRunner` | `RunnerServesAll` | no task starves behind those before it | three tasks of intervals 3, 4, 5 with jitter, a tick of 1, runs of 1, a manual run |
| `Anvil` | `NoOrphan` | every simulation ends and its process with it | two simulations, two ports, two probes |
| `MarketObserver` | `EventuallyCurrent` | without events, polls that do not fail and that the endpoint answers up to date bring the map up to date | one pool, 2 swaps, 3 blocks, two polls at once, lag and cache of one block each |

In `services`:

| component | properties | shows | bounds |
| --- | --- | --- | --- |
| `Trading` | `BuiltIntentAccepted`, `SellsTheDearToken`, `RebalanceNarrowsDrift`, `CanaryCapHolds` | intents fit the guard's tolerance; direction and size of trades are right through all roundings; the canary cap holds in dollars | tokens of one and two decimals, either address order, three prices, stale, missing and derived ones, three pool prices, a tolerance that changes after startup |
| `Balances` | `CacheAddsNoLag` | nobody is given a balance further behind the block asked for than the node is | two readers, one asset, three blocks, an endpoint one block behind |
| `Harvest` | `HarvestWithinGains` | harvests sell only gains, unless a snapshot went back | as `Balances`; balances of 0 and 1, the first of them 0; all of a gain sold, harvests while no more than 1 is planned, and until a snapshot goes back |
| `Alerting` | `SpikeIsHeard`, `LastWordIsTrue` | two cooldowns never silence a spike for two windows; no outage is missed and, unless warnings are dropped, none is announced that is over | every least severity but info, which drops no more than warn; a window of 3, threshold 2, checks that outlast their timer, 4 signals |
| `AuditTrail` | `PagesInOrder`, `TornCostsOne` | a reader gets each entry of a day in its place and once; a torn append, be it of the line end only, costs one more entry at most | two writers, two days, 3 lines to a file, 5 entries, pages of 2 |
| `RateLimiter` | `BurstBounded` | no window sees more than two buckets | windows of 6, 2 tokens, any request times to 12 |
| `Signing` | `BroadcastIsOurs` | what is broadcast is the agent's own and has the low s | two keys, a group of 5: every s and parity |
| `Deployment` | `ValidatedMeansComplete` | a validated configuration is a complete deployment | two deployments, two wallets |
| `Soak` | `CloseoutIsEarned` | the phase is closed only after a soak the agent lived through | 4 required, polls of 2, two reports |
| `MarketObserver` | `LabelWithinLag` | labels are not further behind the state than endpoint and client cache | as in `progress` |
| `ProtectedTokenList` | `ListMatchesFlags` | array, flags and indexes agree | five tokens: removal from front, middle, end; complete |
| `PriceOracle` | `QuotesAreFair` | quotes round down by less than a unit of the coarser token and gain nothing there and back | tokens of one and no decimals, two feeds of one and no decimals, every setting of them |

Bounds: two of a kind (actors, tokens, polls, intents, simulations, readers) are enough
for the races, because each involves two parties; the counters (`MaxIntents`, `MaxBlock`,
`MaxSwaps`, `MaxOwnerCalls`, `MaxEntries`, ...) bound how often, and each is named in its
module. The scaled constants (a basis point is a hundredth, a dollar price has one
decimal) keep products within TLC's integers and make every rounding matter; the alert
intervals are not to scale but keep the relation `AlertingAssumption` the default settings
have. What depends on a scale is proved for every scale where section 4 says so.

### Statements the code does not keep

These runs check one statement of the repository each and find it violated.

| run | statement | what the code does |
| --- | --- | --- |
| `agent_paused` | `circuit-breaker.ts:4` "After MAX_CONSECUTIVE_FAILURES consecutive failures, the agent self-pauses." | a manual task run does not look at the breaker |
| `agent_double` | `execution-service.ts:9` "no auto-resubmit (avoids double-execution)" | a swap whose confirmation timed out is recorded as failed for good; the trade is built again while it is pending, and both execute |
| `agent_replaced` | `execution-service.ts:111` "Swap executed successfully" | the two actors' transactions share a nonce and one replaces the other; its receipt ends the wait for the replaced one, which is recorded as executed and never was |
| `observer_order` | `market-observer.ts:5` "always-current", `:9` "Event ordering: blockNumber + logIndex dedup" | a poll overwrites a newer event's state |
| `observer_heartbeat` | `market-observer.ts:10` "heartbeat poll if no events for STALE_TIMEOUT_MS" | a failed poll does not arm the timer again |
| `trade_buyback` | `autonomous-task-runner.ts:376` "Stable reserves exceeded buyback threshold" | reserves carry eighteen decimals and the threshold none, so any dust exceeds it |
| `trade_deadline` | `intent-builder.ts:43` "Current block timestamp" | the host's clock is passed and the guard's whole delay added, so the guard refuses the deadline while the last block lies behind that clock |

Four more disagreements were seen while modelling and have no run of their own:

* `architecture:72` lets the agent act "only after simulation and policy validation
  succeed". The burn after a buyback is requested unchecked (`Burn` in `Agent`). Where
  a provider estimates its gas it would probably refuse, as the module has no such function.
* `audit-store.ts:4`: "Durably persists every intent, simulation, policy check, and
  execution". A failed append, a lost answer or a restart leaves an executed swap without a
  record, and nothing recovers it; `RecordsMatchChain` is therefore about the records there
  are.
* `autonomous-task-runner.ts:418`: "Detected harvested stable rewards". An older balance put
  back into the shared cache takes the snapshot back, and the same rise counts as rewards
  again (`wentBack` in `Harvest`); the endpoint need not lag for that.
* `rate-limiter.ts:7`: "10 requests per 60-second window per IP", and `:63` the same in the
  answer. A bucket that is full when the window begins lets through its tokens and what
  refills meanwhile, up to twice as many (`BurstBounded`).

### Fairness

* `Agent!FairSpec`: weak fairness of each actor's steps. Every call an actor awaits ends
  by itself: RPC transports and HTTP clients have timeouts, the receipt wait has
  `TX_CONFIRMATION_TIMEOUT_MS`, and file writes complete. The AWS KMS client is the
  exception: the code gives it no request timeout and its default is none, so there the
  assumption is that the connection answers or breaks. Nothing is assumed of updates,
  ticks, blocks or the guard.
* `MarketObserver!FairSpec`: weak fairness of timers and of poll steps. Nothing is assumed
  of events, nor of the endpoint: `EventuallyCurrent` itself is about behaviours in which it
  has caught up at some time (`EndpointCaughtUp`).
* `TaskRunner!RunnerSpec`: weak fairness of the clock, of the interval timer and of the end
  of a run, whose awaited calls have timeouts. Nothing is assumed of manual runs.
* `Anvil!AnvilSpec`: weak fairness of a simulation's steps (each await has a timeout), and
  of the end of a process that has been sent SIGTERM. The code's SIGKILL after two seconds
  is never sent (`simulation-service.ts:284`: `killed` is true as soon as SIGTERM went
  out), so a process that ignores SIGTERM would stay; Anvil does not. A `process.exit` of the
  agent during a simulation leaves its anvil behind; that is not modelled.
* `MCProgress` states each of these for the component that runs.

## 4. What is proved

| theorem | statement |
| --- | --- |
| `SwapGuardProofs!TypeCorrect` | `Spec => []TypeOK` |
| `SwapGuardProofs!CooldownHolds` | `Spec => []CooldownSeparates` |
| `SwapGuardProofs!DayVolumeHolds` | `Spec => []DayVolumeWithinLimit` |
| `SwapGuardProofs!PriceFloorHolds` | `Spec => []PriceFloor` |
| `SwapGuardProofs!VolumeAlwaysAudited` | `Spec => []VolumeIsAudited` |
| `SwapGuardProofs!AnyDayBounded` | `Spec => []AnyDayWithinWeightedLimit` |
| `SwapGuardProofs!BudgetRecoversHolds` | `Spec => []BudgetRecovers` |
| `SwapGuardProofs!BudgetHolds` | `Spec => BudgetOnlyRecovers` |
| `EquiliBotModuleProofs!ModuleTypeCorrect` | `ModuleSpec => []ModuleTypeOK` |
| `EquiliBotModuleProofs!GuardWithinModule` | `ModuleSpec => Spec` |
| `EquiliBotModuleProofs!OutflowAlwaysCharged` | `ModuleSpec => []OutflowIsCharged` |
| `EquiliBotModuleProofs!RoutersNeverTakeMore` | `ModuleSpec => []RoutersTakeTheirDue` |
| `EquiliBotModuleProofs!NoAllowanceStays` | `ModuleSpec => []NoAllowanceLeft` |
| `EquiliBotModuleProofs!SafeAlwaysPaid` | `ModuleSpec => SafePaidOraclePrice` |
| `ProtectedTokenListProofs!ListAlwaysMatches` | `ListSpec => []ListMatchesFlags` |
| `AgentProofs!AgentTypeCorrect` | `Spec => []TypeOK` |
| `AgentProofs!RunningAlwaysReal` | `Spec => []RunningIsReal` |
| `AgentProofs!BlocksAdvance` | `Spec => BlocksOnlyAdvance` |
| `AgentProofs!OneSwapAtMost` | `Spec => []OneSwapAfterTrip` |
| `AgentProofs!OnlyVerifiedSwaps` | `Spec => []SwapsAreVerified` |
| `AgentProofs!RecordsAlwaysMatch` | `Spec => []RecordsMatchChain` |
| `AgentProofs!EveryFailureSeen` | `Spec => []BreakerSeesEveryFailure` |
| `MarketObserverProofs!LabelsStayWithinLag` | `Spec => []LabelWithinLag` |
| `TradingProofs!IntentsFitTolerance` | `TradingSpec => []BuiltIntentAccepted` |
| `TradingProofs!DetectorSellsDear` | `TradingSpec => []SellsTheDearToken` |
| `TradingProofs!CanaryNeverExceedsCap` | `TradingSpec => []CanaryCapHolds` |
| `TradingProofs!RebalancesNarrow` | `TradingSpec => []RebalanceNarrowsDrift`, if a rebalance takes less than the whole gap |
| `ServiceProofs!CacheNeverAddsLag` | `BalancesSpec => []CacheAddsNoLag` |
| `ServiceProofs!OnlyOwnTransactions` | `SigningSpec => []BroadcastIsOurs` |
| `ServiceProofs!ValidationSuffices` | `DeploySpec => []ValidatedMeansComplete` |
| `ServiceProofs!PhaseIsEarned` | `SoakSpec => []CloseoutIsEarned` |
| `ServiceProofs!HarvestsWithinGains` | `HarvestSpec => []HarvestWithinGains` |
| `ServiceProofs!QuotesAlwaysFair` | `PriceOracleSpec => []QuotesAreFair` |
| `ServiceProofs!BurstsStayBounded` | `LimiterSpec => []BurstBounded` |
| `ServiceProofs!SpikesAreHeard` | `AlertingSpec => []SpikeIsHeard` |
| `ServiceProofs!LastWordAlwaysTrue` | `AlertingSpec => []LastWordIsTrue` |
| `ServiceProofs!PagesAlwaysInOrder` | `AuditSpec => []PagesInOrder` |
| `ServiceProofs!TornAlwaysCostsOne` | `AuditSpec => []TornCostsOne` |

These are all the safety properties the runs check, each for every value of the
constants the assumptions admit.

Assumptions: those the modules state about their constants, evaluated by TLC in the runs.
`TimeAssumption` puts the deployment in day 1 or later, as block timestamps are;
`ScaleAssumption` says that powers of ten are positive naturals, which the provers do not
know of `^`. `ModuleAssumption` takes the agents to be finitely many, so that the sum of
their volumes means something. `TradingAssumption` takes 10^18 to be a multiple of 10^8,
dollar prices not to be negative (the code does not look at their sign) and the settings
to be natural. `OracleAssumption` says of two tokens' units only that the smaller divides
the larger. `AlertingAssumption` has the clock past its first window, and the relation
between cooldown, interval and threshold that the default settings have: the run and the
proof show that it is enough, and settings outside it are not covered. `AuditAssumption`
numbers the days from one and the entries of a page likewise.

Some properties say themselves where they stop. `HarvestWithinGains` is about behaviours
in which no snapshot is older than the one before, as the same rise would then count again;
nothing in the code orders them. `SpikeIsHeard` and the second half of `LastWordIsTrue` leave out the severities
that drop the alerts concerned. `LabelWithinLag` and `CacheAddsNoLag` are relative to how far
the endpoint is behind (`MaxLag`, `CacheBlocks`, `EndpointLag`), of which nothing is assumed
but that it is bounded.

One theorem has a hypothesis of its own. `RebalancesNarrow` needs
`TASK_REBALANCE_SHARE_BPS < 10000`. The settings allow 10000 too, the whole of the gap:
the plan then sells half of it, rounded twice, and the second rounding can pass the middle
by a fraction of 10^-18 dollars. The default is far below.

Arguments.

* *Guard, types.* `TypeOK` is inductive. `StepKinds` splits the steps into swaps, setters,
  and the rest, so that each setter is treated once.
* *Cooldown.* `CooldownSeparates` speaks of the log, the guard looks at
  `lastExecutionAtByToken`. The strengthening `ClockBounds` says that no event is later
  than now and that each event is at or before its token's clock, and that clocks of
  tokens with an event are not zero (`StartTime >= DAY > 0`). With it a new event is at
  least a cooldown after every older one.
* *Daily volume.* `DayVolumeWithinLimit` is inductive with `TypeOK`: the accepted swap is
  itself the witness, as today's volume is at most the rolling volume it was checked with.
* *Price floor.* The log keeps the policy and the oracle's answer of each swap, so that
  only the new event has to be looked at: two floors of basis points, each less than one
  short.
* *Audit.* A new event adds its amount to the sum over its day and to no other sum
  (`SpentGrows`), as the ledger does.
* *Any 24 hours.* The guard's check of each swap is restated as a fact about the log alone
  (`WeightedAtSwap`: the day's swaps so far, and the weighted ones of the day before),
  which stays true because the log only grows at its end and in the order of time
  (`LogOrdered`). Of 24 hours that end at a swap, the part of its own day is in the first
  sum and the rest in the second; the window's share of yesterday is bounded by what the
  weight takes off and by yesterday's own limit.
* *Budgets.* Within a day the weight on yesterday falls; at midnight today's volume takes
  yesterday's place with full weight and the new day's volume is zero. The latter is the
  strengthening (`NothingBookedAhead`: no volume is booked for days to come). That a
  budget is back after two days follows from the audit: the two days' sums are empty.
* *Module.* Each step is a step of the guard or leaves it alone (`GuardWithinModule`), so
  the guard's theorems hold in the composition. `OutflowInv` adds to the outflow the types
  and `ListMatchesFlags`, carried over from the list's own proof: the module compares the
  balances of the tokens in the array, and only the agreement with the flags makes these
  all the protected ones. The swap's charge is one agent's, so the sum over agents rises by
  it. The allowance is what it was until `approve`, and afterwards zero or, when the call
  reverts, what it was. What a router still may have covers its allowances (`DueInv`): a swap
  adds its amount, of which the allowance is at most that much, and what is taken, within
  the swap or in a transaction of the router's own, is taken from both.
* *Protected tokens.* `ListMatchesFlags` with the type invariant is inductive; the case
  of interest is the removal of an element that is not the last.
* *Agent.* Each invariant goes with one operator that says what a single step of an actor
  may do to the state concerned (`GoesOn`, `SendsFewer`, `Submits`, `Records`, `Counts`),
  proved action by action, so that the two actors' interleavings are treated once. Types
  need what a run keeps between awaits (`RunsFit`). `StartedNoted` finds the last block
  taken up either in the run under way or in `lastProcessedBlock`. `AtMostOneLeft` says
  that after a trip one actor at most has not sent yet. `OwnIntents` says that an intent
  about to be sent is its actor's own, unsent, and, from the nonce on, verified. A run
  about to be recorded already says the truth and one that waits has its transaction with
  the node, or it was replaced (`RecordsInv`, `ChainGrows`). `FailuresCounted` relates
  the run of failures at the end of the outcomes to the counter and the failures written
  and not yet counted, and keeps a success that is still to be reported apart from them.
* *Observer.* `ObserverInv` adds to the types that every swap is in a block up to the head
  (`SwapsMined`), that the map's states exist and are labelled within the lag
  (`StatesFit`), and the same of what polls hold between their reads (`PollsFit`). A poll
  reads its block number after its state, so that the number is at most the endpoint's lag
  and the client's cache behind a head that is past every swap there is.
* *Trading.* `TradingInv` says what each stage has at hand: a snapshot of typed prices, a
  plan that its actor's planner makes of it, an intent whose minimum is `ApplySlippage` of
  its expected amount, and, once submitted in canary mode, the check passed. The tolerance
  is then one inequality of two floors. The direction compares two rounded cross rates: a
  deviation of a basis point keeps them apart, and floors that differ do so in the order of
  the exact rates (`FloorsCompare`). A rebalance takes a share of a rounded gap, so that the
  dollars it sells fit the exact gap with the unit to spare that the roundings may cost
  (`SoldWithinGap`).
* *Price oracle.* The invariant is the types. Let `n \div d` be the amount before the
  decimals are scaled. Scaled up by `k` its error grows to less than `k` units of the
  output, which is one of the input's; scaled down, the two floors are one. A round trip
  exchanges multiplier and divisor, so that both bounds multiply to at most the start.
* *Rate limiter.* For every request allowed, what it and the later ones used, with what is
  left, is covered by a full bucket and the refills since (`Covered`), up to the one token
  that rounding the refill's time may bring early. Two buckets and one request more within
  a window would exceed that.
* *Alerts.* `SpikesNoted` ties the monitor's mark to the service's last alert, less than a
  window apart unless only fatal alerts are let through, and the last signal to the mark.
  `ChecksSpaced` bounds from below when the next check can end: by then the cooldown of the
  alert it may send is over, so that none is swallowed; the degraded alert is fatal and
  passes every setting.
* *Audit files.* A line is some torn chunks (parts, or entries that lack only the line end)
  and then at most one entry (`LinesShaped`), each entry is in one place (`EachOnce`,
  `AllOnFile`), and no more lines begin with a torn chunk than appends tore (`FewTorn`). A
  line keeps its first chunk, and once glued to it does not parse (`LinesKept`): what a
  reader was given is still there. An entry that is not found ends a line that begins with a
  torn chunk, and no two entries end the same.
* *Harvest.* `HarvestInv` is over the history of the balance by blocks (`StableHistory`): from
  one block to a later one it rises by no more than it gained. What is cached or on its way
  was read at some block (`ReadSomewhere`), and what plans sell is within the share of the
  gains up to the last snapshot's block, as long as these blocks come in order.
* *Other services.* Each invariant adds to the property what is under way: an answer not
  stored yet is as near to the block asked for as the node was (`BalancesInv`); KMS's answer
  has the form the canonical `s` is computed from (`SigningInv`); a deployment whose last
  transaction is mined has them all (`DeployInv`); an agent that died was alive until a poll
  ago (`SoakInv`).

The library's induction theorems take an operator as a parameter, which the provers cannot
instantiate. What needs induction over data here (sums over sets of events, the parsing of
lines, the tokens a swap walks) is proved from a least counterexample instead:
`ArithmeticLemmas` shows that a set of numbers has a least element and a family of finite
sets a minimal one. Products of two variables are split off into its lemmas, because the
arithmetic of the provers is linear.

Only model-checked: the liveness properties, `EveryRunEnds`, `RunnerServesAll`, `NoOrphan`
and `EventuallyCurrent`, as the proof system has no `ENABLED` and so no fairness. The seven
statements the code does not keep have counterexamples and no proofs.

## 5. Plan

Done: the contracts, the agent's two actors, the observer, the arithmetic of trades, the
services around them, and proofs of every safety property above. Left, in order:

1. A composition of `SwapGuard` with `Agent`: that what the agent's actors have simulated
   can still be refused by the guard, and that nothing worse happens.
2. The composition of `MarketObserver` with the pipeline, for the updates that are dropped
   while a run is under way (`index.ts:308`).

## 6. Not modelled

* Metrics, logger, dashboard pages and proxy: nothing decides on what they keep.
* The preflight, drill and profile scripts read once and print what they found. Parsing of
  the environment is left out; the settings are constants.
* The upload of audit entries to Greenfield: nothing reads them back.
* Encoding of calldata (decoded fields stand for it), curve arithmetic (recovery is an
  external relation), fee estimation, decoding of revert reasons.
* `uint256` overflow reverts in Solidity 0.8, and amounts near 2^256 are not considered.
* Limits per Safe across agents and guards: the ledger is keyed by agent and lives in the
  guard, so replacing either starts an empty one (`EquiliBotModule.sol:140`). The
  repository does not say that a limit should outlive them.
