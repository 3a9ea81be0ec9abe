--------------------------- MODULE SwapGuardProofs ---------------------------
(***************************************************************************)
(* What SwapGuard promises for every number of agents and tokens, every    *)
(* policy, every request and every length of the day.                      *)
(***************************************************************************)
EXTENDS SwapGuard, ArithmeticLemmas

\* A timestamp falls in a day of the ledger's domain.
LEMMA DayKeyInDays ==
    ASSUME NEW t \in StartTime .. MaxTime
    PROVE  DayKey(t) \in Days
<1>1. DAY \in Nat \ {0} /\ t \in Nat /\ MaxTime \in Nat /\ t <= MaxTime
  BY TimeAssumption
<1>2. DayKey(t) \in Nat /\ DayKey(t) <= MaxTime \div DAY /\ MaxTime \div DAY \in Nat
  BY <1>1, DivisionDef, DivisionMonotone DEF DayKey
<1> QED BY <1>2 DEF Days

\* Every step that is not a swap leaves the ledger and the log alone.
LedgerIdle == UNCHANGED <<ledger, log>> /\ now' \in Nat /\ now <= now'

\* The owner's calls, the feed and the clock leave the ledger and the log alone.
LEMMA IdleSteps ==
    ASSUME TypeOK,
           \/ \E s \in Addresses : OwnerStep(s)
           \/ \E rate \in Rates : FeedUpdate(rate)
           \/ NextBlock
    PROVE  LedgerIdle
<1>1. now \in Nat
  BY TimeAssumption DEF TypeOK
<1>2. ASSUME NEW s \in Addresses, OwnerStep(s)
      PROVE  LedgerIdle
  <2>1. ASSUME NEW p, OwnerSets(s, p) PROVE LedgerIdle
    BY <1>1, <2>1 DEF OwnerSets, ledger, LedgerIdle
  <2>2. ASSUME NEW x \in Addresses, TransferOwnership(s, x) PROVE LedgerIdle
    BY <1>1, <2>2 DEF TransferOwnership, ledger, LedgerIdle
  <2>3. CASE AcceptOwnership(s)
    BY <1>1, <2>3 DEF AcceptOwnership, ledger, LedgerIdle
  <2> QED
    BY <1>2, <2>1, <2>2, <2>3 DEF OwnerStep, SetPaused, SetRouterAllowed, SetTokenAllowed,
       SetAuthorizedExecutor, SetMinTradeAmount, SetMaxTradeAmountForToken, SetMaxDailyVolume,
       SetMaxDailyVolumeForToken, SetRequireExplicitTokenLimits, SetCooldownSeconds,
       SetMaxDeadlineDelay, SetMaxSlippageBps, SetMaxExactOutputInputBufferBps, SetOracleConfig
<1>3. ASSUME NEW rate \in Rates, FeedUpdate(rate)
      PROVE  LedgerIdle
  BY <1>1, <1>3 DEF FeedUpdate, ledger, LedgerIdle
<1>4. CASE NextBlock
  BY <1>1, <1>4 DEF NextBlock, ledger, LedgerIdle
<1> QED BY <1>2, <1>3, <1>4

\* Only validateAndConsume touches the ledger or the log.
LEMMA StepKinds ==
    ASSUME TypeOK, [Next]_vars
    PROVE  \/ LedgerIdle
           \/ \E s \in Addresses, a \in Agents, r \in Requests : ValidateAndConsume(s, a, r)
<1>1. CASE UNCHANGED vars
  <2>1. now \in Nat
    BY TimeAssumption DEF TypeOK
  <2> QED BY <1>1, <2>1 DEF vars, ledger, LedgerIdle
<1> QED BY <1>1, IdleSteps DEF Next

-----------------------------------------------------------------------------
(* Type correctness.                                                       *)

\* Every setter writes a policy of the right type.
LEMMA SettersTyped ==
    ASSUME NEW s \in Addresses, TypeOK, OwnerStep(s)
    PROVE  policy' \in PolicyType
<1>1. policy \in PolicyType
  BY DEF TypeOK
<1>4. ASSUME NEW b \in BOOLEAN, SetPaused(s, b) PROVE policy' \in PolicyType
  BY <1>1, <1>4 DEF SetPaused, OwnerSets, PolicyType
<1>5. ASSUME NEW b \in BOOLEAN, NEW x \in Routers, SetRouterAllowed(s, x, b)
      PROVE  policy' \in PolicyType
  BY <1>1, <1>5 DEF SetRouterAllowed, OwnerSets, Toggled, PolicyType
<1>6. ASSUME NEW b \in BOOLEAN, NEW k \in Tokens, SetTokenAllowed(s, k, b)
      PROVE  policy' \in PolicyType
  BY <1>1, <1>6 DEF SetTokenAllowed, OwnerSets, Toggled, PolicyType
<1>7. ASSUME NEW b \in BOOLEAN, NEW x \in Addresses, SetAuthorizedExecutor(s, x, b)
      PROVE  policy' \in PolicyType
  BY <1>1, <1>7 DEF SetAuthorizedExecutor, OwnerSets, Toggled, PolicyType
<1>8. ASSUME NEW b \in BOOLEAN, SetRequireExplicitTokenLimits(s, b)
      PROVE  policy' \in PolicyType
  BY <1>1, <1>8 DEF SetRequireExplicitTokenLimits, OwnerSets, PolicyType
<1>9. ASSUME NEW v \in Amounts, NEW k \in Tokens,
             \/ SetMinTradeAmount(s, k, v)
             \/ SetMaxTradeAmountForToken(s, k, v)
             \/ SetMaxDailyVolumeForToken(s, k, v)
      PROVE  policy' \in PolicyType
  <2>1. v \in Nat BY ConstantAssumption
  <2>2. CASE SetMinTradeAmount(s, k, v)
    BY <1>1, <2>1, <2>2 DEF SetMinTradeAmount, OwnerSets, PolicyType
  <2>3. CASE SetMaxTradeAmountForToken(s, k, v)
    BY <1>1, <2>1, <2>3 DEF SetMaxTradeAmountForToken, OwnerSets, PolicyType
  <2>4. CASE SetMaxDailyVolumeForToken(s, k, v)
    BY <1>1, <2>1, <2>4 DEF SetMaxDailyVolumeForToken, OwnerSets, PolicyType
  <2> QED BY <1>9, <2>2, <2>3, <2>4
<1>10. ASSUME NEW v \in Amounts, SetMaxDailyVolume(s, v)
       PROVE  policy' \in PolicyType
  BY <1>1, <1>10, ConstantAssumption DEF SetMaxDailyVolume, OwnerSets, PolicyType
<1>11. ASSUME NEW t \in Durations, SetCooldownSeconds(s, t) \/ SetMaxDeadlineDelay(s, t)
       PROVE  policy' \in PolicyType
  <2>1. t \in Nat BY ConstantAssumption
  <2>2. CASE SetCooldownSeconds(s, t)
    BY <1>1, <2>1, <2>2 DEF SetCooldownSeconds, OwnerSets, PolicyType
  <2>3. CASE SetMaxDeadlineDelay(s, t)
    BY <1>1, <2>1, <2>3 DEF SetMaxDeadlineDelay, OwnerSets, PolicyType
  <2> QED BY <1>11, <2>2, <2>3
<1>12. ASSUME NEW t \in Durations, NEW bps \in BpsValues, SetOracleConfig(s, t, bps)
       PROVE  policy' \in PolicyType
  <2>1. t \in Nat /\ bps \in Nat
    BY ConstantAssumption
  <2>2. bps <= MAX_BPS
    BY <1>12 DEF SetOracleConfig
  <2>3. bps \in 0 .. MAX_BPS
    BY <2>1, <2>2, SMTT(30) DEF MAX_BPS
  <2> QED BY <1>1, <1>12, <2>1, <2>3 DEF SetOracleConfig, OwnerSets, PolicyType
<1>13. ASSUME NEW bps \in BpsValues,
              SetMaxSlippageBps(s, bps) \/ SetMaxExactOutputInputBufferBps(s, bps)
       PROVE  policy' \in PolicyType
  <2>1. bps \in Nat
    BY ConstantAssumption
  <2>2. bps <= MAX_BPS
    BY <1>13 DEF SetMaxSlippageBps, SetMaxExactOutputInputBufferBps
  <2>3. bps \in 0 .. MAX_BPS
    BY <2>1, <2>2, SMTT(30) DEF MAX_BPS
  <2>4. CASE SetMaxSlippageBps(s, bps)
    BY <1>1, <2>3, <2>4 DEF SetMaxSlippageBps, OwnerSets, PolicyType
  <2>5. CASE SetMaxExactOutputInputBufferBps(s, bps)
    BY <1>1, <2>3, <2>5 DEF SetMaxExactOutputInputBufferBps, OwnerSets, PolicyType
  <2> QED BY <1>13, <2>4, <2>5
<1>14. ASSUME AcceptOwnership(s) \/ \E x \in Addresses : TransferOwnership(s, x)
       PROVE  policy' \in PolicyType
  BY <1>1, <1>14 DEF AcceptOwnership, TransferOwnership
<1> QED
  BY <1>4, <1>5, <1>6, <1>7, <1>8, <1>9, <1>10, <1>11, <1>12, <1>13, <1>14 DEF OwnerStep

\* What a swap appends to the log is an event.
LEMMA ConsumeLogs ==
    ASSUME TypeOK, NEW s \in Addresses, NEW a \in Agents, NEW r \in Requests,
           ValidateAndConsume(s, a, r)
    PROVE  /\ r \in SwapRequest /\ r.tokenIn \in Tokens /\ r.amountIn \in Nat
           /\ OracleAmountOut(r) \in Nat
           /\ [agent |-> a, request |-> r, at |-> now, policy |-> policy,
               oracleOut |-> OracleAmountOut(r)] \in Event
           /\ DayKey(now) \in Days
           /\ now \in Nat
<1>1. /\ r \in SwapRequest /\ r.tokenIn \in Tokens /\ r.tokenOut \in Tokens
      /\ r.amountIn \in Nat /\ r.expectedAmountIn \in Nat
  BY ConstantAssumption DEF SwapRequest
<1>2. now \in StartTime .. MaxTime /\ now \in Nat
  BY TimeAssumption DEF TypeOK
<1>3. OracleAmountOut(r) \in Nat
  BY <1>1, SMTT(30) DEF OracleAmountOut, TypeOK
<1> QED BY <1>1, <1>2, <1>3, DayKeyInDays DEF TypeOK, Event

\* The state the constructor leaves is well typed.
LEMMA TypeInit == Init => TypeOK
<1> SUFFICES ASSUME Init PROVE TypeOK
  OBVIOUS
<1>1. now \in StartTime .. MaxTime /\ feed \in [rate : Nat, updatedAt : Nat]
  BY TimeAssumption, ConstantAssumption DEF Init
<1>2. /\ dailyVolumeByAgentToken \in [Agents -> [Tokens -> [Days -> Nat]]]
      /\ lastExecutionAt \in [Agents -> Nat]
      /\ lastExecutionAtByToken \in [Agents -> [Tokens -> Nat]]
      /\ lastExecutionAtByPair \in [Agents -> [Pairs -> Nat]]
  BY DEF Init
<1>3. log \in Seq(Event)
  BY DEF Init
<1> QED BY <1>1, <1>2, <1>3, ConstantAssumption DEF Init, TypeOK

\* Every call keeps the storage of SwapGuard well typed.
LEMMA TypeStep ==
    ASSUME TypeOK, [Next]_vars
    PROVE  TypeOK'
<1> USE DEF TypeOK
<1>1. CASE UNCHANGED vars
  BY <1>1 DEF vars, ledger
<1>2. ASSUME NEW s \in Addresses, OwnerStep(s)
      PROVE  TypeOK'
  <2>1. policy' \in PolicyType
    BY <1>2, SettersTyped
  <2>2. ASSUME NEW p, OwnerSets(s, p)
        PROVE  /\ UNCHANGED <<now, owner, pendingOwner, feed, ledger, log>>
               /\ ownerCalls' \in 0 .. MaxOwnerCalls
    BY <2>2, ConstantAssumption DEF OwnerSets
  <2>3. ASSUME NEW x \in Addresses, TransferOwnership(s, x)
        PROVE  /\ UNCHANGED <<now, owner, feed, ledger, log>>
               /\ pendingOwner' \in Addresses
               /\ ownerCalls' \in 0 .. MaxOwnerCalls
    BY <2>3, ConstantAssumption DEF TransferOwnership
  <2>4. CASE AcceptOwnership(s)
    BY <2>1, <2>4 DEF AcceptOwnership, ledger
  <2>5. ASSUME NEW p, OwnerSets(s, p) PROVE TypeOK'
    BY <2>1, <2>2, <2>5 DEF ledger
  <2>6. ASSUME NEW x \in Addresses, TransferOwnership(s, x) PROVE TypeOK'
    BY <2>1, <2>3, <2>6 DEF ledger
  <2> HIDE DEF TypeOK
  <2> QED
    BY <1>2, <2>4, <2>5, <2>6 DEF OwnerStep, SetPaused, SetRouterAllowed, SetTokenAllowed,
       SetAuthorizedExecutor, SetMinTradeAmount, SetMaxTradeAmountForToken, SetMaxDailyVolume,
       SetMaxDailyVolumeForToken, SetRequireExplicitTokenLimits, SetCooldownSeconds,
       SetMaxDeadlineDelay, SetMaxSlippageBps, SetMaxExactOutputInputBufferBps, SetOracleConfig
<1>3. ASSUME NEW s \in Addresses, NEW a \in Agents, NEW r \in Requests,
             ValidateAndConsume(s, a, r)
      PROVE  TypeOK'
  <2>1. /\ r.tokenIn \in Tokens /\ r.amountIn \in Nat /\ DayKey(now) \in Days /\ now \in Nat
        /\ [agent |-> a, request |-> r, at |-> now, policy |-> policy,
            oracleOut |-> OracleAmountOut(r)] \in Event
    BY <1>3, ConsumeLogs
  <2>2. log' \in Seq(Event)
    BY <1>3, <2>1 DEF ValidateAndConsume, AddVolume, PairKey
  <2>3. dailyVolumeByAgentToken' \in [Agents -> [Tokens -> [Days -> Nat]]]
    BY <1>3, <2>1, SMTT(30) DEF ValidateAndConsume, AddVolume, PairKey
  <2>4. /\ lastExecutionAt' \in [Agents -> Nat]
        /\ lastExecutionAtByToken' \in [Agents -> [Tokens -> Nat]]
        /\ lastExecutionAtByPair' \in [Agents -> [Pairs -> Nat]]
    BY <1>3, <2>1 DEF ValidateAndConsume, AddVolume, PairKey
  <2> QED BY <1>3, <2>2, <2>3, <2>4 DEF ValidateAndConsume, AddVolume, PairKey
<1>4. ASSUME NEW rate \in Rates, FeedUpdate(rate)
      PROVE  TypeOK'
  <2>1. feed' \in [rate : Nat, updatedAt : Nat]
    BY <1>4, ConstantAssumption, TimeAssumption DEF FeedUpdate
  <2> QED BY <1>4, <2>1 DEF FeedUpdate, ledger
<1>5. CASE NextBlock
  <2>1. now' \in StartTime .. MaxTime
    BY <1>5, TimeAssumption DEF NextBlock
  <2> QED BY <1>5, <2>1 DEF NextBlock, ledger
<1> QED BY <1>1, <1>2, <1>3, <1>4, <1>5 DEF Next

\* The storage of the guard always holds values of its declared types.
THEOREM TypeCorrect == Spec => []TypeOK
BY TypeInit, TypeStep, PTL DEF Spec
-----------------------------------------------------------------------------
(* The cooldown.  CooldownSeparates is not inductive: the guard compares   *)
(* the time with lastExecutionAtByToken, not with the log, and takes zero  *)
(* to mean "never".                                                        *)

\* The clock of a token is as late as every swap that spent it, no swap is as
\* early as timestamp zero, and no clock is ahead of the block.
ClockBounds ==
    /\ \A i \in DOMAIN log :
          /\ 0 < log[i].at
          /\ log[i].at <= lastExecutionAtByToken[log[i].agent][log[i].request.tokenIn]
    /\ \A a \in Agents, k \in Tokens : lastExecutionAtByToken[a][k] <= now

\* Cooldowns separate swaps, with the bounds on the stored clocks that make it inductive.
CooldownInv == TypeOK /\ ClockBounds /\ CooldownSeparates

\* A swap that passes the cooldown check of validateAndConsume comes late enough after
\* every earlier swap of its agent; no other step shortens a gap already logged.
LEMMA CooldownStep ==
    ASSUME CooldownInv, [Next]_vars
    PROVE  CooldownInv'
<1>1. TypeOK /\ TypeOK'
  BY TypeStep DEF CooldownInv
<1>2. CASE LedgerIdle
  BY <1>1, <1>2 DEF LedgerIdle, ledger, CooldownInv, ClockBounds, CooldownSeparates, TypeOK
<1>3. ASSUME NEW s \in Addresses, NEW a \in Agents, NEW r \in Requests,
             ValidateAndConsume(s, a, r)
      PROVE  ClockBounds' /\ CooldownSeparates'
  <2> DEFINE k == r.tokenIn
             e == [agent |-> a, request |-> r, at |-> now, policy |-> policy,
                   oracleOut |-> OracleAmountOut(r)]
             last == lastExecutionAtByToken[a][k]
  <2>1. /\ k \in Tokens /\ now \in Nat /\ 0 < now /\ e \in Event
        /\ last \in Nat /\ policy.cooldownSeconds \in Nat
    <3>1. k \in Tokens /\ now \in Nat /\ e \in Event
      BY <1>1, <1>3, ConsumeLogs
    <3>2. 0 < now
      BY <1>1, TimeAssumption DEF TypeOK
    <3>3. last \in Nat
      BY <1>1, <3>1 DEF TypeOK
    <3>4. policy \in PolicyType
      BY <1>1 DEF TypeOK
    <3> QED BY <3>1, <3>2, <3>3, <3>4 DEF PolicyType
  <2>2. /\ log \in Seq(Event) /\ log' = Append(log, e)
        /\ lastExecutionAtByToken' = [lastExecutionAtByToken EXCEPT ![a][k] = now]
        /\ now' = now
    BY <1>1, <1>3 DEF ValidateAndConsume, AddVolume, PairKey, TypeOK
  <2>3. CooldownElapsed(a, k)
    BY <1>3 DEF ValidateAndConsume, AddVolume, PairKey, Validate
  <2>4. /\ Len(log) \in Nat /\ DOMAIN log = 1 .. Len(log)
        /\ DOMAIN log' = 1 .. (Len(log) + 1)
        /\ log'[Len(log) + 1] = e
        /\ \A i \in DOMAIN log : log'[i] = log[i] /\ log[i] \in Event
    BY <2>1, <2>2
  <2>5. \A i \in DOMAIN log :
           /\ log[i].agent \in Agents /\ log[i].request.tokenIn \in Tokens /\ log[i].at \in Nat
    BY <2>4 DEF Event, SwapRequest
  <2> HIDE DEF e
  <2>6. e.agent = a /\ e.request = r /\ e.at = now /\ e.policy = policy
    BY DEF e
  <2>7. ClockBounds'
    <3>1. \A b \in Agents, x \in Tokens :
             /\ lastExecutionAtByToken'[b][x] \in Nat
             /\ lastExecutionAtByToken[b][x] <= lastExecutionAtByToken'[b][x]
             /\ lastExecutionAtByToken'[b][x] <= now
      BY <1>1, <2>1, <2>2, SMTT(30) DEF CooldownInv, ClockBounds, TypeOK
    <3>2. lastExecutionAtByToken'[a][k] = now
      BY <1>1, <2>1, <2>2 DEF TypeOK
    <3>3. ASSUME NEW i \in DOMAIN log'
          PROVE  /\ 0 < log'[i].at
                 /\ log'[i].at <= lastExecutionAtByToken'[log'[i].agent][log'[i].request.tokenIn]
      <4>1. CASE i \in DOMAIN log
        <5>1. /\ 0 < log[i].at
              /\ log[i].at <= lastExecutionAtByToken[log[i].agent][log[i].request.tokenIn]
          BY <4>1 DEF CooldownInv, ClockBounds
        <5>2. lastExecutionAtByToken[log[i].agent][log[i].request.tokenIn] \in Nat
          <6>1. lastExecutionAtByToken \in [Agents -> [Tokens -> Nat]]
            BY <1>1 DEF TypeOK
          <6> QED BY <2>5, <4>1, <6>1
        <5> QED BY <2>4, <2>5, <3>1, <4>1, <5>1, <5>2
      <4>2. CASE i = Len(log) + 1
        BY <2>1, <2>4, <2>6, <3>2, <4>2
      <4> QED BY <2>4, <3>3, <4>1, <4>2
    <3> QED BY <2>2, <3>1, <3>3 DEF ClockBounds
  <2>8. ASSUME NEW i \in DOMAIN log, log[i].agent = a, log[i].request.tokenIn = k
        PROVE  now >= log[i].at + policy.cooldownSeconds
    <3>1. 0 < log[i].at /\ log[i].at <= last /\ last <= now /\ log[i].at \in Nat
      BY <2>1, <2>5, <2>8 DEF CooldownInv, ClockBounds
    <3> QED BY <2>1, <2>3, <3>1 DEF CooldownElapsed
  <2>9. CooldownSeparates'
    <3>1. SUFFICES ASSUME NEW i \in DOMAIN log', NEW j \in DOMAIN log', i < j,
                          log'[i].agent = log'[j].agent,
                          log'[i].request.tokenIn = log'[j].request.tokenIn
                   PROVE  log'[j].at >= log'[i].at + log'[j].policy.cooldownSeconds
      BY DEF CooldownSeparates
    <3>2. i \in DOMAIN log
      BY <2>4, <3>1
    <3>3. CASE j \in DOMAIN log
      BY <2>4, <3>1, <3>2, <3>3 DEF CooldownInv, CooldownSeparates
    <3>4. CASE j = Len(log) + 1
      BY <2>4, <2>6, <2>8, <3>1, <3>2, <3>4
    <3> QED BY <2>4, <3>1, <3>3, <3>4
  <2> QED BY <2>7, <2>9
<1> QED
  BY <1>1, <1>2, <1>3, StepKinds DEF CooldownInv

\* Swaps of one token by one agent are a cooldown apart, whatever the owner, the
\* other agents and the oracle do.
THEOREM CooldownHolds == Spec => []CooldownSeparates
<1>1. Init => CooldownInv
  <2> SUFFICES ASSUME Init PROVE CooldownInv
    OBVIOUS
  <2>1. TypeOK
    BY TypeInit
  <2>2. log = <<>> /\ lastExecutionAtByToken = [a \in Agents |-> [k \in Tokens |-> 0]]
    BY DEF Init
  <2>3. now \in Nat
    BY TimeAssumption DEF Init
  <2> QED BY <2>1, <2>2, <2>3 DEF CooldownInv, ClockBounds, CooldownSeparates
<1>2. CooldownInv /\ [Next]_vars => CooldownInv'
  BY CooldownStep
<1>3. CooldownInv => CooldownSeparates
  BY DEF CooldownInv
<1> QED BY <1>1, <1>2, <1>3, PTL DEF Spec
-----------------------------------------------------------------------------
(* The daily limit.                                                        *)

\* The daily limit resolved for a token is a number.
LEMMA LimitNat ==
    ASSUME NEW p \in PolicyType, NEW k \in Tokens
    PROVE  EffectiveLimit(p, k) \in Nat
<1>1. p.maxDailyVolumeByToken[k] \in Nat /\ p.defaultMaxDailyVolume \in Nat
  BY DEF PolicyType
<1>2. UnitScale(k) \in Nat \ {0}
  BY ScaleAssumption
<1>3. /\ p.defaultMaxDailyVolume \div UnitScale(k) \in Nat
      /\ p.defaultMaxDailyVolume * UnitScale(k) \in Nat
  <2>1. ASSUME NEW u \in Nat \ {0}, NEW v \in Nat
        PROVE  v \div u \in Nat /\ v * u \in Nat
    BY <2>1, DivisionDef
  <2> QED BY <1>1, <1>2, <2>1
<1>4. ScaledDefaultLimit(p, k) \in Nat
  BY <1>3 DEF ScaledDefaultLimit
<1> QED BY <1>1, <1>4 DEF EffectiveLimit

\* The weighted volume of the previous day is a natural number.
LEMMA RollingParts ==
    ASSUME TypeOK, NEW a \in Agents, NEW k \in Tokens
    PROVE  /\ dailyVolumeByAgentToken[a][k][DayKey(now)] \in Nat
           /\ PreviousDayVolume(a, k, DayKey(now)) \in Nat
           /\ (PreviousDayVolume(a, k, DayKey(now)) * (DAY - Elapsed(now))) \div DAY \in Nat
           /\ DAY - Elapsed(now) \in Nat /\ DAY - Elapsed(now) > 0
<1>1. now \in StartTime .. MaxTime /\ now \in Nat /\ DAY \in Nat \ {0}
  BY TimeAssumption DEF TypeOK
<1>2. dailyVolumeByAgentToken[a][k] \in [Days -> Nat]
  BY DEF TypeOK
<1>3. DayKey(now) \in Days
  BY <1>1, DayKeyInDays
<1>4. DayKey(now) # 0 => DayKey(now) - 1 \in Days
  <2>1. MaxTime \div DAY \in Nat
    BY <1>1, TimeAssumption, DivisionDef
  <2> QED BY <1>3, <2>1 DEF Days
<1>5. PreviousDayVolume(a, k, DayKey(now)) \in Nat
  BY <1>2, <1>4 DEF PreviousDayVolume
<1>6. DAY - Elapsed(now) \in Nat /\ DAY - Elapsed(now) > 0
  BY <1>1, DivisionDef DEF Elapsed
<1>7. PreviousDayVolume(a, k, DayKey(now)) * (DAY - Elapsed(now)) \in Nat
  BY <1>5, <1>6
<1> QED BY <1>1, <1>2, <1>3, <1>5, <1>6, <1>7, DivisionDef

\* The limit on the volume of a day, with the types that make it inductive.
DayVolumeInv == TypeOK /\ DayVolumeWithinLimit

\* A swap that passes the volume check of validateAndConsume leaves the volume of its day
\* within the limit it was checked against; no other step moves a volume.
LEMMA DayVolumeStep ==
    ASSUME DayVolumeInv, [Next]_vars
    PROVE  DayVolumeInv'
<1>1. TypeOK /\ TypeOK'
  BY TypeStep DEF DayVolumeInv
<1>2. CASE LedgerIdle
  BY <1>1, <1>2 DEF LedgerIdle, ledger, DayVolumeInv, DayVolumeWithinLimit, Spends
<1>3. ASSUME NEW s \in Addresses, NEW a \in Agents, NEW r \in Requests,
             ValidateAndConsume(s, a, r)
      PROVE  DayVolumeWithinLimit'
  <2> DEFINE k == r.tokenIn
             d == DayKey(now)
             e == [agent |-> a, request |-> r, at |-> now, policy |-> policy,
                   oracleOut |-> OracleAmountOut(r)]
             n == Len(log) + 1
  <2>1. /\ k \in Tokens /\ d \in Days /\ r.amountIn \in Nat /\ e \in Event
    BY <1>1, <1>3, ConsumeLogs
  <2>2. /\ log \in Seq(Event) /\ log' = Append(log, e)
        /\ dailyVolumeByAgentToken \in [Agents -> [Tokens -> [Days -> Nat]]]
        /\ dailyVolumeByAgentToken' =
             [dailyVolumeByAgentToken EXCEPT ![a][k][d] = @ + r.amountIn]
    BY <1>1, <1>3 DEF ValidateAndConsume, AddVolume, PairKey, TypeOK
  <2>3. /\ n \in DOMAIN log' /\ log'[n] = e
        /\ \A i \in DOMAIN log : i \in DOMAIN log' /\ log'[i] = log[i]
    BY <2>1, <2>2
  <2>4. dailyVolumeByAgentToken'[a][k][d] <= EffectiveLimit(policy, k)
    <3>1. RollingConsumed(a, k) + r.amountIn <= EffectiveLimit(policy, k)
      BY <1>3 DEF ValidateAndConsume, AddVolume, PairKey, Validate, WithinDailyLimit
    <3>2. policy \in PolicyType
      BY <1>1 DEF TypeOK
    <3>3. EffectiveLimit(policy, k) \in Nat
      BY <2>1, <3>2, LimitNat
    <3>4. /\ dailyVolumeByAgentToken[a][k][d] \in Nat
          /\ (PreviousDayVolume(a, k, d) * (DAY - Elapsed(now))) \div DAY \in Nat
      BY <1>1, <2>1, RollingParts
    <3>5. dailyVolumeByAgentToken'[a][k][d] = dailyVolumeByAgentToken[a][k][d] + r.amountIn
      BY <2>1, <2>2
    <3> QED BY <2>1, <3>1, <3>3, <3>4, <3>5 DEF RollingConsumed
  <2> HIDE DEF e, d
  <2>5. e.agent = a /\ e.request = r /\ e.at = now /\ e.policy = policy /\ d = DayKey(now)
    BY DEF e, d
  <2>6. SUFFICES ASSUME NEW b \in Agents, NEW x \in Tokens, NEW y \in Days
                 PROVE  \/ dailyVolumeByAgentToken'[b][x][y] = 0
                        \/ \E i \in DOMAIN log' :
                              /\ log'[i].agent = b /\ log'[i].request.tokenIn = x
                              /\ DayKey(log'[i].at) = y
                              /\ dailyVolumeByAgentToken'[b][x][y]
                                   <= EffectiveLimit(log'[i].policy, x)
    BY DEF DayVolumeWithinLimit, Spends, DayKey
  <2>7. CASE b = a /\ x = k /\ y = d
    BY <2>3, <2>4, <2>5, <2>7
  <2>8. CASE ~(b = a /\ x = k /\ y = d)
    <3>1. dailyVolumeByAgentToken'[b][x][y] = dailyVolumeByAgentToken[b][x][y]
      BY <2>1, <2>2, <2>8
    <3>2. \/ dailyVolumeByAgentToken[b][x][y] = 0
          \/ \E i \in DOMAIN log :
                /\ log[i].agent = b /\ log[i].request.tokenIn = x
                /\ DayKey(log[i].at) = y
                /\ dailyVolumeByAgentToken[b][x][y] <= EffectiveLimit(log[i].policy, x)
      BY DEF DayVolumeInv, DayVolumeWithinLimit, Spends
    <3> QED BY <2>3, <3>1, <3>2
  <2> QED BY <2>7, <2>8
<1> QED
  BY <1>1, <1>2, <1>3, StepKinds DEF DayVolumeInv

\* Nothing is charged before the first swap.
LEMMA DayVolumeInit == Init => DayVolumeInv
BY TypeInit DEF Init, DayVolumeInv, DayVolumeWithinLimit

\* No day is ever charged more than a limit its owner had set for that token.
THEOREM DayVolumeHolds == Spec => []DayVolumeWithinLimit
<1>1. Init => DayVolumeInv
  BY DayVolumeInit
<1>2. DayVolumeInv /\ [Next]_vars => DayVolumeInv'
  BY DayVolumeStep
<1>3. DayVolumeInv => DayVolumeWithinLimit
  BY DEF DayVolumeInv
<1> QED BY <1>1, <1>2, <1>3, PTL DEF Spec

-----------------------------------------------------------------------------
(* Time gives budget back.  The argument at midnight needs that no volume  *)
(* is booked ahead of the current day.                                     *)

NothingBookedAhead ==
    \A a \in Agents, k \in Tokens, d \in Days :
        d > DayKey(now) => dailyVolumeByAgentToken[a][k][d] = 0

\* No volume is booked on a day that has not come, with the types that make it inductive.
BudgetInv == TypeOK /\ NothingBookedAhead

\* A swap books on the day of the block it is in, and the clock never goes back.
LEMMA BudgetStep ==
    ASSUME BudgetInv, [Next]_vars
    PROVE  BudgetInv'
<1>1. TypeOK /\ TypeOK'
  BY TypeStep DEF BudgetInv
<1>2. DAY \in Nat \ {0} /\ now \in Nat /\ DayKey(now) \in Nat
  <2>1. DAY \in Nat \ {0} /\ now \in Nat
    BY <1>1, TimeAssumption DEF TypeOK
  <2> QED BY <2>1, DivisionDef DEF DayKey
<1>3. CASE LedgerIdle
  <2>1. DayKey(now') \in Nat /\ DayKey(now) <= DayKey(now')
    BY <1>2, <1>3, DivisionDef, DivisionMonotone DEF DayKey, LedgerIdle
  <2>2. \A d \in Days : d \in Nat
    BY DEF Days
  <2>3. NothingBookedAhead'
    BY <1>2, <1>3, <2>1, <2>2 DEF LedgerIdle, ledger, BudgetInv, NothingBookedAhead, DayKey
  <2> QED BY <1>1, <2>3 DEF BudgetInv
<1>4. ASSUME NEW s \in Addresses, NEW a \in Agents, NEW r \in Requests,
             ValidateAndConsume(s, a, r)
      PROVE  NothingBookedAhead'
  <2>1. now' = now
    BY <1>4 DEF ValidateAndConsume, AddVolume, PairKey
  <2>2. \A b \in Agents, x \in Tokens, d \in Days :
           d # DayKey(now) =>
             dailyVolumeByAgentToken'[b][x][d] = dailyVolumeByAgentToken[b][x][d]
    BY <1>1, <1>4 DEF ValidateAndConsume, AddVolume, PairKey, TypeOK
  <2>3. \A d \in Days : d > DayKey(now) => d # DayKey(now)
    BY <1>2 DEF Days
  <2> QED BY <2>1, <2>2, <2>3 DEF BudgetInv, NothingBookedAhead, DayKey
<1> QED
  BY <1>1, <1>3, <1>4, StepKinds DEF BudgetInv

\* Waiting never costs an agent budget: within a day the weight on yesterday's
\* volume shrinks, and at midnight today's volume takes its place in full.
THEOREM BudgetHolds == Spec => BudgetOnlyRecovers
<1>1. Init => BudgetInv
  BY TypeInit DEF Init, BudgetInv, NothingBookedAhead
<1>2. BudgetInv /\ [Next]_vars => BudgetInv'
  BY BudgetStep
<1>3. ASSUME BudgetInv, [Next]_vars, now' # now, NEW a \in Agents, NEW k \in Tokens
      PROVE  RollingConsumed(a, k)' <= RollingConsumed(a, k)
  <2>1. NextBlock
    <3>1. ~UNCHANGED vars
      BY <1>3 DEF vars
    <3>2. \A s \in Addresses : \A p : ~OwnerSets(s, p)
      BY <1>3 DEF OwnerSets
    <3>3. \A s \in Addresses : ~OwnerStep(s)
      BY <1>3, <3>2 DEF OwnerStep, TransferOwnership, AcceptOwnership, SetPaused,
         SetRouterAllowed, SetTokenAllowed, SetAuthorizedExecutor, SetMinTradeAmount,
         SetMaxTradeAmountForToken, SetMaxDailyVolume, SetMaxDailyVolumeForToken,
         SetRequireExplicitTokenLimits, SetCooldownSeconds, SetMaxDeadlineDelay,
         SetMaxSlippageBps, SetMaxExactOutputInputBufferBps, SetOracleConfig
    <3> QED BY <1>3, <3>1, <3>3 DEF Next, ValidateAndConsume, AddVolume, PairKey, FeedUpdate
  <2>2. now' = now + 1 /\ dailyVolumeByAgentToken' = dailyVolumeByAgentToken
    BY <2>1 DEF NextBlock, ledger
  <2>3. TypeOK /\ TypeOK'
    BY <1>2, <1>3 DEF BudgetInv
  <2> DEFINE V == dailyVolumeByAgentToken[a][k]
             P == PreviousDayVolume(a, k, DayKey(now))
             w == DAY - Elapsed(now)
  <2>4. /\ DAY \in Nat \ {0} /\ now \in Nat /\ w \in Nat /\ w > 0 /\ P \in Nat
        /\ V[DayKey(now)] \in Nat /\ (P * w) \div DAY \in Nat
    BY <2>3, TimeAssumption, RollingParts DEF TypeOK
  <2>5. RollingConsumed(a, k) = V[DayKey(now)] + (P * w) \div DAY
    BY DEF RollingConsumed
  <2>6. RollingConsumed(a, k)' =
          V[DayKey(now + 1)]
            + ((IF DayKey(now + 1) = 0 THEN 0 ELSE V[DayKey(now + 1) - 1])
                 * (DAY - Elapsed(now + 1))) \div DAY
    BY <2>2 DEF RollingConsumed, PreviousDayVolume, DayKey, Elapsed
  <2>7. CASE DayKey(now + 1) = DayKey(now) /\ Elapsed(now + 1) = Elapsed(now) + 1
    <3>1. RollingConsumed(a, k)' = V[DayKey(now)] + (P * (w - 1)) \div DAY
      <4>1. DAY - Elapsed(now + 1) = w - 1
        <5>1. Elapsed(now) \in 0 .. DAY - 1
          BY <2>4, DivisionDef DEF Elapsed
        <5> QED BY <2>4, <2>7, <5>1
      <4> QED BY <2>6, <2>7, <4>1 DEF PreviousDayVolume
    <3>2. w - 1 \in Nat /\ w - 1 <= w
      BY <2>4
    <3>3. P * (w - 1) \in Nat /\ P * w \in Nat /\ P * (w - 1) <= P * w
      BY <2>4, <3>2, TimesMonotone
    <3>4. (P * (w - 1)) \div DAY <= (P * w) \div DAY /\ (P * (w - 1)) \div DAY \in Nat
      BY <2>4, <3>3, DivisionMonotone, DivisionDef
    <3> HIDE DEF V, P, w
    <3> QED BY <2>4, <2>5, <3>1, <3>4
  <2>8. CASE DayKey(now + 1) = DayKey(now) + 1 /\ Elapsed(now + 1) = 0
    <3>1. DayKey(now) \in Nat
      BY <2>4, DivisionDef DEF DayKey
    <3>2. V[DayKey(now + 1)] = 0
      <4>1. now + 1 \in StartTime .. MaxTime
        BY <2>2, <2>3 DEF TypeOK
      <4>2. DayKey(now + 1) \in Days
        BY <4>1, DayKeyInDays
      <4> QED BY <1>3, <2>8, <3>1, <4>2 DEF BudgetInv, NothingBookedAhead
    <3>3. RollingConsumed(a, k)' = (V[DayKey(now)] * DAY) \div DAY
      <4>1. DayKey(now + 1) # 0 /\ DayKey(now + 1) - 1 = DayKey(now)
        BY <2>8, <3>1
      <4>2. DAY - Elapsed(now + 1) = DAY
        BY <2>4, <2>8
      <4>3. V[DayKey(now)] * DAY \in Nat
        BY <2>4
      <4>4. (V[DayKey(now)] * DAY) \div DAY \in Nat
        BY <2>4, <4>3, DivisionDef
      <4> HIDE DEF V
      <4> QED BY <2>6, <3>2, <4>1, <4>2, <4>4
    <3>4. (V[DayKey(now)] * DAY) \div DAY = V[DayKey(now)]
      BY <2>4, DivisionCancels
    <3> HIDE DEF V, P, w
    <3> QED BY <2>4, <2>5, <3>3, <3>4
  <2> QED BY <2>4, <2>7, <2>8, DivisionSuccessor DEF DayKey, Elapsed
<1>4. BudgetInv /\ [Next]_vars =>
        [now' # now =>
           \A a \in Agents, k \in Tokens :
              RollingConsumed(a, k)' <= RollingConsumed(a, k)]_vars
  BY <1>3
<1> QED BY <1>1, <1>2, <1>4, PTL DEF Spec, BudgetOnlyRecovers
-----------------------------------------------------------------------------
(* An idle agent has its budget back.  A day is charged only if a logged   *)
(* swap fell in it, which DayVolumeInv says.                               *)

\* A day that ended before the last two has no part in the volume that counts.
LEMMA IdleBudget ==
    ASSUME DayVolumeInv, NEW a \in Agents, NEW k \in Tokens,
           \A i \in Spends(a, k) : log[i].at + 2 * DAY <= now
    PROVE  RollingConsumed(a, k) = 0
<1> DEFINE V == dailyVolumeByAgentToken[a][k]
           D == DayKey(now)
<1>1. /\ now \in StartTime .. MaxTime /\ now \in Nat /\ DAY \in Nat \ {0}
      /\ V \in [Days -> Nat] /\ log \in Seq(Event)
  BY TimeAssumption DEF DayVolumeInv, TypeOK
<1>2. D \in Days /\ D \in Nat /\ MaxTime \div DAY \in Nat
  BY <1>1, DayKeyInDays, TimeAssumption, DivisionDef DEF Days
<1>3. ASSUME NEW d \in Days, d + 1 >= D
      PROVE  V[d] = 0
  <2>1. SUFFICES ASSUME V[d] # 0 PROVE FALSE
    OBVIOUS
  <2>2. PICK i \in Spends(a, k) : DayKey(log[i].at) = d
    BY <2>1 DEF DayVolumeInv, DayVolumeWithinLimit
  <2>3. log[i].at \in Nat /\ log[i].at + 2 * DAY <= now /\ log[i].at + 2 * DAY \in Nat
    <3>1. i \in DOMAIN log
      BY <2>2 DEF Spends
    <3>2. log[i] \in Event
      BY <1>1, <3>1
    <3>3. log[i].at \in Nat
      BY <3>2 DEF Event
    <3> QED BY <1>1, <2>2, <3>3
  <2>4. (log[i].at + 2 * DAY) \div DAY = (log[i].at \div DAY) + 2
    BY <1>1, <2>3, 2 \in Nat, DivisionShift
  <2>5. (log[i].at + 2 * DAY) \div DAY <= now \div DAY
    BY <1>1, <2>3, DivisionMonotone
  <2>6. d \in Nat
    BY DEF Days
  <2> QED BY <1>2, <1>3, <2>2, <2>4, <2>5, <2>6 DEF DayKey
<1>4. V[D] = 0
  BY <1>2, <1>3
<1>5. PreviousDayVolume(a, k, D) = 0
  <2>1. CASE D = 0
    BY <2>1 DEF PreviousDayVolume
  <2>2. CASE D # 0
    <3>1. D - 1 \in Days /\ (D - 1) + 1 >= D
      BY <1>2, <2>2 DEF Days
    <3>2. V[D - 1] = 0
      BY <1>3, <3>1
    <3> QED BY <2>2, <3>2 DEF PreviousDayVolume
  <2> QED BY <2>1, <2>2
<1>6. DAY - Elapsed(now) \in Nat
  BY <1>1, DivisionDef DEF Elapsed
<1>7. 0 * (DAY - Elapsed(now)) = 0 * DAY
  BY <1>1, <1>6
<1>8. (0 * DAY) \div DAY = 0
  BY <1>1, DivisionCancels
<1> HIDE DEF V
<1>9. RollingConsumed(a, k) = V[D] + (PreviousDayVolume(a, k, D) * (DAY - Elapsed(now))) \div DAY
  BY DEF RollingConsumed, V
<1> QED BY <1>4, <1>5, <1>7, <1>8, <1>9

\* An agent that has not spent a token for two days may spend its whole limit again,
\* whatever it spent before.
THEOREM BudgetRecoversHolds == Spec => []BudgetRecovers
<1>1. Init => DayVolumeInv
  BY DayVolumeInit
<1>2. DayVolumeInv /\ [Next]_vars => DayVolumeInv'
  BY DayVolumeStep
<1>3. DayVolumeInv => BudgetRecovers
  BY IdleBudget DEF BudgetRecovers
<1> QED BY <1>1, <1>2, <1>3, PTL DEF Spec

-----------------------------------------------------------------------------
(* The price of an exact-input swap.                                       *)

\* A minimum within s basis points of an expected amount, as the rounding division
\* measures it, is at least that share of every amount the expectation covers.
LEMMA SlippageFloor ==
    ASSUME NEW expected \in Nat \ {0}, NEW minimum \in Nat, NEW covered \in Nat,
           NEW s \in 0 .. MAX_BPS,
           minimum <= expected, covered <= expected,
           ((expected - minimum) * MAX_BPS) \div expected <= s
    PROVE  minimum * MAX_BPS >= covered * (MAX_BPS - (s + 1))
<1> DEFINE n == (expected - minimum) * MAX_BPS
           q == n \div expected
<1>1. n \in Nat /\ MAX_BPS \in Nat /\ s \in Nat
  BY DEF MAX_BPS
<1>2. q \in Nat /\ n % expected \in 0 .. expected - 1 /\ n = expected * q + (n % expected)
  BY <1>1, DivisionDef
<1>3. q <= s
  OBVIOUS
<1>4. n = expected * MAX_BPS - minimum * MAX_BPS
  BY DEF MAX_BPS
<1> HIDE DEF n, q
<1>5. expected * q \in Nat /\ expected * s \in Nat /\ expected * q <= expected * s
  BY <1>1, <1>2, <1>3, TimesMonotone
<1>6. minimum * MAX_BPS > expected * MAX_BPS - expected * s - expected
  BY <1>1, <1>2, <1>4, <1>5 DEF MAX_BPS
<1>7. CASE s + 1 <= MAX_BPS
  <2> DEFINE t == MAX_BPS - (s + 1)
  <2>1. t \in Nat
    BY <1>1, <1>7
  <2>2. expected * t = expected * MAX_BPS - expected * s - expected
    BY <1>1 DEF MAX_BPS
  <2> HIDE DEF t
  <2>3. t * covered \in Nat /\ t * expected \in Nat /\ t * covered <= t * expected
    BY <2>1, TimesMonotone
  <2>4. t * covered = covered * t /\ t * expected = expected * t
    BY <2>1
  <2>5. minimum * MAX_BPS \in Nat
    BY <1>1
  <2>6. minimum * MAX_BPS >= covered * t
    BY <1>6, <2>2, <2>3, <2>4, <2>5
  <2> QED BY <2>6 DEF t
<1>8. CASE s = MAX_BPS
  BY <1>8 DEF MAX_BPS
<1> QED BY <1>1, <1>7, <1>8

\* What validateAndConsume accepted was priced within both tolerances.
LEMMA ConsumePriced ==
    ASSUME TypeOK, NEW a \in Agents, NEW r \in Requests, Validate(a, r),
           r.swapType = SWAP_TYPE_EXACT_INPUT
    PROVE  r.minAmountOut * MAX_BPS
             >= ((OracleAmountOut(r) * (MAX_BPS - policy.maxOracleDeviationBps)) \div MAX_BPS)
                  * (MAX_BPS - (policy.maxSlippageBps + 1))
<1> DEFINE F == (OracleAmountOut(r) * (MAX_BPS - policy.maxOracleDeviationBps)) \div MAX_BPS
<1>1. /\ r \in SwapRequest /\ r.amountIn \in Nat /\ r.minAmountOut \in Nat
      /\ r.expectedAmountOut \in Nat
  BY ConstantAssumption DEF SwapRequest
<1>2. policy \in PolicyType /\ feed.rate \in Nat
  BY DEF TypeOK
<1>3. policy.maxOracleDeviationBps \in 0 .. MAX_BPS /\ policy.maxSlippageBps \in 0 .. MAX_BPS
  BY <1>2 DEF PolicyType
<1>4. OracleAmountOut(r) \in Nat /\ MAX_BPS - policy.maxOracleDeviationBps \in Nat
  <2>1. OracleAmountOut(r) = feed.rate * r.amountIn
    BY DEF OracleAmountOut
  <2>2. feed.rate * r.amountIn \in Nat
    BY <1>1, <1>2
  <2>3. \A x \in 0 .. MAX_BPS : MAX_BPS - x \in Nat
    BY DEF MAX_BPS
  <2> QED BY <1>3, <2>1, <2>2, <2>3
<1>5. OracleAmountOut(r) * (MAX_BPS - policy.maxOracleDeviationBps) \in Nat
  BY <1>4
<1>6. F \in Nat
  <2>1. MAX_BPS \in Nat \ {0}
    BY DEF MAX_BPS
  <2> QED BY <1>5, <2>1, DivisionDef
<1>7. F <= r.expectedAmountOut
  BY DEF Validate, OracleAgrees
<1>8. ExactInputConsistent(r)
  BY DEF Validate, QuoteConsistent, SWAP_TYPE_EXACT_INPUT, SWAP_TYPE_EXACT_OUTPUT
<1> HIDE DEF F
<1>9. r.minAmountOut * MAX_BPS >= F * (MAX_BPS - (policy.maxSlippageBps + 1))
  BY <1>1, <1>3, <1>6, <1>7, <1>8, SlippageFloor DEF ExactInputConsistent
<1> QED BY <1>9 DEF F

\* The prices of the swaps accepted so far, with the types that make it inductive.
PriceInv == TypeOK /\ PriceFloor

\* A swap is priced against the policy and the oracle's answer it is logged with; no
\* later step changes what was logged.
LEMMA PriceStep ==
    ASSUME PriceInv, [Next]_vars
    PROVE  PriceInv'
<1>1. TypeOK /\ TypeOK'
  BY TypeStep DEF PriceInv
<1>2. CASE LedgerIdle
  BY <1>1, <1>2 DEF LedgerIdle, PriceInv, PriceFloor
<1>3. ASSUME NEW s \in Addresses, NEW a \in Agents, NEW r \in Requests,
             ValidateAndConsume(s, a, r)
      PROVE  PriceFloor'
  <2> DEFINE e == [agent |-> a, request |-> r, at |-> now, policy |-> policy,
                   oracleOut |-> OracleAmountOut(r)]
             Priced(x) ==
                 x.request.swapType = SWAP_TYPE_EXACT_INPUT =>
                   x.request.minAmountOut * MAX_BPS
                     >= ((x.oracleOut * (MAX_BPS - x.policy.maxOracleDeviationBps)) \div MAX_BPS)
                          * (MAX_BPS - (x.policy.maxSlippageBps + 1))
  <2>1. e \in Event /\ log \in Seq(Event) /\ log' = Append(log, e)
    BY <1>1, <1>3, ConsumeLogs DEF ValidateAndConsume, TypeOK
  <2>2. Priced(e)
    <3>1. Validate(a, r)
      BY <1>3 DEF ValidateAndConsume
    <3> QED BY <1>1, <3>1, ConsumePriced
  <2>3. \A i \in DOMAIN log : Priced(log[i])
    BY DEF PriceInv, PriceFloor
  <2> HIDE DEF e, Priced
  <2>4. \A i \in DOMAIN log' : log'[i] = e \/ (i \in DOMAIN log /\ log'[i] = log[i])
    BY <2>1
  <2>5. \A i \in DOMAIN log' : Priced(log'[i])
    BY <2>2, <2>3, <2>4
  <2> QED BY <2>5 DEF PriceFloor, Priced
<1> QED
  BY <1>1, <1>2, <1>3, StepKinds DEF PriceInv

\* No exact-input swap was ever accepted below the oracle's price less the deviation and
\* the slippage the owner tolerated at that moment.
THEOREM PriceFloorHolds == Spec => []PriceFloor
<1>1. Init => PriceInv
  BY TypeInit DEF Init, PriceInv, PriceFloor
<1>2. PriceInv /\ [Next]_vars => PriceInv'
  BY PriceStep
<1>3. PriceInv => PriceFloor
  BY DEF PriceInv
<1> QED BY <1>1, <1>2, <1>3, PTL DEF Spec
-----------------------------------------------------------------------------
(* The ledger and the log.  The sums over the log are finite sums of       *)
(* naturals: the lemmas of ArithmeticLemmas apply.                         *)

AmountsIn == [i \in DOMAIN log |-> log[i].request.amountIn]

\* The events that spent agent a's token k on day d.
OnDay(a, k, d) == {i \in Spends(a, k) : DayKey(log[i].at) = d}

\* The log is finite and what its events spent are numbers.
LEMMA LogSums ==
    ASSUME TypeOK
    PROVE  /\ log \in Seq(Event) /\ Len(log) \in Nat /\ DOMAIN log = 1 .. Len(log)
           /\ IsFiniteSet(DOMAIN log)
           /\ \A i \in DOMAIN log : log[i] \in Event /\ AmountsIn[i] \in Nat
           /\ \A S \in SUBSET DOMAIN log : Spent(S) \in Nat
<1>1. log \in Seq(Event) /\ Len(log) \in Nat /\ DOMAIN log = 1 .. Len(log)
  BY DEF TypeOK
<1>2. IsFiniteSet(1 .. Len(log))
  BY <1>1, FS_Interval
<1>3. \A i \in DOMAIN log : log[i] \in Event
  BY <1>1
<1>4. \A i \in DOMAIN log : AmountsIn[i] \in Nat
  BY <1>3 DEF AmountsIn, Event, SwapRequest
<1>5. \A S \in SUBSET DOMAIN log : SumFunctionOnSet(AmountsIn, S) \in Nat
  BY <1>1, <1>2, <1>4, SumNat
<1> QED BY <1>1, <1>2, <1>3, <1>4, <1>5 DEF Spent, AmountsIn

\* A swap adds its own amount to the sums its event belongs to, and to no other.
LEMMA SpentGrows ==
    ASSUME TypeOK, NEW s \in Addresses, NEW a \in Agents, NEW r \in Requests,
           ValidateAndConsume(s, a, r)
    PROVE  LET e == [agent |-> a, request |-> r, at |-> now, policy |-> policy,
                     oracleOut |-> OracleAmountOut(r)]
               n == Len(log) + 1
           IN  /\ n \notin DOMAIN log /\ DOMAIN log' = DOMAIN log \cup {n} /\ log'[n] = e
               /\ \A i \in DOMAIN log : log'[i] = log[i]
               /\ \A S \in SUBSET DOMAIN log :
                     /\ Spent(S)' = Spent(S)
                     /\ \A T : T = S \cup {n} => Spent(T)' = Spent(S) + r.amountIn
<1> DEFINE e == [agent |-> a, request |-> r, at |-> now, policy |-> policy,
                 oracleOut |-> OracleAmountOut(r)]
           n == Len(log) + 1
           old == AmountsIn
           new == [i \in DOMAIN log' |-> log'[i].request.amountIn]
<1>1. e \in Event /\ r.amountIn \in Nat /\ log' = Append(log, e)
  BY ConsumeLogs DEF ValidateAndConsume
<1>2. /\ log \in Seq(Event) /\ Len(log) \in Nat /\ DOMAIN log = 1 .. Len(log)
      /\ IsFiniteSet(DOMAIN log) /\ \A i \in DOMAIN log : old[i] \in Nat
  BY LogSums
<1>3. /\ n \notin DOMAIN log /\ DOMAIN log' = DOMAIN log \cup {n} /\ log'[n] = e
      /\ \A i \in DOMAIN log : log'[i] = log[i]
  <2>1. DOMAIN log' = 1 .. n /\ log'[n] = e /\ \A i \in 1 .. Len(log) : log'[i] = log[i]
    BY <1>1, <1>2
  <2> QED BY <1>2, <2>1
<1>4. e.request = r
  OBVIOUS
<1> HIDE DEF e, n
<1>5. new[n] = r.amountIn /\ \A i \in DOMAIN log : new[i] = old[i]
  BY <1>3, <1>4 DEF AmountsIn
<1>6. IsFiniteSet(DOMAIN log') /\ \A i \in DOMAIN log' : new[i] \in Nat
  <2>1. IsFiniteSet(DOMAIN log \cup {n})
    BY <1>2, FS_AddElement
  <2>2. \A i \in DOMAIN log \cup {n} : new[i] \in Nat
    BY <1>1, <1>2, <1>5
  <2> QED BY <1>3, <2>1, <2>2
<1> HIDE DEF old, new
<1>7. ASSUME NEW S \in SUBSET DOMAIN log
      PROVE  /\ SumFunctionOnSet(new, S) = SumFunctionOnSet(old, S)
             /\ SumFunctionOnSet(new, S \cup {n}) = SumFunctionOnSet(old, S) + r.amountIn
  <2>1. IsFiniteSet(S) /\ \A i \in S : new[i] = old[i]
    BY <1>2, <1>5, FS_Subset
  <2>2. SumFunctionOnSet(new, S) = SumFunctionOnSet(old, S)
    BY <2>1, SumCongruent
  <2>3. S \cup {n} \in SUBSET DOMAIN log' /\ n \in S \cup {n} /\ (S \cup {n}) \ {n} = S
    BY <1>3
  <2>4. SumFunctionOnSet(new, S \cup {n}) = new[n] + SumFunctionOnSet(new, (S \cup {n}) \ {n})
    BY <1>6, <2>3, SumRemove
  <2>5. SumFunctionOnSet(old, S) \in Nat
    BY <1>2, SumNat
  <2>6. SumFunctionOnSet(new, S \cup {n}) = r.amountIn + SumFunctionOnSet(old, S)
    BY <1>5, <2>2, <2>3, <2>4
  <2> QED BY <1>1, <2>2, <2>5, <2>6
<1>8. ASSUME NEW S
      PROVE  Spent(S) = SumFunctionOnSet(old, S) /\ Spent(S)' = SumFunctionOnSet(new, S)
  BY DEF Spent, old, new, AmountsIn
<1>9. \A S \in SUBSET DOMAIN log :
         /\ Spent(S)' = Spent(S)
         /\ \A T : T = S \cup {n} => Spent(T)' = Spent(S) + r.amountIn
  BY <1>7, <1>8
<1> QED BY <1>3, <1>9 DEF e, n

\* The events that spent a token on a day, with a swap: those there were, and the new one
\* on its own agent, token and day.
LEMMA SpendsGrow ==
    ASSUME TypeOK, NEW s \in Addresses, NEW a \in Agents, NEW r \in Requests,
           ValidateAndConsume(s, a, r), NEW b \in Agents, NEW x \in Tokens
    PROVE  LET n == Len(log) + 1
           IN  /\ Spends(b, x) \in SUBSET DOMAIN log
               /\ Spends(b, x)' =
                     IF b = a /\ x = r.tokenIn THEN Spends(b, x) \cup {n} ELSE Spends(b, x)
<1> DEFINE e == [agent |-> a, request |-> r, at |-> now, policy |-> policy,
                 oracleOut |-> OracleAmountOut(r)]
           n == Len(log) + 1
<1>1. /\ n \notin DOMAIN log /\ DOMAIN log' = DOMAIN log \cup {n} /\ log'[n] = e
      /\ \A i \in DOMAIN log : log'[i] = log[i]
  BY SpentGrows
<1>2. e.agent = a /\ e.request = r
  OBVIOUS
<1> HIDE DEF e, n
<1>3. Spends(b, x)' =
        IF b = a /\ x = r.tokenIn THEN Spends(b, x) \cup {n} ELSE Spends(b, x)
  <2>1. Spends(b, x)' =
          {i \in DOMAIN log \cup {n} : log'[i].agent = b /\ log'[i].request.tokenIn = x}
    BY <1>1 DEF Spends
  <2>2. Spends(b, x) =
          {i \in DOMAIN log : log'[i].agent = b /\ log'[i].request.tokenIn = x}
    BY <1>1 DEF Spends
  <2> QED BY <1>1, <1>2, <2>1, <2>2
<1> QED BY <1>3 DEF Spends, n

\* The day volumes and the log agree, with the types that make it inductive.
AuditInv == TypeOK /\ VolumeIsAudited

\* A swap adds the same amount to the volume of its day and to the sum over that day's
\* events; no other step touches either.
LEMMA AuditStep ==
    ASSUME AuditInv, [Next]_vars
    PROVE  AuditInv'
<1>1. TypeOK /\ TypeOK'
  BY TypeStep DEF AuditInv
<1>2. CASE LedgerIdle
  BY <1>1, <1>2
  DEF LedgerIdle, ledger, AuditInv, VolumeIsAudited, Spent, Spends, DayKey
<1>3. ASSUME NEW s \in Addresses, NEW a \in Agents, NEW r \in Requests,
             ValidateAndConsume(s, a, r)
      PROVE  VolumeIsAudited'
  <2> DEFINE k == r.tokenIn
             today == DayKey(now)
             n == Len(log) + 1
  <2>1. /\ k \in Tokens /\ today \in Days /\ r.amountIn \in Nat
        /\ dailyVolumeByAgentToken \in [Agents -> [Tokens -> [Days -> Nat]]]
        /\ dailyVolumeByAgentToken' =
             [dailyVolumeByAgentToken EXCEPT ![a][k][today] = @ + r.amountIn]
    BY <1>1, <1>3, ConsumeLogs DEF ValidateAndConsume, AddVolume, TypeOK
  <2>2. /\ n \notin DOMAIN log /\ log'[n].at = now
        /\ \A i \in DOMAIN log : log'[i] = log[i]
        /\ \A S \in SUBSET DOMAIN log :
              /\ Spent(S)' = Spent(S)
              /\ \A T : T = S \cup {n} => Spent(T)' = Spent(S) + r.amountIn
    <3> DEFINE e == [agent |-> a, request |-> r, at |-> now, policy |-> policy,
                     oracleOut |-> OracleAmountOut(r)]
    <3>1. e.at = now
      OBVIOUS
    <3>2. /\ n \notin DOMAIN log /\ log'[n] = e
          /\ \A i \in DOMAIN log : log'[i] = log[i]
          /\ \A S \in SUBSET DOMAIN log :
                /\ Spent(S)' = Spent(S)
                /\ \A T : T = S \cup {n} => Spent(T)' = Spent(S) + r.amountIn
      BY <1>1, <1>3, SpentGrows
    <3> HIDE DEF e, n
    <3> QED BY <3>1, <3>2
  <2> HIDE DEF n, today, k
  <2>3. SUFFICES ASSUME NEW b \in Agents, NEW x \in Tokens, NEW y \in Days
                 PROVE  dailyVolumeByAgentToken'[b][x][y] = Spent(OnDay(b, x, y))'
    BY DEF VolumeIsAudited, OnDay
  <2>4. /\ Spends(b, x) \in SUBSET DOMAIN log
        /\ Spends(b, x)' = IF b = a /\ x = k THEN Spends(b, x) \cup {n} ELSE Spends(b, x)
    BY <1>1, <1>3, SpendsGrow DEF n, k
  <2>5. OnDay(b, x, y)' =
          IF b = a /\ x = k /\ y = today THEN OnDay(b, x, y) \cup {n} ELSE OnDay(b, x, y)
    <3>1. OnDay(b, x, y)' = {i \in Spends(b, x)' : DayKey(log'[i].at) = y}
      BY DEF OnDay, DayKey
    <3>2. OnDay(b, x, y) = {i \in Spends(b, x) : DayKey(log'[i].at) = y}
      BY <2>2, <2>4 DEF OnDay
    <3>3. DayKey(log'[n].at) = today
      BY <2>2 DEF today
    <3> QED BY <2>4, <3>1, <3>2, <3>3
  <2>6. dailyVolumeByAgentToken[b][x][y] = Spent(OnDay(b, x, y))
    BY DEF AuditInv, VolumeIsAudited, OnDay
  <2>7. OnDay(b, x, y) \in SUBSET DOMAIN log
    BY <2>4 DEF OnDay
  <2>8. Spent(OnDay(b, x, y))' =
          IF b = a /\ x = k /\ y = today
          THEN Spent(OnDay(b, x, y)) + r.amountIn ELSE Spent(OnDay(b, x, y))
    <3>1. \E T : T = OnDay(b, x, y)' /\ Spent(OnDay(b, x, y))' = Spent(T)'
      <4>1. \A T : T = OnDay(b, x, y)' => Spent(OnDay(b, x, y))' = Spent(T)'
        BY DEF Spent
      <4> QED BY <4>1
    <3> QED BY <2>2, <2>5, <2>7, <3>1
  <2>9. dailyVolumeByAgentToken'[b][x][y] =
          IF b = a /\ x = k /\ y = today
          THEN dailyVolumeByAgentToken[b][x][y] + r.amountIn
          ELSE dailyVolumeByAgentToken[b][x][y]
    BY <2>1
  <2> QED BY <2>6, <2>8, <2>9
<1> QED
  BY <1>1, <1>2, <1>3, StepKinds DEF AuditInv

\* Before the first swap nothing is charged and nothing is logged.
LEMMA AuditInit == Init => AuditInv
<1> SUFFICES ASSUME Init PROVE VolumeIsAudited
  BY TypeInit DEF AuditInv
<1>1. \A a \in Agents, k \in Tokens, d \in Days :
         {i \in Spends(a, k) : DayKey(log[i].at) = d} = {}
  BY DEF Init, Spends
<1>2. Spent({}) = 0
  BY SumEmpty DEF Spent
<1>3. \A a \in Agents, k \in Tokens, d \in Days : dailyVolumeByAgentToken[a][k][d] = 0
  BY DEF Init
<1> QED BY <1>1, <1>2, <1>3 DEF VolumeIsAudited

\* The volume charged to an agent's token on a day is the sum of what its accepted swaps
\* of that day spent: the ledger is the log, added up.
THEOREM VolumeAlwaysAudited == Spec => []VolumeIsAudited
<1>1. Init => AuditInv
  BY AuditInit
<1>2. AuditInv /\ [Next]_vars => AuditInv'
  BY AuditStep
<1>3. AuditInv => VolumeIsAudited
  BY DEF AuditInv
<1> QED BY <1>1, <1>2, <1>3, PTL DEF Spec

-----------------------------------------------------------------------------
(* Any 24 hours.  A window of a day's length reaches back into yesterday   *)
(* at most.  What binds its sum is the check each swap passed: its own     *)
(* day's volume so far, and yesterday's weighted, within its limit.  That  *)
(* check stays true of the log because yesterday is over.                  *)

\* The events of event j's day up to j itself.
SoFar(a, k, j) == {i \in OnDay(a, k, DayKey(log[j].at)) : i <= j}

\* The log is in the order of its timestamps, none of them in the future.
LogOrdered ==
    \A i, j \in DOMAIN log : i <= j => /\ StartTime <= log[i].at
                                       /\ log[i].at <= log[j].at
                                       /\ log[j].at <= now

\* The check of each swap, in terms of the log.
WeightedAtSwap ==
    \A a \in Agents, k \in Tokens : \A j \in Spends(a, k) :
        Spent(SoFar(a, k, j))
          + (Spent(OnDay(a, k, DayKey(log[j].at) - 1)) * (DAY - Elapsed(log[j].at))) \div DAY
        <= EffectiveLimit(log[j].policy, k)

\* The checks the swaps passed still hold of the log, with the order of the log and the
\* ledger's agreement with it, which make it inductive.
WeightedInv == AuditInv /\ DayVolumeWithinLimit /\ LogOrdered /\ WeightedAtSwap

\* Deployment is in day 1 or later, so that every day a swap falls in has a day before.
LEMMA NotDayZero ==
    ASSUME NEW t \in StartTime .. MaxTime
    PROVE  DayKey(t) \in Nat /\ DayKey(t) >= 1 /\ DayKey(t) \in Days /\ DayKey(t) - 1 \in Days
<1>1. DAY \in Nat \ {0} /\ t \in Nat /\ MaxTime \in Nat /\ DAY <= t /\ 1 * DAY \in Nat
      /\ 1 * DAY <= t
  BY TimeAssumption
<1>2. (1 * DAY) \div DAY = 1
  BY <1>1, 1 \in Nat, DivisionCancels
<1>3. (1 * DAY) \div DAY <= t \div DAY
  BY <1>1, DivisionMonotone
<1>4. DayKey(t) \in Nat /\ DayKey(t) >= 1
  BY <1>1, <1>2, <1>3, DivisionDef DEF DayKey
<1>5. DayKey(t) \in Days /\ MaxTime \div DAY \in Nat
  BY <1>1, DayKeyInDays, DivisionDef
<1> QED BY <1>4, <1>5 DEF Days

\* Steps that are not swaps leave the log alone and only let time pass.
LEMMA WeightedIdle ==
    ASSUME WeightedInv, LedgerIdle
    PROVE  LogOrdered' /\ WeightedAtSwap'
<1>1. log' = log /\ now' \in Nat /\ now <= now' /\ now \in Nat
  BY TimeAssumption DEF LedgerIdle, WeightedInv, AuditInv, TypeOK
<1>2. \A i \in DOMAIN log : log[i].at \in Nat
  BY LogSums DEF WeightedInv, AuditInv, Event
<1>3. LogOrdered'
  BY <1>1, <1>2 DEF WeightedInv, LogOrdered
<1>4. WeightedAtSwap'
  BY <1>1 DEF WeightedInv, WeightedAtSwap, SoFar, OnDay, Spends, Spent, DayKey, Elapsed
<1> QED BY <1>3, <1>4

\* A swap keeps the log in order.
LEMMA OrderedSwap ==
    ASSUME WeightedInv, NEW s \in Addresses, NEW a \in Agents, NEW r \in Requests,
           ValidateAndConsume(s, a, r)
    PROVE  LogOrdered'
<1> DEFINE e == [agent |-> a, request |-> r, at |-> now, policy |-> policy,
                 oracleOut |-> OracleAmountOut(r)]
           n == Len(log) + 1
<1>1. TypeOK
  BY DEF WeightedInv, AuditInv
<1>2. /\ DOMAIN log' = DOMAIN log \cup {n} /\ log'[n] = e /\ n \notin DOMAIN log
      /\ \A i \in DOMAIN log : log'[i] = log[i]
  BY <1>1, SpentGrows
<1>3. /\ Len(log) \in Nat /\ DOMAIN log = 1 .. Len(log)
      /\ \A i \in DOMAIN log : log[i].at \in Nat
  BY <1>1, LogSums DEF Event
<1>4. now \in Nat /\ StartTime <= now /\ now' = now /\ StartTime \in Nat
  BY <1>1, TimeAssumption DEF TypeOK, ValidateAndConsume
<1>5. e.at = now
  OBVIOUS
<1>6. \A i \in DOMAIN log : i < n
  BY <1>3
<1>7. \A i, j \in DOMAIN log : i <= j => /\ StartTime <= log[i].at
                                         /\ log[i].at <= log[j].at
                                         /\ log[j].at <= now
  BY DEF WeightedInv, LogOrdered
<1>8. n \in Nat /\ DOMAIN log \subseteq Nat
  BY <1>3
<1> HIDE DEF e, n
<1>9. ASSUME NEW i \in DOMAIN log', NEW j \in DOMAIN log', i <= j
      PROVE  StartTime <= log'[i].at /\ log'[i].at <= log'[j].at /\ log'[j].at <= now
  <2>1. CASE i \in DOMAIN log /\ j \in DOMAIN log
    BY <1>2, <1>7, <1>9, <2>1
  <2>2. CASE i \in DOMAIN log /\ j = n
    <3>1. StartTime <= log[i].at /\ log[i].at <= now
      BY <1>7, <1>8, <2>2
    <3> QED BY <1>2, <1>4, <1>5, <2>2, <3>1
  <2>3. CASE i = n /\ j = n
    BY <1>2, <1>4, <1>5, <2>3
  <2>4. CASE i = n /\ j \in DOMAIN log
    BY <1>6, <1>8, <1>9, <2>4
  <2> QED BY <1>2, <2>1, <2>2, <2>3, <2>4
<1> QED BY <1>4, <1>9 DEF LogOrdered

\* How a swap changes the sets of events the weighted check adds up.
LEMMA DaysGrow ==
    ASSUME WeightedInv, NEW s \in Addresses, NEW a \in Agents, NEW r \in Requests,
           ValidateAndConsume(s, a, r), NEW b \in Agents, NEW x \in Tokens
    PROVE  LET n == Len(log) + 1
           IN  /\ \A y : OnDay(b, x, y) \in SUBSET DOMAIN log
               /\ \A y : OnDay(b, x, y)' =
                     IF b = a /\ x = r.tokenIn /\ y = DayKey(now)
                     THEN OnDay(b, x, y) \cup {n} ELSE OnDay(b, x, y)
<1> DEFINE e == [agent |-> a, request |-> r, at |-> now, policy |-> policy,
                 oracleOut |-> OracleAmountOut(r)]
           n == Len(log) + 1
<1>1. TypeOK
  BY DEF WeightedInv, AuditInv
<1>2. /\ log'[n] = e /\ n \notin DOMAIN log
      /\ \A i \in DOMAIN log : log'[i] = log[i]
  BY <1>1, SpentGrows
<1>3. /\ Spends(b, x) \in SUBSET DOMAIN log
      /\ Spends(b, x)' =
            IF b = a /\ x = r.tokenIn THEN Spends(b, x) \cup {n} ELSE Spends(b, x)
  BY <1>1, SpendsGrow
<1>4. e.at = now
  OBVIOUS
<1> HIDE DEF e, n
<1>5. ASSUME NEW y
      PROVE  OnDay(b, x, y)' = IF b = a /\ x = r.tokenIn /\ y = DayKey(now)
                               THEN OnDay(b, x, y) \cup {n} ELSE OnDay(b, x, y)
  <2>1. OnDay(b, x, y)' = {i \in Spends(b, x)' : DayKey(log'[i].at) = y}
    BY DEF OnDay, DayKey
  <2>2. OnDay(b, x, y) = {i \in Spends(b, x) : DayKey(log'[i].at) = y}
    BY <1>2, <1>3 DEF OnDay
  <2> QED BY <1>2, <1>3, <1>4, <2>1, <2>2
<1>6. \A y : OnDay(b, x, y) \in SUBSET DOMAIN log
  BY <1>3 DEF OnDay
<1> QED BY <1>5, <1>6 DEF n

\* The check the new swap passed holds of the log with its event in it.
LEMMA WeightedNew ==
    ASSUME WeightedInv, NEW s \in Addresses, NEW a \in Agents, NEW r \in Requests,
           ValidateAndConsume(s, a, r)
    PROVE  \A T, Y :
              (/\ T = OnDay(a, r.tokenIn, DayKey(now)) \cup {Len(log) + 1}
               /\ Y = OnDay(a, r.tokenIn, DayKey(now) - 1))
              => Spent(T)' + (Spent(Y)' * (DAY - Elapsed(now))) \div DAY
                   <= EffectiveLimit(policy, r.tokenIn)
<1> DEFINE k == r.tokenIn
           d == DayKey(now)
<1>1. TypeOK /\ VolumeIsAudited
  BY DEF WeightedInv, AuditInv
<1>2. k \in Tokens /\ r.amountIn \in Nat /\ now \in StartTime .. MaxTime
  BY <1>1, ConsumeLogs DEF TypeOK
<1>3. d \in Nat /\ d >= 1 /\ d \in Days /\ d - 1 \in Days
  BY <1>2, NotDayZero
<1>4. /\ dailyVolumeByAgentToken[a][k][d] = Spent(OnDay(a, k, d))
      /\ dailyVolumeByAgentToken[a][k][d - 1] = Spent(OnDay(a, k, d - 1))
  BY <1>1, <1>2, <1>3 DEF VolumeIsAudited, OnDay
<1>5. RollingConsumed(a, k) + r.amountIn <= EffectiveLimit(policy, k)
  BY DEF ValidateAndConsume, Validate, WithinDailyLimit
<1>6. PreviousDayVolume(a, k, d) = Spent(OnDay(a, k, d - 1))
  BY <1>3, <1>4 DEF PreviousDayVolume
<1>7. RollingConsumed(a, k) =
        Spent(OnDay(a, k, d)) + (Spent(OnDay(a, k, d - 1)) * (DAY - Elapsed(now))) \div DAY
  BY <1>4, <1>6 DEF RollingConsumed
<1>8. OnDay(a, k, d) \in SUBSET DOMAIN log /\ OnDay(a, k, d - 1) \in SUBSET DOMAIN log
  BY <1>2, DaysGrow
<1>9. /\ \A T : T = OnDay(a, k, d) \cup {Len(log) + 1} =>
            Spent(T)' = Spent(OnDay(a, k, d)) + r.amountIn
      /\ \A Y : Y = OnDay(a, k, d - 1) => Spent(Y)' = Spent(OnDay(a, k, d - 1))
  BY <1>1, <1>8, SpentGrows
<1>10. /\ Spent(OnDay(a, k, d)) \in Nat
       /\ (Spent(OnDay(a, k, d - 1)) * (DAY - Elapsed(now))) \div DAY \in Nat
  BY <1>1, <1>2, <1>4, <1>6, RollingParts
<1> TAKE T, Y
<1> HAVE /\ T = OnDay(a, k, d) \cup {Len(log) + 1}
         /\ Y = OnDay(a, k, d - 1)
<1>11. /\ Spent(T)' = Spent(OnDay(a, k, d)) + r.amountIn
       /\ Spent(Y)' = Spent(OnDay(a, k, d - 1))
  BY <1>9
<1>12. Spent(T)' + (Spent(Y)' * (DAY - Elapsed(now))) \div DAY
         = RollingConsumed(a, k) + r.amountIn
  BY <1>2, <1>7, <1>10, <1>11
<1> QED BY <1>5, <1>12

\* A swap leaves the sums of the earlier checks alone: its event comes after those events,
\* and no earlier than any of their days.
LEMMA WeightedSwap ==
    ASSUME WeightedInv, NEW s \in Addresses, NEW a \in Agents, NEW r \in Requests,
           ValidateAndConsume(s, a, r)
    PROVE  WeightedAtSwap'
<1> DEFINE e == [agent |-> a, request |-> r, at |-> now, policy |-> policy,
                 oracleOut |-> OracleAmountOut(r)]
           n == Len(log) + 1
           k == r.tokenIn
           d == DayKey(now)
<1>1. TypeOK
  BY DEF WeightedInv, AuditInv
<1>2. /\ log'[n] = e /\ n \notin DOMAIN log
      /\ \A i \in DOMAIN log : log'[i] = log[i]
      /\ \A S \in SUBSET DOMAIN log : Spent(S)' = Spent(S)
  BY <1>1, SpentGrows
<1>3. /\ Len(log) \in Nat /\ DOMAIN log = 1 .. Len(log)
      /\ \A i \in DOMAIN log : log[i].at \in Nat
  BY <1>1, LogSums DEF Event
<1>4. now \in Nat /\ DAY \in Nat \ {0} /\ d \in Nat
  <2>1. now \in Nat /\ DAY \in Nat \ {0}
    BY <1>1, TimeAssumption DEF TypeOK
  <2> QED BY <2>1, DivisionDef DEF DayKey
<1>5. e.at = now /\ e.policy = policy
  OBVIOUS
<1>6. \A i \in DOMAIN log : i < n
  BY <1>3
<1>7. \A T, Y : (T = OnDay(a, k, d) \cup {n} /\ Y = OnDay(a, k, d - 1))
                => Spent(T)' + (Spent(Y)' * (DAY - Elapsed(now))) \div DAY
                     <= EffectiveLimit(policy, k)
  BY WeightedNew
<1>8. n \in Nat /\ DOMAIN log \subseteq Nat
  BY <1>3
<1> HIDE DEF e, n
<1>9. SUFFICES ASSUME NEW b \in Agents, NEW x \in Tokens, NEW j, j \in Spends(b, x)'
               PROVE  Spent(SoFar(b, x, j))'
                        + (Spent(OnDay(b, x, DayKey(log[j].at) - 1))'
                             * (DAY - Elapsed(log'[j].at))) \div DAY
                      <= EffectiveLimit(log'[j].policy, x)
  BY DEF WeightedAtSwap, Elapsed, EffectiveLimit, ScaledDefaultLimit
<1>10. PICK y : y = DayKey(log'[j].at)
  OBVIOUS
<1>11. SoFar(b, x, j)' = {i \in OnDay(b, x, y)' : i <= j}
  BY <1>10 DEF SoFar, OnDay, DayKey
<1>12. OnDay(b, x, DayKey(log[j].at) - 1)' = OnDay(b, x, y - 1)'
  BY <1>10 DEF OnDay, DayKey
<1>13. PICK T, Y : T = SoFar(b, x, j)' /\ Y = OnDay(b, x, y - 1)'
  OBVIOUS
<1>14. Spent(SoFar(b, x, j))' = Spent(T)'
  BY <1>13 DEF Spent
<1>15. Spent(OnDay(b, x, DayKey(log[j].at) - 1))' = Spent(Y)'
  BY <1>12, <1>13 DEF Spent
<1>16. /\ \A z : OnDay(b, x, z) \in SUBSET DOMAIN log
       /\ \A z : OnDay(b, x, z)' = IF b = a /\ x = k /\ z = d
                                   THEN OnDay(b, x, z) \cup {n} ELSE OnDay(b, x, z)
       /\ Spends(b, x)' = IF b = a /\ x = k THEN Spends(b, x) \cup {n} ELSE Spends(b, x)
       /\ Spends(b, x) \in SUBSET DOMAIN log
  <2>1. /\ \A z : OnDay(b, x, z) \in SUBSET DOMAIN log
        /\ \A z : OnDay(b, x, z)' = IF b = a /\ x = k /\ z = d
                                    THEN OnDay(b, x, z) \cup {n} ELSE OnDay(b, x, z)
    BY DaysGrow DEF n
  <2>2. /\ Spends(b, x)' = IF b = a /\ x = k THEN Spends(b, x) \cup {n} ELSE Spends(b, x)
        /\ Spends(b, x) \in SUBSET DOMAIN log
    BY <1>1, SpendsGrow DEF n
  <2> QED BY <2>1, <2>2
<1>17. CASE j = n
  <2>1. b = a /\ x = k
    BY <1>2, <1>9, <1>16, <1>17
  <2>2. y = d /\ log'[j].at = now /\ log'[j].policy = policy
    BY <1>2, <1>5, <1>10, <1>17
  <2>3. d # d - 1
    BY <1>4
  <2>4. T = OnDay(a, k, d) \cup {n}
    <3>1. OnDay(b, x, y)' = OnDay(a, k, d) \cup {n}
      BY <1>16, <2>1, <2>2
    <3>2. \A i \in OnDay(a, k, d) \cup {n} : i <= n
      <4>1. \A i \in OnDay(a, k, d) : i \in DOMAIN log
        BY <1>16, <2>1
      <4> QED BY <1>6, <1>8, <4>1
    <3>3. T = {i \in OnDay(b, x, y)' : i <= n}
      BY <1>11, <1>13, <1>17
    <3> QED BY <3>1, <3>2, <3>3
  <2>5. Y = OnDay(a, k, d - 1)
    BY <1>13, <1>16, <2>1, <2>2, <2>3
  <2> QED BY <1>7, <1>14, <1>15, <2>1, <2>2, <2>4, <2>5
<1>18. CASE j # n
  <2>1. j \in Spends(b, x) /\ j \in DOMAIN log /\ log'[j] = log[j]
    BY <1>2, <1>9, <1>16, <1>18
  <2>2. y \in Nat /\ y <= d /\ y = DayKey(log[j].at)
    <3>1. log[j].at <= now /\ log[j].at \in Nat
      BY <1>3, <2>1 DEF WeightedInv, LogOrdered
    <3> QED BY <1>4, <1>10, <2>1, <3>1, DivisionDef, DivisionMonotone DEF DayKey
  <2>3. y - 1 # d
    BY <1>4, <2>2
  <2>4. T = SoFar(b, x, j) /\ T \in SUBSET DOMAIN log
    <3>1. ~(n <= j)
      BY <1>6, <1>8, <2>1
    <3>2. SoFar(b, x, j) = {i \in OnDay(b, x, y) : i <= j}
      BY <2>2 DEF SoFar
    <3> QED BY <1>11, <1>13, <1>16, <3>1, <3>2
  <2>5. Y = OnDay(b, x, y - 1) /\ Y \in SUBSET DOMAIN log
    BY <1>13, <1>16, <2>3
  <2>6. Spent(T)' = Spent(SoFar(b, x, j)) /\ Spent(Y)' = Spent(OnDay(b, x, y - 1))
    BY <1>2, <2>4, <2>5
  <2>7. Spent(SoFar(b, x, j))
          + (Spent(OnDay(b, x, y - 1)) * (DAY - Elapsed(log[j].at))) \div DAY
        <= EffectiveLimit(log[j].policy, x)
    BY <2>1, <2>2 DEF WeightedInv, WeightedAtSwap
  <2> QED BY <1>14, <1>15, <2>1, <2>6, <2>7
<1> QED BY <1>17, <1>18

\* Every step of the guard keeps the checks its swaps passed true of the log.
LEMMA WeightedStep ==
    ASSUME WeightedInv, [Next]_vars
    PROVE  WeightedInv'
<1>1. TypeOK /\ AuditInv /\ DayVolumeInv
  BY DEF WeightedInv, AuditInv, DayVolumeInv
<1>2. AuditInv'
  BY <1>1, AuditStep
<1>3. DayVolumeWithinLimit'
  BY <1>1, DayVolumeStep DEF DayVolumeInv
<1>4. LogOrdered' /\ WeightedAtSwap'
  <2>1. CASE LedgerIdle
    BY <2>1, WeightedIdle
  <2>2. ASSUME NEW s \in Addresses, NEW a \in Agents, NEW r \in Requests,
               ValidateAndConsume(s, a, r)
        PROVE  LogOrdered' /\ WeightedAtSwap'
    BY <2>2, OrderedSwap, WeightedSwap
  <2> QED BY <1>1, <2>1, <2>2, StepKinds
<1> QED BY <1>2, <1>3, <1>4 DEF WeightedInv

\* A window of a day's length that ends at event j lies within j's day up to j and the day
\* before.
LEMMA WindowInTwoDays ==
    ASSUME WeightedInv, NEW a \in Agents, NEW k \in Tokens, NEW j \in Spends(a, k)
    PROVE  {i \in Spends(a, k) : i <= j /\ log[i].at > log[j].at - DAY}
              \subseteq SoFar(a, k, j) \cup OnDay(a, k, DayKey(log[j].at) - 1)
<1> DEFINE d == DayKey(log[j].at)
<1>1. TypeOK /\ DAY \in Nat \ {0} /\ 1 * DAY = DAY
  BY TimeAssumption DEF WeightedInv, AuditInv
<1>2. /\ j \in DOMAIN log /\ Spends(a, k) \subseteq DOMAIN log
      /\ \A i \in DOMAIN log : log[i].at \in Nat
  BY <1>1, LogSums DEF Spends, Event
<1>3. SUFFICES ASSUME NEW i \in Spends(a, k), i <= j, log[i].at > log[j].at - DAY
               PROVE  i \in SoFar(a, k, j) \cup OnDay(a, k, d - 1)
  OBVIOUS
<1> DEFINE x == log[i].at
           y == log[j].at
<1>4. x \in Nat /\ y \in Nat /\ x <= y
  BY <1>2, <1>3 DEF WeightedInv, LogOrdered
<1>5. x > y - DAY
  BY <1>3
<1>6. d = y \div DAY /\ DayKey(log[i].at) = x \div DAY
  BY DEF DayKey
<1> HIDE DEF x, y, d
<1>7. x + 1 * DAY \in Nat /\ y <= x + 1 * DAY
  BY <1>1, <1>4, <1>5
<1>8. x \div DAY <= y \div DAY /\ x \div DAY \in Nat /\ y \div DAY \in Nat
  BY <1>1, <1>4, DivisionDef, DivisionMonotone
<1>9. y \div DAY <= (x + 1 * DAY) \div DAY
  BY <1>1, <1>4, <1>7, DivisionMonotone
<1>10. (x + 1 * DAY) \div DAY = (x \div DAY) + 1
  BY <1>1, <1>4, 1 \in Nat, DivisionShift
<1>11. DayKey(log[i].at) = d \/ DayKey(log[i].at) = d - 1
  BY <1>6, <1>8, <1>9, <1>10
<1> QED BY <1>3, <1>11 DEF SoFar, OnDay, d

\* The limits an agent's swaps of a token were checked against have a largest, and the
\* volume of each day is within it.
LEMMA LargestLimit ==
    ASSUME WeightedInv, NEW a \in Agents, NEW k \in Tokens, NEW j \in Spends(a, k)
    PROVE  LET limit == Max({EffectiveLimit(log[i].policy, k) : i \in Spends(a, k)})
           IN  /\ limit \in Nat
               /\ EffectiveLimit(log[j].policy, k) <= limit
               /\ \A d \in Days : Spent(OnDay(a, k, d)) <= limit
<1> DEFINE S == Spends(a, k)
           f == [i \in S |-> EffectiveLimit(log[i].policy, k)]
           T == {EffectiveLimit(log[i].policy, k) : i \in S}
<1>1. TypeOK /\ VolumeIsAudited /\ DayVolumeWithinLimit
  BY DEF WeightedInv, AuditInv
<1>2. IsFiniteSet(S) /\ \A i \in S : log[i].policy \in PolicyType
  <2>1. IsFiniteSet(DOMAIN log) /\ \A i \in DOMAIN log : log[i].policy \in PolicyType
    BY <1>1, LogSums DEF Event
  <2>2. S \in SUBSET DOMAIN log
    BY DEF Spends
  <2> QED BY <2>1, <2>2, FS_Subset
<1>3. \A i \in S : EffectiveLimit(log[i].policy, k) \in Nat
  BY <1>2, LimitNat
<1>4. IsFiniteSet(T)
  <2>1. f \in Surjection(S, T)
    BY DEF Surjection
  <2> HIDE DEF f, T, S
  <2> QED BY <1>2, <2>1, FS_Surjection
<1>5. T # {} /\ \A x \in T : x \in Nat
  BY <1>3
<1>6. \A i \in S : EffectiveLimit(log[i].policy, k) \in T
  OBVIOUS
<1>7. Max(T) \in T /\ \A x \in T : Max(T) >= x
  <2>1. \A x \in T : x \in Int
    BY <1>5
  <2> HIDE DEF T
  <2> QED BY <1>4, <1>5, <2>1, MaxIsLargest
<1>8. \A d \in Days : Spent(OnDay(a, k, d)) <= Max(T)
  <2> SUFFICES ASSUME NEW d \in Days PROVE Spent(OnDay(a, k, d)) <= Max(T)
    OBVIOUS
  <2>1. Spent(OnDay(a, k, d)) = dailyVolumeByAgentToken[a][k][d]
    BY <1>1 DEF VolumeIsAudited, OnDay
  <2>2. dailyVolumeByAgentToken[a][k][d] \in Nat
    BY <1>1 DEF TypeOK
  <2>3. CASE dailyVolumeByAgentToken[a][k][d] = 0
    <3> HIDE DEF T
    <3> QED BY <1>5, <1>7, <2>1, <2>3
  <2>4. CASE dailyVolumeByAgentToken[a][k][d] # 0
    <3>1. PICK i \in S : dailyVolumeByAgentToken[a][k][d] <= EffectiveLimit(log[i].policy, k)
      BY <1>1, <2>4 DEF DayVolumeWithinLimit
    <3>2. EffectiveLimit(log[i].policy, k) \in T
      BY <1>6
    <3>3. Max(T) >= EffectiveLimit(log[i].policy, k)
      BY <1>7, <3>2
    <3> HIDE DEF T
    <3> QED BY <1>3, <1>5, <1>7, <2>1, <2>2, <3>1, <3>3
  <2> QED BY <2>3, <2>4
<1>9. EffectiveLimit(log[j].policy, k) <= Max(T)
  <2>1. Max(T) >= EffectiveLimit(log[j].policy, k)
    BY <1>6, <1>7
  <2> HIDE DEF T
  <2> QED BY <1>3, <1>5, <1>7, <2>1
<1> QED BY <1>5, <1>7, <1>8, <1>9

\* The check of the window's last swap bounds its own day and the weighted part of
\* yesterday; what the weight left out is at most the freed share of the limit.
LEMMA WindowBound ==
    ASSUME WeightedInv, NEW a \in Agents, NEW k \in Tokens, NEW j \in Spends(a, k)
    PROVE  LET window == {i \in Spends(a, k) : i <= j /\ log[i].at > log[j].at - DAY}
               limit == Max({EffectiveLimit(log[i].policy, k) : i \in Spends(a, k)})
               freed == (limit * (log[j].at % DAY) + DAY - 1) \div DAY
           IN  Spent(window) <= limit + freed
<1> DEFINE window == {i \in Spends(a, k) : i <= j /\ log[i].at > log[j].at - DAY}
           limit == Max({EffectiveLimit(log[i].policy, k) : i \in Spends(a, k)})
           e == log[j].at % DAY
           d == DayKey(log[j].at)
           X == SoFar(a, k, j)
           Y == OnDay(a, k, d - 1)
           kept == (Spent(Y) * (DAY - e)) \div DAY
           freed == (limit * e + DAY - 1) \div DAY
<1>1. TypeOK
  BY DEF WeightedInv, AuditInv
<1>2. log[j].at \in StartTime .. MaxTime
  <2>1. j \in DOMAIN log /\ log[j].at \in Nat /\ j <= j /\ now \in StartTime .. MaxTime
    <3>1. j \in DOMAIN log /\ now \in StartTime .. MaxTime
      BY <1>1 DEF Spends, TypeOK
    <3>2. log[j].at \in Nat /\ j \in Int
      BY <1>1, <3>1, LogSums DEF Event
    <3> QED BY <3>1, <3>2
  <2>2. StartTime <= log[j].at /\ log[j].at <= now
    BY <2>1 DEF WeightedInv, LogOrdered
  <2> QED BY <2>1, <2>2, TimeAssumption
<1>3. d \in Nat /\ d - 1 \in Days
  BY <1>2, NotDayZero
<1>4. DAY \in Nat \ {0} /\ e \in 0 .. DAY - 1
  <2>1. log[j].at \in Nat /\ DAY \in Nat \ {0}
    BY <1>2, TimeAssumption
  <2> QED BY <2>1, DivisionDef
<1>5. /\ limit \in Nat /\ EffectiveLimit(log[j].policy, k) <= limit
      /\ \A y \in Days : Spent(OnDay(a, k, y)) <= limit
  BY LargestLimit
<1>6. Spent(X) + kept <= EffectiveLimit(log[j].policy, k)
  BY DEF WeightedInv, WeightedAtSwap, Elapsed
<1>7. EffectiveLimit(log[j].policy, k) \in Nat
  <2>1. log[j].policy \in PolicyType
    BY <1>1, LogSums DEF Spends, Event
  <2> QED BY <2>1, LimitNat
<1>8. X \in SUBSET DOMAIN log /\ Y \in SUBSET DOMAIN log /\ X \cap Y = {}
      /\ window \in SUBSET (X \cup Y)
  <2>1. X \in SUBSET DOMAIN log /\ Y \in SUBSET DOMAIN log
    BY DEF SoFar, OnDay, Spends
  <2>2. \A i \in X : DayKey(log[i].at) = d
    BY DEF SoFar, OnDay
  <2>3. \A i \in Y : DayKey(log[i].at) = d - 1
    BY DEF OnDay
  <2>4. d # d - 1
    BY <1>3
  <2>5. window \subseteq X \cup Y
    BY WindowInTwoDays
  <2> HIDE DEF window, X, Y, d
  <2> QED BY <2>1, <2>2, <2>3, <2>4, <2>5
<1> HIDE DEF window, limit, e, d, X, Y
<1>9. Spent(window) \in Nat /\ Spent(X) \in Nat /\ Spent(Y) \in Nat
      /\ Spent(window) <= Spent(X) + Spent(Y)
  <2>1. /\ IsFiniteSet(DOMAIN log) /\ \A i \in DOMAIN log : AmountsIn[i] \in Nat
        /\ \A S \in SUBSET DOMAIN log : Spent(S) \in Nat
    BY <1>1, LogSums
  <2>2. X \cup Y \in SUBSET DOMAIN log /\ IsFiniteSet(X \cup Y)
        /\ \A i \in X \cup Y : AmountsIn[i] \in Nat
    BY <1>8, <2>1, FS_Subset
  <2>3. SumFunctionOnSet(AmountsIn, window) <= SumFunctionOnSet(AmountsIn, X \cup Y)
    BY <1>8, <2>2, SumMonotone
  <2>4. SumFunctionOnSet(AmountsIn, X \cup Y)
          = SumFunctionOnSet(AmountsIn, X) + SumFunctionOnSet(AmountsIn, Y)
    BY <1>8, <2>1, SumUnion
  <2>5. \A S : Spent(S) = SumFunctionOnSet(AmountsIn, S)
    BY DEF Spent, AmountsIn
  <2> QED BY <1>8, <2>1, <2>3, <2>4, <2>5
<1>10. Spent(Y) <= limit
  BY <1>3, <1>5 DEF Y
<1>11. kept \in Nat /\ freed \in Nat /\ Spent(Y) <= kept + freed
  BY <1>4, <1>5, <1>9, <1>10, WeightLeftOut
<1> HIDE DEF kept, freed
<1>12. Spent(window) <= limit + freed
  BY <1>5, <1>6, <1>7, <1>9, <1>11
<1> QED BY <1>12 DEF window, limit, freed, e

\* In any 24 hours an agent spends at most the largest limit in force and the share of it
\* that time since midnight has freed: no two full budgets meet at midnight.
THEOREM AnyDayBounded == Spec => []AnyDayWithinWeightedLimit
<1>1. Init => WeightedInv
  <2> SUFFICES ASSUME Init PROVE WeightedInv
    OBVIOUS
  <2>1. AuditInv /\ DayVolumeInv
    BY AuditInit, DayVolumeInit
  <2>2. DOMAIN log = {}
    BY DEF Init
  <2>3. LogOrdered /\ WeightedAtSwap
    BY <2>2 DEF LogOrdered, WeightedAtSwap, Spends
  <2> QED BY <2>1, <2>3 DEF WeightedInv, DayVolumeInv
<1>2. WeightedInv /\ [Next]_vars => WeightedInv'
  BY WeightedStep
<1>3. WeightedInv => AnyDayWithinWeightedLimit
  BY WindowBound DEF AnyDayWithinWeightedLimit
<1> QED BY <1>1, <1>2, <1>3, PTL DEF Spec
=============================================================================
