---------------------------- MODULE ServiceProofs ----------------------------
(***************************************************************************)
(* Proofs about nine of the smaller components: the balance cache, the     *)
(* harvests over it, the signer, the deployment, the soak, the price       *)
(* oracle, the rate limiter, the alerts and the audit files.               *)
(* Each has an invariant that adds to the property what is under way: an   *)
(* answer not stored yet, a report not written yet, tokens not spent yet.  *)
(***************************************************************************)
EXTENDS Harvest, Signing, Deployment, Soak, PriceOracle, RateLimiter,
        Alerting, AuditTrail, ArithmeticLemmas, FunctionTheorems, SequenceTheorems

-----------------------------------------------------------------------------
(* The balance cache: an entry, stored or still on its way, is no further  *)
(* behind the block it stands for than the node was, since no caller asks  *)
(* for a block to come.                                                    *)

ReadsUnderWay ==
    {NoRead}
    \cup [stage : {"asked"}, asset : Assets, block : 0 .. chainHead]
    \cup {e \in [stage : {"answered"}, asset : Assets, block : Nat, readAt : Nat] :
             e.readAt + EndpointLag >= e.block}

BalancesInv ==
    /\ chainHead \in Nat
    /\ cache \in [Assets -> [block : Nat, readAt : Nat]]
    /\ \A a \in Assets : cache[a].readAt + EndpointLag >= cache[a].block
    /\ read \in [Readers -> ReadsUnderWay]
    /\ served \in [Readers -> [asked : Nat, readAt : Nat]]
    /\ CacheAddsNoLag

LEMMA BalancesInitial == BalancesInit => BalancesInv
BY BalancesAssumption DEF BalancesInit, BalancesInv, NotCached, ReadsUnderWay, CacheAddsNoLag

LEMMA BalancesStep ==
    ASSUME BalancesInv, [BalancesNext]_balanceVars
    PROVE  BalancesInv'
<1> USE BalancesAssumption DEF BalancesInv, ReadsUnderWay, CacheAddsNoLag
<1>1. ASSUME NEW r \in Readers, NEW a \in Assets, NEW block \in 1 .. chainHead, Ask(r, a, block)
      PROVE  BalancesInv'
  <2>1. CASE CacheHit(a, block)
    <3> DEFINE given == [asked |-> block, readAt |-> cache[a].readAt]
    <3>1. given \in [asked : Nat, readAt : Nat] /\ given.readAt + EndpointLag >= given.asked
      BY <1>1, <2>1 DEF CacheHit
    <3>2. /\ served' = [served EXCEPT ![r] = given]
          /\ UNCHANGED <<read, chainHead, cache>>
      BY <1>1, <2>1 DEF Ask
    <3> HIDE DEF given
    <3> QED BY <3>1, <3>2
  <2>2. CASE ~CacheHit(a, block)
    <3> DEFINE new == [stage |-> "asked", asset |-> a, block |-> block]
    <3>1. new \in [stage : {"asked"}, asset : Assets, block : 0 .. chainHead]
      BY <1>1
    <3>2. /\ read' = [read EXCEPT ![r] = new]
          /\ UNCHANGED <<served, chainHead, cache>>
      BY <1>1, <2>2 DEF Ask
    <3> HIDE DEF new
    <3> QED BY <3>1, <3>2
  <2> QED BY <2>1, <2>2
<1>2. ASSUME NEW r \in Readers, NodeAnswers(r)
      PROVE  BalancesInv'
  <2>1. read[r] \in [stage : {"asked"}, asset : Assets, block : 0 .. chainHead]
    BY <1>2 DEF NodeAnswers, NoRead
  <2>2. PICK last \in 1 .. chainHead :
           /\ last + EndpointLag >= chainHead
           /\ read' = [read EXCEPT ![r] = [stage |-> "answered", asset |-> read[r].asset,
                                           block |-> read[r].block, readAt |-> last]]
    BY <1>2 DEF NodeAnswers
  <2> QED BY <1>2, <2>1, <2>2 DEF NodeAnswers
<1>3. ASSUME NEW r \in Readers, StoreBalance(r)
      PROVE  BalancesInv'
  <2>1. /\ read[r] \in [stage : {"answered"}, asset : Assets, block : Nat, readAt : Nat]
        /\ read[r].readAt + EndpointLag >= read[r].block
    BY <1>3 DEF StoreBalance, NoRead
  <2> QED BY <1>3, <2>1 DEF StoreBalance
<1>4. ASSUME NEW r \in Readers, ReadFails(r)
      PROVE  BalancesInv'
  BY <1>4 DEF ReadFails
<1>5. CASE InvalidateAll
  BY <1>5 DEF InvalidateAll, NotCached
<1>6. CASE MineBlock
  <2>1. 0 .. chainHead \subseteq 0 .. chainHead'
    BY <1>6 DEF MineBlock
  <2> QED BY <1>6, <2>1 DEF MineBlock
<1>7. CASE UNCHANGED balanceVars
  BY <1>7 DEF balanceVars
<1> QED BY <1>1, <1>2, <1>3, <1>4, <1>5, <1>6, <1>7 DEF BalancesNext

\* Whatever reads overlap and however late each node is, for any number of readers,
\* assets and blocks, no caller is given a balance further behind the block it asked for
\* than a node may be (balance-service.ts, getBalance).
THEOREM CacheNeverAddsLag == BalancesSpec => []CacheAddsNoLag
<1>1. BalancesInv => CacheAddsNoLag
  BY DEF BalancesInv
<1> QED BY <1>1, BalancesInitial, BalancesStep, PTL DEF BalancesSpec

-----------------------------------------------------------------------------
(* The signer: an answer of KMS is of a form parseDerEcdsaSignature knows, *)
(* and signTransactionDigest sends it in its canonical form only.          *)

SigningInv ==
    /\ kmsAnswer = NoAnswer \/ kmsAnswer \in [key : Keys, s : 0 .. N, parity : {0, 1}]
    /\ kmsKey \in Keys \cup {NoKey}
    /\ signerMode \in {"local", "managed"}
    /\ BroadcastIsOurs

\* The lower of s and N - s is at most the other, and a signature of s = N \div 2 is low.
LEMMA CanonicalIsLow ==
    ASSUME NEW signature \in [key : Keys, s : 0 .. N, parity : {0, 1}]
    PROVE  /\ CanonicalS(signature) \in 0 .. N
           /\ CanonicalS(signature) <= N - CanonicalS(signature)
BY SigningAssumption DEF CanonicalS, HalfN

LEMMA SigningInitial == SigningInit => SigningInv
BY DEF SigningInit, SigningInv, BroadcastIsOurs

LEMMA SigningStep ==
    ASSUME SigningInv, [SigningNext]_signingVars
    PROVE  SigningInv'
<1> USE DEF SigningInv
<1>1. CASE RotateKey
  BY <1>1 DEF RotateKey, BroadcastIsOurs, NoAnswer
<1>2. CASE HealthCheck
  BY <1>2 DEF HealthCheck, BroadcastIsOurs, NoAnswer
<1>3. CASE Restart
  BY <1>3 DEF Restart, BroadcastIsOurs, NoAnswer
<1>4. CASE AskKms
  <2>1. kmsKey \in Keys => kmsAnswer' \in [key : Keys, s : 0 .. N, parity : {0, 1}]
    BY <1>4 DEF AskKms, KmsSignatures
  <2> QED BY <1>4, <2>1 DEF AskKms, BroadcastIsOurs
<1>5. CASE SendManaged
  <2>1. SUFFICES ASSUME Signs(kmsAnswer) PROVE BroadcastIsOurs'
    BY <1>5 DEF SendManaged, BroadcastIsOurs, NoAnswer
  <2> DEFINE p == CHOOSE q \in ParitiesOf(kmsAnswer) : TRUE
             s == CanonicalS(kmsAnswer)
  <2>2. p \in ParitiesOf(kmsAnswer)
    BY <2>1 DEF Signs
  <2>3. Recover(kmsAnswer, s, p) = AgentKey
    BY <2>2 DEF ParitiesOf
  <2>4. kmsAnswer \in [key : Keys, s : 0 .. N, parity : {0, 1}]
    BY <1>5 DEF SendManaged
  <2>5. s <= N - s
    BY <2>4, CanonicalIsLow
  <2>6. broadcast' = broadcast \cup
           {[from |-> Recover(kmsAnswer, s, p), s |-> s, url |-> "private"]}
    BY <1>5, <2>1 DEF SendManaged
  <2> HIDE DEF p, s
  <2> QED BY <1>5, <2>3, <2>5, <2>6 DEF BroadcastIsOurs, SendManaged
<1>6. CASE SendLocal
  <2>1. PICK s \in 1 .. HalfN :
           broadcast' = broadcast \cup {[from |-> AgentKey, s |-> s, url |-> "public"]}
    BY <1>6 DEF SendLocal
  <2>2. s <= N - s
    BY SigningAssumption DEF HalfN
  <2> QED BY <1>6, <2>1, <2>2 DEF SendLocal, BroadcastIsOurs, NoAnswer
<1>7. CASE UNCHANGED signingVars
  BY <1>7 DEF signingVars, BroadcastIsOurs, NoAnswer
<1> QED BY <1>1, <1>2, <1>3, <1>4, <1>5, <1>6, <1>7 DEF SigningNext

\* Whatever KMS answers and whenever its key is rotated, what the agent broadcasts is
\* from its own address with the low s, and privately when KMS signed (signer.ts).
THEOREM OnlyOwnTransactions == SigningSpec => []BroadcastIsOurs
<1>1. SigningInv => BroadcastIsOurs
  BY DEF SigningInv
<1> QED BY <1>1, SigningInitial, SigningStep, PTL DEF SigningSpec

-----------------------------------------------------------------------------
(* The deployment: "protectedTokens" is the last transaction, so that the  *)
(* validation, which asks for it, finds all the others mined, the          *)
(* executor's too, which it does not ask for.                              *)

SomeEnv == {NoEnv} \cup [guard : Deployments, module : Deployments]

DeployInv ==
    /\ done \in [Deployments -> 0 .. 9]
    /\ env \in SomeEnv
    /\ validated # NoEnv => /\ validated.module \in Deployments \cap enabledModules
                            /\ done[validated.module] = 9
    /\ agentRuns # NoRun => /\ agentRuns.env # NoEnv
                            /\ moduleAgent[agentRuns.env.module] = agentRuns.wallet

\* No other transaction of the script has the name of the last.
LEMMA OthersBefore ==
    ASSUME NEW i \in 1 .. 9, DeployPhase1[i] = "protectedTokens"
    PROVE  i = 9
<1>1. i = 1 \/ i = 2 \/ i = 3 \/ i = 4 \/ i = 5 \/ i = 6 \/ i = 7 \/ i = 8 \/ i = 9
  OBVIOUS
<1>2. /\ DeployPhase1[1] # "protectedTokens" /\ DeployPhase1[2] # "protectedTokens"
      /\ DeployPhase1[3] # "protectedTokens" /\ DeployPhase1[4] # "protectedTokens"
      /\ DeployPhase1[5] # "protectedTokens" /\ DeployPhase1[6] # "protectedTokens"
      /\ DeployPhase1[7] # "protectedTokens" /\ DeployPhase1[8] # "protectedTokens"
  BY DEF DeployPhase1
<1> QED BY <1>1, <1>2

\* When the last transaction has been mined, all of them have.
LEMMA LastTransaction ==
    ASSUME DeployInv, NEW d \in Deployments, "protectedTokens" \in Settled(d)
    PROVE  done[d] = 9
<1>1. done[d] \in 0 .. 9
  BY DEF DeployInv
<1>2. \E i \in 1 .. done[d] : DeployPhase1[i] = "protectedTokens"
  BY DEF Settled
<1>3. \E i \in 1 .. 9 : i <= done[d] /\ DeployPhase1[i] = "protectedTokens"
  BY <1>1, <1>2
<1>4. PICK i \in 1 .. 9 : i <= done[d] /\ DeployPhase1[i] = "protectedTokens"
  BY <1>3
<1>5. i = 9
  BY <1>4, OthersBefore
<1> QED BY <1>1, <1>4, <1>5

LEMMA DeployInitial == DeployInit => DeployInv
BY DEF DeployInit, DeployInv, SomeEnv

LEMMA DeployStep ==
    ASSUME DeployInv, [DeployNext]_deployVars
    PROVE  DeployInv'
<1>1. ASSUME NEW d \in Deployments, Broadcast(d)
      PROVE  DeployInv'
  <2>1. Len(DeployPhase1) = 9
    BY DEF DeployPhase1
  <2>2. done' = [done EXCEPT ![d] = done[d] + 1] /\ done[d] < 9
    BY <1>1, <2>1 DEF Broadcast
  <2>3. done[d] \in 0 .. 8
    BY <2>2 DEF DeployInv
  <2>4. done' \in [Deployments -> 0 .. 9]
    BY <2>2, <2>3 DEF DeployInv
  <2>5. \A e \in Deployments : done[e] = 9 => done'[e] = 9
    BY <2>2 DEF DeployInv
  <2> QED BY <1>1, <2>4, <2>5 DEF Broadcast, DeployInv
<1>2. ASSUME NEW g \in Deployments, NEW m \in Deployments, EditEnv(g, m)
      PROVE  DeployInv'
  BY <1>2 DEF EditEnv, DeployInv, SomeEnv
<1>3. ASSUME NEW w \in Wallets, ChangeWallet(w)
      PROVE  DeployInv'
  BY <1>3 DEF ChangeWallet, DeployInv
<1>4. CASE EnableModule
  BY <1>4 DEF EnableModule, DeployInv
<1>5. CASE Validate
  <2>1. env.module \in Deployments \cap enabledModules
    BY <1>5 DEF Validate, DeployInv, SomeEnv
  <2>2. "protectedTokens" \in Settled(env.module)
    BY <1>5 DEF Validate
  <2>3. done[env.module] = 9
    BY <2>1, <2>2, LastTransaction
  <2> QED BY <1>5, <2>1, <2>3 DEF Validate, DeployInv
<1>6. CASE StartAgent
  BY <1>6 DEF StartAgent, DeployInv
<1>7. CASE StopAgent
  BY <1>7 DEF StopAgent, DeployInv
<1>8. CASE UNCHANGED deployVars
  BY <1>8 DEF deployVars, DeployInv
<1> QED BY <1>1, <1>2, <1>3, <1>4, <1>5, <1>6, <1>7, <1>8 DEF DeployNext

\* The invariant gives the property: module and validation mean the same deployment.
LEMMA CompleteFromInv == DeployInv => ValidatedMeansComplete
<1> SUFFICES ASSUME DeployInv, agentRuns # NoRun, agentRuns.env = validated
             PROVE  LET d == validated.module
                    IN  /\ Settled(d) = {DeployPhase1[i] : i \in DOMAIN DeployPhase1}
                        /\ d \in enabledModules /\ moduleAgent[d] = agentRuns.wallet
  BY DEF ValidatedMeansComplete
<1>1. validated # NoEnv /\ moduleAgent[validated.module] = agentRuns.wallet
  BY DEF DeployInv
<1>2. validated.module \in enabledModules /\ done[validated.module] = 9
  BY <1>1 DEF DeployInv
<1>3. DOMAIN DeployPhase1 = 1 .. 9
  BY DEF DeployPhase1
<1>4. Settled(validated.module) = {DeployPhase1[i] : i \in DOMAIN DeployPhase1}
  BY <1>2, <1>3 DEF Settled
<1> QED BY <1>1, <1>2, <1>4

\* However often the contracts are deployed, wherever the script stops and whatever the
\* operator edits, an agent on a validated configuration finds its module enabled, made
\* for its wallet and fully set up (DeployPhase1, ValidatePhase1Config, index.ts main).
THEOREM ValidationSuffices == DeploySpec => []ValidatedMeansComplete
BY DeployInitial, DeployStep, CompleteFromInv, PTL DEF DeploySpec

-----------------------------------------------------------------------------
(* The soak: what an agent has not lived of the elapsed time is what has   *)
(* passed since the loop's last look at it.                                *)

SoakInv ==
    /\ elapsed \in Nat /\ lived \in Nat /\ pollIn \in 0 .. POLL
    /\ exited = "no" => lived = elapsed
    /\ elapsed - lived <= POLL
    /\ soakStage = "running" => elapsed - lived <= POLL - pollIn
    /\ \A r \in reports : r.actual \in Nat /\ r.lived \in Nat /\ r.lived >= r.actual - POLL
    /\ closeout = "half" => planDone
    /\ CloseoutIsEarned

LEMMA SoakInitial == SoakInit => SoakInv
BY SoakAssumption DEF SoakInit, SoakInv, CloseoutIsEarned

LEMMA SoakStep ==
    ASSUME SoakInv, [SoakNext]_soakVars
    PROVE  SoakInv'
<1> USE SoakAssumption DEF SoakInv, CloseoutIsEarned, closeVars, runVars
<1>1. CASE StartSoak
  BY <1>1 DEF StartSoak
<1>2. CASE AgentExits
  BY <1>2 DEF AgentExits
<1>3. CASE SoakTimePasses
  BY <1>3 DEF SoakTimePasses
<1>4. CASE LookAtAgent
  BY <1>4 DEF LookAtAgent, GoesOn
<1>5. CASE WriteReport
  <2> DEFINE new == [plannedHours |-> planned, actual |-> elapsed, lived |-> lived,
                     exitCode |-> IF exited = "no" THEN "null" ELSE exited]
  <2>1. new.actual \in Nat /\ new.lived \in Nat /\ new.lived >= new.actual - POLL
    OBVIOUS
  <2>2. reports' = reports \cup {new} /\ soakStage' = "idle"
        /\ UNCHANGED <<planned, elapsed, pollIn, lived, exited, closeVars>>
    BY <1>5 DEF WriteReport
  <2> HIDE DEF new
  <2> QED BY <2>1, <2>2
<1>6. CASE SignOff
  BY <1>6 DEF SignOff
<1>7. CASE ApplyPlan
  <2>1. PICK r \in reports : r.actual >= REQUIRED
    BY <1>7 DEF ApplyPlan, SoakGate
  <2>2. r.lived >= REQUIRED - POLL
    BY <2>1
  <2> QED BY <1>7, <2>2 DEF ApplyPlan
<1>8. CASE ApplyStatus
  BY <1>8 DEF ApplyStatus
<1>9. CASE CloseoutCrashes
  BY <1>9 DEF CloseoutCrashes
<1>10. CASE UNCHANGED soakVars
  BY <1>10 DEF soakVars
<1> QED BY <1>1, <1>2, <1>3, <1>4, <1>5, <1>6, <1>7, <1>8, <1>9, <1>10 DEF SoakNext

\* For every required length, poll interval and setting of SOAK_HOURS, the phase is
\* closed only after an agent has lived through all but one poll interval of it, and the
\* status file never before the plan (soak-runner.ts, phase3-closeout.ts).
THEOREM PhaseIsEarned == SoakSpec => []CloseoutIsEarned
<1>1. SoakInv => CloseoutIsEarned
  BY DEF SoakInv
<1> QED BY <1>1, SoakInitial, SoakStep, PTL DEF SoakSpec

-----------------------------------------------------------------------------
(* The harvests: what their plans sell is within the share of what the     *)
(* balance had gained by the last snapshot, as long as the snapshots come  *)
(* in order.  The balance a harvest is given was the Safe's at some block, *)
(* and between two blocks it rises by no more than it gained.              *)

GainedBy(block) == IF block = NoSnapshotYet THEN 0 ELSE stableAt[block].gained

\* The stable balance, per block.
StableHistory ==
    /\ stableAt \in Seq([amount : Nat, gained : Nat])
    /\ Len(stableAt) = chainHead /\ chainHead > 0
    /\ \A i, j \in 1 .. chainHead :
          i <= j => /\ stableAt[i].gained <= stableAt[j].gained
                    /\ stableAt[j].amount - stableAt[i].amount
                          <= stableAt[j].gained - stableAt[i].gained

\* What is cached, on its way or in a harvest's hands was read at some block.
ReadSomewhere ==
    /\ \A a \in Assets : cache[a] # NotCached => cache[a].readAt \in 1 .. chainHead
    /\ \A r \in Readers : read[r].stage = "answered" => read[r].readAt \in 1 .. chainHead
    /\ harvesting /\ read[Harvester] = NoRead => served[Harvester].readAt \in 1 .. chainHead

HarvestInv ==
    /\ BalancesInv /\ StableHistory /\ ReadSomewhere
    /\ harvesting \in BOOLEAN /\ wentBack \in BOOLEAN
    /\ lastStableSnapshot \in 0 .. chainHead /\ reinvestPlanned \in Nat
    /\ ~wentBack => reinvestPlanned * 100 <= GainedBy(lastStableSnapshot) * ReinvestShare

LEMMA StableTyped ==
    ASSUME StableHistory, NEW block \in 1 .. chainHead
    PROVE  stableAt[block] \in [amount : Nat, gained : Nat]
<1>1. stableAt \in Seq([amount : Nat, gained : Nat]) /\ block \in 1 .. Len(stableAt)
  BY DEF StableHistory
<1> QED BY <1>1, ElementOfSeq, Zenon

LEMMA HarvestNumbers ==
    /\ ReinvestShare \in Nat /\ ReinvestShare <= 100 /\ MaxStable \in Nat /\ MinHarvest \in Nat
    /\ Harvester \in Readers
<1>1. {MinHarvest, MaxStable, MaxPlanned} \subseteq Nat
  BY Zenon, HarvestAssumption
<1> QED BY <1>1, HarvestAssumption

\* What a plan sells is a part of what it counts.
LEMMA SoldIsPart ==
    ASSUME NEW h \in Nat
    PROVE  AmountIn(h) \in Nat /\ AmountIn(h) * 100 <= h * ReinvestShare
<1> DEFINE n == h * ReinvestShare
<1>1. n \in Nat
  BY HarvestNumbers
<1> HIDE DEF n
<1>2. n \div 100 \in Nat /\ (n \div 100) * 100 <= n
  BY <1>1
<1> QED BY <1>2 DEF n, AmountIn

\* The balances a harvest shares with the pipeline move as they do in Balances.
LEMMA HarvestReads ==
    ASSUME HarvestInv, [HarvestNext]_harvestBalanceVars
    PROVE  BalancesInv'
<1>1. BalancesNext \/ UNCHANGED balanceVars
  <2>1. CASE \E block \in 1 .. chainHead : StartHarvest(block)
    BY <2>1, HarvestAssumption DEF StartHarvest, BalancesNext
  <2>2. CASE FinishHarvest \/ UNCHANGED harvestBalanceVars
    BY <2>2 DEF FinishHarvest, harvestBalanceVars
  <2>3. CASE HarvestFails
    BY <2>3, HarvestAssumption DEF HarvestFails, BalancesNext
  <2>4. CASE OtherReads
    BY <2>4 DEF OtherReads, BalancesNext
  <2>5. CASE HarvestBlock
    BY <2>5 DEF HarvestBlock, BalancesNext
  <2>6. CASE InvalidateAll
    BY <2>6 DEF BalancesNext
  <2> QED BY <2>1, <2>2, <2>3, <2>4, <2>5, <2>6 DEF HarvestNext
<1> QED BY <1>1, BalancesStep DEF HarvestInv

LEMMA AskRead ==
    ASSUME HarvestInv, NEW r \in Readers, NEW a \in Assets, NEW block \in 1 .. chainHead,
           Ask(r, a, block)
    PROVE  /\ UNCHANGED <<chainHead, cache>>
           /\ \A x \in Readers \ {r} : read'[x] = read[x] /\ served'[x] = served[x]
           /\ read'[r].stage # "answered"
           /\ read'[r] = NoRead => served'[r].readAt \in 1 .. chainHead
<1>1. read \in [Readers -> ReadsUnderWay] /\ served \in [Readers -> [asked : Nat, readAt : Nat]]
  BY DEF HarvestInv, BalancesInv
<1>2. CASE CacheHit(a, block)
  <2>1. cache[a].readAt \in 1 .. chainHead
    BY <1>2 DEF HarvestInv, ReadSomewhere, CacheHit
  <2>2. /\ served' = [served EXCEPT ![r] = [asked |-> block, readAt |-> cache[a].readAt]]
        /\ UNCHANGED <<read, chainHead, cache>> /\ read[r] = NoRead
    BY <1>2 DEF Ask
  <2> QED BY <1>1, <2>1, <2>2 DEF NoRead
<1>3. CASE ~CacheHit(a, block)
  <2>1. /\ read' = [read EXCEPT ![r] = [stage |-> "asked", asset |-> a, block |-> block]]
        /\ UNCHANGED <<served, chainHead, cache>>
    BY <1>3 DEF Ask
  <2>2. read'[r].stage = "asked"
    BY <1>1, <2>1
  <2> QED BY <1>1, <2>1, <2>2 DEF NoRead
<1> QED BY <1>2, <1>3

\* A read of the cache, by whomever, keeps what was read in the past of the chain.
LEMMA ReadsKept ==
    ASSUME HarvestInv, [HarvestNext]_harvestBalanceVars
    PROVE  ReadSomewhere'
<1>1. /\ read \in [Readers -> ReadsUnderWay] /\ served \in [Readers -> [asked : Nat, readAt : Nat]]
      /\ cache \in [Assets -> [block : Nat, readAt : Nat]] /\ chainHead \in Nat
      /\ Harvester \in Readers /\ ReadSomewhere
  BY HarvestNumbers DEF HarvestInv, BalancesInv
<1>2. ASSUME NEW block \in 1 .. chainHead, StartHarvest(block)
      PROVE  ReadSomewhere'
  <2>1. Ask(Harvester, StableAsset, block) /\ StableAsset \in Assets
    BY <1>2, HarvestAssumption DEF StartHarvest
  <2> QED BY <1>1, <2>1, AskRead DEF ReadSomewhere
<1>3. CASE FinishHarvest
  <2>1. UNCHANGED <<chainHead, cache, read, served>> /\ harvesting' = FALSE
    BY <1>3 DEF FinishHarvest, balanceVars
  <2> QED BY <1>1, <2>1 DEF ReadSomewhere
<1>4. CASE HarvestFails
  <2>1. /\ UNCHANGED <<chainHead, cache, served>> /\ ~harvesting'
        /\ read' = [read EXCEPT ![Harvester] = NoRead]
    BY <1>4 DEF HarvestFails, ReadFails
  <2> QED BY <1>1, <2>1 DEF ReadSomewhere, NoRead
<1>5. CASE OtherReads
  <2>1. UNCHANGED harvesting
    BY <1>5 DEF OtherReads, harvestVars
  <2>2. ASSUME NEW r \in Readers, NEW a \in Assets, NEW block \in 1 .. chainHead,
               r = Harvester => ~harvesting, Ask(r, a, block)
        PROVE  ReadSomewhere'
    BY <1>1, <2>1, <2>2, AskRead DEF ReadSomewhere
  <2>3. ASSUME NEW r \in Readers, NodeAnswers(r)
        PROVE  ReadSomewhere'
    <3>1. PICK last \in 1 .. chainHead :
             read' = [read EXCEPT ![r] = [stage |-> "answered", asset |-> read[r].asset,
                                          block |-> read[r].block, readAt |-> last]]
      BY <2>3 DEF NodeAnswers
    <3>2. UNCHANGED <<chainHead, cache, served>>
      BY <2>3 DEF NodeAnswers
    <3>3. read'[r].readAt \in 1 .. chainHead /\ read'[r].stage = "answered"
          /\ \A x \in Readers \ {r} : read'[x] = read[x]
      BY <1>1, <3>1
    <3>4. read'[r] # NoRead
      BY <3>3 DEF NoRead
    <3> QED BY <1>1, <2>1, <3>2, <3>3, <3>4 DEF ReadSomewhere
  <2>4. ASSUME NEW r \in Readers, StoreBalance(r)
        PROVE  ReadSomewhere'
    <3>1. /\ read[r] \in [stage : {"answered"}, asset : Assets, block : Nat, readAt : Nat]
          /\ read[r].readAt \in 1 .. chainHead
      BY <1>1, <2>4 DEF StoreBalance, NoRead, ReadsUnderWay, ReadSomewhere
    <3>2. /\ cache' = [cache EXCEPT ![read[r].asset] =
                         [block |-> read[r].block, readAt |-> read[r].readAt]]
          /\ served' = [served EXCEPT ![r] = [asked |-> read[r].block, readAt |-> read[r].readAt]]
          /\ read' = [read EXCEPT ![r] = NoRead]
          /\ UNCHANGED chainHead
      BY <2>4 DEF StoreBalance
    <3>3. \A a \in Assets : cache'[a] # NotCached => cache'[a].readAt \in 1 .. chainHead
      BY <1>1, <3>1, <3>2 DEF ReadSomewhere
    <3>4. /\ served'[r].readAt \in 1 .. chainHead
          /\ \A x \in Readers \ {r} : read'[x] = read[x] /\ served'[x] = served[x]
          /\ read'[r].stage # "answered"
      BY <1>1, <3>1, <3>2 DEF NoRead
    <3> QED BY <1>1, <2>1, <3>2, <3>3, <3>4 DEF ReadSomewhere
  <2>5. ASSUME NEW r \in Readers, r = Harvester => ~harvesting, ReadFails(r)
        PROVE  ReadSomewhere'
    <3>1. /\ UNCHANGED <<chainHead, cache, served>>
          /\ read' = [read EXCEPT ![r] = NoRead]
      BY <2>5 DEF ReadFails
    <3> QED BY <1>1, <2>1, <2>5, <3>1 DEF ReadSomewhere, NoRead
  <2> QED BY <1>5, <2>2, <2>3, <2>4, <2>5 DEF OtherReads
<1>6. CASE HarvestBlock
  <2>1. chainHead' = chainHead + 1 /\ UNCHANGED <<cache, read, served, harvesting>>
    BY <1>6 DEF HarvestBlock, MineBlock
  <2> QED BY <1>1, <2>1 DEF ReadSomewhere
<1>7. CASE InvalidateAll /\ UNCHANGED harvestVars
  BY <1>1, <1>7 DEF InvalidateAll, harvestVars, ReadSomewhere
<1>8. CASE UNCHANGED harvestBalanceVars
  BY <1>1, <1>8 DEF harvestBalanceVars, balanceVars, harvestVars, ReadSomewhere
<1> QED BY <1>2, <1>3, <1>4, <1>5, <1>6, <1>7, <1>8 DEF HarvestNext

\* A new block's balance rises by no more than it gains.
LEMMA HistoryKept ==
    ASSUME StableHistory, chainHead \in Nat, HarvestBlock
    PROVE  StableHistory' /\ \A i \in 1 .. chainHead : stableAt'[i] = stableAt[i]
<1> DEFINE atHead == stableAt[chainHead]
<1>1. atHead \in [amount : Nat, gained : Nat]
  <2>1. chainHead \in 1 .. chainHead
    BY DEF StableHistory
  <2> QED BY <2>1, StableTyped
<1>2. PICK held \in 0 .. MaxStable :
         stableAt' = Append(stableAt,
            [amount |-> held,
             gained |-> atHead.gained + IF held > atHead.amount THEN held - atHead.amount ELSE 0])
  BY DEF HarvestBlock, StableMoves
<1> DEFINE new == [amount |-> held,
                   gained |-> atHead.gained + IF held > atHead.amount THEN held - atHead.amount ELSE 0]
<1>3. /\ new \in [amount : Nat, gained : Nat] /\ new.gained >= atHead.gained
      /\ new.amount - atHead.amount <= new.gained - atHead.gained
  <2> HIDE DEF atHead
  <2> QED BY <1>1, HarvestNumbers
<1>4. stableAt' = Append(stableAt, new)
  BY <1>2
<1>5. chainHead' = chainHead + 1
  BY DEF HarvestBlock, MineBlock
<1> HIDE DEF new, atHead
<1>6. /\ stableAt' \in Seq([amount : Nat, gained : Nat]) /\ Len(stableAt') = chainHead'
      /\ \A i \in 1 .. chainHead : stableAt'[i] = stableAt[i]
      /\ stableAt'[chainHead + 1] = new
  BY <1>3, <1>4, <1>5 DEF StableHistory
<1>7. ASSUME NEW i \in 1 .. chainHead', NEW j \in 1 .. chainHead', i <= j
      PROVE  /\ stableAt'[i].gained <= stableAt'[j].gained
             /\ stableAt'[j].amount - stableAt'[i].amount
                  <= stableAt'[j].gained - stableAt'[i].gained
  <2>1. CASE j \in 1 .. chainHead
    <3>1. i \in 1 .. chainHead
      BY <1>7, <2>1
    <3> QED BY <1>6, <1>7, <2>1, <3>1 DEF StableHistory
  <2>2. CASE i \in 1 .. chainHead /\ j = chainHead + 1
    <3>1. stableAt[i] \in [amount : Nat, gained : Nat]
      BY <2>2, StableTyped
    <3>2. chainHead \in 1 .. chainHead /\ i <= chainHead
      BY <2>2
    <3>3. /\ stableAt[i].gained <= atHead.gained
          /\ atHead.amount - stableAt[i].amount <= atHead.gained - stableAt[i].gained
      BY <2>2, <3>2 DEF StableHistory, atHead
    <3>4. stableAt'[i] = stableAt[i] /\ stableAt'[j] = new
      BY <1>6, <2>2
    <3> QED BY <1>1, <1>3, <3>1, <3>3, <3>4
  <2>3. CASE i = chainHead + 1 /\ j = chainHead + 1
    BY <1>3, <1>6, <2>3
  <2> QED BY <1>5, <1>7, <2>1, <2>2, <2>3
<1>8. chainHead' > 0
  BY <1>5
<1> QED BY <1>6, <1>7, <1>8 DEF StableHistory

\* A harvest in order sells a share of what the balance rose by since the snapshot before,
\* and so of what it gained.
LEMMA HarvestPlans ==
    ASSUME HarvestInv, FinishHarvest
    PROVE  /\ lastStableSnapshot' \in 1 .. chainHead /\ reinvestPlanned' \in Nat
           /\ wentBack' \in BOOLEAN
           /\ ~wentBack' =>
                 reinvestPlanned' * 100 <= stableAt[lastStableSnapshot'].gained * ReinvestShare
<1> DEFINE seen == served[Harvester].readAt
           previous == IF lastStableSnapshot = NoSnapshotYet THEN seen ELSE lastStableSnapshot
           harvested == stableAt[seen].amount - stableAt[previous].amount
           sold == IF harvested > 0 /\ harvested >= MinHarvest THEN AmountIn(harvested) ELSE 0
<1>1. seen \in 1 .. chainHead
  BY DEF HarvestInv, ReadSomewhere, FinishHarvest
<1>2. previous \in 1 .. chainHead
  BY <1>1 DEF HarvestInv, NoSnapshotYet
<1>3. /\ stableAt[seen] \in [amount : Nat, gained : Nat]
      /\ stableAt[previous] \in [amount : Nat, gained : Nat]
  <2>1. StableHistory
    BY DEF HarvestInv
  <2> HIDE DEF seen, previous
  <2> QED BY <1>1, <1>2, <2>1, StableTyped
<1>4. /\ lastStableSnapshot' = seen
      /\ wentBack' = (wentBack \/ seen < previous)
      /\ reinvestPlanned' = reinvestPlanned + sold
  BY DEF FinishHarvest, SnapshotTaken
<1>5. harvested \in Int
  BY <1>3
<1>6. sold \in Nat /\ (sold = 0 \/ (harvested > 0 /\ sold * 100 <= harvested * ReinvestShare))
  <2>1. CASE harvested > 0
    <3> HIDE DEF harvested
    <3> QED BY <1>5, <2>1, SoldIsPart
  <2>2. CASE ~(harvested > 0)
    BY <2>2
  <2> QED BY <2>1, <2>2
<1>7. ASSUME ~wentBack'
      PROVE  reinvestPlanned' * 100 <= stableAt[seen].gained * ReinvestShare
  <2> DEFINE g == stableAt[previous].gained
             h == stableAt[seen].gained
  <2>1. /\ ~wentBack /\ previous <= seen
        /\ g \in Nat /\ h \in Nat /\ g <= h /\ harvested <= h - g
    <3>1. ~wentBack /\ ~(seen < previous)
      BY <1>4, <1>7
    <3> HIDE DEF seen, previous
    <3>2. previous <= seen
      BY <1>1, <1>2, <3>1
    <3>3. /\ stableAt[previous].gained <= stableAt[seen].gained
          /\ stableAt[seen].amount - stableAt[previous].amount
                <= stableAt[seen].gained - stableAt[previous].gained
      BY <1>1, <1>2, <3>2 DEF HarvestInv, StableHistory
    <3> QED BY <1>3, <3>1, <3>2, <3>3
  <2>2. reinvestPlanned * 100 <= g * ReinvestShare /\ reinvestPlanned \in Nat
    <3>1. CASE lastStableSnapshot = NoSnapshotYet
      <4>1. reinvestPlanned * 100 <= 0 * ReinvestShare /\ reinvestPlanned \in Nat
        BY <2>1, <3>1 DEF HarvestInv, GainedBy
      <4>2. g * ReinvestShare \in Nat /\ 0 * ReinvestShare = 0
        BY <2>1, HarvestNumbers
      <4> HIDE DEF g
      <4> QED BY <4>1, <4>2
    <3>2. CASE lastStableSnapshot # NoSnapshotYet
      BY <2>1, <3>2 DEF HarvestInv, GainedBy
    <3> QED BY <3>1, <3>2
  <2> HIDE DEF harvested, sold, g, h
  <2>3. g * ReinvestShare + (h - g) * ReinvestShare = h * ReinvestShare
    BY <2>1, HarvestNumbers
  <2>4. sold * 100 <= (h - g) * ReinvestShare
    <3>1. CASE sold = 0
      <4>1. (h - g) * ReinvestShare \in Nat
        BY <2>1, HarvestNumbers
      <4> QED BY <3>1, <4>1
    <3>2. CASE harvested > 0 /\ sold * 100 <= harvested * ReinvestShare
      <4>1. harvested \in Nat /\ h - g \in Nat /\ ReinvestShare \in Nat
        BY <1>5, <2>1, <3>2, HarvestNumbers
      <4>2. harvested * ReinvestShare <= (h - g) * ReinvestShare
        BY <2>1, <4>1, TimesMonotone
      <4>3. harvested * ReinvestShare \in Nat /\ (h - g) * ReinvestShare \in Nat
        BY <4>1
      <4> QED BY <1>6, <3>2, <4>2, <4>3
    <3> QED BY <1>6, <3>1, <3>2
  <2>5. g * ReinvestShare \in Nat /\ (h - g) * ReinvestShare \in Nat
    BY <2>1, HarvestNumbers
  <2>6. reinvestPlanned' * 100 = reinvestPlanned * 100 + sold * 100
    BY <1>4, <1>6, <2>2
  <2>7. reinvestPlanned' * 100 <= h * ReinvestShare
    BY <1>6, <2>2, <2>3, <2>4, <2>5, <2>6
  <2> QED BY <2>7 DEF h
<1> HIDE DEF sold
<1> QED BY <1>1, <1>4, <1>6, <1>7 DEF HarvestInv

LEMMA HarvestStep ==
    ASSUME HarvestInv, [HarvestNext]_harvestBalanceVars
    PROVE  HarvestInv'
<1>1. BalancesInv' /\ ReadSomewhere'
  BY HarvestReads, ReadsKept
<1>2. CASE FinishHarvest
  <2>1. UNCHANGED <<stableAt, chainHead>> /\ harvesting' = FALSE
    BY <1>2 DEF FinishHarvest, balanceVars
  <2>2. StableHistory'
    BY <2>1 DEF HarvestInv, StableHistory
  <2>3. GainedBy(lastStableSnapshot)' = stableAt[lastStableSnapshot'].gained
    <3>1. lastStableSnapshot' # 0
      BY <1>2, HarvestPlans
    <3> QED BY <2>1, <3>1 DEF GainedBy, NoSnapshotYet
  <2>4. /\ lastStableSnapshot' \in 1 .. chainHead /\ reinvestPlanned' \in Nat
        /\ wentBack' \in BOOLEAN
        /\ ~wentBack' =>
              reinvestPlanned' * 100 <= stableAt[lastStableSnapshot'].gained * ReinvestShare
    BY <1>2, HarvestPlans
  <2>5. lastStableSnapshot' \in 0 .. chainHead'
    BY <2>1, <2>4
  <2>6. harvesting' \in BOOLEAN
    BY <2>1, Zenon
  <2> QED BY <1>1, <2>2, <2>3, <2>4, <2>5, <2>6 DEF HarvestInv
<1>3. CASE HarvestBlock
  <2>1. /\ UNCHANGED <<harvesting, lastStableSnapshot, reinvestPlanned, wentBack>>
        /\ chainHead' = chainHead + 1 /\ chainHead \in Nat
    BY <1>3 DEF HarvestBlock, MineBlock, HarvestInv, BalancesInv
  <2>2. StableHistory' /\ \A i \in 1 .. chainHead : stableAt'[i] = stableAt[i]
    BY <1>3, <2>1, HistoryKept DEF HarvestInv
  <2>3. GainedBy(lastStableSnapshot)' = GainedBy(lastStableSnapshot)
    BY <2>1, <2>2 DEF HarvestInv, GainedBy, NoSnapshotYet
  <2>4. lastStableSnapshot' \in 0 .. chainHead'
    BY <2>1 DEF HarvestInv
  <2> QED BY <1>1, <2>1, <2>2, <2>3, <2>4 DEF HarvestInv
<1>4. ASSUME UNCHANGED <<stableAt, lastStableSnapshot, reinvestPlanned, wentBack, chainHead>>,
             harvesting' \in BOOLEAN
      PROVE  HarvestInv'
  <2>1. StableHistory' /\ GainedBy(lastStableSnapshot)' = GainedBy(lastStableSnapshot)
    BY <1>4 DEF HarvestInv, StableHistory, GainedBy
  <2> QED BY <1>1, <1>4, <2>1 DEF HarvestInv
<1>5. CASE \E block \in 1 .. chainHead : StartHarvest(block)
  BY <1>4, <1>5 DEF StartHarvest, Ask
<1>6. CASE HarvestFails
  BY <1>4, <1>6 DEF HarvestFails, ReadFails
<1>7. CASE OtherReads
  BY <1>4, <1>7 DEF OtherReads, Ask, NodeAnswers, StoreBalance, ReadFails, harvestVars, HarvestInv
<1>8. CASE InvalidateAll /\ UNCHANGED harvestVars
  BY <1>4, <1>8 DEF InvalidateAll, harvestVars, HarvestInv
<1>9. CASE UNCHANGED harvestBalanceVars
  BY <1>4, <1>9 DEF harvestBalanceVars, balanceVars, harvestVars, HarvestInv
<1> QED BY <1>2, <1>3, <1>5, <1>6, <1>7, <1>8, <1>9 DEF HarvestNext

LEMMA HarvestInitial == HarvestInit => HarvestInv
<1> SUFFICES ASSUME HarvestInit PROVE HarvestInv
  OBVIOUS
<1>1. BalancesInv /\ chainHead = 1
  BY BalancesInitial DEF HarvestInit, BalancesInit
<1>2. PICK held \in 0 .. MaxStable : stableAt = <<[amount |-> held, gained |-> 0]>>
  BY DEF HarvestInit
<1>3. StableHistory
  BY <1>1, <1>2, HarvestNumbers DEF StableHistory
<1>4. ReadSomewhere
  BY HarvestNumbers DEF HarvestInit, BalancesInit, ReadSomewhere, NoRead
<1>5. 0 * 100 <= 0 * ReinvestShare
  BY HarvestNumbers
<1>6. /\ harvesting \in BOOLEAN /\ wentBack \in BOOLEAN
      /\ lastStableSnapshot \in 0 .. chainHead /\ reinvestPlanned \in Nat
  <2>1. harvesting = FALSE /\ wentBack = FALSE /\ lastStableSnapshot = 0 /\ reinvestPlanned = 0
    BY DEF HarvestInit, NoSnapshotYet
  <2>2. harvesting \in BOOLEAN /\ wentBack \in BOOLEAN
    BY <2>1, Zenon
  <2>3. lastStableSnapshot \in 0 .. chainHead /\ reinvestPlanned \in Nat
    BY <1>1, <2>1
  <2> QED BY <2>2, <2>3
<1>7. reinvestPlanned * 100 <= GainedBy(lastStableSnapshot) * ReinvestShare
  <2>1. reinvestPlanned = 0 /\ GainedBy(lastStableSnapshot) = 0
    BY DEF HarvestInit, GainedBy
  <2> QED BY <1>5, <2>1
<1> QED BY <1>1, <1>3, <1>4, <1>6, <1>7 DEF HarvestInv

\* For every share, minimum and lateness of the node, whatever reads overlap, whatever plans
\* fail and however the balance moves: as long as no snapshot is older than the one before
\* it, plans sell no more than their share of what the stable balance has gained
\* (buildHarvestPlan over balance-service.ts).
THEOREM HarvestsWithinGains == HarvestSpec => []HarvestWithinGains
<1>1. ASSUME HarvestInv PROVE HarvestWithinGains
  <2> SUFFICES ASSUME ~wentBack
               PROVE  reinvestPlanned * 100 <= stableAt[chainHead].gained * ReinvestShare
    BY DEF HarvestWithinGains
  <2> DEFINE g == GainedBy(lastStableSnapshot)
             h == stableAt[chainHead].gained
  <2>1. h \in Nat /\ g \in Nat /\ g <= h
    <3>1. /\ StableHistory
          /\ chainHead \in 1 .. chainHead /\ lastStableSnapshot \in 0 .. chainHead
      BY <1>1 DEF HarvestInv, BalancesInv, StableHistory
    <3>2. h \in Nat
      BY <3>1, StableTyped
    <3>3. CASE lastStableSnapshot = NoSnapshotYet
      BY <3>2, <3>3 DEF GainedBy
    <3>4. CASE lastStableSnapshot # NoSnapshotYet
      <4>1. lastStableSnapshot \in 1 .. chainHead /\ lastStableSnapshot <= chainHead
        BY <3>1, <3>4 DEF NoSnapshotYet
      <4>2. stableAt[lastStableSnapshot].gained \in Nat
        BY <3>1, <4>1, StableTyped
      <4>3. stableAt[lastStableSnapshot].gained <= stableAt[chainHead].gained
        BY <1>1, <3>1, <4>1 DEF HarvestInv, StableHistory
      <4> QED BY <3>2, <3>4, <4>2, <4>3 DEF GainedBy
    <3> QED BY <3>3, <3>4
  <2>2. reinvestPlanned * 100 <= g * ReinvestShare /\ reinvestPlanned \in Nat
    BY <1>1 DEF HarvestInv
  <2> HIDE DEF g, h
  <2>3. /\ g * ReinvestShare <= h * ReinvestShare
        /\ g * ReinvestShare \in Nat /\ h * ReinvestShare \in Nat
    BY <2>1, HarvestNumbers, TimesMonotone
  <2>4. reinvestPlanned * 100 <= h * ReinvestShare
    BY <2>2, <2>3
  <2> QED BY <2>4 DEF h
<1> QED BY <1>1, HarvestInitial, HarvestStep, PTL DEF HarvestSpec

-----------------------------------------------------------------------------
(* The price oracle's quotes are fair for any tokens, decimals, feeds and  *)
(* answers.  The invariant is the types; the rest is arithmetic: one       *)
(* rounding before the decimals are scaled and perhaps one after are       *)
(* together at most one unit of the token with fewer decimals.             *)

FeedsInv ==
    /\ feedByPair \in
          [Quoted \X Quoted -> {NoFeed} \cup [feed : Aggregators, inverse : BOOLEAN]]
    /\ answer \in [Aggregators -> Int]

LEMMA FeedsInitial == PriceOracleInit => FeedsInv
BY OracleAssumption DEF PriceOracleInit, FeedsInv

LEMMA FeedsStep == FeedsInv /\ [PriceOracleNext]_oracleVars => FeedsInv'
<1> SUFFICES ASSUME FeedsInv, [PriceOracleNext]_oracleVars PROVE FeedsInv'
  OBVIOUS
<1>1. ASSUME NEW sender, NEW newOwner, TransferOracle(sender, newOwner) PROVE FeedsInv'
  BY <1>1 DEF TransferOracle, FeedsInv
<1>2. ASSUME NEW sender, AcceptOracle(sender) PROVE FeedsInv'
  BY <1>2 DEF AcceptOracle, FeedsInv
<1>3. ASSUME NEW sender, NEW pair \in Quoted \X Quoted, NEW feed \in Aggregators,
             NEW inverse \in BOOLEAN, SetFeed(sender, pair, feed, inverse)
      PROVE  FeedsInv'
  <2>1. [feed |-> feed, inverse |-> inverse] \in [feed : Aggregators, inverse : BOOLEAN]
    OBVIOUS
  <2> QED BY <1>3, <2>1 DEF SetFeed, FeedsInv
<1>4. ASSUME NEW feed \in Aggregators, NEW n \in Answers, NewRound(feed, n) PROVE FeedsInv'
  BY <1>4, OracleAssumption DEF NewRound, FeedsInv
<1>5. CASE UNCHANGED oracleVars
  BY <1>5 DEF oracleVars, FeedsInv
<1> QED BY <1>1, <1>2, <1>3, <1>4, <1>5 DEF PriceOracleNext

-----------------------------------------------------------------------------
(* The arithmetic of a quote.                                              *)

\* tokenOut has k times the units: n \div d is scaled up.
LEMMA ScaledUp ==
    ASSUME NEW n \in Nat, NEW d \in Nat \ {0}, NEW u \in Nat \ {0}, NEW k \in Nat \ {0}
    PROVE  /\ ((n \div d) * k) * (d * u) <= n * (u * k)
           /\ n * (u * k) < ((n \div d) * k + k) * (d * u)
<1> DEFINE q == n \div d
           v == u * k
<1>1. q \in Nat /\ q * d <= n /\ n < q * d + d
  BY FloorBounds
<1>2. v \in Nat \ {0}
  OBVIOUS
<1> HIDE DEF q
<1>3. (q * k) * (d * u) = (q * d) * v /\ (q * k + k) * (d * u) = (q * d + d) * v
  BY <1>1
<1> HIDE DEF v
<1>4. q * d \in Nat /\ q * d + d \in Nat
  BY <1>1
<1>5. (q * d) * v <= n * v
  BY <1>1, <1>2, <1>4, TimesWeak
<1>6. n * v < (q * d + d) * v
  BY <1>1, <1>2, <1>4, TimesStrict
<1> QED BY <1>3, <1>5, <1>6 DEF q, v

\* tokenIn has k times the units: n \div d is scaled down, which rounds again.
LEMMA ScaledDown ==
    ASSUME NEW n \in Nat, NEW d \in Nat \ {0}, NEW u \in Nat \ {0}, NEW k \in Nat \ {0}
    PROVE  /\ ((n \div d) \div k) * (d * (u * k)) <= n * u
           /\ n * u < ((n \div d) \div k + 1) * (d * (u * k))
<1> DEFINE q == n \div d
           p == q \div k
<1>1. q \in Nat /\ q * d <= n /\ n < q * d + d
  BY FloorBounds
<1> HIDE DEF q
<1>2. p \in Nat /\ p * k <= q /\ q < p * k + k
  BY <1>1, FloorBounds
<1> HIDE DEF p
<1>3. p * k \in Nat /\ q + 1 <= p * k + k /\ p * k + k \in Nat /\ q * d \in Nat
  BY <1>1, <1>2
<1>4. (p * k) * d <= n
  <2>1. (p * k) * d <= q * d /\ (p * k) * d \in Nat
    BY <1>1, <1>2, <1>3, TimesWeak
  <2> QED BY <1>1, <1>3, <2>1
<1>5. n < (p * k + k) * d
  <2>1. (q + 1) * d <= (p * k + k) * d /\ (p * k + k) * d \in Nat
    BY <1>1, <1>3, TimesWeak
  <2>2. (q + 1) * d = q * d + d
    BY <1>1
  <2> QED BY <1>1, <1>3, <2>1, <2>2
<1>6. ((p * k) * d) * u <= n * u
  BY <1>2, <1>3, <1>4, TimesWeak
<1>7. n * u < ((p * k + k) * d) * u
  BY <1>3, <1>5, TimesStrict
<1>8. ((p * k) * d) * u = p * (d * (u * k)) /\ ((p * k + k) * d) * u = (p + 1) * (d * (u * k))
  BY <1>2
<1> QED BY <1>6, <1>7, <1>8 DEF q, p

\* The larger of two units is a whole number of the smaller.
LEMMA WholeUnits ==
    ASSUME NEW a \in Quoted, NEW b \in Quoted, Unit[a] <= Unit[b]
    PROVE  /\ Unit[b] \div Unit[a] \in Nat \ {0}
           /\ Unit[b] = Unit[a] * (Unit[b] \div Unit[a])
<1>1. Unit[a] \in Nat \ {0} /\ Unit[b] \in Nat \ {0} /\ Unit[b] % Unit[a] = 0
  BY OracleAssumption
<1> DEFINE ua == Unit[a]
           ub == Unit[b]
           k == ub \div ua
<1> HIDE DEF ua, ub
<1>2. ua \in Nat \ {0} /\ ub \in Nat \ {0} /\ ub % ua = 0
  BY <1>1 DEF ua, ub
<1>3. k \in Nat /\ ub = ua * k + (ub % ua)
  BY <1>2, DivisionDef
<1> HIDE DEF k
<1>4. ua * k \in Nat
  BY <1>2, <1>3
<1>5. ub = ua * k
  BY <1>2, <1>3, <1>4
<1>6. k # 0
  BY <1>2, <1>5
<1> QED BY <1>3, <1>5, <1>6 DEF ua, ub, k

-----------------------------------------------------------------------------
(* The quotes.                                                             *)

\* For one pair: a quote of any amount lies within a unit below the feed's price.
LEMMA QuoteBounds ==
    ASSUME FeedsInv, NEW a \in Quoted, NEW b \in Quoted, HasQuote(<<a, b>>),
           NEW amount \in Nat
    PROVE  LET pair == <<a, b>>
               unitOut == Over(pair) * Unit[a]
               exact == amount * Times(pair) * Unit[b]
               step == IF Unit[b] >= Unit[a] THEN Unit[b] \div Unit[a] ELSE 1
           IN  /\ Times(pair) \in Nat \ {0} /\ Over(pair) \in Nat \ {0}
               /\ GetQuote(pair, amount) \in Nat
               /\ GetQuote(pair, amount) * unitOut <= exact
               /\ exact < (GetQuote(pair, amount) + step) * unitOut
<1> DEFINE pair == <<a, b>>
           m == Times(pair)
           d == Over(pair)
           n == amount * m
           ua == Unit[a]
           ub == Unit[b]
<1>1. pair \in Quoted \X Quoted /\ pair[1] = a /\ pair[2] = b
  OBVIOUS
<1>2. m \in Nat \ {0} /\ d \in Nat \ {0}
  <2>1. feedByPair[pair] \in [feed : Aggregators, inverse : BOOLEAN]
    BY <1>1 DEF HasQuote, FeedsInv
  <2>2. FeedOne[feedByPair[pair].feed] \in Nat \ {0}
    BY <2>1, OracleAssumption
  <2>3. answer[feedByPair[pair].feed] \in Nat \ {0}
    BY <2>1 DEF HasQuote, FeedsInv
  <2> QED BY <2>2, <2>3 DEF Times, Over
<1>3. ua \in Nat \ {0} /\ ub \in Nat \ {0}
  BY OracleAssumption
<1>4. GetQuote(pair, amount) = Rescaled(n \div d, a, b)
  BY <1>1 DEF GetQuote
<1> HIDE DEF m, d
<1>5. n \in Nat /\ n \div d \in Nat
  BY <1>2, FloorBounds
<1> HIDE DEF n
<1>6. CASE ub >= ua
  <2> DEFINE k == ub \div ua
  <2>1. k \in Nat \ {0} /\ ub = ua * k
    BY <1>6, WholeUnits
  <2>2. GetQuote(pair, amount) = (n \div d) * k
    BY <1>4, <1>6 DEF Rescaled
  <2> HIDE DEF k, ua, ub
  <2>3. /\ ((n \div d) * k) * (d * ua) <= n * (ua * k)
        /\ n * (ua * k) < ((n \div d) * k + k) * (d * ua)
    BY <1>2, <1>3, <1>5, <2>1, ScaledUp
  <2>4. (n \div d) * k \in Nat
    BY <1>5, <2>1
  <2>5. /\ GetQuote(pair, amount) * (d * ua) <= n * ub
        /\ n * ub < (GetQuote(pair, amount) + k) * (d * ua)
    BY <2>1, <2>2, <2>3
  <2> QED BY <1>2, <1>6, <2>2, <2>4, <2>5 DEF k, n, m, d, ua, ub
<1>7. CASE ~(ub >= ua)
  <2> DEFINE k == ua \div ub
  <2>1. ub <= ua
    BY <1>3, <1>7
  <2>2. k \in Nat \ {0} /\ ua = ub * k
    BY <2>1, WholeUnits
  <2>3. GetQuote(pair, amount) = (n \div d) \div k
    BY <1>4, <1>7 DEF Rescaled
  <2> HIDE DEF k, ua, ub
  <2>4. /\ ((n \div d) \div k) * (d * (ub * k)) <= n * ub
        /\ n * ub < ((n \div d) \div k + 1) * (d * (ub * k))
    BY <1>2, <1>3, <1>5, <2>2, ScaledDown
  <2>5. (n \div d) \div k \in Nat
    BY <1>5, <2>2, FloorBounds
  <2>6. /\ GetQuote(pair, amount) * (d * ua) <= n * ub
        /\ n * ub < (GetQuote(pair, amount) + 1) * (d * ua)
    BY <2>2, <2>3, <2>4
  <2> QED BY <1>2, <1>7, <2>3, <2>5, <2>6 DEF n, m, d, ua, ub
<1> QED BY <1>6, <1>7

LEMMA RoundedDown == FeedsInv => QuotesRoundDown
<1> SUFFICES ASSUME FeedsInv, NEW pair \in Quoted \X Quoted, NEW amount \in Amounts,
                    HasQuote(pair)
             PROVE  LET unitOut == Over(pair) * Unit[pair[1]]
                        exact == amount * Times(pair) * Unit[pair[2]]
                        step == IF Unit[pair[2]] >= Unit[pair[1]]
                                THEN Unit[pair[2]] \div Unit[pair[1]] ELSE 1
                    IN  /\ GetQuote(pair, amount) * unitOut <= exact
                        /\ exact < (GetQuote(pair, amount) + step) * unitOut
  BY DEF QuotesRoundDown
<1>1. PICK a \in Quoted, b \in Quoted : pair = <<a, b>>
  OBVIOUS
<1>2. amount \in Nat
  BY OracleAssumption
<1>3. pair[1] = a /\ pair[2] = b
  BY <1>1
<1> QED BY <1>1, <1>2, <1>3, QuoteBounds

\* Out: y * d * ua <= x * m * ub.  Back, where multiplier and divisor change places:
\* z * m * ub <= y * d * ua.  So z <= x.
LEMMA NothingGained == FeedsInv => NoGainThereAndBack
<1> SUFFICES ASSUME FeedsInv, NEW a \in Quoted, NEW b \in Quoted, NEW x \in Amounts,
                    HasQuote(<<a, b>>), HasQuote(<<b, a>>),
                    feedByPair[<<a, b>>].feed = feedByPair[<<b, a>>].feed,
                    feedByPair[<<a, b>>].inverse # feedByPair[<<b, a>>].inverse
             PROVE  GetQuote(<<b, a>>, GetQuote(<<a, b>>, x)) <= x
  BY DEF NoGainThereAndBack
<1> DEFINE m == Times(<<a, b>>)
           d == Over(<<a, b>>)
           y == GetQuote(<<a, b>>, x)
           z == GetQuote(<<b, a>>, y)
           ua == Unit[a]
           ub == Unit[b]
<1>1. x \in Nat /\ ua \in Nat \ {0} /\ ub \in Nat \ {0}
  BY OracleAssumption
<1>2. m \in Nat \ {0} /\ d \in Nat \ {0} /\ y \in Nat /\ y * (d * ua) <= x * m * ub
  BY <1>1, QuoteBounds
<1>3. Times(<<b, a>>) = d /\ Over(<<b, a>>) = m
  <2>1. /\ feedByPair[<<a, b>>] \in [feed : Aggregators, inverse : BOOLEAN]
        /\ feedByPair[<<b, a>>] \in [feed : Aggregators, inverse : BOOLEAN]
    BY DEF HasQuote, FeedsInv
  <2>2. feedByPair[<<b, a>>].inverse <=> ~feedByPair[<<a, b>>].inverse
    BY <2>1
  <2> QED BY <2>2 DEF Times, Over
<1> HIDE DEF y
<1>4. z \in Nat /\ z * (Over(<<b, a>>) * ub) <= y * Times(<<b, a>>) * ua
  BY <1>2, QuoteBounds
<1> HIDE DEF z, m, d, ua, ub
<1>5. z \in Nat /\ z * (m * ub) <= y * d * ua
  BY <1>3, <1>4
<1>6. y * d * ua = y * (d * ua) /\ x * m * ub = x * (m * ub)
  BY <1>1, <1>2
<1> DEFINE v == m * ub
           w == y * (d * ua)
<1>7. v \in Nat \ {0} /\ w \in Nat
  BY <1>1, <1>2
<1>8. z * v <= w /\ w <= x * v
  BY <1>2, <1>5, <1>6
<1> HIDE DEF v, w
<1>9. z > x => x * v < z * v /\ x * v \in Nat /\ z * v \in Nat
  BY <1>1, <1>5, <1>7, TimesStrict
<1>10. ~(z > x)
  BY <1>7, <1>8, <1>9
<1> QED BY <1>1, <1>5, <1>10 DEF z, y

\* Whatever feeds, directions and decimals the adapter's owner sets up and whatever the
\* feeds answer, getQuote rounds down by less than one unit of the coarser token and
\* makes no gain there and back (ChainlinkPriceOracleAdapter.getQuote).
THEOREM QuotesAlwaysFair == PriceOracleSpec => []QuotesAreFair
<1>1. FeedsInv => QuotesAreFair
  BY RoundedDown, NothingGained DEF QuotesAreFair
<1> QED BY <1>1, FeedsInitial, FeedsStep, PTL DEF PriceOracleSpec

-----------------------------------------------------------------------------
(* The rate limiter.  Each request let through is paid for: by the bucket  *)
(* as it was then, or by what was refilled since.                          *)

\* What request m and those after it have used, with what is left, is covered by a full
\* bucket and the refills since; the last refill may have come up to a token short of time.
Covered(m) ==
    (Len(allowed) - m + 1 + tokens) * WINDOW_MS + allowed[m] * MAX_TOKENS
        <= MAX_TOKENS * WINDOW_MS + lastRefillAt * MAX_TOKENS + (WINDOW_MS - 1)

LimiterInv ==
    /\ requestTime \in Nat /\ lastRefillAt \in 0 .. requestTime /\ tokens \in 0 .. MAX_TOKENS
    /\ allowed \in Seq(Nat) /\ \A m \in DOMAIN allowed : allowed[m] <= requestTime
    /\ \A m \in DOMAIN allowed : Covered(m)
    /\ BurstBounded

\* A refill moves lastRefillAt by no less time than it gives tokens for, and leaves less than
\* a token's worth of time behind it.
LEMMA RefillFits ==
    ASSUME NEW t \in Nat, NEW since \in 0 .. t, NEW w \in Nat \ {0}, NEW m \in Nat
    PROVE  LET refill == ((t - since) * m) \div w
               moved == IF refill > 0 THEN t ELSE since
           IN  /\ refill \in Nat
               /\ since * m + refill * w <= moved * m
               /\ t * m <= moved * m + (w - 1)
<1> DEFINE n == (t - since) * m
           refill == n \div w
<1>1. n \in Nat /\ since * m \in Nat /\ t * m \in Nat /\ n = t * m - since * m
  OBVIOUS
<1> HIDE DEF n
<1>2. refill \in Nat /\ refill * w <= n /\ n < refill * w + w
  BY <1>1, FloorBounds
<1> HIDE DEF refill
<1>3. refill * w \in Nat
  BY <1>2
<1>4. CASE refill > 0
  BY <1>1, <1>2, <1>3, <1>4 DEF n, refill
<1>5. CASE refill = 0
  BY <1>1, <1>2, <1>3, <1>5 DEF n, refill
<1> QED BY <1>2, <1>4, <1>5

\* A bucket that covers what it let through cannot have let through more than its size
\* twice in a window that began at a.
LEMMA CoverBounds ==
    ASSUME NEW c \in Nat, NEW a \in Nat, NEW t \in Nat, NEW since \in 0 .. t,
           NEW w \in Nat \ {0}, NEW m \in Nat \ {0}, a > t - w,
           c * w + a * m <= m * w + since * m + (w - 1)
    PROVE  c <= 2 * m
<1>1. SUFFICES ASSUME c >= 2 * m + 1 PROVE FALSE
  OBVIOUS
<1>2. (2 * m + 1) * w <= c * w
  BY <1>1, TimesWeak
<1>3. (2 * m + 1) * w = m * w + m * w + w /\ m * w \in Nat /\ c * w \in Nat
  OBVIOUS
<1>4. since * m <= (a + (w - 1)) * m
  <2>1. a + (w - 1) \in Nat /\ since <= a + (w - 1)
    OBVIOUS
  <2> QED BY <2>1, TimesWeak
<1>5. (a + (w - 1)) * m = a * m + m * w - m /\ a * m \in Nat /\ since * m \in Nat
  OBVIOUS
<1> QED BY <1>2, <1>3, <1>4, <1>5

\* Each request keeps the bucket and its history covered, and the last window within bounds.
LEMMA LimiterStep ==
    ASSUME LimiterInv, [LimiterNext]_limiterVars
    PROVE  LimiterInv'
<1> DEFINE W == WINDOW_MS
           M == MAX_TOKENS
           n == Len(allowed)
<1>1. W \in Nat \ {0} /\ M \in Nat \ {0} /\ EndOfTime \in Nat
  BY LimiterAssumption
<1>2. /\ requestTime \in Nat /\ lastRefillAt \in 0 .. requestTime /\ tokens \in 0 .. M
      /\ allowed \in Seq(Nat) /\ n \in Nat /\ DOMAIN allowed = 1 .. n
      /\ \A m \in 1 .. n : allowed[m] \in Nat /\ allowed[m] <= requestTime
  BY DEF LimiterInv
<1>3. CASE UNCHANGED limiterVars
  BY <1>3 DEF limiterVars, LimiterInv, Covered, BurstBounded, InWindow
<1>4. ASSUME NEW t \in requestTime .. EndOfTime, CheckRateLimit(t)
      PROVE  LimiterInv'
  <2> DEFINE refill == ((t - lastRefillAt) * M) \div W
             filled == Lower(M, tokens + refill)
             since == lastRefillAt'
  <2>1. t \in Nat /\ lastRefillAt \in 0 .. t /\ requestTime <= t
    BY <1>1, <1>2, <1>4
  <2>2. /\ requestTime' = t /\ since = RefillMoved(refill, t)
        /\ \/ filled <= 0 /\ tokens' = filled /\ allowed' = allowed
           \/ ~(filled <= 0) /\ tokens' = filled - 1 /\ allowed' = Append(allowed, t)
    BY <1>4 DEF CheckRateLimit
  <2>3. since = IF refill > 0 THEN t ELSE lastRefillAt
    BY <2>2 DEF RefillMoved
  <2>4. /\ refill \in Nat
        /\ lastRefillAt * M + refill * W <= since * M
        /\ t * M <= since * M + (W - 1)
    BY <1>1, <2>1, <2>3, RefillFits
  <2> HIDE DEF refill, W, M
  <2>5. since \in 0 .. t
    BY <2>1, <2>3, <2>4
  <2>6. filled \in 0 .. M /\ filled <= tokens + refill
    BY <1>1, <1>2, <2>4 DEF Lower
  <2> HIDE DEF filled, n, since
  <2>7. lastRefillAt * M \in Nat /\ since * M \in Nat /\ refill * W \in Nat /\ M * W \in Nat
    BY <1>1, <1>2, <2>4, <2>5
  <2>8. ASSUME NEW m \in 1 .. n, NEW used \in Nat, used <= n - m + 1 + tokens + refill
        PROVE  used * W + allowed[m] * M <= M * W + since * M + (W - 1)
    <3> DEFINE before == n - m + 1 + tokens
    <3>1. before \in Nat /\ allowed[m] \in Nat
      BY <1>2
    <3>2. before * W + allowed[m] * M <= M * W + lastRefillAt * M + (W - 1)
      BY <1>2 DEF LimiterInv, Covered, W, M, n
    <3>3. used <= before + refill
      BY <1>2, <2>4, <2>8
    <3> HIDE DEF before
    <3>4. used * W <= (before + refill) * W
      BY <1>1, <2>4, <3>1, <3>3, TimesWeak
    <3>5. (before + refill) * W = before * W + refill * W
      BY <1>1, <2>4, <3>1
    <3>6. before * W \in Nat /\ allowed[m] * M \in Nat /\ used * W \in Nat
      BY <1>1, <3>1
    <3> QED BY <1>1, <2>4, <2>7, <3>2, <3>4, <3>5, <3>6
  <2>9. CASE filled <= 0 /\ tokens' = filled /\ allowed' = allowed
    <3>1. tokens' = 0
      BY <1>1, <2>6, <2>9
    <3>2. ASSUME NEW m \in 1 .. n
          PROVE  (n - m + 1 + 0) * W + allowed[m] * M <= M * W + since * M + (W - 1)
      <4>1. n - m + 1 + 0 \in Nat /\ n - m + 1 + 0 <= n - m + 1 + tokens + refill
        BY <1>1, <1>2, <2>4
      <4> QED BY <2>8, <4>1
    <3>3. \A m \in DOMAIN allowed' : Covered(m)'
      BY <1>2, <2>9, <3>1, <3>2 DEF Covered, W, M, n, since
    <3>4. BurstBounded'
      BY <2>9 DEF LimiterInv, BurstBounded, InWindow
    <3>5. /\ requestTime' \in Nat /\ lastRefillAt' \in 0 .. requestTime'
          /\ tokens' \in 0 .. MAX_TOKENS
          /\ allowed' \in Seq(Nat) /\ \A m \in DOMAIN allowed' : allowed'[m] <= requestTime'
      BY <1>1, <1>2, <2>1, <2>2, <2>5, <2>9, <3>1 DEF since, M
    <3> QED BY <3>3, <3>4, <3>5 DEF LimiterInv
  <2>10. CASE ~(filled <= 0) /\ tokens' = filled - 1 /\ allowed' = Append(allowed, t)
    <3>1. /\ allowed' \in Seq(Nat) /\ Len(allowed') = n + 1 /\ DOMAIN allowed' = 1 .. n + 1
          /\ allowed'[n + 1] = t /\ \A m \in 1 .. n : allowed'[m] = allowed[m]
      BY <1>2, <2>1, <2>10 DEF n
    <3> DEFINE left == filled - 1
    <3>2. left \in Nat /\ tokens' = left
      BY <1>1, <2>6, <2>10
    <3> HIDE DEF left
    <3>3. left + 1 <= tokens + refill /\ left + 1 <= M /\ left \in 0 .. M
      BY <1>1, <1>2, <2>4, <2>6, <3>2 DEF left
    <3>4. ASSUME NEW m \in 1 .. n + 1
          PROVE  (n + 1 - m + 1 + left) * W + allowed'[m] * M <= M * W + since * M + (W - 1)
      <4>1. CASE m \in 1 .. n
        <5>1. /\ n + 1 - m + 1 + left \in Nat
              /\ n + 1 - m + 1 + left <= n - m + 1 + tokens + refill
          BY <1>2, <2>4, <3>2, <3>3, <4>1
        <5> QED BY <2>8, <3>1, <4>1, <5>1
      <4>2. CASE m = n + 1
        <5>1. n + 1 - m + 1 + left = left + 1
          BY <1>2, <3>2, <4>2
        <5>2. left + 1 \in Nat
          BY <3>2
        <5>3. (left + 1) * W <= M * W
          BY <1>1, <3>3, <5>2, TimesWeak
        <5>4. (left + 1) * W \in Nat /\ t * M \in Nat
          BY <1>1, <2>1, <5>2
        <5>5. (left + 1) * W + t * M <= M * W + since * M + (W - 1)
          BY <1>1, <2>4, <2>7, <5>3, <5>4
        <5> DEFINE used == n + 1 - m + 1 + left
        <5>6. used = left + 1 /\ allowed'[m] = t
          BY <3>1, <4>2, <5>1
        <5> HIDE DEF used
        <5>7. used * W + allowed'[m] * M <= M * W + since * M + (W - 1)
          BY <5>5, <5>6
        <5> QED BY <5>7 DEF used
      <4> QED BY <1>2, <4>1, <4>2
    <3>5. \A m \in DOMAIN allowed' : Covered(m)'
      <4> SUFFICES ASSUME NEW m \in 1 .. n + 1 PROVE Covered(m)'
        BY <3>1
      <4> DEFINE used == n + 1 - m + 1 + left
      <4>1. Len(allowed') - m + 1 + tokens' = used
        <5>1. Len(allowed') = n + 1
          BY <3>1
        <5>2. tokens' = left /\ left \in Nat /\ n \in Nat
          BY <1>2, <3>2
        <5> QED BY <5>1, <5>2
      <4>2. used * W + allowed'[m] * M <= M * W + since * M + (W - 1)
        BY <3>4
      <4> HIDE DEF used
      <4> QED BY <4>1, <4>2 DEF Covered, W, M, since
    <3>6. ASSUME NEW i \in 1 .. n + 1
          PROVE  Cardinality({j \in 1 .. i : allowed'[j] > allowed'[i] - W}) <= 2 * M
      <4>1. CASE i \in 1 .. n
        <5>1. {j \in 1 .. i : allowed'[j] > allowed'[i] - W}
                = {j \in 1 .. i : allowed[j] > allowed[i] - W}
          <6>1. \A j \in 1 .. i : allowed'[j] = allowed[j]
            BY <1>2, <3>1, <4>1
          <6>2. i \in 1 .. i
            BY <4>1
          <6> QED BY <6>1, <6>2
        <5>2. Cardinality({j \in 1 .. i : allowed[j] > allowed[i] - W}) <= 2 * M
          BY <1>2, <4>1 DEF LimiterInv, BurstBounded, InWindow, W, M
        <5> QED BY <5>1, <5>2
      <4>2. CASE i = n + 1
        <5> DEFINE window == {j \in 1 .. n + 1 : allowed'[j] > t - W}
                   low == n + 2 - 2 * M
        <5>1. ASSUME NEW j \in 1 .. n + 1, allowed'[j] > t - W
              PROVE  j >= low
          <6> DEFINE c == n + 1 - j + 1
          <6>1. c \in Nat /\ allowed'[j] \in Nat
            BY <1>2, <2>1, <3>1
          <6>2. (c + left) * W + allowed'[j] * M <= M * W + since * M + (W - 1)
            BY <3>4
          <6> HIDE DEF c
          <6>3. c * W <= (c + left) * W
            <7>1. c + left \in Nat /\ c <= c + left
              BY <3>2, <6>1
            <7> QED BY <1>1, <6>1, <7>1, TimesWeak
          <6>4. c * W + allowed'[j] * M <= M * W + since * M + (W - 1)
            <7>1. /\ c * W \in Nat /\ (c + left) * W \in Nat
                  /\ allowed'[j] * M \in Nat
              <8>1. c + left \in Nat
                BY <3>2, <6>1
              <8> QED BY <1>1, <6>1, <8>1
            <7> QED BY <1>1, <2>7, <6>2, <6>3, <7>1
          <6>5. c <= 2 * M
            BY <1>1, <2>1, <2>5, <5>1, <6>1, <6>4, CoverBounds
          <6> QED BY <1>1, <1>2, <6>5 DEF c
        <5>2. low \in Int /\ n + 1 \in Int
          BY <1>1, <1>2
        <5>3. window \in SUBSET (low .. n + 1)
          BY <5>1, <5>2
        <5> HIDE DEF window
        <5>4. IsFiniteSet(low .. n + 1) /\ Cardinality(low .. n + 1) <= 2 * M
          BY <1>1, <1>2, <5>2, FS_Interval
        <5>5. Cardinality(window) <= Cardinality(low .. n + 1)
              /\ Cardinality(window) \in Nat /\ Cardinality(low .. n + 1) \in Nat
          BY <5>3, <5>4, FS_Subset, FS_CardinalityType
        <5>6. Cardinality(window) <= 2 * M
          BY <1>1, <5>4, <5>5
        <5> QED BY <3>1, <4>2, <5>6 DEF window
      <4> QED BY <1>2, <4>1, <4>2
    <3>7. BurstBounded'
      BY <3>1, <3>6 DEF BurstBounded, InWindow, W, M
    <3>8. /\ requestTime' \in Nat /\ lastRefillAt' \in 0 .. requestTime'
          /\ tokens' \in 0 .. MAX_TOKENS
          /\ \A m \in DOMAIN allowed' : allowed'[m] <= requestTime'
      BY <1>2, <2>1, <2>2, <2>5, <3>1, <3>2, <3>3 DEF since, M
    <3> QED BY <3>1, <3>5, <3>7, <3>8 DEF LimiterInv
  <2> QED BY <2>2, <2>9, <2>10
<1> QED BY <1>3, <1>4 DEF LimiterNext

\* No window of any length of history sees more than two buckets' worth of requests.
THEOREM BurstsStayBounded == LimiterSpec => []BurstBounded
<1>1. LimiterInit => LimiterInv
  BY LimiterAssumption DEF LimiterInit, LimiterInv, BurstBounded, InWindow
<1>2. LimiterInv /\ [LimiterNext]_limiterVars => LimiterInv'
  BY LimiterStep
<1>3. LimiterInv => BurstBounded
  BY DEF LimiterInv
<1> QED BY <1>1, <1>2, <1>3, PTL DEF LimiterSpec

-----------------------------------------------------------------------------
(* The alerts.  Of a spike: the service's clock is never a window behind   *)
(* the monitor's.  Of the node: a check that can send an alert again began *)
(* so many timer intervals after the one that sent it last.                *)

\* When the check under way began, or when the timer begins the next.
NextCheck == IF checkSince # 0 THEN checkSince ELSE now + nextCheckIn

AlertTypes ==
    /\ minSeverity \in Severities
    /\ now \in Nat /\ now >= FirstTime
    /\ signalTimes \in [Spikes -> Seq(Nat)]
    /\ lastSpikeAt \in [Spikes -> 0 .. now]
    /\ lastSentAt \in [Spikes \cup RpcAlerts -> 0 .. now]
    /\ nextCheckIn \in 0 .. RpcInterval /\ checkSince \in 0 .. now
    /\ rpcFailures \in 0 .. RpcThreshold
    /\ rpcDegraded \in BOOLEAN /\ (rpcDegraded <=> rpcFailures = RpcThreshold)

SpikesNoted ==
    \A k \in Spikes :
        /\ minSeverity # "fatal" /\ lastSpikeAt[k] # 0 =>
              lastSentAt[k] # 0 /\ lastSpikeAt[k] < lastSentAt[k] + Window
        /\ Len(signalTimes[k]) >= SpikeThreshold =>
              /\ lastSpikeAt[k] # 0
              /\ signalTimes[k][Len(signalTimes[k])] < lastSpikeAt[k] + Window

ChecksSpaced ==
    /\ checkSince # 0 => /\ now <= checkSince + SlowestCheck
                         /\ checkSince + RpcInterval <= now + nextCheckIn
    /\ lastSentAt["rpc-degraded"] # 0 =>
          NextCheck + SlowestCheck
             >= lastSentAt["rpc-degraded"] + RpcInterval
                  + IF rpcDegraded THEN 0 ELSE rpcFailures * RpcInterval + RpcInterval
    /\ lastSentAt["rpc-recovered"] # 0 =>
          NextCheck + SlowestCheck
             >= lastSentAt["rpc-recovered"] + rpcFailures * RpcInterval + RpcInterval

AlertingInv == AlertTypes /\ SpikesNoted /\ ChecksSpaced /\ LastWordIsTrue

\* Pruning ends at the newest time, which is never too old.
LEMMA PruneKeepsLast ==
    ASSUME NEW s \in Seq(Nat), NEW t \in Nat
    PROVE  LET times == Pruned(Append(s, t), t)
           IN  times \in Seq(Nat) /\ Len(times) \in Nat \ {0} /\ times[Len(times)] = t
<1> DEFINE all == Append(s, t)
           n == Len(s) + 1
           fresh == {i \in DOMAIN all : t - all[i] <= Window}
           first == Min(fresh)
<1>1. /\ all \in Seq(Nat) /\ Len(all) = n /\ n \in Nat /\ DOMAIN all = 1 .. n /\ all[n] = t
      /\ Window \in Nat \ {0}
  BY AlertingAssumption
<1>2. n \in fresh /\ fresh \in SUBSET (1 .. n)
  BY <1>1
<1>3. first \in 1 .. n
  <2>1. \A x \in fresh : x \in Int
    BY <1>1, <1>2
  <2> HIDE DEF fresh, n, all
  <2>2. IsFiniteSet(fresh)
    <3>1. 1 \in Int /\ n \in Int
      BY <1>1
    <3>2. IsFiniteSet(1 .. n)
      BY <3>1, FS_Interval
    <3> QED BY <1>2, <3>2, FS_Subset
  <2>3. first \in fresh
    BY <1>2, <2>1, <2>2, MinIsSmallest
  <2> QED BY <1>2, <2>3
<1> HIDE DEF first, all, n
<1> DEFINE times == SubSeq(all, first, n)
<1>4. times \in Seq(Nat) /\ Len(times) = n - first + 1 /\ times[n - first + 1] = all[n]
  <2>1. first \in Int /\ n \in Int /\ \A i \in first .. n : all[i] \in Nat
    <3>1. \A i \in 1 .. n : all[i] \in Nat
      BY <1>1
    <3> QED BY <1>1, <1>3, <3>1
  <2>2. /\ SubSeq(all, first, n) \in Seq(Nat)
        /\ Len(SubSeq(all, first, n)) = IF first <= n THEN n - first + 1 ELSE 0
        /\ \A i \in 1 .. n - first + 1 : SubSeq(all, first, n)[i] = all[first + i - 1]
    BY <2>1, SubSeqProperties
  <2>3. n - first + 1 \in 1 .. n - first + 1 /\ first + (n - first + 1) - 1 = n /\ first <= n
    BY <1>1, <1>3
  <2> QED BY <2>2, <2>3
<1>5. n - first + 1 \in Nat \ {0}
  BY <1>1, <1>3
<1>6. Pruned(all, t) = times
  BY <1>1 DEF Pruned, first, fresh
<1> HIDE DEF times
<1>7. LET ts == Pruned(all, t) IN ts \in Seq(Nat) /\ Len(ts) \in Nat \ {0} /\ ts[Len(ts)] = t
  BY <1>1, <1>4, <1>5, <1>6
<1> QED BY <1>7 DEF all

\* Which alerts the settings drop: none of an outage, and a spike under "fatal" only.
LEMMA SeverityFacts ==
    ASSUME AlertTypes
    PROVE  /\ \A k \in Spikes : Severe(k) <=> minSeverity # "fatal"
           /\ Severe("rpc-degraded")
           /\ Severe("rpc-recovered") <=> minSeverity \in {"info", "warn"}
<1>1. /\ Rank["info"] = 10 /\ Rank["warn"] = 20 /\ Rank["error"] = 30 /\ Rank["fatal"] = 40
  BY DEF Rank
<1>2. minSeverity \in {"info", "warn", "error", "fatal"}
  BY DEF AlertTypes, Severities
<1>3. /\ SeverityOf("rpc-degraded") = "fatal" /\ SeverityOf("rpc-recovered") = "warn"
      /\ \A k \in Spikes : SeverityOf(k) = "error"
  BY AlertingAssumption DEF SeverityOf, RpcAlerts
<1> QED BY <1>1, <1>2, <1>3 DEF Severe

\* Going through the service, an alert leaves no gap to the last one that did.
LEMMA SentFacts ==
    ASSUME AlertTypes, NEW key \in Spikes \cup RpcAlerts, NEW cooldown \in Nat,
           NEW t \in Nat, now <= t
    PROVE  /\ Sent(key, cooldown, t) \in [Spikes \cup RpcAlerts -> 0 .. t]
           /\ \A other \in (Spikes \cup RpcAlerts) \ {key} :
                 Sent(key, cooldown, t)[other] = lastSentAt[other]
           /\ LetThrough(key, cooldown, t) => Sent(key, cooldown, t)[key] = t
           /\ ~LetThrough(key, cooldown, t) =>
                 /\ Sent(key, cooldown, t)[key] = lastSentAt[key]
                 /\ Severe(key) => lastSentAt[key] # 0 /\ t - lastSentAt[key] < cooldown
<1>1. /\ lastSentAt \in [Spikes \cup RpcAlerts -> 0 .. t]
      /\ t \in 0 .. t /\ lastSentAt[key] \in Nat
  BY DEF AlertTypes
<1> QED BY <1>1 DEF Sent, LetThrough

LEMMA SignalStep ==
    ASSUME AlertingInv, NEW k \in Spikes, Signal(k)
    PROVE  AlertingInv'
<1> DEFINE P == lastSpikeAt[k]
           S == lastSentAt[k]
<1>1. /\ now \in Nat /\ now >= FirstTime /\ Window \in Nat \ {0} /\ FirstTime \in Nat
      /\ FirstTime >= Window /\ RpcInterval \in Nat /\ SlowestCheck \in Nat
      /\ SpikeThreshold \in Nat
  BY AlertingAssumption DEF AlertingInv, AlertTypes
<1>2. AlertTypes /\ signalTimes[k] \in Seq(Nat) /\ P \in 0 .. now /\ S \in 0 .. now
      /\ k \in Spikes \cup RpcAlerts /\ nextCheckIn \in 0 .. RpcInterval
  BY DEF AlertingInv, AlertTypes
<1>3. PICK times \in Seq(Nat) : /\ times = Pruned(Append(signalTimes[k], now), now)
                                /\ Len(times) \in Nat \ {0} /\ times[Len(times)] = now
  BY <1>1, <1>2, PruneKeepsLast
<1>4. PICK t \in Nat : /\ t = now' /\ now <= t
                       /\ \/ AlertTick
                          \/ t = now /\ UNCHANGED <<now, nextCheckIn>>
  BY <1>1 DEF Signal, AlertTick
<1>5. PICK alerts \in BOOLEAN :
          alerts <=> Len(times) >= SpikeThreshold /\ now - P >= Window
  OBVIOUS
<1>6. /\ signalTimes' = [signalTimes EXCEPT ![k] = times]
      /\ lastSpikeAt' = IF alerts THEN [lastSpikeAt EXCEPT ![k] = now] ELSE lastSpikeAt
      /\ lastSentAt' = IF alerts THEN Sent(k, Window, t) ELSE lastSentAt
      /\ UNCHANGED <<minSeverity, rpcVars, checkSince>>
  BY <1>3, <1>4, <1>5 DEF Signal, MarkedAtAlert
<1>7. /\ Sent(k, Window, t) \in [Spikes \cup RpcAlerts -> 0 .. t]
      /\ \A other \in (Spikes \cup RpcAlerts) \ {k} : Sent(k, Window, t)[other] = lastSentAt[other]
      /\ LetThrough(k, Window, t) => Sent(k, Window, t)[k] = t
      /\ ~LetThrough(k, Window, t) =>
            Sent(k, Window, t)[k] = S /\ (Severe(k) => S # 0 /\ t - S < Window)
  <2>1. Window \in Nat /\ now <= t
    BY <1>1, <1>4
  <2> QED BY <1>2, <2>1, SentFacts, Zenon
<1>8. nextCheckIn' \in 0 .. RpcInterval /\ now' + nextCheckIn' = now + nextCheckIn
  <2>1. CASE AlertTick
    BY <1>1, <1>2, <2>1 DEF AlertTick
  <2>2. CASE UNCHANGED <<now, nextCheckIn>>
    BY <1>2, <2>2
  <2> QED BY <1>4, <2>1, <2>2
<1>9. AlertTypes'
  <2>1. signalTimes' \in [Spikes -> Seq(Nat)]
    BY <1>2, <1>3, <1>6 DEF AlertTypes
  <2>2. lastSpikeAt' \in [Spikes -> 0 .. t]
    BY <1>1, <1>2, <1>4, <1>6 DEF AlertTypes
  <2>3. lastSentAt' \in [Spikes \cup RpcAlerts -> 0 .. t]
    <3>1. lastSentAt \in [Spikes \cup RpcAlerts -> 0 .. t]
      BY <1>1, <1>2, <1>4 DEF AlertTypes
    <3> QED BY <1>6, <1>7, <3>1
  <2>4. t >= FirstTime /\ checkSince' \in 0 .. t /\ minSeverity' \in Severities
    BY <1>1, <1>2, <1>4, <1>6 DEF AlertTypes
  <2>5. /\ rpcFailures' \in 0 .. RpcThreshold
        /\ rpcDegraded' \in BOOLEAN /\ (rpcDegraded' <=> rpcFailures' = RpcThreshold)
    BY <1>2, <1>6 DEF AlertTypes, rpcVars
  <2> QED BY <1>4, <1>8, <2>1, <2>2, <2>3, <2>4, <2>5 DEF AlertTypes
<1>10. ASSUME NEW j \in Spikes
       PROVE  /\ minSeverity' # "fatal" /\ lastSpikeAt'[j] # 0 =>
                    lastSentAt'[j] # 0 /\ lastSpikeAt'[j] < lastSentAt'[j] + Window
              /\ Len(signalTimes'[j]) >= SpikeThreshold =>
                    /\ lastSpikeAt'[j] # 0
                    /\ signalTimes'[j][Len(signalTimes'[j])] < lastSpikeAt'[j] + Window
  <2>1. CASE j # k
    <3>1. lastSpikeAt'[j] = lastSpikeAt[j] /\ signalTimes'[j] = signalTimes[j]
      BY <1>2, <1>6, <1>10, <2>1 DEF AlertTypes
    <3>2. lastSentAt'[j] = lastSentAt[j]
      BY <1>6, <1>7, <1>10, <2>1
    <3> QED BY <1>6, <1>10, <3>1, <3>2 DEF AlertingInv, SpikesNoted
  <2>2. CASE j = k /\ alerts
    <3>1. lastSpikeAt'[k] = now /\ signalTimes'[k] = times
          /\ lastSentAt'[k] = Sent(k, Window, t)[k]
      BY <1>2, <1>6, <2>2 DEF AlertTypes
    <3>2. minSeverity # "fatal" =>
             \/ Sent(k, Window, t)[k] = t
             \/ Sent(k, Window, t)[k] = S /\ S # 0 /\ t - S < Window
      BY <1>2, <1>7, SeverityFacts
    <3> DEFINE given == Sent(k, Window, t)[k]
    <3>3. minSeverity # "fatal" => given # 0 /\ now < given + Window
      BY <1>1, <1>2, <1>4, <3>2
    <3> HIDE DEF given
    <3>4. minSeverity' = minSeverity /\ lastSentAt'[k] = given
      BY <1>6, <3>1 DEF given
    <3> QED BY <1>1, <1>3, <2>2, <3>1, <3>3, <3>4
  <2>3. CASE j = k /\ ~alerts
    <3>1. lastSpikeAt'[k] = P /\ signalTimes'[k] = times /\ lastSentAt'[k] = S
      BY <1>2, <1>6, <2>3 DEF AlertTypes
    <3>2. minSeverity' # "fatal" /\ P # 0 => S # 0 /\ P < S + Window
      BY <1>6 DEF AlertingInv, SpikesNoted
    <3>3. Len(times) >= SpikeThreshold => P # 0 /\ now < P + Window
      BY <1>1, <1>2, <1>5, <2>3
    <3> QED BY <1>3, <2>3, <3>1, <3>2, <3>3
  <2> QED BY <2>1, <2>2, <2>3
<1>11. SpikesNoted'
  BY <1>10 DEF SpikesNoted
<1>12. ChecksSpaced'
  <2>1. \A key \in RpcAlerts : lastSentAt'[key] = lastSentAt[key]
    <3>1. \A key \in RpcAlerts : key \in (Spikes \cup RpcAlerts) \ {k}
      BY AlertingAssumption
    <3> QED BY <1>6, <1>7, <3>1
  <2>2. /\ lastSentAt'["rpc-degraded"] = lastSentAt["rpc-degraded"]
        /\ lastSentAt'["rpc-recovered"] = lastSentAt["rpc-recovered"]
    BY <2>1 DEF RpcAlerts
  <2>3. NextCheck' = NextCheck /\ checkSince' = checkSince
        /\ rpcFailures' = rpcFailures /\ rpcDegraded' = rpcDegraded
    BY <1>6, <1>8 DEF NextCheck, rpcVars
  <2>4. checkSince' # 0 => /\ now' <= checkSince' + SlowestCheck
                           /\ checkSince' + RpcInterval <= now' + nextCheckIn'
    <3>1. checkSince \in Nat /\ checkSince' = checkSince
      BY <1>2, <1>6 DEF AlertTypes
    <3>2. checkSince # 0 => /\ now <= checkSince + SlowestCheck
                            /\ checkSince + RpcInterval <= now + nextCheckIn
      BY DEF AlertingInv, ChecksSpaced
    <3>3. checkSince # 0 => t <= checkSince + SlowestCheck
      BY <1>1, <1>4, <3>1, <3>2 DEF AlertTick
    <3> QED BY <1>4, <1>8, <3>1, <3>2, <3>3
  <2>5. ChecksSpaced
    BY DEF AlertingInv
  <2> QED BY <2>2, <2>3, <2>4, <2>5 DEF ChecksSpaced
<1>13. LastWordIsTrue'
  BY <1>6 DEF AlertingInv, LastWordIsTrue, rpcVars
<1> QED BY <1>9, <1>11, <1>12, <1>13 DEF AlertingInv

\* Time and the timer leave the next check where it is.
LEMMA TimerStep ==
    ASSUME AlertingInv, ClockTicks \/ HealthTimer
    PROVE  AlertingInv'
<1>1. /\ now \in Nat /\ now >= FirstTime /\ FirstTime \in Nat \ {0}
      /\ RpcInterval \in Nat \ {0} /\ SlowestCheck \in Nat
      /\ nextCheckIn \in 0 .. RpcInterval /\ checkSince \in 0 .. now
  BY AlertingAssumption DEF AlertingInv, AlertTypes
<1>2. PICK t \in Nat : t = now' /\ now <= t
  BY <1>1 DEF ClockTicks, AlertTick, HealthTimer
<1>3. UNCHANGED <<minSeverity, spikeVars, rpcVars, lastSentAt>>
  BY DEF ClockTicks, HealthTimer
<1>4. ChecksSpaced
  BY DEF AlertingInv
<1>5. /\ nextCheckIn' \in 0 .. RpcInterval /\ checkSince' \in 0 .. t
      /\ NextCheck' = NextCheck
      /\ checkSince' # 0 => /\ now' <= checkSince' + SlowestCheck
                            /\ checkSince' + RpcInterval <= now' + nextCheckIn'
  <2>1. CASE ClockTicks
    BY <1>1, <1>2, <1>4, <2>1 DEF ClockTicks, AlertTick, NextCheck, ChecksSpaced
  <2>2. CASE HealthTimer
    BY <1>1, <1>2, <1>4, <2>2 DEF HealthTimer, NextCheck, ChecksSpaced
  <2> QED BY <2>1, <2>2
<1>6. AlertTypes'
  <2>1. lastSpikeAt' \in [Spikes -> 0 .. t] /\ lastSentAt' \in [Spikes \cup RpcAlerts -> 0 .. t]
    BY <1>1, <1>2, <1>3 DEF AlertingInv, AlertTypes, spikeVars
  <2>2. /\ signalTimes' \in [Spikes -> Seq(Nat)] /\ rpcFailures' \in 0 .. RpcThreshold
        /\ rpcDegraded' \in BOOLEAN /\ (rpcDegraded' <=> rpcFailures' = RpcThreshold)
    BY <1>3 DEF AlertingInv, AlertTypes, spikeVars, rpcVars
  <2>3. t >= FirstTime /\ minSeverity' \in Severities
    BY <1>1, <1>2, <1>3 DEF AlertingInv, AlertTypes
  <2> QED BY <1>2, <1>5, <2>1, <2>2, <2>3 DEF AlertTypes
<1>7. SpikesNoted'
  BY <1>3 DEF AlertingInv, SpikesNoted, spikeVars
<1>8. ChecksSpaced'
  BY <1>3, <1>4, <1>5 DEF ChecksSpaced, rpcVars
<1>9. LastWordIsTrue'
  BY <1>3 DEF AlertingInv, LastWordIsTrue, rpcVars
<1> QED BY <1>6, <1>7, <1>8, <1>9 DEF AlertingInv

\* An RPC alert goes out, unless the settings drop it, at a time that is far enough from
\* the last of its kind.
LEMMA RpcAlertIsSent ==
    ASSUME AlertTypes, NEW key \in RpcAlerts, SendRpcAlert(key), Severe(key),
           lastSentAt[key] = 0 \/ now - lastSentAt[key] >= RpcCooldown
    PROVE  /\ lastWord' = key
           /\ lastSentAt' \in [Spikes \cup RpcAlerts -> 0 .. now]
           /\ lastSentAt'[key] = now
           /\ \A other \in (Spikes \cup RpcAlerts) \ {key} : lastSentAt'[other] = lastSentAt[other]
<1>1. now \in Nat /\ now <= now /\ RpcCooldown \in Nat /\ key \in Spikes \cup RpcAlerts
  BY AlertingAssumption DEF AlertTypes
<1>2. LetThrough(key, RpcCooldown, now)
  BY DEF LetThrough
<1> QED BY <1>1, <1>2, SentFacts, Zenon DEF SendRpcAlert

\* The end of a check: the next one is a whole interval after this one.
LEMMA CheckStep ==
    ASSUME AlertingInv, CheckSucceeds \/ CheckFails
    PROVE  AlertingInv'
<1> DEFINE I == RpcInterval
           T == RpcThreshold
           S == SlowestCheck
           f == rpcFailures
           FI == rpcFailures * RpcInterval
           TI == RpcThreshold * RpcInterval
           D == lastSentAt["rpc-degraded"]
           R == lastSentAt["rpc-recovered"]
           cs == checkSince
<1>1. /\ now \in Nat /\ now >= FirstTime /\ FirstTime \in Nat \ {0}
      /\ I \in Nat \ {0} /\ S \in Nat /\ T \in Nat \ {0} /\ RpcCooldown \in Nat
      /\ nextCheckIn \in 0 .. I /\ cs \in 0 .. now /\ f \in 0 .. T
      /\ rpcDegraded \in BOOLEAN /\ (rpcDegraded <=> f = T)
  BY AlertingAssumption DEF AlertingInv, AlertTypes
<1>2. /\ AlertTypes /\ D \in 0 .. now /\ R \in 0 .. now
      /\ "rpc-degraded" \in RpcAlerts /\ "rpc-recovered" \in RpcAlerts
  BY DEF AlertingInv, AlertTypes, RpcAlerts
<1>3. FI \in Nat /\ TI \in Nat
  BY <1>1
<1>4. TI + I >= RpcCooldown + S
  BY <1>1, <1>3, AlertingAssumption
<1>5. /\ cs # 0 /\ now <= cs + S /\ cs + I <= now + nextCheckIn
      /\ D # 0 => cs + S >= D + I + IF rpcDegraded THEN 0 ELSE FI + I
      /\ R # 0 => cs + S >= R + FI + I
  BY DEF AlertingInv, ChecksSpaced, NextCheck, CheckSucceeds, CheckFails
<1>6. /\ checkSince' = 0 /\ UNCHANGED <<minSeverity, now, spikeVars, nextCheckIn>>
      /\ NextCheck' = now + nextCheckIn
  BY DEF CheckSucceeds, CheckFails, NextCheck
<1>7. PICK g \in 0 .. T :
          /\ rpcFailures' = g /\ rpcDegraded' \in BOOLEAN /\ (rpcDegraded' <=> g = T)
          /\ \/ CheckSucceeds /\ g = 0
             \/ CheckFails /\ g = IF f = T THEN T ELSE f + 1
  <2>1. CASE CheckSucceeds
    <3>1. rpcFailures' = 0 /\ rpcDegraded' = FALSE /\ 0 \in 0 .. T /\ 0 # T
      BY <1>1, <2>1 DEF CheckSucceeds, CountReset
    <3> QED BY <2>1, <3>1
  <2>2. CASE CheckFails
    <3> DEFINE h == IF f = T THEN T ELSE f + 1
    <3>1. h \in 0 .. T /\ rpcFailures' = h
      BY <1>1, <2>2 DEF CheckFails
    <3>2. CASE rpcDegraded
      <4>1. rpcDegraded' = TRUE /\ h = T
        BY <1>1, <2>2, <3>2 DEF CheckFails
      <4> QED BY <2>2, <3>1, <4>1
    <3>3. CASE ~rpcDegraded
      <4>1. h = f + 1 /\ f # T
        BY <1>1, <3>3
      <4>2. CASE h = T
        <5>1. f + 1 >= T /\ ~(f >= T)
          BY <1>1, <4>1, <4>2
        <5>2. rpcDegraded' = (rpcDegraded \/ (f + 1 >= T /\ ~rpcDegraded))
          BY <2>2, <5>1, Zenon DEF CheckFails
        <5>3. rpcDegraded' = TRUE
          BY <3>3, <5>1, <5>2, Zenon
        <5> QED BY <2>2, <3>1, <4>2, <5>3
      <4>3. CASE h # T
        <5>1. rpcDegraded' = FALSE
          BY <1>1, <2>2, <3>3, <4>1, <4>3 DEF CheckFails
        <5> QED BY <2>2, <3>1, <4>3, <5>1
      <4> QED BY <4>2, <4>3
    <3> QED BY <3>2, <3>3
  <2> QED BY <2>1, <2>2
<1> DEFINE degraded == g = T
           warns == minSeverity \in {"info", "warn"}
<1>8. /\ lastSentAt' \in [Spikes \cup RpcAlerts -> 0 .. now]
      /\ \A k \in Spikes : lastSentAt'[k] = lastSentAt[k]
      /\ degraded => lastWord' = "rpc-degraded"
      /\ ~degraded /\ warns => lastWord' = "rpc-recovered"
      /\ lastSentAt'["rpc-degraded"] = IF degraded /\ ~rpcDegraded THEN now ELSE D
      /\ lastSentAt'["rpc-recovered"] = IF rpcDegraded /\ ~degraded /\ warns THEN now ELSE R
  <2>0. CASE rpcDegraded /\ ~degraded /\ ~warns
    <3>1. SendRpcAlert("rpc-recovered")
      BY <1>1, <1>7, <2>0 DEF CheckSucceeds, CheckFails
    <3>2. ~LetThrough("rpc-recovered", RpcCooldown, now)
      BY <1>2, <2>0, SeverityFacts DEF LetThrough
    <3>3. lastSentAt' = lastSentAt
      BY <3>1, <3>2 DEF SendRpcAlert, Sent
    <3> QED BY <1>2, <2>0, <3>3 DEF AlertTypes
  <2>1. CASE rpcDegraded /\ ~degraded /\ warns
    <3>1. SendRpcAlert("rpc-recovered")
      BY <1>1, <1>7, <2>1 DEF CheckSucceeds, CheckFails
    <3>2. FI = TI
      BY <1>1, <2>1
    <3> HIDE DEF FI, TI
    <3>3. R = 0 \/ now - R >= RpcCooldown
      BY <1>1, <1>2, <1>3, <1>4, <1>5, <3>2
    <3>4. /\ lastWord' = "rpc-recovered"
          /\ lastSentAt' \in [Spikes \cup RpcAlerts -> 0 .. now]
          /\ lastSentAt'["rpc-recovered"] = now
          /\ \A other \in (Spikes \cup RpcAlerts) \ {"rpc-recovered"} :
                lastSentAt'[other] = lastSentAt[other]
      BY <1>2, <2>1, <3>1, <3>3, RpcAlertIsSent, SeverityFacts
    <3> QED BY <2>1, <3>4, AlertingAssumption DEF RpcAlerts
  <2>2. CASE degraded /\ ~rpcDegraded
    <3>1. CheckFails /\ SendRpcAlert("rpc-degraded") /\ f + 1 = T
      BY <1>1, <1>7, <2>2 DEF CheckSucceeds, CheckFails
    <3>2. TI = FI + I
      BY <1>1, <3>1
    <3> HIDE DEF FI, TI
    <3>3. D = 0 \/ now - D >= RpcCooldown
      BY <1>1, <1>2, <1>3, <1>4, <1>5, <2>2, <3>2
    <3>4. /\ lastWord' = "rpc-degraded"
          /\ lastSentAt' \in [Spikes \cup RpcAlerts -> 0 .. now]
          /\ lastSentAt'["rpc-degraded"] = now
          /\ \A other \in (Spikes \cup RpcAlerts) \ {"rpc-degraded"} :
                lastSentAt'[other] = lastSentAt[other]
      BY <1>2, <3>1, <3>3, RpcAlertIsSent, SeverityFacts
    <3> QED BY <2>2, <3>4, AlertingAssumption DEF RpcAlerts
  <2>3. CASE degraded <=> rpcDegraded
    <3>1. UNCHANGED <<lastSentAt, lastWord>>
      BY <1>1, <1>7, <2>3 DEF CheckSucceeds, CheckFails
    <3>2. lastSentAt \in [Spikes \cup RpcAlerts -> 0 .. now]
      BY <1>2 DEF AlertTypes
    <3> QED BY <2>3, <3>1, <3>2 DEF AlertingInv, LastWordIsTrue
  <2> QED BY <1>7, <2>0, <2>1, <2>2, <2>3
<1>9. AlertTypes'
  <2>1. /\ now' = now /\ nextCheckIn' = nextCheckIn /\ checkSince' \in 0 .. now
        /\ signalTimes' = signalTimes /\ lastSpikeAt' = lastSpikeAt
    BY <1>1, <1>6 DEF spikeVars
  <2>2. rpcFailures' \in 0 .. RpcThreshold /\ rpcDegraded' \in BOOLEAN
        /\ (rpcDegraded' <=> rpcFailures' = RpcThreshold) /\ minSeverity' = minSeverity
    BY <1>6, <1>7
  <2> QED BY <1>2, <1>8, <2>1, <2>2 DEF AlertTypes
<1>10. SpikesNoted'
  BY <1>6, <1>8 DEF AlertingInv, SpikesNoted, spikeVars
<1>11. ChecksSpaced'
  <2>1. PICK gI \in Nat : gI = g * I
    BY <1>1, <1>7
  <2>2. \/ gI = FI /\ g = f /\ (degraded <=> rpcDegraded)
        \/ gI = FI + I /\ g = f + 1 /\ ~rpcDegraded
        \/ gI = 0 /\ ~degraded
    BY <1>1, <1>7, <2>1
  <2> HIDE DEF FI, TI
  <2> DEFINE due == now + nextCheckIn
             D2 == lastSentAt'["rpc-degraded"]
             R2 == lastSentAt'["rpc-recovered"]
  <2>3. /\ due \in Nat /\ due >= cs + I /\ due + S >= now + I /\ gI \in Nat
        /\ D2 = IF degraded /\ ~rpcDegraded THEN now ELSE D
        /\ R2 = IF rpcDegraded /\ ~degraded /\ warns THEN now ELSE R
    BY <1>1, <1>3, <1>5, <1>8, <2>2
  <2>4. D2 # 0 => due + S >= D2 + I + IF degraded THEN 0 ELSE gI + I
    <3> HIDE DEF due, D2, R2
    <3>1. CASE degraded /\ ~rpcDegraded
      BY <1>1, <2>3, <3>1
    <3>2. CASE degraded /\ rpcDegraded
      BY <1>1, <1>2, <1>5, <2>3, <3>2
    <3>3. CASE ~degraded
      BY <1>1, <1>2, <1>3, <1>5, <2>2, <2>3, <3>3
    <3> QED BY <3>1, <3>2, <3>3
  <2>5. R2 # 0 => due + S >= R2 + gI + I
    <3> HIDE DEF due, D2, R2
    <3>1. CASE rpcDegraded /\ ~degraded /\ warns
      <4>1. gI = 0 /\ R2 = now
        BY <2>2, <2>3, <3>1
      <4> QED BY <1>1, <2>3, <4>1
    <3>2. CASE ~(rpcDegraded /\ ~degraded /\ warns)
      BY <1>1, <1>2, <1>3, <1>5, <2>2, <2>3, <3>2
    <3> QED BY <3>1, <3>2
  <2> QED BY <1>6, <1>7, <2>1, <2>4, <2>5 DEF ChecksSpaced
<1>12. LastWordIsTrue'
  BY <1>6, <1>7, <1>8 DEF LastWordIsTrue
<1> QED BY <1>9, <1>10, <1>11, <1>12, Zenon DEF AlertingInv

LEMMA AlertingInvariant == AlertingSpec => []AlertingInv
<1>1. AlertingInit => AlertingInv
  <2> SUFFICES ASSUME AlertingInit PROVE AlertingInv
    OBVIOUS
  <2>1. /\ {Window, SpikeThreshold, RpcInterval, RpcThreshold} \subseteq Nat \ {0}
        /\ FirstTime \in Nat
    BY AlertingAssumption
  <2>2. AlertTypes
    <3>1. /\ minSeverity \in Severities
          /\ now = FirstTime /\ nextCheckIn = RpcInterval /\ checkSince = 0
          /\ rpcFailures = 0 /\ rpcDegraded = FALSE
          /\ signalTimes = [k \in Spikes |-> <<>>] /\ lastSpikeAt = [k \in Spikes |-> 0]
          /\ lastSentAt = [k \in Spikes \cup RpcAlerts |-> 0]
      BY DEF AlertingInit
    <3>2. nextCheckIn \in 0 .. RpcInterval /\ 0 \in 0 .. now /\ now \in Nat /\ now >= FirstTime
      BY <2>1, <3>1
    <3>3. rpcFailures \in 0 .. RpcThreshold /\ rpcFailures # RpcThreshold
      BY <2>1, <3>1
    <3>4. signalTimes \in [Spikes -> Seq(Nat)]
      BY <3>1
    <3> QED BY <3>1, <3>2, <3>3, <3>4 DEF AlertTypes
  <2>3. SpikesNoted
    BY <2>1 DEF AlertingInit, SpikesNoted
  <2>4. ChecksSpaced
    BY DEF AlertingInit, ChecksSpaced, RpcAlerts
  <2>5. LastWordIsTrue
    BY DEF AlertingInit, LastWordIsTrue
  <2> QED BY <2>2, <2>3, <2>4, <2>5 DEF AlertingInv
<1>2. AlertingInv /\ [AlertingNext]_alertVars => AlertingInv'
  <2> SUFFICES ASSUME AlertingInv, [AlertingNext]_alertVars
               PROVE  AlertingInv'
    OBVIOUS
  <2>1. CASE ClockTicks \/ HealthTimer
    BY <2>1, TimerStep
  <2>2. CASE CheckSucceeds \/ CheckFails
    BY <2>2, CheckStep
  <2>3. ASSUME NEW k \in Spikes, Signal(k) PROVE AlertingInv'
    BY <2>3, SignalStep
  <2>4. CASE UNCHANGED alertVars
    BY <2>4
    DEF AlertingInv, AlertTypes, SpikesNoted, ChecksSpaced, LastWordIsTrue, NextCheck,
        alertVars, spikeVars, rpcVars
  <2> QED BY <2>1, <2>2, <2>3, <2>4 DEF AlertingNext
<1> QED BY <1>1, <1>2, PTL DEF AlertingSpec

\* While signals come thick, an alert is let through at least every second window, under
\* every setting of ALERT_MIN_SEVERITY but "fatal".
THEOREM SpikesAreHeard == AlertingSpec => []SpikeIsHeard
<1>1. AlertingInv => SpikeIsHeard
  <2> SUFFICES ASSUME AlertingInv, NEW k \in Spikes, minSeverity # "fatal",
                      Len(signalTimes[k]) >= SpikeThreshold,
                      now - signalTimes[k][Len(signalTimes[k])] <= 1
               PROVE  lastSentAt[k] # 0 /\ now - lastSentAt[k] <= 2 * Window
    BY DEF SpikeIsHeard
  <2> DEFINE last == signalTimes[k][Len(signalTimes[k])]
  <2>1. /\ now \in Nat /\ Window \in Nat /\ lastSpikeAt[k] \in Nat /\ lastSentAt[k] \in Nat
    BY AlertingAssumption DEF AlertingInv, AlertTypes
  <2>2. last \in Nat
    <3>1. signalTimes[k] \in Seq(Nat) /\ SpikeThreshold \in Nat \ {0}
      BY AlertingAssumption DEF AlertingInv, AlertTypes
    <3>2. Len(signalTimes[k]) \in 1 .. Len(signalTimes[k])
      BY <3>1
    <3> QED BY <3>1, <3>2
  <2>3. /\ lastSentAt[k] # 0 /\ lastSpikeAt[k] < lastSentAt[k] + Window
        /\ lastSpikeAt[k] # 0 /\ last < lastSpikeAt[k] + Window
    BY DEF AlertingInv, SpikesNoted
  <2> HIDE DEF last
  <2>4. now - last <= 1
    BY DEF last
  <2> QED BY <2>1, <2>2, <2>3, <2>4
<1> QED BY <1>1, AlertingInvariant, PTL

\* No cooldown swallows the RPC alert that corrects the last one, under the settings that
\* ask for both; under the others no outage is missed.
THEOREM LastWordAlwaysTrue == AlertingSpec => []LastWordIsTrue
<1>1. AlertingInv => LastWordIsTrue
  BY DEF AlertingInv
<1> QED BY <1>1, AlertingInvariant, PTL

-----------------------------------------------------------------------------
(* The audit files.  Every line is some chunks of appends that tore and    *)
(* then the entry, if any, that ended it, so that an entry lost to parsing *)
(* has a line that begins with a torn chunk; there are no more of those    *)
(* than appends that tore.  The entries of the appends that succeeded are  *)
(* K, those of which only the line end is missing U.                       *)

PlacesIn(F) == UNION {{f} \X DOMAIN F[f] : f \in DOMAIN F}
AtIn(F, p) == F[p[1]][p[2]]
Final(line) == line[Len(line)]
Tears(U) == U \cup {Part}
TornIn(F, U) == {p \in PlacesIn(F) : AtIn(F, p)[1] \in Tears(U)}

LinesShaped(F, K, U) ==
    \A p \in PlacesIn(F) :
        /\ AtIn(F, p) \in Seq(Int) /\ Len(AtIn(F, p)) # 0
        /\ \A i \in 1 .. Len(AtIn(F, p)) - 1 : AtIn(F, p)[i] \in Tears(U)
        /\ Final(AtIn(F, p)) \in K \cup Tears(U)
EachOnce(F) ==
    \A p, q \in PlacesIn(F) :
        \A i \in 1 .. Len(AtIn(F, p)), j \in 1 .. Len(AtIn(F, q)) :
            AtIn(F, p)[i] = AtIn(F, q)[j] /\ AtIn(F, p)[i] # Part => p = q /\ i = j
AllOnFile(F, K) == \A e \in K : \E p \in PlacesIn(F) : Final(AtIn(F, p)) = e
FewTorn(F, U, t) == IsFiniteSet(TornIn(F, U)) /\ Cardinality(TornIn(F, U)) <= t

FilesOk(F, K, U, t) ==
    /\ K \cap U = {}
    /\ LinesShaped(F, K, U) /\ EachOnce(F) /\ AllOnFile(F, K) /\ FewTorn(F, U, t)

\* Line o has become l, or is new.
Changed(F, G, o, l) ==
    /\ PlacesIn(G) = PlacesIn(F) \cup {o}
    /\ AtIn(G, o) = l
    /\ \A p \in PlacesIn(F) \ {o} : AtIn(G, p) = AtIn(F, p)

\* A chunk added to a new line, or to one that ended in a torn chunk.
ChunkAdded(F, G, U, chunk) ==
    \E o : \/ o \notin PlacesIn(F) /\ Changed(F, G, o, <<chunk>>)
           \/ /\ o \in PlacesIn(F) /\ Final(AtIn(F, o)) \in Tears(U)
              /\ Changed(F, G, o, Append(AtIn(F, o), chunk))

LEMMA PlaceIn ==
    ASSUME NEW D, NEW F, DOMAIN F = D, NEW p
    PROVE  p \in PlacesIn(F) <=> \E f \in D : \E i \in DOMAIN F[f] : p = <<f, i>>
BY DEF PlacesIn

LEMMA LineAppended ==
    ASSUME NEW D, NEW F \in [D -> Seq(Seq(Int))], NEW f \in D, NEW l \in Seq(Int),
           NEW G, G = [F EXCEPT ![f] = Append(F[f], l)]
    PROVE  \E o : o \notin PlacesIn(F) /\ Changed(F, G, o, l)
<1> DEFINE n == Len(F[f]) + 1
           o == <<f, n>>
<1>1. /\ F[f] \in Seq(Seq(Int)) /\ n \in Nat \ {0} /\ n \notin 1 .. Len(F[f])
      /\ DOMAIN F = D /\ DOMAIN G = D /\ DOMAIN F[f] = 1 .. Len(F[f])
  OBVIOUS
<1>2. /\ G[f] = Append(F[f], l) /\ \A g \in D \ {f} : G[g] = F[g]
      /\ DOMAIN G[f] = 1 .. n /\ G[f][n] = l
      /\ \A i \in 1 .. Len(F[f]) : G[f][i] = F[f][i]
  BY <1>1
<1>3. 1 .. n = (1 .. Len(F[f])) \cup {n}
  BY <1>1
<1> HIDE DEF n
<1>4. o \notin PlacesIn(F)
  BY <1>1, PlaceIn
<1>5. ASSUME NEW p PROVE p \in PlacesIn(G) <=> p \in PlacesIn(F) \cup {o}
  <2>1. p \in PlacesIn(F) <=> \E g \in D : \E i \in DOMAIN F[g] : p = <<g, i>>
    BY <1>1, PlaceIn
  <2>2. p \in PlacesIn(G) <=> \E g \in D : \E i \in DOMAIN G[g] : p = <<g, i>>
    <3>1. DOMAIN G = D
      BY <1>1
    <3> QED BY <3>1 DEF PlacesIn
  <2>3. \A g \in D \ {f} : DOMAIN G[g] = DOMAIN F[g]
    BY <1>2
  <2> QED BY <1>1, <1>2, <1>3, <2>1, <2>2, <2>3
<1>6. ASSUME NEW p \in PlacesIn(F) \ {o} PROVE AtIn(G, p) = AtIn(F, p)
  <2>1. PICK g \in D : \E i \in DOMAIN F[g] : p = <<g, i>>
    BY <1>1, PlaceIn
  <2>2. PICK i \in DOMAIN F[g] : p = <<g, i>>
    BY <2>1
  <2> QED BY <1>1, <1>2, <2>2 DEF AtIn
<1>7. AtIn(G, o) = l
  BY <1>2 DEF AtIn
<1> HIDE DEF o
<1>8. PlacesIn(G) = PlacesIn(F) \cup {o}
  BY <1>5
<1> QED BY <1>4, <1>6, <1>7, <1>8 DEF Changed

LEMMA LineGlued ==
    ASSUME NEW D, NEW F \in [D -> Seq(Seq(Int))], NEW f \in D, F[f] # <<>>, NEW chunk \in Int,
           NEW G,
           G = [F EXCEPT ![f] = [F[f] EXCEPT ![Len(F[f])] = Append(F[f][Len(F[f])], chunk)]],
           NEW U, Final(F[f][Len(F[f])]) \in Tears(U)
    PROVE  \E o : /\ o \in PlacesIn(F) /\ Final(AtIn(F, o)) \in Tears(U)
                  /\ Changed(F, G, o, Append(AtIn(F, o), chunk))
<1> DEFINE n == Len(F[f])
           l == Append(F[f][n], chunk)
           o == <<f, n>>
<1>1. /\ F[f] \in Seq(Seq(Int)) /\ n \in Nat \ {0} /\ n \in 1 .. n
      /\ DOMAIN F = D /\ DOMAIN G = D /\ DOMAIN F[f] = 1 .. n
  OBVIOUS
<1>2. /\ G[f] = [F[f] EXCEPT ![n] = l] /\ \A g \in D \ {f} : G[g] = F[g]
      /\ DOMAIN G[f] = 1 .. n /\ G[f][n] = l
      /\ \A i \in 1 .. n : i # n => G[f][i] = F[f][i]
  <2>1. G = [F EXCEPT ![f] = [F[f] EXCEPT ![n] = l]]
    OBVIOUS
  <2> HIDE DEF n, l
  <2>2. G[f] = [F[f] EXCEPT ![n] = l] /\ \A g \in D \ {f} : G[g] = F[g]
    BY <1>1, <2>1
  <2> QED BY <1>1, <2>2
<1> HIDE DEF n
<1>3. o \in PlacesIn(F)
  BY <1>1, PlaceIn
<1>4. ASSUME NEW p PROVE p \in PlacesIn(G) <=> p \in PlacesIn(F)
  <2>1. p \in PlacesIn(F) <=> \E g \in D : \E i \in DOMAIN F[g] : p = <<g, i>>
    BY <1>1, PlaceIn
  <2>2. p \in PlacesIn(G) <=> \E g \in D : \E i \in DOMAIN G[g] : p = <<g, i>>
    <3>1. DOMAIN G = D
      BY <1>1
    <3> QED BY <3>1 DEF PlacesIn
  <2>3. \A g \in D : DOMAIN G[g] = DOMAIN F[g]
    BY <1>1, <1>2
  <2> QED BY <2>1, <2>2, <2>3
<1>5. ASSUME NEW p \in PlacesIn(F) \ {o} PROVE AtIn(G, p) = AtIn(F, p)
  <2>1. PICK g \in D : \E i \in DOMAIN F[g] : p = <<g, i>>
    BY <1>1, PlaceIn
  <2>2. PICK i \in DOMAIN F[g] : p = <<g, i>>
    BY <2>1
  <2>3. AtIn(F, p) = F[g][i] /\ AtIn(G, p) = G[g][i]
    BY <2>2 DEF AtIn
  <2>4. CASE g = f
    <3>1. i \in 1 .. n /\ i # n
      BY <1>1, <2>2, <2>4
    <3> QED BY <1>2, <2>3, <2>4, <3>1
  <2>5. CASE g # f
    BY <1>2, <2>3, <2>5
  <2> QED BY <2>4, <2>5
<1>6. AtIn(F, o) = F[f][n] /\ AtIn(G, o) = l /\ Final(F[f][n]) \in Tears(U)
  <2>1. AtIn(F, o) = F[f][n] /\ AtIn(G, o) = G[f][n]
    BY DEF AtIn
  <2>2. Final(F[f][n]) \in Tears(U)
    BY DEF n
  <2> HIDE DEF l
  <2> QED BY <1>2, <2>1, <2>2
<1> HIDE DEF o
<1>7. PlacesIn(G) = PlacesIn(F) \cup {o}
  BY <1>3, <1>4
<1> QED BY <1>3, <1>5, <1>6, <1>7 DEF Changed

\* Every chunk is an entry of K or U, or a part.
LEMMA ChunksKnown ==
    ASSUME NEW F, NEW K, NEW U, LinesShaped(F, K, U), NEW p \in PlacesIn(F),
           NEW i \in 1 .. Len(AtIn(F, p))
    PROVE  AtIn(F, p)[i] \in K \cup Tears(U)
<1>1. PICK n : n = Len(AtIn(F, p))
  OBVIOUS
<1>2. n \in Nat
  BY <1>1 DEF LinesShaped
<1>3. i = n \/ i \in 1 .. n - 1
  BY <1>1, <1>2
<1> QED BY <1>1, <1>3 DEF LinesShaped, Final

\* What an append that succeeds, or tears, does to the files.
LEMMA FilesGain ==
    ASSUME NEW F, NEW G, NEW K \in SUBSET Nat, NEW U \in SUBSET Nat, NEW t \in Nat,
           FilesOk(F, K, U, t), NEW chunk \in Int, ChunkAdded(F, G, U, chunk)
    PROVE  /\ chunk = Part => FilesOk(G, K, U, t + 1)
           /\ chunk \in Nat \ (K \cup U) => /\ FilesOk(G, K \cup {chunk}, U, t)
                                            /\ FilesOk(G, K, U \cup {chunk}, t + 1)
<1>1. PICK o, l : /\ Changed(F, G, o, l)
                  /\ \/ o \notin PlacesIn(F) /\ l = <<chunk>>
                     \/ /\ o \in PlacesIn(F) /\ Final(AtIn(F, o)) \in Tears(U)
                        /\ l = Append(AtIn(F, o), chunk)
  BY DEF ChunkAdded
<1>2. /\ PlacesIn(G) = PlacesIn(F) \cup {o} /\ AtIn(G, o) = l
      /\ \A p \in PlacesIn(F) \ {o} : AtIn(G, p) = AtIn(F, p)
  BY <1>1 DEF Changed
<1>3. Part \in Int /\ Part \notin Nat
  BY DEF Part
<1>4. PICK m \in Nat \ {0} :
         /\ l \in Seq(Int) /\ Len(l) = m /\ l[m] = chunk
         /\ \A i \in 1 .. m - 1 : l[i] \in Tears(U)
         /\ o \in PlacesIn(F) => /\ Len(AtIn(F, o)) = m - 1 /\ m - 1 # 0
                                 /\ \A i \in 1 .. m - 1 : l[i] = AtIn(F, o)[i]
         /\ o \notin PlacesIn(F) => m = 1
  <2>1. CASE o \notin PlacesIn(F)
    <3>1. l = <<chunk>>
      BY <1>1, <2>1
    <3>2. l \in Seq(Int) /\ Len(l) = 1 /\ l[1] = chunk /\ 1 .. 1 - 1 = {} /\ 1 \in Nat \ {0}
      BY <3>1
    <3> QED BY <2>1, <3>2
  <2>2. CASE o \in PlacesIn(F)
    <3> DEFINE k == AtIn(F, o)
               n == Len(k)
    <3>1. /\ k \in Seq(Int) /\ n # 0 /\ \A i \in 1 .. n - 1 : k[i] \in Tears(U)
          /\ k[n] \in Tears(U) /\ l = Append(k, chunk)
      BY <1>1, <2>2 DEF FilesOk, LinesShaped, Final
    <3> HIDE DEF k
    <3>2. n \in Nat \ {0} /\ \A i \in 1 .. n : k[i] \in Tears(U)
      BY <3>1
    <3>3. /\ l \in Seq(Int) /\ Len(l) = n + 1 /\ l[n + 1] = chunk
          /\ \A i \in 1 .. n : l[i] = k[i]
      BY <3>1, <3>2
    <3>4. n + 1 \in Nat \ {0} /\ (n + 1) - 1 = n
      BY <3>2
    <3> QED BY <2>2, <3>2, <3>3, <3>4 DEF k
  <2> QED BY <2>1, <2>2
<1>5. ASSUME NEW J, NEW V, K \subseteq J, U \subseteq V, chunk \in J \cup Tears(V)
      PROVE  LinesShaped(G, J, V)
  <2> SUFFICES ASSUME NEW p \in PlacesIn(G)
               PROVE  /\ AtIn(G, p) \in Seq(Int) /\ Len(AtIn(G, p)) # 0
                      /\ \A i \in 1 .. Len(AtIn(G, p)) - 1 : AtIn(G, p)[i] \in Tears(V)
                      /\ Final(AtIn(G, p)) \in J \cup Tears(V)
    BY DEF LinesShaped
  <2>1. Tears(U) \subseteq Tears(V)
    BY <1>5 DEF Tears
  <2>2. CASE p = o
    <3>1. Final(l) = chunk
      BY <1>4 DEF Final
    <3> QED BY <1>2, <1>4, <1>5, <2>1, <2>2, <3>1
  <2>3. CASE p # o
    BY <1>2, <1>5, <2>1, <2>3 DEF FilesOk, LinesShaped
  <2> QED BY <2>2, <2>3
<1>6. ASSUME NEW p \in PlacesIn(F), NEW i \in 1 .. Len(AtIn(F, p))
      PROVE  AtIn(F, p)[i] \in K \cup Tears(U)
  BY <1>6, ChunksKnown DEF FilesOk
<1>7. ASSUME chunk \notin K \cup U PROVE EachOnce(G)
  <2>1. ASSUME NEW p \in PlacesIn(F) \ {o}, NEW i \in 1 .. Len(AtIn(F, p)),
               NEW j \in 1 .. m, l[j] = AtIn(F, p)[i], l[j] # Part
        PROVE  FALSE
    <3>1. CASE j = m
      <4>1. chunk \in K \cup Tears(U)
        BY <1>4, <1>6, <2>1, <3>1
      <4> QED BY <1>4, <1>7, <2>1, <3>1, <4>1 DEF Tears
    <3>2. CASE j # m
      <4>1. j \in 1 .. m - 1 /\ m # 1
        BY <2>1, <3>2
      <4>2. /\ o \in PlacesIn(F) /\ j \in 1 .. Len(AtIn(F, o)) /\ l[j] = AtIn(F, o)[j]
        BY <1>4, <4>1
      <4> QED BY <2>1, <4>2 DEF FilesOk, EachOnce
    <3> QED BY <3>1, <3>2
  <2>2. ASSUME NEW i \in 1 .. m, NEW j \in 1 .. m, l[i] = l[j], l[i] # Part PROVE i = j
    <3>1. CASE i # m /\ j # m
      <4>1. i \in 1 .. m - 1 /\ j \in 1 .. m - 1 /\ m # 1
        BY <2>2, <3>1
      <4>2. /\ o \in PlacesIn(F) /\ i \in 1 .. Len(AtIn(F, o)) /\ j \in 1 .. Len(AtIn(F, o))
            /\ l[i] = AtIn(F, o)[i] /\ l[j] = AtIn(F, o)[j]
        BY <1>4, <4>1
      <4> QED BY <2>2, <4>2 DEF FilesOk, EachOnce
    <3>2. ASSUME NEW h \in 1 .. m, h # m, l[h] = chunk, l[h] # Part PROVE FALSE
      <4>1. h \in 1 .. m - 1
        BY <3>2
      <4> QED BY <1>4, <1>7, <3>2, <4>1 DEF Tears
    <3> QED BY <1>4, <2>2, <3>1, <3>2
  <2> SUFFICES ASSUME NEW p \in PlacesIn(G), NEW q \in PlacesIn(G),
                      NEW i \in 1 .. Len(AtIn(G, p)), NEW j \in 1 .. Len(AtIn(G, q)),
                      AtIn(G, p)[i] = AtIn(G, q)[j], AtIn(G, p)[i] # Part
               PROVE  p = q /\ i = j
    BY DEF EachOnce
  <2>3. CASE p # o /\ q # o
    BY <1>2, <2>3 DEF FilesOk, EachOnce
  <2>4. CASE p = o /\ q # o
    BY <1>2, <1>4, <2>1, <2>4
  <2>5. CASE p # o /\ q = o
    BY <1>2, <1>4, <2>1, <2>5
  <2>6. CASE p = o /\ q = o
    BY <1>2, <1>4, <2>2, <2>6
  <2> QED BY <2>3, <2>4, <2>5, <2>6
<1>8. ASSUME NEW e \in K PROVE \E p \in PlacesIn(G) : Final(AtIn(G, p)) = e
  <2>1. PICK p \in PlacesIn(F) : Final(AtIn(F, p)) = e
    BY DEF FilesOk, AllOnFile
  <2>2. e \notin Tears(U)
    BY <1>3 DEF FilesOk, Tears
  <2>3. p # o
    BY <1>1, <2>1, <2>2
  <2> QED BY <1>2, <2>1, <2>3
<1>9. /\ IsFiniteSet(TornIn(F, U)) /\ Cardinality(TornIn(F, U)) <= t
      /\ Cardinality(TornIn(F, U)) \in Nat
  BY FS_CardinalityType DEF FilesOk, FewTorn
<1>10. ASSUME NEW V, chunk \notin K \cup U, V = U \/ V = U \cup {chunk}
       PROVE  FewTorn(G, V, t + 1)
  <2> DEFINE more == TornIn(F, U) \cup {o}
  <2>1. TornIn(G, V) \in SUBSET more
    <3> SUFFICES ASSUME NEW p \in TornIn(G, V), p # o PROVE p \in TornIn(F, U)
      OBVIOUS
    <3>1. p \in PlacesIn(F) /\ AtIn(G, p) = AtIn(F, p) /\ AtIn(F, p)[1] \in Tears(V)
      BY <1>2 DEF TornIn
    <3>2. PICK n : n = Len(AtIn(F, p))
      OBVIOUS
    <3>3. n \in Nat \ {0}
      BY <3>1, <3>2 DEF FilesOk, LinesShaped
    <3>4. 1 \in 1 .. n
      BY <3>3
    <3>5. AtIn(F, p)[1] \in K \cup Tears(U)
      BY <1>6, <3>1, <3>2, <3>4
    <3>6. AtIn(F, p)[1] \in Tears(U)
      BY <1>10, <3>1, <3>5 DEF Tears
    <3> QED BY <3>1, <3>6 DEF TornIn
  <2>2. IsFiniteSet(more) /\ Cardinality(more) <= Cardinality(TornIn(F, U)) + 1
    BY <1>9, FS_AddElement
  <2>3. /\ IsFiniteSet(TornIn(G, V)) /\ Cardinality(TornIn(G, V)) <= Cardinality(more)
        /\ Cardinality(TornIn(G, V)) \in Nat /\ Cardinality(more) \in Nat
    BY <2>1, <2>2, FS_Subset, FS_CardinalityType
  <2> HIDE DEF more
  <2> QED BY <1>9, <2>2, <2>3 DEF FewTorn
<1>11. ASSUME chunk = Part PROVE FilesOk(G, K, U, t + 1)
  <2>1. chunk \notin K \cup U /\ chunk \in K \cup Tears(U)
    BY <1>3, <1>11 DEF Tears
  <2>2. LinesShaped(G, K, U) /\ EachOnce(G) /\ FewTorn(G, U, t + 1)
    BY <1>5, <1>7, <1>10, <2>1
  <2>3. AllOnFile(G, K)
    BY <1>8 DEF AllOnFile
  <2> QED BY <2>2, <2>3 DEF FilesOk
<1>12. ASSUME chunk \in Nat \ (K \cup U) PROVE FilesOk(G, K, U \cup {chunk}, t + 1)
  <2> DEFINE V == U \cup {chunk}
  <2>1. chunk \notin K \cup U /\ chunk \in K \cup Tears(V) /\ U \subseteq V /\ K \cap V = {}
    BY <1>12 DEF Tears, FilesOk
  <2> HIDE DEF V
  <2>2. LinesShaped(G, K, V) /\ EachOnce(G)
    BY <1>5, <1>7, <2>1
  <2>3. AllOnFile(G, K)
    BY <1>8 DEF AllOnFile
  <2>4. FewTorn(G, V, t + 1)
    BY <1>10, <2>1 DEF V
  <2> QED BY <2>1, <2>2, <2>3, <2>4 DEF FilesOk, V
<1>13. ASSUME chunk \in Nat \ (K \cup U) PROVE FilesOk(G, K \cup {chunk}, U, t)
  <2>1. FewTorn(G, U, t)
    <3>1. TornIn(G, U) \in SUBSET TornIn(F, U)
      <4> SUFFICES ASSUME NEW p \in TornIn(G, U) PROVE p \in TornIn(F, U)
        OBVIOUS
      <4>1. CASE p = o
        <5>1. l[1] \in Tears(U)
          BY <1>2, <4>1 DEF TornIn
        <5>2. m # 1
          BY <1>3, <1>4, <1>13, <5>1 DEF Tears
        <5>3. o \in PlacesIn(F) /\ 1 \in 1 .. m - 1
          BY <1>4, <5>2
        <5>4. AtIn(F, o)[1] \in Tears(U)
          BY <1>4, <5>1, <5>3
        <5> QED BY <4>1, <5>3, <5>4 DEF TornIn
      <4>2. CASE p # o
        BY <1>2, <4>2 DEF TornIn
      <4> QED BY <4>1, <4>2
    <3>2. /\ IsFiniteSet(TornIn(G, U)) /\ Cardinality(TornIn(G, U)) <= Cardinality(TornIn(F, U))
          /\ Cardinality(TornIn(G, U)) \in Nat
      BY <1>9, <3>1, FS_Subset, FS_CardinalityType
    <3> QED BY <1>9, <3>2 DEF FewTorn
  <2> DEFINE J == K \cup {chunk}
  <2>2. chunk \notin K \cup U /\ chunk \in J \cup Tears(U) /\ K \subseteq J /\ J \cap U = {}
    BY <1>13 DEF FilesOk
  <2>3. AllOnFile(G, J)
    <3>1. Final(l) = chunk
      BY <1>4 DEF Final
    <3>2. o \in PlacesIn(G) /\ Final(AtIn(G, o)) = chunk
      BY <1>2, <3>1
    <3> QED BY <1>8, <3>2 DEF AllOnFile
  <2> HIDE DEF J
  <2>4. LinesShaped(G, J, U) /\ EachOnce(G)
    BY <1>5, <1>7, <2>2
  <2> QED BY <2>1, <2>2, <2>3, <2>4 DEF FilesOk, J
<1> QED BY <1>11, <1>12, <1>13

-----------------------------------------------------------------------------
TrailTypes ==
    /\ date \in Dates /\ entries \in Nat /\ torn \in Nat
    /\ kept \in SUBSET (1 .. entries) /\ unended \in SUBSET (1 .. entries)
    /\ dayFile \in [Dates -> Seq(Seq(Int))] /\ rotated \in Seq(Seq(Int))
    /\ lineOpen \in SUBSET Dates
    /\ writing \in [Writers -> {NoWrite}
                       \cup [entry : 1 .. entries, date : Dates, rotates : BOOLEAN]]
    /\ page \in [date : Dates, offset : Nat, got : Seq(Nat)] /\ Len(page.got) = page.offset

OpenEndsTorn ==
    \A d \in lineOpen :
        dayFile[d] # <<>> /\ Final(dayFile[d][Len(dayFile[d])]) \in Tears(unended)

EntriesDiffer ==
    \A w \in Writers :
        writing[w] # NoWrite =>
            /\ writing[w].entry \notin kept \cup unended
            /\ \A v \in Writers \ {w} : writing[v] # NoWrite => writing[v].entry # writing[w].entry

TrailInv ==
    /\ TrailTypes /\ OpenEndsTorn /\ EntriesDiffer /\ PagesInOrder
    /\ FilesOk(Files, kept, unended, torn)

LEMMA FilesTyped ==
    ASSUME TrailTypes
    PROVE  /\ Files \in [Dates \cup {0} -> Seq(Seq(Int))] /\ Files[0] = rotated
           /\ \A d \in Dates : Files[d] = dayFile[d]
<1>1. 0 \notin Dates
  BY AuditAssumption
<1> QED BY <1>1 DEF TrailTypes, Files

\* Lines keep their first chunk, and one that did not parse does not do so later.
LinesKept(k, l, n) ==
    \A i \in 1 .. n : l[i][1] = k[i][1] /\ (Parses(l[i]) => Parses(k[i]))

\* A write to a day's file, at its end.
LEMMA DayFileGrows ==
    ASSUME TrailTypes, OpenEndsTorn, LinesShaped(Files, kept, unended),
           NEW d \in Dates, NEW chunk \in Int
    PROVE  LET glued == Glued(dayFile[d], d \in lineOpen, chunk)
           IN  /\ glued \in Seq(Seq(Int)) /\ Len(dayFile[d]) <= Len(glued)
               /\ LinesKept(dayFile[d], glued, Len(dayFile[d]))
               /\ glued # <<>> /\ Final(glued[Len(glued)]) = chunk
               /\ \A G : G = [Files EXCEPT ![d] = glued] => ChunkAdded(Files, G, unended, chunk)
<1> DEFINE k == dayFile[d]
           n == Len(k)
<1>1. /\ k \in Seq(Seq(Int)) /\ n \in Nat /\ \A i \in 1 .. n : k[i] \in Seq(Int)
      /\ Files \in [Dates \cup {0} -> Seq(Seq(Int))] /\ Files[d] = k /\ d \in Dates \cup {0}
  <2>1. k \in Seq(Seq(Int))
    BY DEF TrailTypes
  <2> QED BY <2>1, FilesTyped
<1>2. CASE d \notin lineOpen
  <2>1. Glued(k, d \in lineOpen, chunk) = Append(k, <<chunk>>)
    BY <1>2 DEF Glued
  <2> HIDE DEF k
  <2>2. <<chunk>> \in Seq(Int) /\ Final(<<chunk>>) = chunk
    BY DEF Final
  <2> DEFINE glued == Append(k, <<chunk>>)
  <2>3. /\ glued \in Seq(Seq(Int)) /\ Len(glued) = n + 1 /\ glued[n + 1] = <<chunk>>
        /\ \A i \in 1 .. n : glued[i] = k[i]
    BY <1>1, <2>2
  <2>4. \A G : G = [Files EXCEPT ![d] = glued] => ChunkAdded(Files, G, unended, chunk)
    <3> SUFFICES ASSUME NEW G, G = [Files EXCEPT ![d] = glued]
                 PROVE  ChunkAdded(Files, G, unended, chunk)
      OBVIOUS
    <3>1. G = [Files EXCEPT ![d] = Append(Files[d], <<chunk>>)]
      BY <1>1
    <3>2. PICK F : F = Files
      OBVIOUS
    <3>3. \E o : o \notin PlacesIn(F) /\ Changed(F, G, o, <<chunk>>)
      BY <1>1, <2>2, <3>1, <3>2, LineAppended
    <3> QED BY <3>2, <3>3 DEF ChunkAdded
  <2> HIDE DEF glued
  <2>5. glued # <<>> /\ n <= Len(glued) /\ Final(glued[Len(glued)]) = chunk
    BY <1>1, <2>2, <2>3
  <2>6. LinesKept(k, glued, n)
    BY <2>3 DEF LinesKept
  <2> QED BY <2>1, <2>3, <2>4, <2>5, <2>6 DEF k, glued
<1>3. CASE d \in lineOpen
  <2> DEFINE glued == [k EXCEPT ![n] = Append(k[n], chunk)]
  <2>1. Glued(k, d \in lineOpen, chunk) = glued
    BY <1>3 DEF Glued
  <2>2. k # <<>> /\ Final(k[n]) \in Tears(unended)
    BY <1>3 DEF OpenEndsTorn
  <2>3. Len(k[n]) # 0
    <3>1. n \in DOMAIN Files[d] /\ DOMAIN Files = Dates \cup {0}
      BY <1>1, <2>2
    <3>2. <<d, n>> \in PlacesIn(Files)
      BY <1>1, <3>1, PlaceIn
    <3>3. AtIn(Files, <<d, n>>) = k[n]
      BY <1>1 DEF AtIn
    <3> QED BY <3>2, <3>3 DEF LinesShaped
  <2> HIDE DEF k
  <2>4. n \in 1 .. n /\ k[n] \in Seq(Int) /\ Append(k[n], chunk) \in Seq(Int)
    BY <1>1, <2>2
  <2>5. /\ glued \in Seq(Seq(Int)) /\ Len(glued) = n /\ glued[n] = Append(k[n], chunk)
        /\ \A i \in 1 .. n : i # n => glued[i] = k[i]
    BY <1>1, <2>4
  <2>6. /\ Final(Append(k[n], chunk)) = chunk /\ Append(k[n], chunk)[1] = k[n][1]
        /\ ~Parses(Append(k[n], chunk))
    <3> DEFINE l == k[n]
    <3>1. l \in Seq(Int) /\ Len(l) # 0
      BY <2>3, <2>4
    <3> HIDE DEF l
    <3>2. /\ Len(Append(l, chunk)) = Len(l) + 1 /\ Len(l) \in Nat \ {0}
          /\ Append(l, chunk)[Len(l) + 1] = chunk /\ Append(l, chunk)[1] = l[1]
      BY <3>1
    <3>3. Final(Append(l, chunk)) = chunk
      BY <3>2 DEF Final
    <3>4. Len(Append(l, chunk)) # 1
      BY <3>2
    <3> QED BY <3>2, <3>3, <3>4 DEF Parses, l
  <2>7. \A G : G = [Files EXCEPT ![d] = glued] => ChunkAdded(Files, G, unended, chunk)
    <3> SUFFICES ASSUME NEW G, G = [Files EXCEPT ![d] = glued]
                 PROVE  ChunkAdded(Files, G, unended, chunk)
      OBVIOUS
    <3>1. PICK F, U : F = Files /\ U = unended
      OBVIOUS
    <3>2. /\ G = [F EXCEPT ![d] = [F[d] EXCEPT ![Len(F[d])] = Append(F[d][Len(F[d])], chunk)]]
          /\ F[d] # <<>> /\ Final(F[d][Len(F[d])]) \in Tears(U)
      BY <1>1, <2>2, <3>1
    <3>3. F \in [Dates \cup {0} -> Seq(Seq(Int))]
      BY <1>1, <3>1
    <3>4. \E o : /\ o \in PlacesIn(F) /\ Final(AtIn(F, o)) \in Tears(U)
                 /\ Changed(F, G, o, Append(AtIn(F, o), chunk))
      BY <1>1, <3>2, <3>3, LineGlued
    <3> QED BY <3>1, <3>4 DEF ChunkAdded
  <2> HIDE DEF glued
  <2>8. glued # <<>> /\ n <= Len(glued) /\ Final(glued[Len(glued)]) = chunk
    BY <1>1, <2>4, <2>5, <2>6
  <2>9. LinesKept(k, glued, n)
    BY <2>5, <2>6 DEF LinesKept
  <2> QED BY <2>1, <2>5, <2>7, <2>8, <2>9 DEF k
<1> QED BY <1>2, <1>3

\* What an append does, whatever it writes; one that does not end its line leaves a chunk
\* that counts as torn.
LEMMA AppendKeeps ==
    ASSUME TrailInv, NEW x \in [entry : Nat, date : Dates, rotates : BOOLEAN],
           NEW chunk \in Int, NEW ends \in BOOLEAN, AppendTo(x, chunk, ends), page' = page,
           unended \subseteq unended', ~ends => chunk \in Tears(unended')
    PROVE  /\ dayFile' \in [Dates -> Seq(Seq(Int))] /\ rotated' \in Seq(Seq(Int))
           /\ lineOpen' \in SUBSET Dates
           /\ OpenEndsTorn' /\ PagesInOrder' /\ ChunkAdded(Files, Files', unended, chunk)
<1>1. /\ dayFile \in [Dates -> Seq(Seq(Int))] /\ rotated \in Seq(Seq(Int))
      /\ lineOpen \in SUBSET Dates /\ page \in [date : Dates, offset : Nat, got : Seq(Nat)]
  BY DEF TrailInv, TrailTypes
<1>2. /\ Files \in [Dates \cup {0} -> Seq(Seq(Int))] /\ Files[0] = rotated
      /\ \A d \in Dates : Files[d] = dayFile[d]
  BY FilesTyped DEF TrailInv
<1>3. 0 \notin Dates /\ Tears(unended) \subseteq Tears(unended')
  BY AuditAssumption DEF Tears
<1>4. CASE x.rotates
  <2>1. rotated' = Append(rotated, <<chunk>>) /\ dayFile' = dayFile /\ lineOpen' = lineOpen
    BY <1>4 DEF AppendTo
  <2>2. Files' = [Files EXCEPT ![0] = Append(Files[0], <<chunk>>)]
    <3>1. Files' = [f \in Dates \cup {0} |-> IF f = 0 THEN Append(rotated, <<chunk>>)
                                             ELSE dayFile[f]]
      BY <2>1 DEF Files
    <3> QED BY <1>2, <3>1 DEF Files
  <2>3. ChunkAdded(Files, Files', unended, chunk)
    <3>1. PICK F, G : F = Files /\ G = Files'
      OBVIOUS
    <3>2. <<chunk>> \in Seq(Int)
      OBVIOUS
    <3>3. /\ F \in [Dates \cup {0} -> Seq(Seq(Int))] /\ 0 \in Dates \cup {0}
          /\ G = [F EXCEPT ![0] = Append(F[0], <<chunk>>)]
      BY <1>2, <2>2, <3>1
    <3>4. \E o : o \notin PlacesIn(F) /\ Changed(F, G, o, <<chunk>>)
      BY <3>2, <3>3, LineAppended
    <3>5. ChunkAdded(F, G, unended, chunk)
      BY <3>4 DEF ChunkAdded
    <3> QED BY <3>1, <3>5
  <2>4. <<chunk>> \in Seq(Int) /\ rotated' \in Seq(Seq(Int))
    BY <1>1, <2>1
  <2>5. OpenEndsTorn' /\ PagesInOrder'
    BY <1>3, <2>1 DEF TrailInv, OpenEndsTorn, PagesInOrder
  <2> QED BY <1>1, <2>1, <2>3, <2>4, <2>5
<1>5. CASE ~x.rotates
  <2> DEFINE d == x.date
             glued == Glued(dayFile[d], d \in lineOpen, chunk)
  <2>1. /\ rotated' = rotated /\ dayFile' = [dayFile EXCEPT ![d] = glued]
        /\ lineOpen' = LinesOpen(d, ends)
    BY <1>5 DEF AppendTo
  <2>2. d \in Dates
    OBVIOUS
  <2>3. /\ glued \in Seq(Seq(Int)) /\ Len(dayFile[d]) <= Len(glued)
        /\ LinesKept(dayFile[d], glued, Len(dayFile[d]))
        /\ glued # <<>> /\ Final(glued[Len(glued)]) = chunk
        /\ \A G : G = [Files EXCEPT ![d] = glued] => ChunkAdded(Files, G, unended, chunk)
    <3>1. TrailTypes /\ OpenEndsTorn /\ LinesShaped(Files, kept, unended)
      BY DEF TrailInv, FilesOk
    <3> HIDE DEF d
    <3> QED BY <2>2, <3>1, DayFileGrows
  <2>4. PICK g : g = glued
    OBVIOUS
  <2> HIDE DEF glued, d
  <2>5. /\ dayFile' \in [Dates -> Seq(Seq(Int))] /\ dayFile'[d] = glued
        /\ \A e \in Dates \ {d} : dayFile'[e] = dayFile[e]
    BY <1>1, <2>1, <2>2, <2>3
  <2>6. Files' = [Files EXCEPT ![d] = glued]
    <3>1. Files' = [f \in Dates \cup {0} |-> IF f = 0 THEN rotated ELSE dayFile'[f]]
      BY <2>1 DEF Files
    <3>2. Files' = [f \in Dates \cup {0} |-> IF f = d THEN glued ELSE Files[f]]
      BY <1>2, <1>3, <2>2, <2>5, <3>1
    <3> QED BY <1>2, <3>2
  <2>7. ChunkAdded(Files, Files', unended, chunk)
    BY <2>3, <2>6
  <2>8. lineOpen' \in SUBSET Dates
    BY <1>1, <2>1, <2>2 DEF LinesOpen
  <2>9. OpenEndsTorn'
    <3> SUFFICES ASSUME NEW e \in lineOpen'
                 PROVE  /\ dayFile'[e] # <<>>
                        /\ Final(dayFile'[e][Len(dayFile'[e])]) \in Tears(unended')
      BY DEF OpenEndsTorn
    <3>1. CASE e = d
      <4>1. chunk \in Tears(unended')
        BY <2>1, <3>1 DEF LinesOpen
      <4> QED BY <2>3, <2>5, <3>1, <4>1
    <3>2. CASE e # d
      <4>1. e \in lineOpen /\ e \in Dates
        BY <1>1, <2>1, <3>2 DEF LinesOpen
      <4>2. dayFile[e] # <<>> /\ Final(dayFile[e][Len(dayFile[e])]) \in Tears(unended)
        BY <4>1 DEF TrailInv, OpenEndsTorn
      <4>3. dayFile'[e] = dayFile[e]
        BY <2>5, <3>2, <4>1
      <4> QED BY <1>3, <4>2, <4>3
    <3> QED BY <3>1, <3>2
  <2>10. PagesInOrder'
    <3>1. PICK b, c, got, k : /\ b = page.date /\ c = page.offset /\ got = page.got
                              /\ k = dayFile[b]
      OBVIOUS
    <3>2. /\ b \in Dates /\ c \in Nat /\ c <= Len(k)
          /\ \A i \in 1 .. c :
                /\ Parses(k[i]) => got[i] = k[i][1]
                /\ got[i] # NoEntry => k[i][1] = got[i]
                /\ \A j \in 1 .. c : got[i] = got[j] => i = j \/ got[i] = NoEntry
      BY <1>1, <3>1 DEF TrailInv, PagesInOrder
    <3>3. PICK l : l = dayFile'[b]
      OBVIOUS
    <3>4. c <= Len(l) /\ LinesKept(k, l, c)
      <4>1. CASE b # d
        <5>1. l = k
          BY <2>5, <3>1, <3>2, <3>3, <4>1
        <5> QED BY <3>2, <5>1 DEF LinesKept
      <4>2. CASE b = d
        <5>1. k \in Seq(Seq(Int)) /\ k = dayFile[d] /\ l = g
          BY <1>1, <2>2, <2>4, <2>5, <3>1, <3>3, <4>2
        <5>2. Len(k) <= Len(l) /\ Len(k) \in Nat /\ Len(l) \in Nat /\ LinesKept(k, l, Len(k))
          BY <2>3, <2>4, <5>1
        <5> QED BY <3>2, <5>2 DEF LinesKept
      <4> QED BY <4>1, <4>2
    <3>5. \A i \in 1 .. c :
             /\ Parses(l[i]) => got[i] = l[i][1]
             /\ got[i] # NoEntry => l[i][1] = got[i]
             /\ \A j \in 1 .. c : got[i] = got[j] => i = j \/ got[i] = NoEntry
      BY <3>2, <3>4 DEF LinesKept
    <3>6. page'.date = b /\ page'.offset = c /\ page'.got = got /\ dayFile'[page'.date] = l
      BY <3>1, <3>3
    <3> QED BY <3>4, <3>5, <3>6 DEF PagesInOrder
  <2> QED BY <2>1, <1>1, <2>5, <2>7, <2>8, <2>9, <2>10
<1> QED BY <1>4, <1>5

\* An append under way that takes place: whole, a part of it, or all but its line end.
LEMMA AppendPreserves ==
    ASSUME TrailInv, NEW w \in Writers, writing[w] # NoWrite,
           writing' = [writing EXCEPT ![w] = NoWrite], UNCHANGED <<date, entries, page>>,
           NEW chunk \in Int, NEW ends \in BOOLEAN, AppendTo(writing[w], chunk, ends),
           \/ /\ chunk = writing[w].entry /\ ends
              /\ kept' = kept \cup {chunk} /\ unended' = unended /\ torn' = torn
           \/ /\ chunk = Part
              /\ kept' = kept /\ unended' = unended /\ torn' = torn + 1
           \/ /\ chunk = writing[w].entry
              /\ kept' = kept /\ unended' = unended \cup {chunk} /\ torn' = torn + 1
    PROVE  TrailInv'
<1>1. PICK x : x = writing[w]
  OBVIOUS
<1>2. /\ x \in [entry : 1 .. entries, date : Dates, rotates : BOOLEAN] /\ entries \in Nat
      /\ writing \in [Writers -> {NoWrite}
                        \cup [entry : 1 .. entries, date : Dates, rotates : BOOLEAN]]
      /\ kept \in SUBSET (1 .. entries) /\ unended \in SUBSET (1 .. entries) /\ torn \in Nat
  <2>1. writing[w] \in {NoWrite} \cup [entry : 1 .. entries, date : Dates, rotates : BOOLEAN]
    BY DEF TrailInv, TrailTypes
  <2> QED BY <1>1, <2>1 DEF TrailInv, TrailTypes
<1>3. x \in [entry : Nat, date : Dates, rotates : BOOLEAN] /\ x.entry \in 1 .. entries
  BY <1>2
<1>4. /\ AppendTo(x, chunk, ends) /\ page' = page
      /\ unended \subseteq unended' /\ (~ends => chunk \in Tears(unended'))
  BY <1>1 DEF Tears
<1>5. /\ dayFile' \in [Dates -> Seq(Seq(Int))] /\ rotated' \in Seq(Seq(Int))
      /\ lineOpen' \in SUBSET Dates
      /\ OpenEndsTorn' /\ PagesInOrder' /\ ChunkAdded(Files, Files', unended, chunk)
  BY <1>3, <1>4, AppendKeeps
<1>6. \A v \in Writers : writing'[v] = IF v = w THEN NoWrite ELSE writing[v]
  BY <1>2
<1>7. writing' \in [Writers -> {NoWrite}
                       \cup [entry : 1 .. entries, date : Dates, rotates : BOOLEAN]]
  BY <1>2
<1>8. PICK K, U, t, F, G : K = kept /\ U = unended /\ t = torn /\ F = Files /\ G = Files'
  OBVIOUS
<1>9. /\ K \in SUBSET Nat /\ U \in SUBSET Nat /\ t \in Nat
      /\ FilesOk(F, K, U, t) /\ ChunkAdded(F, G, U, chunk)
  BY <1>2, <1>5, <1>8 DEF TrailInv
<1>10. /\ chunk = Part => FilesOk(G, K, U, t + 1)
       /\ chunk \in Nat \ (K \cup U) => /\ FilesOk(G, K \cup {chunk}, U, t)
                                        /\ FilesOk(G, K, U \cup {chunk}, t + 1)
  BY <1>9, FilesGain
<1>11. x.entry \notin kept \cup unended /\ x.entry \in Nat
  BY <1>1, <1>2, <1>3 DEF TrailInv, EntriesDiffer
<1>12. FilesOk(Files', kept', unended', torn')
  BY <1>1, <1>8, <1>10, <1>11
<1>13. \A v \in Writers \ {w} : writing[v] # NoWrite =>
          writing[v].entry \notin kept \cup unended /\ writing[v].entry # x.entry
  BY <1>1 DEF TrailInv, EntriesDiffer
<1>14. /\ kept' \in SUBSET (1 .. entries) /\ unended' \in SUBSET (1 .. entries) /\ torn' \in Nat
       /\ kept' \cup unended' \subseteq kept \cup unended \cup {x.entry}
  <2>1. PICK E : E = 1 .. entries
    OBVIOUS
  <2>2. kept \in SUBSET E /\ unended \in SUBSET E /\ x.entry \in E
    BY <1>2, <1>3, <2>1
  <2>3. /\ kept' \in SUBSET E /\ unended' \in SUBSET E
        /\ kept' \cup unended' \subseteq kept \cup unended \cup {x.entry}
    BY <1>1, <2>2
  <2>4. torn' \in Nat
    BY <1>2
  <2> QED BY <2>1, <2>3, <2>4
<1>15. TrailTypes'
  BY <1>5, <1>7, <1>14 DEF TrailInv, TrailTypes
<1>16. EntriesDiffer'
  <2>1. \A v \in Writers : writing'[v] # NoWrite =>
          v # w /\ writing'[v] = writing[v] /\ writing[v].entry \notin kept' \cup unended'
    BY <1>6, <1>13, <1>14
  <2>2. \A v, u \in Writers :
          v # u /\ writing[v] # NoWrite /\ writing[u] # NoWrite
            => writing[v].entry # writing[u].entry
    BY DEF TrailInv, EntriesDiffer
  <2> QED BY <2>1, <2>2 DEF EntriesDiffer
<1> QED BY <1>5, <1>12, <1>15, <1>16 DEF TrailInv

LEMMA TrailInitHolds ==
    ASSUME AuditInit PROVE TrailInv
<1>1. /\ date = 1 /\ dayFile = [d \in Dates |-> <<>>] /\ rotated = <<>> /\ lineOpen = {}
      /\ entries = 0 /\ writing = [w \in Writers |-> NoWrite]
      /\ torn = 0 /\ unended = {} /\ kept = {}
  BY DEF AuditInit
<1>2. PICK d \in Dates : page = [date |-> d, offset |-> 0, got |-> <<>>]
  BY DEF AuditInit
<1>3. TrailTypes
  <2>1. 1 \in Dates
    BY AuditAssumption
  <2>2. page \in [date : Dates, offset : Nat, got : Seq(Nat)] /\ Len(page.got) = page.offset
    BY <1>2
  <2>3. dayFile \in [Dates -> Seq(Seq(Int))] /\ rotated \in Seq(Seq(Int))
    BY <1>1
  <2>4. writing \in [Writers -> {NoWrite}
                       \cup [entry : 1 .. entries, date : Dates, rotates : BOOLEAN]]
    BY <1>1
  <2> QED BY <1>1, <2>1, <2>2, <2>3, <2>4 DEF TrailTypes
<1>4. OpenEndsTorn /\ EntriesDiffer
  BY <1>1 DEF OpenEndsTorn, EntriesDiffer
<1>5. PagesInOrder
  <2>1. page.date = d /\ page.offset = 0 /\ dayFile[d] = <<>> /\ Len(<<>>) = 0
    BY <1>1, <1>2
  <2>2. 1 .. 0 = {}
    OBVIOUS
  <2> QED BY <2>1, <2>2 DEF PagesInOrder
<1>6. FilesOk(Files, kept, unended, torn)
  <2>1. /\ Files \in [Dates \cup {0} -> Seq(Seq(Int))] /\ Files[0] = rotated
        /\ \A e \in Dates : Files[e] = dayFile[e]
    BY <1>3, FilesTyped
  <2>2. \A f \in Dates \cup {0} : Files[f] = <<>>
    BY <1>1, <2>1
  <2>3. DOMAIN <<>> = {}
    OBVIOUS
  <2>4. PlacesIn(Files) = {}
    BY <2>1, <2>2, <2>3 DEF PlacesIn
  <2>5. TornIn(Files, unended) = {}
    BY <2>4 DEF TornIn
  <2>6. FewTorn(Files, unended, torn)
    <3> DEFINE torns == TornIn(Files, unended)
    <3>1. torns = {}
      BY <2>5
    <3> HIDE DEF torns
    <3>2. IsFiniteSet(torns) /\ Cardinality(torns) = 0
      BY <3>1, FS_EmptySet
    <3>3. IsFiniteSet(torns) /\ Cardinality(torns) <= torn
      BY <1>1, <3>2
    <3> QED BY <3>3 DEF FewTorn, torns
  <2> QED BY <1>1, <2>4, <2>6 DEF FilesOk, LinesShaped, EachOnce, AllOnFile
<1> QED BY <1>3, <1>4, <1>5, <1>6 DEF TrailInv

LEMMA ReadPreserves ==
    ASSUME TrailInv, ReadPage PROVE TrailInv'
<1>1. PICK d, a, got, k, u : /\ d = page.date /\ a = page.offset /\ got = page.got
                             /\ k = dayFile[d] /\ u = a + PageLimit
  OBVIOUS
<1>2. /\ page = [date |-> d, offset |-> a, got |-> got] /\ d \in Dates /\ a \in Nat
      /\ got \in Seq(Nat) /\ Len(got) = a /\ k \in Seq(Seq(Int)) /\ a <= u /\ u \in Nat
  BY <1>1, AuditAssumption DEF TrailInv, TrailTypes
<1>3. \A i \in 1 .. a :
         /\ Parses(k[i]) => got[i] = k[i][1]
         /\ got[i] # NoEntry => k[i][1] = got[i]
  BY <1>1 DEF TrailInv, PagesInOrder
<1> DEFINE more == [i \in 1 .. u |-> IF i <= a THEN got[i] ELSE Shown(k[i])]
<1>4. u <= Len(k) /\ page' = [page EXCEPT !.offset = u, !.got = more]
  BY <1>1 DEF ReadPage
<1>5. UNCHANGED <<date, dayFile, rotated, lineOpen, entries, writing, torn, unended, kept>>
  BY DEF ReadPage, historyVars
\* Where an entry stands, and that it stands nowhere else.
<1>6. ASSUME NEW i \in 1 .. u
      PROVE  /\ k[i] \in Seq(Int) /\ Len(k[i]) # 0
             /\ k[i][1] \in Nat \cup {Part}
             /\ \A j \in 1 .. u : k[i][1] = k[j][1] /\ k[i][1] # Part => i = j
  <2>1. PICK F, K, U : F = Files /\ K = kept /\ U = unended
    OBVIOUS
  <2>2. /\ F \in [Dates \cup {0} -> Seq(Seq(Int))] /\ F[d] = k
        /\ LinesShaped(F, K, U) /\ EachOnce(F) /\ K \cup U \subseteq Nat
    <3>1. \A n \in Nat : 1 .. n \in SUBSET Nat
      OBVIOUS
    <3> QED BY <1>1, <1>2, <2>1, <3>1, FilesTyped DEF TrailInv, TrailTypes, FilesOk
  <2>3. ASSUME NEW j \in 1 .. u
        PROVE  /\ <<d, j>> \in PlacesIn(F) /\ AtIn(F, <<d, j>>) = k[j]
               /\ k[j] \in Seq(Int) /\ Len(k[j]) # 0 /\ 1 \in 1 .. Len(k[j])
    <3>1. j \in DOMAIN F[d] /\ DOMAIN F = Dates \cup {0} /\ d \in Dates \cup {0}
      BY <1>2, <1>4, <2>2, <2>3
    <3>2. <<d, j>> \in PlacesIn(F)
      BY <3>1, PlaceIn
    <3>3. AtIn(F, <<d, j>>) = k[j]
      BY <2>2 DEF AtIn
    <3>4. k[j] \in Seq(Int) /\ Len(k[j]) # 0
      BY <2>2, <3>2, <3>3 DEF LinesShaped
    <3>5. 1 \in 1 .. Len(k[j])
      BY <3>4
    <3> QED BY <3>2, <3>3, <3>4, <3>5
  <2>4. k[i][1] \in K \cup Tears(U)
    <3>1. 1 \in 1 .. Len(AtIn(F, <<d, i>>)) /\ <<d, i>> \in PlacesIn(F)
      BY <2>3
    <3>2. AtIn(F, <<d, i>>)[1] \in K \cup Tears(U)
      BY <2>2, <3>1, ChunksKnown
    <3> QED BY <2>3, <3>2
  <2>5. \A j \in 1 .. u : k[i][1] = k[j][1] /\ k[i][1] # Part => i = j
    <3> SUFFICES ASSUME NEW j \in 1 .. u, k[i][1] = k[j][1], k[i][1] # Part PROVE i = j
      OBVIOUS
    <3>1. PICK p, q : p = <<d, i>> /\ q = <<d, j>>
      OBVIOUS
    <3>2. /\ p \in PlacesIn(F) /\ q \in PlacesIn(F) /\ AtIn(F, p)[1] = AtIn(F, q)[1]
          /\ AtIn(F, p)[1] # Part /\ 1 \in 1 .. Len(AtIn(F, p)) /\ 1 \in 1 .. Len(AtIn(F, q))
      BY <2>3, <3>1
    <3>3. p = q
      BY <2>2, <3>2 DEF EachOnce
    <3> QED BY <3>1, <3>3
  <2> QED BY <2>2, <2>3, <2>4, <2>5 DEF Tears
<1>7. ASSUME NEW i \in 1 .. u
      PROVE  /\ more[i] \in Nat
             /\ Parses(k[i]) => more[i] = k[i][1]
             /\ more[i] # NoEntry => k[i][1] = more[i] /\ k[i][1] # Part
  <2>1. Part \notin Nat
    BY DEF Part
  <2>2. CASE i <= a
    <3>1. i \in 1 .. a /\ more[i] = got[i]
      BY <1>2, <1>7, <2>2
    <3>2. got[i] \in Nat
      BY <1>2, <3>1
    <3> QED BY <1>3, <2>1, <3>1, <3>2
  <2>3. CASE ~(i <= a)
    <3>1. more[i] = Shown(k[i])
      BY <1>7, <2>3
    <3> QED BY <1>6, <2>1, <3>1 DEF Shown, Parses, NoEntry
  <2> QED BY <2>2, <2>3
<1>8. more \in Seq(Nat) /\ Len(more) = u
  <2>1. \A i \in 1 .. u : more[i] \in Nat
    BY <1>7
  <2>2. more = [i \in 1 .. u |-> more[i]]
    OBVIOUS
  <2> HIDE DEF more
  <2>3. more \in [1 .. u -> Nat]
    BY <2>1, <2>2
  <2>4. more \in Seq(Nat)
    BY <1>2, <2>3, SeqDef
  <2>5. DOMAIN more = 1 .. u /\ DOMAIN more = 1 .. Len(more) /\ Len(more) \in Nat
    BY <2>3, <2>4, LenProperties
  <2>6. Len(more) = u
    BY <1>2, <2>5
  <2> QED BY <2>4, <2>6
<1> HIDE DEF more
<1>9. page' = [date |-> d, offset |-> u, got |-> more]
  BY <1>2, <1>4
<1>10. page' \in [date : Dates, offset : Nat, got : Seq(Nat)] /\ Len(page'.got) = page'.offset
  BY <1>2, <1>8, <1>9
<1>11. TrailTypes' /\ OpenEndsTorn' /\ EntriesDiffer'
  BY <1>5, <1>10 DEF TrailInv, TrailTypes, OpenEndsTorn, EntriesDiffer
<1>12. FilesOk(Files', kept', unended', torn')
  <2>1. Files' = Files
    BY <1>5 DEF Files
  <2> QED BY <1>5, <2>1 DEF TrailInv
<1>13. PagesInOrder'
  <2>1. ASSUME NEW i \in 1 .. u, NEW j \in 1 .. u, more[i] = more[j], more[i] # NoEntry
        PROVE  i = j
    BY <1>6, <1>7, <2>1
  <2>2. /\ page'.date = d /\ page'.offset = u /\ page'.got = more /\ dayFile'[page'.date] = k
    BY <1>1, <1>5, <1>9
  <2> QED BY <1>4, <1>7, <2>1, <2>2 DEF PagesInOrder
<1> QED BY <1>11, <1>12, <1>13 DEF TrailInv

LEMMA TrailStep ==
    ASSUME TrailInv, [AuditNext]_auditVars PROVE TrailInv'
<1>1. ASSUME NEW w \in Writers, BeginWrite(w) PROVE TrailInv'
  <2>1. /\ writing[w] = NoWrite /\ entries' = entries + 1
        /\ writing' = [writing EXCEPT ![w] =
              [entry |-> entries', date |-> date, rotates |-> Len(dayFile[date]) >= MaxLines]]
        /\ UNCHANGED <<date, dayFile, rotated, lineOpen, torn, unended, kept, page>>
    BY <1>1 DEF BeginWrite, historyVars
  <2>2. TrailTypes
    BY DEF TrailInv
  <2> DEFINE x == [entry |-> entries + 1, date |-> date,
                   rotates |-> Len(dayFile[date]) >= MaxLines]
  <2>3. x \in [entry : 1 .. entries + 1, date : Dates, rotates : BOOLEAN]
    <3>1. (Len(dayFile[date]) >= MaxLines) \in BOOLEAN
      OBVIOUS
    <3>2. date \in Dates /\ entries + 1 \in 1 .. entries + 1
      BY <2>2 DEF TrailTypes
    <3> QED BY <3>1, <3>2
  <2>4. x.entry = entries + 1
    OBVIOUS
  <2>5. writing' = [writing EXCEPT ![w] = x]
    BY <2>1
  <2> HIDE DEF x
  <2>6. \A v \in Writers :
           /\ writing[v] \in {NoWrite} \cup [entry : 1 .. entries, date : Dates, rotates : BOOLEAN]
           /\ writing'[v] = IF v = w THEN x ELSE writing[v]
    BY <2>2, <2>5 DEF TrailTypes
  <2>7. entries \in Nat /\ 1 .. entries \in SUBSET (1 .. entries + 1) /\ kept \in SUBSET (1 .. entries)
        /\ unended \in SUBSET (1 .. entries) /\ entries + 1 \notin 1 .. entries
    BY <2>2 DEF TrailTypes
  <2>8. writing' \in [Writers -> {NoWrite}
                        \cup [entry : 1 .. entries + 1, date : Dates, rotates : BOOLEAN]]
    <3>1. \A v \in Writers : writing'[v] \in {NoWrite}
              \cup [entry : 1 .. entries + 1, date : Dates, rotates : BOOLEAN]
      BY <2>3, <2>6, <2>7
    <3>2. writing' = [v \in Writers |-> writing'[v]]
      BY <2>2, <2>5 DEF TrailTypes
    <3> QED BY <3>1, <3>2
  <2>9. TrailTypes'
    <3>1. /\ kept' \in SUBSET (1 .. entries + 1) /\ unended' \in SUBSET (1 .. entries + 1)
          /\ entries' \in Nat
      BY <2>1, <2>7
    <3> QED BY <2>1, <2>2, <2>8, <3>1 DEF TrailTypes
  <2>10. \A v \in Writers : writing[v] # NoWrite =>
            writing[v].entry \in 1 .. entries /\ writing[v].entry # entries + 1
    BY <2>6, <2>7
  <2>11. EntriesDiffer'
    <3> SUFFICES ASSUME NEW u \in Writers, writing'[u] # NoWrite
                 PROVE  /\ writing'[u].entry \notin kept \cup unended
                        /\ \A v \in Writers \ {u} :
                              writing'[v] # NoWrite => writing'[v].entry # writing'[u].entry
      BY <2>1 DEF EntriesDiffer
    <3>1. CASE u = w
      BY <2>4, <2>6, <2>7, <2>10, <3>1
    <3>2. CASE u # w
      <4>1. /\ writing[u] # NoWrite /\ writing[u].entry \notin kept \cup unended
            /\ \A v \in Writers \ {u} : writing[v] # NoWrite => writing[v].entry # writing[u].entry
        BY <2>6, <3>2 DEF TrailInv, EntriesDiffer
      <4> QED BY <2>4, <2>6, <2>10, <3>2, <4>1
    <3> QED BY <3>1, <3>2
  <2>12. OpenEndsTorn' /\ PagesInOrder'
    BY <2>1 DEF TrailInv, OpenEndsTorn, PagesInOrder
  <2>13. FilesOk(Files', kept', unended', torn')
    <3>1. Files' = Files
      BY <2>1 DEF Files
    <3> QED BY <2>1, <3>1 DEF TrailInv
  <2> QED BY <2>9, <2>11, <2>12, <2>13 DEF TrailInv
<1>2. ASSUME NEW w \in Writers, WriteSucceeds(w) PROVE TrailInv'
  <2>1. PICK chunk : chunk = writing[w].entry
    OBVIOUS
  <2>2. /\ writing[w] # NoWrite /\ AppendTo(writing[w], chunk, TRUE)
        /\ kept' = kept \cup {chunk} /\ writing' = [writing EXCEPT ![w] = NoWrite]
        /\ UNCHANGED <<date, entries, torn, unended, page>>
    BY <1>2, <2>1 DEF WriteSucceeds
  <2>3. chunk \in Int
    BY <2>1, <2>2 DEF TrailInv, TrailTypes
  <2> QED BY <2>1, <2>2, <2>3, AppendPreserves
<1>3. ASSUME NEW w \in Writers, WriteFails(w) PROVE TrailInv'
  <2>1. /\ writing[w] # NoWrite /\ writing' = [writing EXCEPT ![w] = NoWrite]
        /\ UNCHANGED <<date, entries, kept, page>>
    BY <1>3 DEF WriteFails
  <2>2. CASE AppendTo(writing[w], Part, FALSE) /\ torn' = torn + 1 /\ unended' = unended
    <3>1. Part \in Int
      BY DEF Part
    <3>2. PICK chunk : chunk = Part
      OBVIOUS
    <3> QED BY <2>1, <2>2, <3>1, <3>2, AppendPreserves
  <2>4. CASE /\ AppendTo(writing[w], writing[w].entry, FALSE)
             /\ torn' = torn + 1 /\ unended' = unended \cup {writing[w].entry}
    <3>1. PICK chunk : chunk = writing[w].entry
      OBVIOUS
    <3>2. chunk \in Int
      BY <2>1, <3>1 DEF TrailInv, TrailTypes
    <3> QED BY <2>1, <2>4, <3>1, <3>2, AppendPreserves
  <2>3. CASE UNCHANGED <<dayFile, rotated, lineOpen, torn, unended>>
    <3>1. writing' \in [Writers -> {NoWrite}
                          \cup [entry : 1 .. entries, date : Dates, rotates : BOOLEAN]]
          /\ \A v \in Writers : writing'[v] = IF v = w THEN NoWrite ELSE writing[v]
      BY <2>1 DEF TrailInv, TrailTypes
    <3>2. TrailTypes'
      <4>1. TrailTypes
        BY DEF TrailInv
      <4>2. /\ date' = date /\ entries' = entries /\ torn' = torn /\ kept' = kept
            /\ unended' = unended /\ dayFile' = dayFile /\ rotated' = rotated
            /\ lineOpen' = lineOpen /\ page' = page
        BY <2>1, <2>3
      <4>3. writing' \in [Writers -> {NoWrite}
                             \cup [entry : 1 .. entries', date : Dates, rotates : BOOLEAN]]
        BY <3>1, <4>2, Zenon
      <4>4. /\ date' \in Dates /\ entries' \in Nat /\ torn' \in Nat
            /\ dayFile' \in [Dates -> Seq(Seq(Int))] /\ rotated' \in Seq(Seq(Int))
            /\ lineOpen' \in SUBSET Dates
            /\ page' \in [date : Dates, offset : Nat, got : Seq(Nat)]
            /\ Len(page'.got) = page'.offset
        BY <4>1, <4>2, Zenon DEF TrailTypes
      <4>5. kept' \in SUBSET (1 .. entries') /\ unended' \in SUBSET (1 .. entries')
        BY <4>1, <4>2, Zenon DEF TrailTypes
      <4> QED BY <4>3, <4>4, <4>5 DEF TrailTypes
    <3>3. EntriesDiffer'
      BY <2>1, <2>3, <3>1 DEF TrailInv, EntriesDiffer
    <3>4. OpenEndsTorn' /\ PagesInOrder'
      BY <2>1, <2>3 DEF TrailInv, OpenEndsTorn, PagesInOrder
    <3>5. FilesOk(Files', kept', unended', torn')
      <4>1. Files' = Files
        BY <2>3 DEF Files
      <4> QED BY <2>1, <2>3, <4>1 DEF TrailInv
    <3> QED BY <3>2, <3>3, <3>4, <3>5 DEF TrailInv
  <2> QED BY <1>3, <2>2, <2>3, <2>4 DEF WriteFails
<1>4. ASSUME Midnight \/ UNCHANGED auditVars PROVE TrailInv'
  <2>1. /\ date' \in Dates
        /\ UNCHANGED <<dayFile, rotated, lineOpen, entries, writing, torn, unended, kept, page>>
    BY <1>4 DEF Midnight, auditVars, historyVars, TrailInv, TrailTypes
  <2>2. TrailTypes' /\ OpenEndsTorn' /\ EntriesDiffer' /\ PagesInOrder'
    BY <2>1 DEF TrailInv, TrailTypes, OpenEndsTorn, EntriesDiffer, PagesInOrder
  <2>3. FilesOk(Files', kept', unended', torn')
    <3>1. Files' = Files
      BY <2>1 DEF Files
    <3> QED BY <2>1, <3>1 DEF TrailInv
  <2> QED BY <2>2, <2>3 DEF TrailInv
<1> QED BY <1>1, <1>2, <1>3, <1>4, ReadPreserves DEF AuditNext

\* What the soak runner makes of such files.
LEMMA FoundFew ==
    ASSUME NEW F, NEW K \in SUBSET Nat, NEW U \in SUBSET Nat, IsFiniteSet(K \cup U),
           NEW t \in Nat, FilesOk(F, K, U, t)
    PROVE  LET collected == {p \in PlacesIn(F) : Parses(AtIn(F, p))}
               found == {AtIn(F, p)[1] : p \in collected}
           IN  /\ found \subseteq K \cup U
               /\ Cardinality(collected) = Cardinality(found)
               /\ Cardinality(K \ found) <= t
<1> DEFINE collected == {p \in PlacesIn(F) : Parses(AtIn(F, p))}
           found == {AtIn(F, p)[1] : p \in collected}
<1>1. \A p \in collected : /\ p \in PlacesIn(F) /\ Final(AtIn(F, p)) = AtIn(F, p)[1]
                           /\ AtIn(F, p)[1] # Part /\ AtIn(F, p)[1] \in K \cup U
                           /\ 1 \in 1 .. Len(AtIn(F, p))
  BY DEF FilesOk, LinesShaped, Final, Parses, Tears
<1>2. found \in SUBSET (K \cup U)
  BY <1>1
<1>3. IsFiniteSet(found)
  BY <1>2, FS_Subset
<1>4. Cardinality(collected) = Cardinality(found)
  <2> DEFINE g == [p \in collected |-> AtIn(F, p)[1]]
  <2>1. g \in [collected -> found]
    OBVIOUS
  <2>2. \A p, q \in collected : g[p] = g[q] => p = q
    BY <1>1 DEF FilesOk, EachOnce
  <2>3. \A e \in found : \E p \in collected : g[p] = e
    OBVIOUS
  <2> HIDE DEF g, collected, found
  <2>4. g \in Injection(collected, found)
    BY <2>1, <2>2, Fun_IsInj
  <2>5. g \in Surjection(collected, found)
    BY <2>1, <2>3, Fun_IsSurj
  <2> QED BY <1>3, <2>4, <2>5, FS_Injection
<1>5. ASSUME NEW e \in K \ found PROVE \E p \in TornIn(F, U) : Final(AtIn(F, p)) = e
  <2>1. PICK p \in PlacesIn(F) : Final(AtIn(F, p)) = e
    BY DEF FilesOk, AllOnFile
  <2> DEFINE l == AtIn(F, p)
  <2>2. /\ l \in Seq(Int) /\ Len(l) \in Nat \ {0}
        /\ \A i \in 1 .. Len(l) - 1 : l[i] \in Tears(U)
    BY <2>1 DEF FilesOk, LinesShaped
  <2>3. e # Part
    BY DEF Part
  <2>4. Len(l) # 1
    <3>1. p \notin collected
      <4>1. ASSUME p \in collected PROVE FALSE
        <5>1. l[1] \in found /\ Final(l) = l[1]
          BY <1>1, <4>1
        <5> QED BY <2>1, <5>1
      <4> QED BY <4>1
    <3>2. ~Parses(l)
      BY <2>1, <3>1
    <3>3. Len(l) = 1 => l[1] = e
      BY <2>1 DEF Final
    <3> QED BY <2>3, <3>2, <3>3 DEF Parses
  <2>5. 1 \in 1 .. Len(l) - 1
    <3>1. PICK n : n = Len(l)
      OBVIOUS
    <3>2. n \in Nat \ {0} /\ n # 1
      BY <2>2, <2>4, <3>1
    <3>3. 1 \in 1 .. n - 1
      BY <3>2
    <3> QED BY <3>1, <3>3
  <2> HIDE DEF l
  <2>6. p \in TornIn(F, U)
    BY <2>1, <2>2, <2>5 DEF TornIn, l
  <2> QED BY <2>1, <2>6
<1>6. Cardinality(K \ found) <= t
  <2> DEFINE lost == K \ found
             g == [e \in lost |-> CHOOSE p \in TornIn(F, U) : Final(AtIn(F, p)) = e]
  <2>1. \A e \in lost : g[e] \in TornIn(F, U) /\ Final(AtIn(F, g[e])) = e
    BY <1>5
  <2>2. g \in [lost -> TornIn(F, U)]
    BY <2>1
  <2> HIDE DEF g, lost
  <2>3. \A e, d \in lost : g[e] = g[d] => e = d
    BY <2>1
  <2>4. g \in Injection(lost, TornIn(F, U))
    BY <2>2, <2>3, Fun_IsInj
  <2>5. IsFiniteSet(TornIn(F, U)) /\ Cardinality(TornIn(F, U)) <= t
    BY DEF FilesOk, FewTorn
  <2>6. IsFiniteSet(lost) /\ Cardinality(lost) <= Cardinality(TornIn(F, U))
    BY <2>4, <2>5, FS_Injection
  <2>7. Cardinality(lost) \in Nat /\ Cardinality(TornIn(F, U)) \in Nat
    BY <2>5, <2>6, FS_CardinalityType
  <2>8. Cardinality(lost) <= t
    BY <2>5, <2>6, <2>7
  <2> QED BY <2>8 DEF lost
<1> QED BY <1>2, <1>4, <1>6

LEMMA TrailInvCounts ==
    ASSUME TrailInv PROVE TornCostsOne
<1>1. PICK F, K, U, t : F = Files /\ K = kept /\ U = unended /\ t = torn
  OBVIOUS
<1>2. K \in SUBSET Nat /\ U \in SUBSET Nat /\ t \in Nat /\ FilesOk(F, K, U, t)
  <2>1. \A n \in Nat : 1 .. n \in SUBSET Nat
    OBVIOUS
  <2> QED BY <1>1, <2>1 DEF TrailInv, TrailTypes
<1>3. IsFiniteSet(K \cup U)
  <2>1. entries \in Int /\ 1 \in Int /\ K \cup U \in SUBSET (1 .. entries)
    BY <1>1 DEF TrailInv, TrailTypes
  <2>2. IsFiniteSet(1 .. entries)
    BY <2>1, FS_Interval
  <2> QED BY <2>1, <2>2, FS_Subset
<1> DEFINE collected == {p \in PlacesIn(F) : Parses(AtIn(F, p))}
           found == {AtIn(F, p)[1] : p \in collected}
<1>4. /\ found \subseteq K \cup U
      /\ Cardinality(collected) = Cardinality(found)
      /\ Cardinality(K \ found) <= t
  BY <1>2, <1>3, FoundFew
<1>5. Collected = collected
  BY <1>1 DEF Collected, Places, LineAt, PlacesIn, AtIn
<1>6. found = {LineAt(p)[1] : p \in Collected}
  BY <1>1, <1>5 DEF LineAt, AtIn
<1> HIDE DEF collected, found
<1> QED BY <1>1, <1>4, <1>5, <1>6 DEF TornCostsOne

\* However appends, their tears, midnights and page reads interleave, a reader that pages
\* through a day has been given the entry of every line it has passed that parses, in its
\* place and once: lines are only added, and one that is glued to keeps what it begins with
\* and parses no more.
THEOREM PagesAlwaysInOrder == AuditSpec => []PagesInOrder
<1>1. TrailInv => PagesInOrder
  BY DEF TrailInv
<1> QED BY <1>1, TrailInitHolds, TrailStep, PTL DEF AuditSpec

\* Every append that succeeded is found once by the soak runner, but for at most one for
\* each append that tore: an entry is lost only in a line that begins with a torn chunk.
THEOREM TornAlwaysCostsOne == AuditSpec => []TornCostsOne
<1> QED BY TrailInvCounts, TrailInitHolds, TrailStep, PTL DEF AuditSpec
=============================================================================
