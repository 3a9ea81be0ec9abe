-------------------------------- MODULE Harvest --------------------------------
(***************************************************************************)
(* The harvest task of strategy/autonomous-task-runner.ts over the balance *)
(* cache it shares with the pipeline: it takes a rise of the Safe's stable *)
(* balance since its last run for rewards, and sells a share of them.  The *)
(* balance comes from Balances, so it may be older than the one before it. *)
(* A plan is then carried out or it fails (Agent); what is sold, earned or *)
(* bought by other tasks is a block in which the balance moves.            *)
(***************************************************************************)
EXTENDS Balances, Sequences

CONSTANTS
    Harvester,        \* the reader that is the task runner
    StableAsset,      \* tokenB of the primary pair
    ReinvestShare,    \* units of a hundred: TASK_HARVEST_REINVEST_BPS
    MinHarvest,       \* TASK_MIN_HARVEST_UNITS
    MaxStable,        \* bound: the Safe's balance of the stablecoin
    MaxPlanned        \* bound: harvests start while no more than this is planned

ASSUME HarvestAssumption ==
    /\ Harvester \in Readers /\ StableAsset \in Assets
    /\ ReinvestShare \in 0 .. 100
    /\ {MinHarvest, MaxStable, MaxPlanned} \subseteq Nat

VARIABLES
    stableAt,             \* per block, the Safe's stable balance and what it had gained by then
    harvesting,           \* buildHarvestPlan awaits its snapshot
    lastStableSnapshot,   \* the block whose balance it is, or NoSnapshotYet
    reinvestPlanned,      \* history: what harvest plans were to sell
    wentBack              \* history: a snapshot was older than the one before it

harvestVars == <<stableAt, harvesting, lastStableSnapshot, reinvestPlanned, wentBack>>
harvestBalanceVars == <<balanceVars, harvestVars>>

NoSnapshotYet == 0

HarvestInit ==
    /\ BalancesInit
    /\ \E held \in 0 .. MaxStable : stableAt = <<[amount |-> held, gained |-> 0]>>
    /\ harvesting = FALSE
    /\ lastStableSnapshot = NoSnapshotYet /\ reinvestPlanned = 0 /\ wentBack = FALSE

\* External: a block, with the balance it leaves; a rise of it is a gain.
StableMoves ==
    LET now == stableAt[chainHead]
    IN  \E held \in 0 .. MaxStable :
           stableAt' = Append(stableAt,
                          [amount |-> held,
                           gained |-> now.gained + IF held > now.amount THEN held - now.amount ELSE 0])

HarvestBlock ==
    /\ MineBlock /\ StableMoves
    /\ UNCHANGED <<harvesting, lastStableSnapshot, reinvestPlanned, wentBack>>

\* buildHarvestPlan and its buildSnapshot, up to the balance
StartHarvest(block) ==
    /\ ~harvesting /\ reinvestPlanned <= MaxPlanned
    /\ harvesting' = TRUE
    /\ Ask(Harvester, StableAsset, block)
    /\ UNCHANGED <<stableAt, lastStableSnapshot, reinvestPlanned, wentBack>>

\* Mutant: the snapshot stays as it is.
SnapshotKept(previous, seen) == lastStableSnapshot' = previous

SnapshotTaken(previous, seen) == lastStableSnapshot' = seen

AmountIn(harvested) == (harvested * ReinvestShare) \div 100

\* buildHarvestPlan after its await: the snapshot moves on whatever becomes of the plan.
FinishHarvest ==
    /\ harvesting /\ read[Harvester] = NoRead
    /\ harvesting' = FALSE
    /\ LET seen == served[Harvester].readAt
           previous == IF lastStableSnapshot = NoSnapshotYet THEN seen ELSE lastStableSnapshot
           harvested == stableAt[seen].amount - stableAt[previous].amount
       IN  /\ SnapshotTaken(previous, seen)
           /\ wentBack' = (wentBack \/ seen < previous)
           /\ reinvestPlanned' = reinvestPlanned
                 + IF harvested > 0 /\ harvested >= MinHarvest THEN AmountIn(harvested) ELSE 0
    /\ UNCHANGED <<balanceVars, stableAt>>

\* The snapshot fails, and the task with it.
HarvestFails ==
    /\ harvesting /\ ReadFails(Harvester)
    /\ harvesting' = FALSE
    /\ UNCHANGED <<stableAt, lastStableSnapshot, reinvestPlanned, wentBack>>

\* The other reads: the pipeline's, and the runner's for other tasks.
OtherReads ==
    /\ \E r \in Readers :
          \/ \E a \in Assets, block \in 1 .. chainHead :
                (r = Harvester => ~harvesting) /\ Ask(r, a, block)
          \/ NodeAnswers(r) \/ StoreBalance(r)
          \/ (r = Harvester => ~harvesting) /\ ReadFails(r)
    /\ UNCHANGED harvestVars

HarvestNext ==
    \/ \E block \in 1 .. chainHead : StartHarvest(block)
    \/ FinishHarvest \/ HarvestFails
    \/ OtherReads \/ HarvestBlock
    \/ InvalidateAll /\ UNCHANGED harvestVars

HarvestSpec == HarvestInit /\ [][HarvestNext]_harvestBalanceVars

-----------------------------------------------------------------------------
\* As long as no snapshot was older than the one before it, the plans never sell more
\* than their share of what the stable balance has gained, however it rose and fell
\* between them, whichever plan failed, and however late each balance was.  (Nothing in
\* the code keeps them in order: after an older snapshot the same rise counts again.)
HarvestWithinGains ==
    ~wentBack => reinvestPlanned * 100 <= stableAt[chainHead].gained * ReinvestShare
=============================================================================
