-------------------------------- MODULE Agent --------------------------------
(***************************************************************************)
(* The off-chain agent process: agent/src/index.ts (the market pipeline),  *)
(* strategy/autonomous-task-runner.ts (scheduled and manual tasks),        *)
(* services/execution-service.ts and utils/circuit-breaker.ts, against the *)
(* chain they submit to.                                                   *)
(*                                                                         *)
(* The process is single-threaded, but both actors suspend at every await, *)
(* so the pipeline and the runner interleave at those points: one step     *)
(* below is the code from one await that other actors can notice to the    *)
(* next.  Each actor takes a trade through the same stages                 *)
(*   observing, policy, simulating, nonce, sending, waiting, recording,    *)
(*   reporting                                                             *)
(* and may leave at each.  A restart loses all of the process's memory and *)
(* none of what is on chain or in the audit file.                          *)
(***************************************************************************)
EXTENDS Integers, Sequences, FiniteSets

CONSTANTS
    Pools,         \* the pools watched, one per trading pair
    TaskOrder,     \* TASK_IDS: the tasks in the order runDueTasks tries them
    BuybackTask,   \* "protocol-buyback-burn"
    Tokens,        \* tokens a trade sells
    Modes,         \* execution modes considered
    MaxFailures,   \* MAX_CONSECUTIVE_FAILURES
    MaxBlock,      \* bound: block numbers of pool updates
    MaxIntents,    \* bound: intents built
    MaxManual,     \* bound: manual triggers received
    MaxRestarts    \* bound: crashes and restarts

Tasks == {TaskOrder[i] : i \in DOMAIN TaskOrder}
Actors == {"pipeline", "runner"}
NoIntent == 0
NoHash == 0

ASSUME AgentAssumption ==
    /\ Pools \cap Tasks = {}
    /\ TaskOrder \in Seq(Tasks) /\ BuybackTask \in Tasks
    /\ Modes \subseteq {"observe", "simulate", "canary", "active"}
    /\ MaxFailures \in Nat \ {0}
    /\ {MaxBlock, MaxIntents, MaxManual, MaxRestarts} \subseteq Nat

VARIABLES
    mode,                \* EXECUTION_MODE, fixed at start
    \* the process's memory
    run,                 \* [Actors -> what the actor is at]
    consecutiveFailures, tripped,
    lastProcessedBlock,  \* [Pools -> block], 0 for none
    taskState,           \* [Tasks -> the state telemetry shows]
    due,                 \* tasks whose nextRunAt has passed
    \* the chain
    sent,                \* the intents whose transactions the node holds or has mined, by nonce
    mined,               \* how many of them are in a block
    result,              \* [1 .. mined -> "success" or "reverted"]
    refused,             \* tokens the SwapGuard would refuse to sell now
    \* intents built, the execution results in the audit file, counters of the bounds
    intents, records, manualRuns, restarts,
    \* history
    replaced,            \* intents whose pending transaction gave way to another
    verified, requested, \* module calls that passed both checks; those requested
    started,             \* [Pools -> last block a pipeline run began with], since restart
    afterTrip,           \* swaps submitted by themselves since the breaker tripped
    outcomes             \* how the swaps ended that this process finished, in order

breaker == <<consecutiveFailures, tripped>>
chain == <<sent, mined, result, refused>>
files == <<intents, records>>
bounds == <<manualRuns, restarts>>
history == <<replaced, verified, requested, started, afterTrip, outcomes>>
vars == <<mode, run, breaker, lastProcessedBlock, taskState, due, chain, files, bounds, history>>

\* A transaction's hash fixes its nonce: hash is that nonce and one, or NoHash.
Idle == [stage |-> "idle", source |-> "none", block |-> 0, manual |-> FALSE,
         intent |-> NoIntent, nonce |-> 0, status |-> "none", hash |-> NoHash]

\* The actor's run goes on to another stage.
Goto(a, stage) == run' = [run EXCEPT ![a].stage = stage]

\* isProcessing and inFlight
Busy(a) == run[a].stage # "idle"

-----------------------------------------------------------------------------
\* recordSuccess
RecordSuccess == consecutiveFailures' = 0 /\ UNCHANGED tripped

\* Mutant: the getter looks at the counter, which a success resets.
PausedByCounter == consecutiveFailures >= MaxFailures

\* isTripped
IsTripped == tripped

\* Mutant: one failure more is let pass.
TripsOneLate == consecutiveFailures + 1 > MaxFailures

\* recordFailure, and whether it reports the breaker tripped.
FailureTrips == consecutiveFailures + 1 >= MaxFailures
RecordFailure ==
    /\ consecutiveFailures' = consecutiveFailures + 1
    /\ tripped' = (tripped \/ FailureTrips)

\* Mutants: the block noted is one too low; one too high.
ProcessedOneLess(pool, block) == [lastProcessedBlock EXCEPT ![pool] = block - 1]
ProcessedOneMore(pool, block) == [lastProcessedBlock EXCEPT ![pool] = block + 1]

Processed(pool, block) == [lastProcessedBlock EXCEPT ![pool] = block]

\* A run ends: the pipeline notes the block it has dealt with; the runner records
\* the proof's state and schedules the task's next run.
End(a, state) ==
    /\ run' = [run EXCEPT ![a] = Idle]
    /\ IF a = "pipeline"
       THEN /\ lastProcessedBlock' = Processed(run[a].source, run[a].block)
            /\ UNCHANGED <<taskState, due>>
       ELSE /\ taskState' = [taskState EXCEPT ![run[a].source] = state]
            /\ due' = due \ {run[a].source}
            /\ UNCHANGED lastProcessedBlock

\* A run reports a failure and ends, sending an alert first if the breaker is tripped.
FailAndEnd(a) ==
    /\ RecordFailure
    /\ IF FailureTrips
       THEN Goto(a, "alerting") /\ UNCHANGED <<lastProcessedBlock, taskState, due>>
       ELSE End(a, "FAILED")

\* Mutant: the alert is sent again until it is delivered.
AlertRetries(a) == run[a].stage = "alerting" /\ UNCHANGED vars

\* alertService.notify returns, whatever became of the webhook.
AlertDone(a) ==
    /\ run[a].stage = "alerting"
    /\ End(a, "FAILED")
    /\ UNCHANGED <<mode, breaker, chain, files, bounds, history>>

-----------------------------------------------------------------------------
(* Runs begin.                                                             *)

\* The onUpdate callback, for an update it does not drop.
OnUpdate(pool, block) ==
    /\ ~IsTripped
    /\ ~Busy("pipeline")
    /\ lastProcessedBlock[pool] < block
    /\ run' = [run EXCEPT !["pipeline"] =
                  [Idle EXCEPT !.stage = "observing", !.source = pool, !.block = block]]
    /\ started' = [started EXCEPT ![pool] = block]
    /\ UNCHANGED <<mode, breaker, lastProcessedBlock, taskState, due, chain, files, bounds,
                   replaced, verified, requested, afterTrip, outcomes>>

\* runTask on an idle runner
BeginTask(task, manual) ==
    /\ run' = [run EXCEPT !["runner"] =
                  [Idle EXCEPT !.stage = "observing", !.source = task, !.manual = manual]]
    /\ taskState' = [taskState EXCEPT ![task] = "RUNNING"]

\* runDueTasks: a tick runs the first due task.
RunDueTasks ==
    /\ ~Busy("runner") /\ ~IsTripped
    /\ \E i \in DOMAIN TaskOrder :
          /\ TaskOrder[i] \in due
          /\ \A j \in 1 .. i - 1 : TaskOrder[j] \notin due
          /\ BeginTask(TaskOrder[i], FALSE)
    /\ UNCHANGED <<mode, breaker, lastProcessedBlock, due, chain, files, bounds, history>>

\* Mutant: the task is marked before the runner is found busy.
ManualRunMarksFirst(task) ==
    /\ manualRuns < MaxManual
    /\ manualRuns' = manualRuns + 1
    /\ IF Busy("runner")
       THEN taskState' = [taskState EXCEPT ![task] = "RUNNING"] /\ UNCHANGED run
       ELSE BeginTask(task, TRUE)
    /\ UNCHANGED <<mode, breaker, lastProcessedBlock, due, chain, files, restarts, history>>

\* handleTaskRun: the telemetry server's request to run a task now.
ManualRun(task) ==
    /\ manualRuns < MaxManual
    /\ manualRuns' = manualRuns + 1
    /\ IF Busy("runner")
       THEN taskState' = [taskState EXCEPT ![task] = "SKIPPED"] /\ UNCHANGED run
       ELSE BeginTask(task, TRUE)
    /\ UNCHANGED <<mode, breaker, lastProcessedBlock, due, chain, files, restarts, history>>

-----------------------------------------------------------------------------
(* Stages both actors go through.                                          *)

\* The market shows nothing to do, the mode is observe, or a check on gas, quote or
\* profit stops the trade.
ObserveNothing(a) ==
    /\ run[a].stage = "observing"
    /\ End(a, "SKIPPED")
    /\ UNCHANGED <<mode, breaker, chain, files, bounds, history>>

\* An oracle, balance or pool read throws: a failure of the pipeline, while the
\* runner only notes the task as failed.
ObserveThrows(a) ==
    /\ run[a].stage = "observing"
    /\ IF a = "pipeline" THEN FailAndEnd(a)
       ELSE End(a, "FAILED") /\ UNCHANGED breaker
    /\ UNCHANGED <<mode, chain, files, bounds, history>>

\* intentBuilder.build and recordIntent
BuildIntent(a, token) ==
    /\ run[a].stage = "observing"
    /\ mode # "observe"
    /\ Len(intents) < MaxIntents
    /\ intents' = Append(intents, [source |-> run[a].source, token |-> token])
    /\ run' = [run EXCEPT ![a].stage = "policy", ![a].intent = Len(intents) + 1]
    /\ UNCHANGED <<mode, breaker, lastProcessedBlock, taskState, due, chain, records, bounds,
                   history>>

TokenOf(i) == intents[i].token

\* validateIntent: checkSwap on the current chain.  A failing read rejects too.
PolicyCheck(a) ==
    /\ run[a].stage = "policy"
    /\ \/ /\ TokenOf(run[a].intent) \notin refused
          /\ Goto(a, "simulating")
          /\ UNCHANGED <<lastProcessedBlock, taskState, due>>
       \/ End(a, "REJECTED")
    /\ UNCHANGED <<mode, breaker, chain, files, bounds, history>>

\* simulate succeeds, on a fork of the current chain.  The simulate mode ends here,
\* as does a trade validatePreSubmit rejects.
SimulationPasses(a) ==
    /\ run[a].stage = "simulating"
    /\ TokenOf(run[a].intent) \notin refused
    /\ verified' = verified \cup {[call |-> "swap", intent |-> run[a].intent]}
    /\ \/ /\ mode \in {"canary", "active"}
          /\ Goto(a, "nonce")
          /\ UNCHANGED <<lastProcessedBlock, taskState, due>>
       \/ mode = "simulate" /\ End(a, "SKIPPED")
       \/ mode \in {"canary", "active"} /\ End(a, "REJECTED")
    /\ UNCHANGED <<mode, breaker, chain, files, bounds, replaced, requested, started, afterTrip,
                   outcomes>>

\* Mutant: the pipeline goes on after a failed simulation.
SimulationFailsThrough(a) ==
    /\ run[a].stage = "simulating"
    /\ IF a = "pipeline" THEN Goto(a, "nonce") /\ UNCHANGED <<lastProcessedBlock, taskState, due>>
       ELSE End(a, "REJECTED")
    /\ UNCHANGED <<mode, breaker, chain, files, bounds, history>>

\* simulate reports a revert or its own failure: a failure of the pipeline, a
\* rejection of the task.
SimulationFails(a) ==
    /\ run[a].stage = "simulating"
    /\ IF a = "pipeline" THEN FailAndEnd(a)
       ELSE End(a, "REJECTED") /\ UNCHANGED breaker
    /\ UNCHANGED <<mode, chain, files, bounds, history>>

\* Mutant: a transaction whose receipt did not come in time counts as executed.
TimeoutCountsAsExecuted(a) ==
    run' = [run EXCEPT ![a].stage = "recording", ![a].status = "EXECUTED",
                    ![a].hash = run[a].nonce + 1]

\* execute's catch: the record says FAILED and has no hash.
ExecuteThrows(a) ==
    run' = [run EXCEPT ![a].stage = "recording", ![a].status = "FAILED", ![a].hash = NoHash]

\* getTransactionCount('pending') and estimateGas
ReadNonce(a) ==
    /\ run[a].stage = "nonce"
    /\ \/ run' = [run EXCEPT ![a].stage = "sending", ![a].nonce = Len(sent)]
       \/ ExecuteThrows(a)
    /\ UNCHANGED <<mode, breaker, lastProcessedBlock, taskState, due, chain, files, bounds,
                   history>>

\* sendRawTransaction.  The node takes the next nonce; it may let a transaction with
\* a higher gas price replace the pending one of the same nonce (both actors read the
\* pending count); everything else it refuses.  Its answer may be lost.
Accepts(a) ==
    \/ /\ run[a].nonce = Len(sent)
       /\ sent' = Append(sent, run[a].intent)
       /\ UNCHANGED replaced
    \/ /\ run[a].nonce \in mined .. Len(sent) - 1
       /\ sent' = [sent EXCEPT ![run[a].nonce + 1] = run[a].intent]
       /\ replaced' = replaced \cup {sent[run[a].nonce + 1]}

Send(a) ==
    /\ run[a].stage = "sending"
    /\ requested' = requested \cup {[call |-> "swap", intent |-> run[a].intent]}
    /\ afterTrip' = afterTrip + IF tripped /\ ~run[a].manual THEN 1 ELSE 0
    /\ \/ Accepts(a) /\ (Goto(a, "waiting") \/ ExecuteThrows(a))
       \/ UNCHANGED <<sent, replaced>> /\ ExecuteThrows(a)
    /\ UNCHANGED <<mode, breaker, lastProcessedBlock, taskState, due, mined, result, refused,
                   files, bounds, verified, started, outcomes>>

\* waitForTransactionReceipt: the receipt of the transaction mined with that nonce,
\* the one sent or its replacement, as execute compares no hashes; or a timeout or
\* error at any time.
ReceiptArrives(a) ==
    LET hash == run[a].nonce + 1
    IN  /\ run[a].stage = "waiting"
        /\ hash <= mined
        /\ run' = [run EXCEPT ![a].stage = "recording", ![a].hash = hash,
                      ![a].status = IF result[hash] = "success" THEN "EXECUTED" ELSE "FAILED"]
        /\ UNCHANGED <<mode, breaker, lastProcessedBlock, taskState, due, chain, files, bounds,
                       history>>

WaitTimesOut(a) ==
    /\ run[a].stage = "waiting"
    /\ ExecuteThrows(a)
    /\ UNCHANGED <<mode, breaker, lastProcessedBlock, taskState, due, chain, files, bounds,
                   history>>

\* recordExecution: a write that fails is logged and no more.
WriteRecord(a) ==
    LET besideSuccess == \E b \in Actors \ {a} :
            run[b].stage = "reporting" /\ run[b].status = "EXECUTED"
    IN  /\ run[a].stage = "recording"
        /\ Goto(a, "reporting")
        /\ \/ records' = Append(records, [intent |-> run[a].intent, status |-> run[a].status,
                                          hash |-> run[a].hash])
           \/ UNCHANGED records
        /\ outcomes' = Append(outcomes, [status |-> run[a].status, beside |-> besideSuccess])
        /\ UNCHANGED <<mode, breaker, lastProcessedBlock, taskState, due, chain, intents, bounds,
                       replaced, verified, requested, started, afterTrip>>

\* What the actor makes of the outcome once it is written.
ReportOutcome(a) ==
    /\ run[a].stage = "reporting"
    /\ \/ run[a].status = "FAILED" /\ FailAndEnd(a)
       \/ /\ run[a].status = "EXECUTED"
          /\ RecordSuccess
          /\ IF run[a].source = BuybackTask
             THEN Goto(a, "burning") /\ UNCHANGED <<lastProcessedBlock, taskState, due>>
             ELSE End(a, "EXECUTED")
    /\ UNCHANGED <<mode, chain, files, bounds, history>>

\* executeBurnTransfer asks the module for a function it does not have, if the
\* balance read succeeds and shows tokens to burn.  The task counts as executed.
Burn(a) ==
    /\ run[a].stage = "burning"
    /\ End(a, "EXECUTED")
    /\ requested' \in {requested, requested \cup {[call |-> "burn", intent |-> run[a].intent]}}
    /\ UNCHANGED <<mode, breaker, chain, files, bounds, replaced, verified, started, afterTrip,
                   outcomes>>

ActorStep(a) ==
    \/ AlertDone(a)
    \/ ObserveNothing(a) \/ ObserveThrows(a)
    \/ \E k \in Tokens : BuildIntent(a, k)
    \/ PolicyCheck(a)
    \/ SimulationPasses(a) \/ SimulationFails(a)
    \/ ReadNonce(a) \/ Send(a)
    \/ ReceiptArrives(a) \/ WaitTimesOut(a)
    \/ WriteRecord(a) \/ ReportOutcome(a) \/ Burn(a)

-----------------------------------------------------------------------------
(* The process and its surroundings.                                       *)

IdleRuns == [a \in Actors |-> Idle]
NoBlocks == [p \in Pools |-> 0]
IdleTasks == [t \in Tasks |-> "IDLE"]

Init ==
    /\ mode \in Modes
    /\ run = IdleRuns
    /\ consecutiveFailures = 0 /\ tripped = FALSE
    /\ lastProcessedBlock = NoBlocks /\ started = NoBlocks
    /\ taskState = IdleTasks /\ due = {}
    /\ sent = <<>> /\ mined = 0 /\ result = <<>> /\ refused = {}
    /\ intents = <<>> /\ records = <<>>
    /\ manualRuns = 0 /\ restarts = 0
    /\ replaced = {} /\ verified = {} /\ requested = {} /\ afterTrip = 0 /\ outcomes = <<>>

\* A crash, or a shutdown that does not wait for the runs in flight, and a restart.
Restart ==
    /\ restarts < MaxRestarts
    /\ restarts' = restarts + 1
    /\ run' = IdleRuns
    /\ consecutiveFailures' = 0 /\ tripped' = FALSE
    /\ lastProcessedBlock' = NoBlocks /\ started' = NoBlocks
    /\ taskState' = IdleTasks /\ due' = {}
    /\ afterTrip' = 0 /\ outcomes' = <<>>
    /\ UNCHANGED <<mode, chain, files, manualRuns, replaced, verified, requested>>

\* Time passes a task's nextRunAt.
TaskComesDue(task) ==
    /\ task \notin due
    /\ due' = due \cup {task}
    /\ UNCHANGED <<mode, run, breaker, lastProcessedBlock, taskState, chain, files, bounds,
                   history>>

\* External: a block takes the next transaction.  The guard refuses it, the swap
\* itself fails, or it succeeds and the guard refuses that token for a while.
Mine ==
    /\ mined < Len(sent)
    /\ mined' = mined + 1
    /\ LET k == TokenOf(sent[mined + 1])
       IN  \/ /\ result' = Append(result, "reverted")
              /\ UNCHANGED refused
           \/ /\ k \notin refused
              /\ result' = Append(result, "success")
              /\ refused' = refused \cup {k}
    /\ UNCHANGED <<mode, run, breaker, lastProcessedBlock, taskState, due, sent, files, bounds,
                   history>>

\* External: the cooldown passes or the budget recovers.
GuardRecovers(k) ==
    /\ k \in refused
    /\ refused' = refused \ {k}
    /\ UNCHANGED <<mode, run, breaker, lastProcessedBlock, taskState, due, sent, mined, result,
                   files, bounds, history>>

Surroundings ==
    \/ Restart
    \/ \E t \in Tasks : TaskComesDue(t)
    \/ Mine
    \/ \E k \in Tokens : GuardRecovers(k)

Next ==
    \/ \E p \in Pools, b \in 1 .. MaxBlock : OnUpdate(p, b)
    \/ RunDueTasks
    \/ \E t \in Tasks : ManualRun(t)
    \/ \E a \in Actors : ActorStep(a)
    \/ Surroundings

Spec == Init /\ [][Next]_vars

\* Every call a run awaits has a timeout of its own, so a run under way goes on;
\* nothing is assumed of updates, ticks, blocks or the guard.
FairSpec == Spec /\ \A a \in Actors : WF_vars(ActorStep(a))

-----------------------------------------------------------------------------
Statuses == {"none", "EXECUTED", "FAILED"}

\* The agent's memory and the chain hold values of their types; blocks noted are
\* blocks seen, and what is sent, recorded or verified is an intent that was built.
TypeOK ==
    /\ mode \in Modes
    /\ run \in [Actors -> [stage : {"idle", "observing", "policy", "simulating", "nonce",
                                    "sending", "waiting", "recording", "reporting", "burning",
                                    "alerting"},
                           source : Pools \cup Tasks \cup {"none"},
                           block : 0 .. MaxBlock, manual : BOOLEAN,
                           intent : Nat, nonce : Nat, status : Statuses, hash : Nat]]
    /\ consecutiveFailures \in Nat /\ tripped \in BOOLEAN
    /\ lastProcessedBlock \in [Pools -> 0 .. MaxBlock]
    /\ started \in [Pools -> 0 .. MaxBlock]
    /\ taskState \in [Tasks -> {"IDLE", "RUNNING", "SKIPPED", "REJECTED", "EXECUTED", "FAILED"}]
    /\ due \subseteq Tasks /\ refused \subseteq Tokens
    /\ intents \in Seq([source : Pools \cup Tasks, token : Tokens])
    /\ sent \in Seq(1 .. Len(intents))
    /\ mined \in 0 .. Len(sent)
    /\ result \in Seq({"success", "reverted"}) /\ Len(result) = mined
    /\ records \in Seq([intent : 1 .. Len(intents), status : {"EXECUTED", "FAILED"},
                        hash : Nat])
    /\ replaced \subseteq 1 .. Len(intents)
    /\ {verified, requested} \subseteq SUBSET [call : {"swap", "burn"}, intent : 1 .. Len(intents)]
    /\ outcomes \in Seq([status : {"EXECUTED", "FAILED"}, beside : BOOLEAN])
    /\ {manualRuns, restarts, afterTrip} \subseteq Nat

\* Every swap submitted passed the policy check and the simulation, was submitted
\* once, also if it was replaced, and only in a mode that executes; whichever actor
\* submitted it and however often the process was restarted.
SwapsAreVerified ==
    /\ {q \in requested : q.call = "swap"} \subseteq verified
    /\ mode \in {"observe", "simulate"} => sent = <<>>
    /\ \A m, n \in DOMAIN sent : sent[m] = sent[n] => m = n
    /\ \A n \in DOMAIN sent : sent[n] \notin replaced

\* Once the breaker has tripped, no run that starts by itself submits: at most the
\* one swap the other actor had under way.
OneSwapAfterTrip == afterTrip <= 1

\* The breaker does not overlook failures split between the actors: MaxFailures
\* swaps in a row that failed have tripped it once they are reported, whatever other
\* failures came between, unless one of them ended beside a success that the other
\* actor had yet to report, which then resets the counter late.
BreakerSeesEveryFailure ==
    (/\ Len(outcomes) >= MaxFailures
     /\ \A a \in Actors : run[a].stage # "reporting"
     /\ \A n \in Len(outcomes) - MaxFailures + 1 .. Len(outcomes) :
           outcomes[n] = [status |-> "FAILED", beside |-> FALSE])
    => tripped

\* What the audit file says of a swap with a hash is what the chain made of that
\* transaction's nonce, by the swap itself or, if its transaction was replaced, by the
\* one that took its place; it says EXECUTED of none without a hash, also across
\* restarts, timeouts and late blocks.
RecordsMatchChain ==
    \A n \in DOMAIN records :
        LET r == records[n]
        IN  /\ r.status = "EXECUTED" => r.hash # NoHash
            /\ r.hash # NoHash =>
                  /\ r.hash \in 1 .. mined
                  /\ (result[r.hash] = "success") = (r.status = "EXECUTED")
                  /\ sent[r.hash] = r.intent \/ r.intent \in replaced

\* A task is shown as running only while the runner runs it, also when a manual
\* request or a restart comes in between.
RunningIsReal ==
    \A t \in Tasks : taskState[t] = "RUNNING" => Busy("runner") /\ run["runner"].source = t

\* Between restarts the pipeline never takes up a pool's block again, nor an older
\* one, however updates are reordered.
BlocksOnlyAdvance ==
    [][(~Busy("pipeline") /\ Busy("pipeline")')
          => run'["pipeline"].block > started[run'["pipeline"].source]]_vars

\* Every run ends: isProcessing and inFlight are released whatever fails on the way.
EveryRunEnds == \A a \in Actors : Busy(a) ~> ~Busy(a)

-----------------------------------------------------------------------------
(* Statements of the repository that the code does not keep.               *)

\* circuit-breaker.ts:4: after MAX_CONSECUTIVE_FAILURES failures the agent pauses
\* itself, until it is restarted; so no run begins after that.
PausedAfterTrip == [][tripped => \A a \in Actors : Busy(a)' => Busy(a)]_vars

\* execution-service.ts:111: a swap reported as executed has been; so each that is on
\* record as executed succeeded on chain.
ExecutedSwapsRan ==
    \A r \in DOMAIN records :
        records[r].status = "EXECUTED" =>
            \E n \in 1 .. mined : sent[n] = records[r].intent /\ result[n] = "success"

\* execution-service.ts:9: a stuck transaction is not resubmitted, so that nothing
\* is executed twice; so a pool's trade that is on record as failed and was tried
\* again is executed at most once.
NoDoubleExecution ==
    \A m, n \in 1 .. mined :
        (/\ m < n
         /\ intents[sent[m]].source = intents[sent[n]].source
         /\ \E r \in DOMAIN records : records[r].intent = sent[m] /\ records[r].status = "FAILED")
        => {result[m], result[n]} # {"success"}
==============================================================================
