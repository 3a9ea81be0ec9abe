------------------------------ MODULE TaskRunner ------------------------------
(***************************************************************************)
(* The clock of strategy/autonomous-task-runner.ts: when each task is next *)
(* due, the timer that runs the first due one in the fixed order of        *)
(* TASK_IDS, the lock, and manual runs.  What a run does in between is in  *)
(* Agent, how much it trades in Trading and Harvest.                       *)
(*                                                                         *)
(* Times are counted down rather than up, so that the runner may go on for *)
(* ever: nextIn[t] = 0 says that nextRunAt has passed.                     *)
(***************************************************************************)
EXTENDS Integers, Sequences, FiniteSets

CONSTANTS
    TaskIds,          \* TASK_IDS in order
    Interval,         \* [tasks -> intervalMs]
    Jitter,           \* [tasks -> jitterMs]
    TICK,             \* AUTONOMOUS_TASK_TICK_MS
    MaxRunTime,       \* bound: how long a run takes
    MaxManualRuns     \* bound: manual triggers

ScheduledTasks == {TaskIds[i] : i \in DOMAIN TaskIds}

ASSUME RunnerAssumption ==
    /\ TaskIds \in Seq(ScheduledTasks)
    /\ Interval \in [ScheduledTasks -> Nat \ {0}] /\ Jitter \in [ScheduledTasks -> Nat]
    /\ TICK \in Nat \ {0}
    /\ {MaxRunTime, MaxManualRuns} \subseteq Nat

VARIABLES
    nextIn,               \* [tasks -> time until nextRunAt]
    tickIn,               \* time until the timer fires
    inFlight,             \* the task that runs, or "none"
    runLeft,              \* how long it still takes
    manualCalls

runnerVars == <<nextIn, tickIn, inFlight, runLeft, manualCalls>>

RunnerInit ==
    /\ nextIn = Interval
    /\ tickIn = TICK
    /\ inFlight = "none" /\ runLeft = 0 /\ manualCalls = 0

Less(n) == IF n = 0 THEN 0 ELSE n - 1

\* Time passes while no timer waits to fire and no run to end.
TimePasses ==
    /\ tickIn > 0
    /\ inFlight # "none" => runLeft > 0
    /\ tickIn' = tickIn - 1
    /\ nextIn' = [t \in ScheduledTasks |-> Less(nextIn[t])]
    /\ runLeft' = Less(runLeft)
    /\ UNCHANGED <<inFlight, manualCalls>>

\* runTask on an idle runner
Run(t) ==
    /\ inFlight' = t
    /\ runLeft' \in 1 .. MaxRunTime

\* runDueTasks, while the breaker (in Agent) is not tripped
Tick ==
    /\ tickIn = 0
    /\ tickIn' = TICK
    /\ LET dueAt == {i \in DOMAIN TaskIds : nextIn[TaskIds[i]] = 0}
       IN  IF inFlight # "none" \/ dueAt = {} THEN UNCHANGED <<inFlight, runLeft>>
           ELSE \E i \in dueAt : (\A j \in dueAt : i <= j) /\ Run(TaskIds[i])
    /\ UNCHANGED <<nextIn, manualCalls>>

\* handleTaskRun; a busy runner answers SKIPPED.
RunManually(t) ==
    /\ manualCalls < MaxManualRuns
    /\ inFlight = "none"
    /\ manualCalls' = manualCalls + 1
    /\ Run(t)
    /\ UNCHANGED <<nextIn, tickIn>>

\* Mutant: a task that has run is due again at once.
DueAtOnce(t) == 0 .. 0

\* scheduleNextRun, with getCadence
NextRun(t) == Interval[t] .. Interval[t] + Jitter[t]

\* The finally of runTask.
RunEnds ==
    /\ inFlight # "none" /\ runLeft = 0
    /\ inFlight' = "none"
    /\ \E n \in NextRun(inFlight) : nextIn' = [nextIn EXCEPT ![inFlight] = n]
    /\ UNCHANGED <<tickIn, runLeft, manualCalls>>

RunnerNext ==
    \/ TimePasses \/ Tick \/ RunEnds
    \/ \E t \in ScheduledTasks : RunManually(t)

\* The clock goes on, the timer fires, a run ends: each await of it has a timeout.
RunnerFairness == WF_runnerVars(TimePasses) /\ WF_runnerVars(Tick) /\ WF_runnerVars(RunEnds)
RunnerSpec == RunnerInit /\ [][RunnerNext]_runnerVars /\ RunnerFairness

-----------------------------------------------------------------------------
\* No task starves behind those before it in TASK_IDS, though each tick runs one task
\* only and the first that is due, and manual runs come in between: as long as the
\* intervals leave time for the runs, each runs again and again.
EveryTaskRuns == \A t \in ScheduledTasks : []<>(inFlight = t)
=============================================================================
