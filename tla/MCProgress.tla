------------------------------- MODULE MCProgress -------------------------------
(* What has to get on, for TLC: the agent's actors, the runner's clock,    *)
(* the forks of its simulations and the market observer.  They share no    *)
(* state: the initial state chooses one of them, which then runs by        *)
(* itself, while the others rest in one of their own initial states.       *)
EXTENDS MCAgent, TaskRunner, Anvil

CONSTANTS MaxLag, CacheBlocks, LogIndexes, ObservedBlocks, MaxSwaps, Polls

VARIABLES head, swaps, running, poolStates, staleTimer, poll, pollFailed, service

Observer == INSTANCE MarketObserver WITH MaxBlock <- ObservedBlocks

observerVars == <<head, swaps, running, poolStates, staleTimer, poll, pollFailed>>
progressVars == <<service, vars, runnerVars, anvilVars, observerVars>>

Order == <<"a", "b", "harvest">>
Intervals == [t \in ScheduledTasks |-> IF t = "a" THEN 3 ELSE IF t = "b" THEN 4 ELSE 5]
Jitters == [t \in ScheduledTasks |-> 1]

ProgressInit ==
    /\ service \in {"agent", "runner", "anvil", "observer"}
    /\ Init /\ RunnerInit /\ AnvilInit /\ Observer!Init
    /\ service # "agent" => mode = "active"
    /\ service # "anvil" => \A s \in Simulators : port[s] = 1

ProgressNext ==
    /\ UNCHANGED service
    /\ \/ service = "agent" /\ Next /\ UNCHANGED <<runnerVars, anvilVars, observerVars>>
       \/ service = "runner" /\ RunnerNext /\ UNCHANGED <<vars, anvilVars, observerVars>>
       \/ service = "anvil" /\ AnvilNext /\ UNCHANGED <<vars, runnerVars, observerVars>>
       \/ service = "observer" /\ Observer!Next /\ UNCHANGED <<vars, runnerVars, anvilVars>>

\* The fairness of the components, for the one that runs.
ProgressFairness ==
    /\ \A a \in Actors : WF_vars(service = "agent" /\ ActorStep(a))
    /\ WF_runnerVars(service = "runner" /\ TimePasses)
    /\ WF_runnerVars(service = "runner" /\ Tick)
    /\ WF_runnerVars(service = "runner" /\ RunEnds)
    /\ \A s \in Simulators :
          /\ WF_anvilVars(service = "anvil" /\ Terminates(s))
          /\ WF_anvilVars(service = "anvil" /\ Probe(s))
          /\ WF_anvilVars(service = "anvil" /\ ReadBefore(s))
          /\ WF_anvilVars(service = "anvil" /\ SwapOnFork(s))
          /\ WF_anvilVars(service = "anvil" /\ ReadAfter(s))
    /\ \A p \in Pools : WF_observerVars(service = "observer" /\ Observer!StaleTimerFires(p))
    /\ \A f \in Polls : WF_observerVars(service = "observer" /\ Observer!PollStep(f))

ProgressSpec == ProgressInit /\ [][ProgressNext]_progressVars /\ ProgressFairness

-----------------------------------------------------------------------------
\* No task starves behind those before it in TASK_IDS: EveryTaskRuns of TaskRunner, for
\* the behaviours in which the runner is the component that runs.
RunnerServesAll == service = "runner" => EveryTaskRuns

\* The observer's map catches up with the pools: EventuallyCurrent of MarketObserver.
EventuallyCurrent == Observer!EventuallyCurrent
=============================================================================
