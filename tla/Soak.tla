--------------------------------- MODULE Soak ---------------------------------
(***************************************************************************)
(* agent/scripts/soak-runner.ts, which runs the agent for SOAK_HOURS and   *)
(* writes a report, and phase3-closeout.ts, which takes a report of 72     *)
(* hours and the security sign-off to mark the phase as complete in two    *)
(* files.                                                                  *)
(***************************************************************************)
EXTENDS Integers, FiniteSets

CONSTANTS
    REQUIRED,        \* REQUIRED_SOAK_HOURS
    POLL,            \* the minute between two looks at the agent
    SoakHours,       \* bound: settings of SOAK_HOURS
    MaxReports       \* bound

ASSUME SoakAssumption == {REQUIRED, POLL} \subseteq Nat \ {0} /\ SoakHours \subseteq Nat

VARIABLES
    soakStage,       \* "idle", "running" or "stopping"
    planned,         \* soakHours
    elapsed,         \* since startedAt
    pollIn,          \* time until the loop's next look
    lived,           \* how long the agent has run
    exited,          \* "no", or the exit code: "0", "1", or "null" after a signal
    reports,         \* the soak-report files, each with what its agent lived
    signedOff,       \* a box is ticked in SECURITY_REVIEW_SIGNOFF.md
    closeout,        \* "idle" or, between the two writes, "half"
    planDone, statusDone   \* plan and PHASE3_VALIDATION_STATUS.md say complete

soakVars == <<soakStage, planned, elapsed, pollIn, lived, exited, reports,
              signedOff, closeout, planDone, statusDone>>
runVars == <<soakStage, planned, elapsed, pollIn, lived, exited, reports>>
closeVars == <<signedOff, closeout, planDone, statusDone>>

SoakInit ==
    /\ soakStage = "idle" /\ planned = 0 /\ elapsed = 0 /\ pollIn = 0 /\ lived = 0
    /\ exited = "no" /\ reports = {}
    /\ signedOff = FALSE /\ closeout = "idle" /\ planDone = FALSE /\ statusDone = FALSE

\* main up to its loop
StartSoak ==
    /\ soakStage = "idle" /\ Cardinality(reports) < MaxReports
    /\ planned' \in SoakHours
    /\ soakStage' = "running" /\ elapsed' = 0 /\ pollIn' = 0 /\ lived' = 0 /\ exited' = "no"
    /\ UNCHANGED <<reports, closeVars>>

\* External: the agent exits by itself, is killed, or runs on.
AgentExits ==
    /\ soakStage \in {"running", "stopping"} /\ exited = "no"
    /\ exited' \in {"0", "1", "null"}
    /\ UNCHANGED <<soakStage, planned, elapsed, pollIn, lived, reports, closeVars>>
SoakTimePasses ==
    /\ soakStage = "running" /\ pollIn > 0
    /\ pollIn' = pollIn - 1 /\ elapsed' = elapsed + 1
    /\ lived' = IF exited = "no" THEN lived + 1 ELSE lived
    /\ UNCHANGED <<soakStage, planned, exited, reports, closeVars>>

\* Mutant: the loop does not look whether the agent has exited.
UntilPlannedEnd == elapsed < planned

GoesOn == exited = "no" /\ elapsed < planned

\* The head of the loop: another poll, or SIGINT to an agent that still runs.
LookAtAgent ==
    /\ soakStage = "running" /\ pollIn = 0
    /\ IF GoesOn THEN pollIn' = POLL /\ UNCHANGED soakStage
       ELSE soakStage' = "stopping" /\ UNCHANGED pollIn
    /\ UNCHANGED <<planned, elapsed, lived, exited, reports, closeVars>>

\* The report, three seconds later; an agent that has not exited by then has no code.
WriteReport ==
    /\ soakStage = "stopping"
    /\ soakStage' = "idle"
    /\ reports' = reports \cup
          {[plannedHours |-> planned, actual |-> elapsed, lived |-> lived,
            exitCode |-> IF exited = "no" THEN "null" ELSE exited]}
    /\ UNCHANGED <<planned, elapsed, pollIn, lived, exited, closeVars>>

\* External: a reviewer ticks a box.
SignOff ==
    /\ signedOff' = TRUE
    /\ UNCHANGED <<runVars, closeout, planDone, statusDone>>

\* checkSoakGate
SoakGate ==
    \E r \in reports : /\ r.plannedHours >= REQUIRED /\ r.actual >= REQUIRED
                       /\ r.exitCode \in {"0", "null"}

\* main with --apply: applyCloseoutUpdates throws when the plan is marked already.
ApplyPlan ==
    /\ closeout = "idle" /\ SoakGate /\ signedOff /\ ~planDone
    /\ planDone' = TRUE /\ closeout' = "half"
    /\ UNCHANGED <<runVars, signedOff, statusDone>>
ApplyStatus ==
    /\ closeout = "half"
    /\ statusDone' = TRUE /\ closeout' = "idle"
    /\ UNCHANGED <<runVars, signedOff, planDone>>
CloseoutCrashes ==
    /\ closeout = "half"
    /\ closeout' = "idle"
    /\ UNCHANGED <<runVars, signedOff, planDone, statusDone>>

SoakNext ==
    \/ StartSoak \/ AgentExits \/ SoakTimePasses \/ LookAtAgent \/ WriteReport
    \/ SignOff \/ ApplyPlan \/ ApplyStatus \/ CloseoutCrashes

SoakSpec == SoakInit /\ [][SoakNext]_soakVars

-----------------------------------------------------------------------------
\* The phase is marked as complete only after a soak whose agent itself ran for the 72
\* hours, less at most one poll interval, though a report counts whose agent was
\* killed by a signal, and the status file is never ahead of the plan, wherever the
\* closeout stops.
CloseoutIsEarned ==
    /\ planDone => \E r \in reports : r.lived >= REQUIRED - POLL
    /\ statusDone => planDone
=============================================================================
