------------------------------- MODULE Alerting -------------------------------
(***************************************************************************)
(* services/risk-monitor.ts, services/alert-service.ts and the RPC health  *)
(* check of index.ts: what the monitor recommends, what the alert service  *)
(* lets through, and the timer that checks the node.  Both read the clock  *)
(* for themselves, so that it may tick between the two.                    *)
(***************************************************************************)
EXTENDS Integers, Sequences, FiniteSetsExt

CONSTANTS
    Spikes,           \* signals counted: "policy-rejection-spike", "oracle-unavailable-spike"
    Window,           \* ALERT_*_WINDOW_MIN, also the cooldown of such an alert
    SpikeThreshold,   \* ALERT_*_THRESHOLD
    RpcInterval,      \* ALERT_RPC_CHECK_INTERVAL_MS
    RpcThreshold,     \* ALERT_RPC_FAILURE_THRESHOLD
    RpcCooldown,      \* cooldownMs of the RPC alerts: a minute
    SlowestCheck,     \* bound: how long a health check takes, retries included
    FirstTime,        \* bound: the clock when the agent starts
    LastTime,         \* bound: the clock at the end
    MaxSignals        \* bound: signals of a kind

RpcAlerts == {"rpc-degraded", "rpc-recovered"}

\* SEVERITY_RANK, and the severity the monitor gives its alerts.
Rank == [info |-> 10, warn |-> 20, error |-> 30, fatal |-> 40]
Severities == {"info", "warn", "error", "fatal"}
SeverityOf(key) ==
    CASE key = "rpc-degraded" -> "fatal" [] key = "rpc-recovered" -> "warn" [] OTHER -> "error"

ASSUME AlertingAssumption ==
    /\ {Window, SpikeThreshold, RpcInterval, RpcThreshold} \subseteq Nat \ {0}
    /\ {RpcCooldown, SlowestCheck, FirstTime} \subseteq Nat
    /\ FirstTime >= Window
    /\ Spikes \cap RpcAlerts = {}
    \* the default settings: an alert's cooldown is over before it can come again
    /\ RpcThreshold * RpcInterval >= RpcCooldown + SlowestCheck - RpcInterval

VARIABLES
    minSeverity,      \* ALERT_MIN_SEVERITY, read at startup
    now,              \* Date.now()
    signalTimes,      \* [Spikes -> policyRejectionTimes, oracleNullTimes]
    lastSpikeAt,      \* [Spikes -> lastPolicyAlertAt, lastOracleAlertAt]
    signals,          \* [Spikes -> number so far]
    rpcFailures,      \* rpcConsecutiveFailures
    rpcDegraded,
    nextCheckIn,      \* time until rpcHealthInterval fires
    checkSince,       \* when the check under way began; 0 when none is
    lastSentAt,       \* [dedupe keys -> time], 0 for none
    lastWord          \* history: the last RPC alert that the service let through

rpcVars == <<rpcFailures, rpcDegraded, lastWord>>
spikeVars == <<signalTimes, lastSpikeAt, signals>>
alertVars == <<minSeverity, now, spikeVars, rpcVars, nextCheckIn, checkSince, lastSentAt>>

AlertingInit ==
    /\ minSeverity \in Severities
    /\ now = FirstTime
    /\ signalTimes = [k \in Spikes |-> <<>>]
    /\ lastSpikeAt = [k \in Spikes |-> 0] /\ signals = [k \in Spikes |-> 0]
    /\ rpcFailures = 0 /\ rpcDegraded = FALSE /\ lastWord = "rpc-recovered"
    /\ nextCheckIn = RpcInterval /\ checkSince = 0
    /\ lastSentAt = [k \in Spikes \cup RpcAlerts |-> 0]

\* The event loop is never so busy that a due timer or check waits.
AlertTick ==
    /\ now < LastTime
    /\ nextCheckIn > 0
    /\ checkSince # 0 => now < checkSince + SlowestCheck
    /\ now' = now + 1
    /\ nextCheckIn' = nextCheckIn - 1

ClockTicks == AlertTick /\ UNCHANGED <<minSeverity, spikeVars, rpcVars, checkSince, lastSentAt>>

\* notify, at time t: the alert is marked as sent before its POST, which may fail.
Severe(key) == Rank[SeverityOf(key)] >= Rank[minSeverity]
LetThrough(key, cooldown, t) ==
    Severe(key) /\ (lastSentAt[key] = 0 \/ t - lastSentAt[key] >= cooldown)
Sent(key, cooldown, t) ==
    IF LetThrough(key, cooldown, t) THEN [lastSentAt EXCEPT ![key] = t] ELSE lastSentAt

\* Mutant: every signal counts as the last alert.
MarkedAtEverySignal(k, alerts) == [lastSpikeAt EXCEPT ![k] = now]

\* The monitor's own cooldown.
MarkedAtAlert(k, alerts) == IF alerts THEN [lastSpikeAt EXCEPT ![k] = now] ELSE lastSpikeAt

\* prune: times leave at the front while they are too old.
Pruned(times, t) ==
    SubSeq(times, Min({i \in DOMAIN times : t - times[i] <= Window}), Len(times))

\* recordPolicyRejection and recordOracleUnavailable with prune, then notify, by which
\* time the clock may have ticked.
Signal(k) ==
    LET times == Pruned(Append(signalTimes[k], now), now)
        alerts == Len(times) >= SpikeThreshold /\ now - lastSpikeAt[k] >= Window
    IN  /\ signals[k] < MaxSignals
        /\ signals' = [signals EXCEPT ![k] = @ + 1]
        /\ signalTimes' = [signalTimes EXCEPT ![k] = times]
        /\ lastSpikeAt' = MarkedAtAlert(k, alerts)
        /\ AlertTick \/ UNCHANGED <<now, nextCheckIn>>
        /\ lastSentAt' = IF alerts THEN Sent(k, Window, now') ELSE lastSentAt
        /\ UNCHANGED <<minSeverity, rpcVars, checkSince>>

\* rpcHealthInterval: a check that is still under way is not repeated.
HealthTimer ==
    /\ nextCheckIn = 0
    /\ nextCheckIn' = RpcInterval
    /\ checkSince' = IF checkSince = 0 THEN now ELSE checkSince
    /\ UNCHANGED <<minSeverity, now, spikeVars, rpcVars, lastSentAt>>

SendRpcAlert(key) ==
    /\ lastSentAt' = Sent(key, RpcCooldown, now)
    /\ lastWord' = IF LetThrough(key, RpcCooldown, now) THEN key ELSE lastWord

\* Mutant: a success leaves the count of failures.
CountKept == rpcFailures
CountReset == 0

\* The node answers: recordRpcSuccess.
CheckSucceeds ==
    /\ checkSince # 0 /\ checkSince' = 0
    /\ rpcFailures' = CountReset
    /\ rpcDegraded' = FALSE
    /\ IF rpcDegraded THEN SendRpcAlert("rpc-recovered") ELSE UNCHANGED <<lastSentAt, lastWord>>
    /\ UNCHANGED <<minSeverity, now, spikeVars, nextCheckIn>>

\* It does not: recordRpcFailure.
CheckFails ==
    LET failures == IF rpcFailures >= RpcThreshold THEN rpcFailures ELSE rpcFailures + 1
        alerts == failures >= RpcThreshold /\ ~rpcDegraded
    IN  /\ checkSince # 0 /\ checkSince' = 0
        /\ rpcFailures' = failures
        /\ rpcDegraded' = (rpcDegraded \/ alerts)
        /\ IF alerts THEN SendRpcAlert("rpc-degraded") ELSE UNCHANGED <<lastSentAt, lastWord>>
        /\ UNCHANGED <<minSeverity, now, spikeVars, nextCheckIn>>

AlertingNext ==
    \/ ClockTicks \/ HealthTimer \/ CheckSucceeds \/ CheckFails
    \/ \E k \in Spikes : Signal(k)

AlertingSpec == AlertingInit /\ [][AlertingNext]_alertVars

-----------------------------------------------------------------------------
\* While signals come thick, an alert is let through at least every second window, unless
\* the settings ask for fatal ones only.  Not every window: monitor and service have the
\* same cooldown and each its own clock reading, and when the clock ticks between them
\* once and not the next time, the service drops an alert the monitor has counted as given.
SpikeIsHeard ==
    \A k \in Spikes :
        (/\ minSeverity # "fatal"
         /\ Len(signalTimes[k]) >= SpikeThreshold
         /\ now - signalTimes[k][Len(signalTimes[k])] <= 1)
        => lastSentAt[k] # 0 /\ now - lastSentAt[k] <= 2 * Window

\* The last RPC alert let through tells the truth: however checks overlap the timer or
\* the node comes and goes, no cooldown swallows the alert that corrects it.  Under the
\* settings that drop warnings the all clear is never announced, but no outage is missed.
LastWordIsTrue ==
    /\ rpcDegraded => lastWord = "rpc-degraded"
    /\ ~rpcDegraded /\ minSeverity \in {"info", "warn"} => lastWord = "rpc-recovered"
=============================================================================
