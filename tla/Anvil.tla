-------------------------------- MODULE Anvil --------------------------------
(***************************************************************************)
(* services/simulation-service.ts: the pipeline and the task runner each   *)
(* start an Anvil process of their own on a random port, wait until        *)
(* something listens there, carry the swap out on it, and kill their       *)
(* process whatever happened.                                              *)
(*                                                                         *)
(* A simulation talks to its port, not to its process: when both pick the  *)
(* same port the second process cannot listen and exits, and both may use  *)
(* the first one's fork until its owner kills it.                          *)
(***************************************************************************)
EXTENDS Naturals

CONSTANTS
    Simulators,      \* callers of simulate: "pipeline" and "runner"
    Ports,           \* 40000 .. 59999
    MaxRetries       \* bound: probes before SIMULATION_TIMEOUT_MS has passed

VARIABLES
    simStage,        \* [Simulators -> "idle", "probing", "before", "swapping", "after"]
    port,            \* [Simulators -> port]
    probes,          \* [Simulators -> probes so far]
    anvil,           \* [Simulators -> its process: "none", "starting", "listening", "gone"]
    killed           \* [Simulators -> child.killed: a SIGTERM was sent]

anvilVars == <<simStage, port, probes, anvil, killed>>

AnvilInit ==
    /\ simStage = [s \in Simulators |-> "idle"]
    /\ port \in [Simulators -> Ports] /\ probes = [s \in Simulators |-> 0]
    /\ anvil = [s \in Simulators |-> "none"] /\ killed = [s \in Simulators |-> FALSE]

Listening(p) == \E s \in Simulators : port[s] = p /\ anvil[s] = "listening"
Alive(s) == anvil[s] \in {"starting", "listening"}

\* killAnvil.  The SIGKILL planned for two seconds later asks for ~child.killed, which
\* the SIGTERM has made false, and so is never sent.
KillAnvil(s) == killed' = [killed EXCEPT ![s] = Alive(s) \/ @]

\* Mutant: a process that is not ready in time is left alone.
GiveUpOnly(s) == UNCHANGED killed

\* The probe that finds SIMULATION_TIMEOUT_MS passed.
GiveUp(s) == KillAnvil(s)

SimulationEnds(s) == simStage' = [simStage EXCEPT ![s] = "idle"]

\* simulate, with getRandomPort and the spawn, which may fail for want of an anvil.
\* Bound: a caller simulates again only when its process of before has exited.
Simulate(s, p) ==
    /\ simStage[s] = "idle" /\ ~Alive(s)
    /\ port' = [port EXCEPT ![s] = p]
    /\ simStage' = [simStage EXCEPT ![s] = "probing"]
    /\ \E process \in {"starting", "gone"} : anvil' = [anvil EXCEPT ![s] = process]
    /\ probes' = [probes EXCEPT ![s] = 0] /\ killed' = [killed EXCEPT ![s] = FALSE]

\* External: the process listens, or cannot as the port is taken; it exits by itself at
\* any time, and when asked to.
Starts(s) ==
    /\ anvil[s] = "starting"
    /\ anvil' = [anvil EXCEPT ![s] = IF Listening(port[s]) THEN "gone" ELSE "listening"]
    /\ UNCHANGED <<simStage, port, probes, killed>>
Exits(s) ==
    /\ Alive(s)
    /\ anvil' = [anvil EXCEPT ![s] = "gone"]
    /\ UNCHANGED <<simStage, port, probes, killed>>
Terminates(s) == killed[s] /\ Exits(s)

\* The "exit" and "error" events of a process nothing has connected to yet.
ExitSeen(s) ==
    /\ simStage[s] = "probing" /\ anvil[s] = "gone"
    /\ SimulationEnds(s)
    /\ UNCHANGED <<port, probes, anvil, killed>>

\* probe: it connects, to whichever process listens, or is tried again later, or the
\* time is up.  The process's exit may have come and not been seen.
Probe(s) ==
    /\ simStage[s] = "probing"
    /\ IF probes[s] = MaxRetries
       THEN GiveUp(s) /\ SimulationEnds(s) /\ UNCHANGED probes
       ELSE /\ probes' = [probes EXCEPT ![s] = @ + 1]
            /\ \E b \in BOOLEAN : simStage' = [simStage EXCEPT ![s] =
                                      IF Listening(port[s]) /\ b THEN "before" ELSE @]
            /\ UNCHANGED killed
    /\ UNCHANGED <<port, anvil>>

\* The three awaits on the fork: the balances, the swap and its receipt, the balances
\* again.  Each may fail, and does when nothing listens; the finally follows.
OnFork(s, from, to) ==
    /\ simStage[s] = from
    /\ \/ /\ to # "idle" /\ Listening(port[s])
          /\ simStage' = [simStage EXCEPT ![s] = to]
          /\ UNCHANGED killed
       \/ SimulationEnds(s) /\ KillAnvil(s)
    /\ UNCHANGED <<port, probes, anvil>>

ReadBefore(s) == OnFork(s, "before", "swapping")
SwapOnFork(s) == OnFork(s, "swapping", "after")
ReadAfter(s) == OnFork(s, "after", "idle")

AnvilNext ==
    \E s \in Simulators :
        \/ \E p \in Ports : Simulate(s, p)
        \/ Starts(s) \/ Exits(s) \/ ExitSeen(s)
        \/ Probe(s) \/ ReadBefore(s) \/ SwapOnFork(s) \/ ReadAfter(s)

\* Each await has a timeout.  That Anvil exits when asked to is assumed, not enforced.
AnvilFairness ==
    \A s \in Simulators :
        /\ WF_anvilVars(Terminates(s)) /\ WF_anvilVars(Probe(s)) /\ WF_anvilVars(ReadBefore(s))
        /\ WF_anvilVars(SwapOnFork(s)) /\ WF_anvilVars(ReadAfter(s))

AnvilSpec == AnvilInit /\ [][AnvilNext]_anvilVars /\ AnvilFairness

-----------------------------------------------------------------------------
\* "no orphan processes" (line 201): whether a process was ever ready or not, found its
\* port taken or had its port used by the other simulation, and however the simulation
\* ended, it is gone at last, and so is the simulation.
NoOrphan == \A s \in Simulators : (simStage[s] # "idle") ~> (simStage[s] = "idle" /\ ~Alive(s))
=============================================================================
