------------------------------ MODULE Deployment ------------------------------
(***************************************************************************)
(* From the contracts to a running agent: the transactions of              *)
(* DeployPhase1.s.sol, which are mined in order and may stop anywhere,     *)
(* EnableSafeModule.s.sol, ValidatePhase1Config.s.sol and the checks of    *)
(* index.ts at startup, with the addresses an operator copies from one     *)
(* step to the next.  The script may be run again, which makes another     *)
(* guard and another module.                                               *)
(***************************************************************************)
EXTENDS Naturals, Sequences

CONSTANTS
    Deployments,     \* runs of DeployPhase1
    Wallets          \* addresses the agent may sign with

VARIABLES
    done,            \* [Deployments -> transactions of the script mined]
    moduleAgent,     \* [Deployments -> AGENT_ADDRESS when the module was made]
    enabledModules,  \* the Safe's modules
    env,             \* GUARD_ADDRESS and MODULE_ADDRESS, as deployments
    wallet,          \* the signer's address
    validated,       \* history: the env with which the validation last passed
    agentRuns        \* the env and wallet the running agent started with, or NoRun

deployVars == <<done, moduleAgent, enabledModules, env, wallet, validated, agentRuns>>

NoEnv == [guard |-> 0, module |-> 0]
NoRun == [env |-> NoEnv, wallet |-> "none"]

\* Mutant: the module is authorised at the end.
ExecutorLast ==
    <<"guard", "module", "strictIsolation", "oracle", "explicitLimits",
      "routersAndSelectors", "tokensAndLimits", "protectedTokens", "executor">>

\* run: each entry stands for the transactions of its line or loop, the feeds of an
\* oracle adapter being set before all of them.
DeployPhase1 ==
    <<"guard", "module", "executor", "strictIsolation", "oracle", "explicitLimits",
      "routersAndSelectors", "tokensAndLimits", "protectedTokens">>

Settled(d) == {DeployPhase1[i] : i \in 1 .. done[d]}

DeployInit ==
    /\ done = [d \in Deployments |-> 0]
    /\ moduleAgent \in [Deployments -> Wallets]
    /\ enabledModules = {} /\ env = NoEnv /\ validated = NoEnv
    /\ wallet \in Wallets
    /\ agentRuns = NoRun

\* The next transaction of the script is mined; there may never be one.
Broadcast(d) ==
    /\ done[d] < Len(DeployPhase1)
    /\ done' = [done EXCEPT ![d] = @ + 1]
    /\ UNCHANGED <<moduleAgent, enabledModules, env, wallet, validated, agentRuns>>

\* The operator writes the addresses of contracts that exist into .env, or changes the
\* agent's wallet.
EditEnv(g, m) ==
    /\ "guard" \in Settled(g) /\ "module" \in Settled(m)
    /\ env' = [guard |-> g, module |-> m]
    /\ UNCHANGED <<done, moduleAgent, enabledModules, wallet, validated, agentRuns>>
ChangeWallet(w) ==
    /\ wallet' = w
    /\ UNCHANGED <<done, moduleAgent, enabledModules, env, validated, agentRuns>>

\* EnableSafeModule
EnableModule ==
    /\ env # NoEnv
    /\ enabledModules' = enabledModules \cup {env.module}
    /\ UNCHANGED <<done, moduleAgent, env, wallet, validated, agentRuns>>

\* ValidatePhase1Config: neither the guard's executor nor the module's guard is asked for.
Validate ==
    /\ env # NoEnv
    /\ {"oracle", "explicitLimits", "tokensAndLimits"} \subseteq Settled(env.guard)
    /\ {"strictIsolation", "protectedTokens"} \subseteq Settled(env.module)
    /\ \A d \in {env.guard, env.module} : "routersAndSelectors" \in Settled(d)
    /\ env.module \in enabledModules
    /\ validated' = env
    /\ UNCHANGED <<done, moduleAgent, enabledModules, env, wallet, agentRuns>>

\* main, with runPreflightChecks: the rest of its checks asks whether the contracts are
\* paused and for nodes and tools, and may stop any start.
StartAgent ==
    /\ agentRuns = NoRun /\ env # NoEnv
    /\ moduleAgent[env.module] = wallet
    /\ agentRuns' = [env |-> env, wallet |-> wallet]
    /\ UNCHANGED <<done, moduleAgent, enabledModules, env, wallet, validated>>

StopAgent ==
    /\ agentRuns # NoRun /\ agentRuns' = NoRun
    /\ UNCHANGED <<done, moduleAgent, enabledModules, env, wallet, validated>>

DeployNext ==
    \/ \E d \in Deployments : Broadcast(d)
    \/ \E g, m \in Deployments : EditEnv(g, m)
    \/ \E w \in Wallets : ChangeWallet(w)
    \/ EnableModule \/ Validate \/ StartAgent \/ StopAgent

DeploySpec == DeployInit /\ [][DeployNext]_deployVars

-----------------------------------------------------------------------------
\* An agent that runs on a configuration that passed the validation can trade: its
\* module is enabled, knows its wallet and is the guard's executor, and no transaction of
\* the deployment is missing, though the validation never asks for the executor and
\* the script may have stopped half way.  Only when guard and module come from the
\* same deployment: nothing checks that.
ValidatedMeansComplete ==
    (agentRuns # NoRun /\ agentRuns.env = validated /\ validated.guard = validated.module) =>
        LET d == validated.module
        IN  /\ Settled(d) = {DeployPhase1[i] : i \in DOMAIN DeployPhase1}
            /\ d \in enabledModules /\ moduleAgent[d] = agentRuns.wallet
=============================================================================
