--------------------------- MODULE EquiliBotModule ---------------------------
(***************************************************************************)
(* contracts/src/EquiliBotModule.sol with the SwapGuard it consults and    *)
(* the Safe it moves funds of.  executeSwap is one transaction: it checks  *)
(* its caller and its calldata, lets the guard charge the agent, has the   *)
(* Safe approve and call the router, and then compares the Safe's balances *)
(* with what they were.  Any failing check reverts all of it, the guard's  *)
(* charge included, so a failing call is no step.                          *)
(*                                                                         *)
(* The router is external and does what the Safe's allowances and the      *)
(* value sent let it do, in a swap or in a transaction of its own.  While  *)
(* a swap runs, a nested executeSwap reverts on the reentrancy lock, so a  *)
(* callback adds nothing to that.  Allowances go down by what is pulled;   *)
(* tokens that take 2^256 - 1 for an allowance without end are left out.   *)
(***************************************************************************)
EXTENDS SwapGuard

CONSTANTS
    Module,               \* the module's address, the guard's executor
    ThisGuard, OtherGuard,\* the guard modelled here, and another the owner may attach
    Native,               \* address(0) as a token
    QuietTokens,          \* ERC-20s whose approve may return false and do nothing
    Selectors,            \* four-byte selectors
    Calldatas,            \* bound: router calldata the agent submits, decoded
    LegacyAllowance,      \* [Routers -> [ERC20 -> Nat]]: allowances set before
    StartBalance,         \* [Tokens -> Nat]
    MaxBalance,           \* bound: balances the Safe can reach
    MaxDue,               \* bound: what a router is asked for and has not taken
    InitialAgent,
    InitialSelectors,     \* [Routers -> SUBSET Selectors]
    InitialProtected,     \* the tokens its owner has protected, in order
    MaxModuleOwnerCalls   \* bound: the module owner's transactions

ERC20 == Tokens \ {Native}

SELECTOR_SWAP_EXACT_TOKENS_FOR_TOKENS == "swapExactTokensForTokens"
SELECTOR_SWAP_TOKENS_FOR_EXACT_TOKENS == "swapTokensForExactTokens"
SELECTOR_EXACT_INPUT_SINGLE == "exactInputSingle"

\* What the code reads of router calldata once decoded; amountOut is the minimum
\* of the exact-input calls and the exact amount of the exact-output one, and
\* amountIn the maximum of the latter.
Calldata == [selector : Selectors, canonical : BOOLEAN, recipient : {"safe", "other"},
             tokenIn : Tokens, tokenOut : Tokens,
             amountIn : Nat, amountOut : Nat, deadline : Nat]

\* Agents are 20-byte addresses: there are finitely many.
ASSUME ModuleAssumption ==
    /\ IsFiniteSet(Agents) /\ MaxBalance \in Nat /\ MaxDue \in Nat
    /\ Module \in Addresses /\ Native \in Tokens /\ ThisGuard # OtherGuard
    /\ QuietTokens \subseteq ERC20
    /\ Calldatas \subseteq Calldata
    /\ LegacyAllowance \in [Routers -> [ERC20 -> Nat]]
    /\ StartBalance \in [Tokens -> 0 .. MaxBalance]
    /\ InitialAgent \in Agents
    /\ InitialSelectors \in [Routers -> SUBSET Selectors]
    /\ InitialProtected \in Seq(ERC20)
    /\ \A i, j \in DOMAIN InitialProtected :
          InitialProtected[i] = InitialProtected[j] => i = j
    /\ MaxModuleOwnerCalls \in Nat

VARIABLES
    moduleOwner, modulePendingOwner, modulePaused,
    agent, guard,
    allowInputBalanceIncrease, strictTokenIsolation,
    allowedRouterSelectors,       \* [Routers -> SUBSET Selectors]
    protectedTokens, protectedTokenList, protectedTokenIndexPlusOne,
    balance,                      \* the Safe's balance of each token
    allowance,                    \* [router -> [ERC-20 -> what it may pull]]
    moduleOwnerCalls,             \* transactions of the module's owner (bounded)
    outflow,                      \* history: see ChargedFor
    due                           \* history: [router -> [token -> what it may have and has not taken]]

listVars == <<protectedTokens, protectedTokenList, protectedTokenIndexPlusOne>>
settings == <<modulePaused, agent, guard, allowInputBalanceIncrease, strictTokenIsolation,
              allowedRouterSelectors>>
safeVars == <<balance, allowance, outflow, due>>
moduleVars == <<moduleOwner, modulePendingOwner, settings, listVars, safeVars, moduleOwnerCalls>>

TokenList == INSTANCE ProtectedTokenList WITH Tokens <- ERC20

-----------------------------------------------------------------------------
\* _validateRouterCalldata
CalldataMatches(r, c) ==
    /\ c.canonical
    /\ c.recipient = "safe"
    /\ c.tokenIn = r.tokenIn /\ c.tokenOut = r.tokenOut
    /\ c.amountIn = r.amountIn
    /\ c.deadline <= r.deadline
    /\ \/ /\ c.selector \in {SELECTOR_SWAP_EXACT_TOKENS_FOR_TOKENS, SELECTOR_EXACT_INPUT_SINGLE}
          /\ r.swapType = SWAP_TYPE_EXACT_INPUT
          /\ c.amountOut >= r.minAmountOut
       \/ /\ c.selector = SELECTOR_SWAP_TOKENS_FOR_EXACT_TOKENS
          /\ r.swapType = SWAP_TYPE_EXACT_OUTPUT
          /\ c.amountOut = r.expectedAmountOut

\* _validateIsolationConfiguration
IsolationConfigured(r) ==
    strictTokenIsolation =>
        \A k \in {r.tokenIn, r.tokenOut} \ {Native} : protectedTokens[k]

\* External: the allowances after the Safe called approve(amount) for token k; a
\* quiet token may also return false and leave them alone.
AfterApprove(k, old, amount) ==
    {[old EXCEPT ![k] = amount]} \cup (IF k \in QuietTokens THEN {old} ELSE {})

\* Mutant: the allowance left over is not cleared.
NotCleared(r, old) == {old}

\* _clearApproval (native coin has no allowance to clear)
AfterClear(r, old) ==
    IF r.tokenIn = Native THEN {old} ELSE AfterApprove(r.tokenIn, old, 0)

\* Mutant: the Safe approves all that it has.
AllApproved(r, old) ==
    IF r.tokenIn = Native THEN {old}
    ELSE UNION {AfterApprove(r.tokenIn, zeroed, balance[r.tokenIn]) : zeroed \in AfterClear(r, old)}

\* _approveToken: approve zero, then the amount; executeSwap skips it for native.
AfterApproval(r, old) ==
    IF r.tokenIn = Native THEN {old}
    ELSE UNION {AfterApprove(r.tokenIn, zeroed, r.amountIn) : zeroed \in AfterClear(r, old)}

\* External: the router leaves the Safe some balances and itself some allowances.
\* It takes the value sent, and of each ERC-20 no more than it was allowed.
RouterOutcomes(value, granted) ==
    LET Lefts == {left \in [ERC20 -> 0 .. MaxBalance] : \A k \in ERC20 : left[k] <= granted[k]}
        Least(left, k) == IF k = Native THEN balance[k] - value
                                        ELSE balance[k] - (granted[k] - left[k])
    IN  {o \in [after : [Tokens -> 0 .. MaxBalance], left : Lefts] :
            /\ value <= balance[Native]
            /\ \A k \in Tokens : o.after[k] >= Least(o.left, k)}

\* Mutant: the loop stops one short.
LastProtectedUnchecked(r, after) ==
    \A i \in 1 .. Len(protectedTokenList) - 1 :
        LET k == protectedTokenList[i]
        IN  k \in {r.tokenIn, r.tokenOut} \/ after[k] >= balance[k]

\* _validateProtectedBalances
ProtectedKept(r, after) ==
    \A i \in 1 .. Len(protectedTokenList) :
        LET k == protectedTokenList[i]
        IN  k \in {r.tokenIn, r.tokenOut} \/ after[k] >= balance[k]

\* Mutant: the amount received is not compared.
OutputUnchecked(r, after) ==
    /\ allowInputBalanceIncrease \/ after[r.tokenIn] <= balance[r.tokenIn]
    /\ after[r.tokenOut] >= balance[r.tokenOut]
    /\ balance[r.tokenIn] - after[r.tokenIn] <= r.amountIn

\* _validateBalanceDeltas
DeltasAcceptable(r, after) ==
    LET received == after[r.tokenOut] - balance[r.tokenOut]
    IN  /\ allowInputBalanceIncrease \/ after[r.tokenIn] <= balance[r.tokenIn]
        /\ received >= 0
        /\ balance[r.tokenIn] - after[r.tokenIn] <= r.amountIn
        /\ received >= IF r.swapType = SWAP_TYPE_EXACT_INPUT THEN r.minAmountOut
                                                             ELSE r.expectedAmountOut

\* What a swap through this guard took of the tokens it answers for: the token
\* sold and every protected one.
ChargedFor(r, k) == k = r.tokenIn \/ (k \in ERC20 /\ protectedTokens[k])
Taken(after, k) == IF after[k] < balance[k] THEN balance[k] - after[k] ELSE 0

ExecuteSwap(sender, r, c) ==
    /\ ~modulePaused
    /\ sender = agent
    /\ due[r.router][r.tokenIn] + r.amountIn <= MaxDue
    /\ c.selector \in allowedRouterSelectors[r.router]
    /\ CalldataMatches(r, c)
    /\ IsolationConfigured(r)
    /\ IF guard = ThisGuard THEN ValidateAndConsume(Module, agent, r) ELSE UNCHANGED vars
    /\ \E granted \in AfterApproval(r, allowance[r.router]) :
       \E o \in RouterOutcomes(IF r.tokenIn = Native THEN r.amountIn ELSE 0, granted) :
       \E final \in AfterClear(r, o.left) :
          /\ ProtectedKept(r, o.after)
          /\ DeltasAcceptable(r, o.after)
          /\ balance' = o.after
          /\ allowance' = [allowance EXCEPT ![r.router] = final]
          /\ outflow' =
               [outflow EXCEPT ![DayKey(now)] =
                  [k \in Tokens |->
                     IF guard = ThisGuard /\ ChargedFor(r, k) THEN @[k] + Taken(o.after, k)
                                                              ELSE @[k]]]
          /\ due' =
               [due EXCEPT ![r.router] =
                  [k \in Tokens |->
                     @[k] + (IF k = r.tokenIn THEN r.amountIn ELSE 0) - Taken(o.after, k)]]
    /\ UNCHANGED <<moduleOwner, modulePendingOwner, settings, listVars, moduleOwnerCalls>>

\* External: a transaction of the router's own, which pulls what it still may.
RouterActs(x) ==
    /\ \E k \in ERC20 : \E amount \in 1 .. balance[k] :
          /\ amount <= allowance[x][k]
          /\ balance' = [balance EXCEPT ![k] = @ - amount]
          /\ allowance' = [allowance EXCEPT ![x][k] = @ - amount]
          /\ due' = [due EXCEPT ![x][k] = @ - amount]
    /\ UNCHANGED <<vars, moduleOwner, modulePendingOwner, settings, listVars, outflow,
                   moduleOwnerCalls>>

-----------------------------------------------------------------------------
ModuleInit ==
    /\ Init
    /\ moduleOwner = InitialOwner /\ modulePendingOwner = NoAddress
    /\ modulePaused = FALSE
    /\ agent = InitialAgent /\ guard = ThisGuard
    /\ allowInputBalanceIncrease = FALSE /\ strictTokenIsolation = TRUE
    /\ allowedRouterSelectors = InitialSelectors
    /\ protectedTokenList = InitialProtected
    /\ protectedTokens = [k \in ERC20 |-> \E i \in DOMAIN InitialProtected : InitialProtected[i] = k]
    /\ protectedTokenIndexPlusOne =
         [k \in ERC20 |-> IF protectedTokens[k]
                         THEN CHOOSE i \in DOMAIN InitialProtected : InitialProtected[i] = k
                         ELSE 0]
    /\ balance = StartBalance
    /\ allowance = LegacyAllowance
    /\ moduleOwnerCalls = 0
    /\ outflow = [d \in Days |-> [k \in Tokens |-> 0]]
    /\ due = [x \in Routers |-> [k \in Tokens |-> IF k = Native THEN 0 ELSE LegacyAllowance[x][k]]]

\* onlyOwner
OwnerCalls(sender) ==
    /\ sender = moduleOwner
    /\ moduleOwnerCalls < MaxModuleOwnerCalls
    /\ moduleOwnerCalls' = moduleOwnerCalls + 1
    /\ UNCHANGED <<vars, safeVars>>

TransferModuleOwnership(sender, newOwner) ==
    /\ OwnerCalls(sender)
    /\ modulePendingOwner' = newOwner
    /\ UNCHANGED <<moduleOwner, settings, listVars>>

\* Mutant: the pending owner is cleared before it is read.
AcceptModuleClearsFirst(sender) ==
    /\ sender = modulePendingOwner
    /\ modulePendingOwner' = NoAddress
    /\ moduleOwner' = modulePendingOwner'
    /\ UNCHANGED <<vars, settings, listVars, safeVars, moduleOwnerCalls>>

AcceptModuleOwnership(sender) ==
    /\ sender = modulePendingOwner
    /\ moduleOwner' = sender
    /\ modulePendingOwner' = NoAddress
    /\ UNCHANGED <<vars, settings, listVars, safeVars, moduleOwnerCalls>>

ModuleSetPaused(sender, isPaused) ==
    /\ OwnerCalls(sender)
    /\ modulePaused' = isPaused
    /\ UNCHANGED <<moduleOwner, modulePendingOwner, listVars, agent, guard,
                   allowInputBalanceIncrease, strictTokenIsolation, allowedRouterSelectors>>

SetAgent(sender, newAgent) ==
    /\ OwnerCalls(sender)
    /\ agent' = newAgent
    /\ UNCHANGED <<moduleOwner, modulePendingOwner, listVars, modulePaused, guard,
                   allowInputBalanceIncrease, strictTokenIsolation, allowedRouterSelectors>>

SetGuard(sender, newGuard) ==
    /\ OwnerCalls(sender)
    /\ guard' = newGuard
    /\ UNCHANGED <<moduleOwner, modulePendingOwner, listVars, modulePaused, agent,
                   allowInputBalanceIncrease, strictTokenIsolation, allowedRouterSelectors>>

SetAllowInputBalanceIncrease(sender, allowed) ==
    /\ OwnerCalls(sender)
    /\ allowInputBalanceIncrease' = allowed
    /\ UNCHANGED <<moduleOwner, modulePendingOwner, listVars, modulePaused, agent, guard,
                   strictTokenIsolation, allowedRouterSelectors>>

SetStrictTokenIsolation(sender, enabled) ==
    /\ OwnerCalls(sender)
    /\ strictTokenIsolation' = enabled
    /\ UNCHANGED <<moduleOwner, modulePendingOwner, listVars, modulePaused, agent, guard,
                   allowInputBalanceIncrease, allowedRouterSelectors>>

SetRouterSelectorAllowed(sender, router, selector, allowed) ==
    /\ OwnerCalls(sender)
    /\ allowedRouterSelectors' =
         [allowedRouterSelectors EXCEPT ![router] = Toggled(@, selector, allowed)]
    /\ UNCHANGED <<moduleOwner, modulePendingOwner, listVars, modulePaused, agent, guard,
                   allowInputBalanceIncrease, strictTokenIsolation>>

SetProtectedToken(sender, token, shouldProtect) ==
    /\ OwnerCalls(sender)
    /\ TokenList!SetProtectedToken(token, shouldProtect)
    /\ UNCHANGED <<moduleOwner, modulePendingOwner, settings>>

ModuleOwnerStep(s) ==
    \/ \E x \in Addresses : TransferModuleOwnership(s, x)
    \/ AcceptModuleOwnership(s)
    \/ \E x \in Agents : SetAgent(s, x)
    \/ \E g \in {ThisGuard, OtherGuard} : SetGuard(s, g)
    \/ \E b \in BOOLEAN :
          \/ ModuleSetPaused(s, b)
          \/ SetAllowInputBalanceIncrease(s, b)
          \/ SetStrictTokenIsolation(s, b)
          \/ \E x \in Routers, f \in Selectors : SetRouterSelectorAllowed(s, x, f, b)
          \/ \E k \in ERC20 : SetProtectedToken(s, k, b)

\* The guard's owner, the oracle and the chain move on their own.
GuardMoves ==
    /\ \/ \E s \in Addresses : OwnerStep(s)
       \/ \E rate \in Rates : FeedUpdate(rate)
       \/ NextBlock
    /\ UNCHANGED moduleVars

ModuleNext ==
    \/ GuardMoves
    \/ \E s \in Addresses : ModuleOwnerStep(s)
    \/ \E a \in Agents, r \in Requests, c \in Calldatas : ExecuteSwap(a, r, c)
    \/ \E x \in Routers : RouterActs(x)

ModuleSpec == ModuleInit /\ [][ModuleNext]_<<vars, moduleVars>>

-----------------------------------------------------------------------------
\* The same of the module's storage and of the Safe's balances and allowances: the
\* owner, the agent and the guard are never unset.
ModuleTypeOK ==
    /\ TypeOK
    /\ moduleOwner \in Addresses /\ modulePendingOwner \in Addresses \cup {NoAddress}
    /\ agent \in Agents /\ guard \in {ThisGuard, OtherGuard}
    /\ {modulePaused, allowInputBalanceIncrease, strictTokenIsolation} \subseteq BOOLEAN
    /\ allowedRouterSelectors \in [Routers -> SUBSET Selectors]
    /\ TokenList!ListTypeOK
    /\ balance \in [Tokens -> Nat]
    /\ allowance \in [Routers -> [ERC20 -> Nat]]
    /\ outflow \in [Days -> [Tokens -> Nat]]
    /\ due \in [Routers -> [Tokens -> Int]]

\* What leaves the Safe in the swaps through this guard in a day, of the tokens sold and
\* of every protected token, is volume it charged to some agent that day: in a swap, no
\* router, no older allowance and no order of owner calls moves funds past the ledger.
\* (The ledger knows nothing of swaps under another guard, nor of what a router pulls
\* between swaps; RoutersTakeTheirDue bounds both.)
OutflowIsCharged ==
    \A d \in Days, k \in Tokens :
        outflow[d][k] <= SumFunction([a \in Agents |-> dailyVolumeByAgentToken[a][k][d]])

\* Between transactions a router may pull nothing the module once approved for it:
\* its allowances are those it had before, or less.  (An ERC-20 whose approve
\* fails without reverting is excluded: the module ignores what approve returns.)
NoAllowanceLeft ==
    \A x \in Routers, k \in ERC20 \ QuietTokens : allowance[x][k] <= LegacyAllowance[x][k]

\* In swaps under any guard and between them, of tokens whose approve fails too: all that
\* a router ever takes, and may still pull, is what the agents asked it to sell and the
\* allowances that it had before the module.
RoutersTakeTheirDue ==
    \A x \in Routers, k \in Tokens : due[x][k] >= IF k = Native THEN 0 ELSE allowance[x][k]

\* Whatever the router did, a swap through this guard pays the Safe the oracle's
\* price less the tolerances then in force.
SafePaidOraclePrice ==
    [][Len(log') > Len(log) =>
         LET e == log'[Len(log')]
             out == e.request.tokenOut
             floor == (e.oracleOut * (MAX_BPS - e.policy.maxOracleDeviationBps)) \div MAX_BPS
             slippage == IF e.request.swapType = SWAP_TYPE_EXACT_INPUT
                         THEN e.policy.maxSlippageBps + 1 ELSE 0
         IN  (balance'[out] - balance[out]) * MAX_BPS >= floor * (MAX_BPS - slippage)
      ]_<<vars, moduleVars>>
=============================================================================
