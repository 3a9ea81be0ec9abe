------------------------ MODULE EquiliBotModuleProofs ------------------------
(***************************************************************************)
(* EquiliBotModule with its guard: what the Safe may lose, what a router   *)
(* may pull later and what the Safe is paid.  The router is arbitrary      *)
(* throughout: what is proved of a swap follows from the allowances given  *)
(* to it and the balances compared after it.                               *)
(***************************************************************************)
EXTENDS EquiliBotModule, SwapGuardProofs

ListLemmas == INSTANCE ProtectedTokenListProofs WITH Tokens <- ERC20

\* Types, and the list of protected tokens that executeSwap walks.
ModuleInv == ModuleTypeOK /\ TokenList!ListMatchesFlags

-----------------------------------------------------------------------------
(* Types.                                                                  *)

\* A call of the module's owner keeps the settings typed, the list right, and the guard and
\* the Safe's funds as they were.
LEMMA OwnerKeeps ==
    ASSUME ModuleInv, NEW s \in Addresses, ModuleOwnerStep(s)
    PROVE  ModuleInv' /\ UNCHANGED <<vars, safeVars>>
<1>1. UNCHANGED <<vars, safeVars>>
  BY DEF ModuleOwnerStep, OwnerCalls, TransferModuleOwnership, AcceptModuleOwnership, SetAgent,
         SetGuard, ModuleSetPaused, SetAllowInputBalanceIncrease, SetStrictTokenIsolation,
         SetRouterSelectorAllowed, SetProtectedToken
<1>2. TypeOK'
  BY <1>1 DEF ModuleInv, ModuleTypeOK, TypeOK, vars, ledger
<1>3. UNCHANGED listVars => TokenList!ListTypeOK' /\ TokenList!ListMatchesFlags'
  BY DEF ModuleInv, ModuleTypeOK, listVars, TokenList!ListTypeOK, TokenList!ListMatchesFlags
<1>4. ASSUME NEW k \in ERC20, NEW b \in BOOLEAN, SetProtectedToken(s, k, b)
      PROVE  TokenList!ListTypeOK' /\ TokenList!ListMatchesFlags'
  <2>1. CASE UNCHANGED listVars
    BY <1>3, <2>1
  <2>2. ListLemmas!Inv
    BY DEF ModuleInv, ModuleTypeOK, ListLemmas!Inv, ListLemmas!ListTypeOK,
           ListLemmas!ListMatchesFlags, TokenList!ListTypeOK, TokenList!ListMatchesFlags
  <2>3. TokenList!Protect(k) => ListLemmas!Inv'
    <3>1. TokenList!Protect(k) => ListLemmas!Protect(k)
      BY DEF TokenList!Protect, ListLemmas!Protect
    <3> QED BY <2>2, <3>1, ListLemmas!ProtectStep
  <2>4. TokenList!Unprotect(k) => ListLemmas!Inv'
    <3>1. TokenList!Unprotect(k) => ListLemmas!Unprotect(k)
      BY DEF TokenList!Unprotect, ListLemmas!Unprotect, TokenList!Popped, ListLemmas!Popped
    <3> QED BY <2>2, <3>1, ListLemmas!UnprotectStep
  <2>5. ListLemmas!Inv' => TokenList!ListTypeOK' /\ TokenList!ListMatchesFlags'
    BY DEF ListLemmas!Inv, ListLemmas!ListTypeOK,
           ListLemmas!ListMatchesFlags, TokenList!ListTypeOK, TokenList!ListMatchesFlags
  <2>6. UNCHANGED listVars \/ TokenList!Protect(k) \/ TokenList!Unprotect(k)
    BY <1>4 DEF SetProtectedToken, TokenList!SetProtectedToken, TokenList!listVars, listVars
  <2> QED BY <2>1, <2>3, <2>4, <2>5, <2>6
<1>5. TokenList!ListTypeOK' /\ TokenList!ListMatchesFlags'
  BY <1>3, <1>4
  DEF ModuleOwnerStep, TransferModuleOwnership, AcceptModuleOwnership, SetAgent,
      SetGuard, ModuleSetPaused, SetAllowInputBalanceIncrease, SetStrictTokenIsolation,
      SetRouterSelectorAllowed, listVars
<1>6. /\ moduleOwner' \in Addresses /\ modulePendingOwner' \in Addresses \cup {NoAddress}
      /\ agent' \in Agents /\ guard' \in {ThisGuard, OtherGuard}
      /\ {modulePaused', allowInputBalanceIncrease', strictTokenIsolation'} \subseteq BOOLEAN
      /\ allowedRouterSelectors' \in [Routers -> SUBSET Selectors]
  BY DEF ModuleInv, ModuleTypeOK, ModuleOwnerStep, OwnerCalls, TransferModuleOwnership,
         AcceptModuleOwnership, SetAgent, SetGuard, ModuleSetPaused,
         SetAllowInputBalanceIncrease, SetStrictTokenIsolation, SetRouterSelectorAllowed,
         SetProtectedToken, settings, Toggled
<1>7. /\ balance' \in [Tokens -> Nat] /\ allowance' \in [Routers -> [ERC20 -> Nat]]
      /\ outflow' \in [Days -> [Tokens -> Nat]] /\ due' \in [Routers -> [Tokens -> Int]]
  BY <1>1 DEF ModuleInv, ModuleTypeOK, safeVars
<1> QED BY <1>1, <1>2, <1>5, <1>6, <1>7 DEF ModuleInv, ModuleTypeOK

-----------------------------------------------------------------------------
(* Swaps.                                                                  *)

\* What approve leaves: only that token's allowance changes, and to the amount if the token
\* is not quiet.
LEMMA ApproveLeaves ==
    ASSUME NEW old \in [ERC20 -> Nat], NEW k \in ERC20, NEW amount \in Nat,
           NEW new \in AfterApprove(k, old, amount)
    PROVE  /\ new \in [ERC20 -> Nat]
           /\ \A x \in ERC20 \ {k} : new[x] = old[x]
           /\ new[k] \in {old[k], amount}
           /\ k \notin QuietTokens => new[k] = amount
BY DEF AfterApprove

\* What clearing the allowance of the token sold leaves.
LEMMA ClearLeaves ==
    ASSUME NEW old \in [ERC20 -> Nat], NEW r \in SwapRequest, NEW new \in AfterClear(r, old)
    PROVE  /\ new \in [ERC20 -> Nat]
           /\ \A x \in ERC20 \ {r.tokenIn} : new[x] = old[x]
           /\ \A x \in ERC20 : new[x] <= old[x]
           /\ r.tokenIn \in ERC20 \ QuietTokens => new[r.tokenIn] = 0
<1>1. r.tokenIn \in Tokens
  BY DEF SwapRequest
<1>2. CASE r.tokenIn = Native
  BY <1>2 DEF AfterClear, ERC20
<1>3. CASE r.tokenIn # Native
  <2>1. r.tokenIn \in ERC20 /\ new \in AfterApprove(r.tokenIn, old, 0)
    BY <1>1, <1>3 DEF AfterClear, ERC20
  <2>2. 0 \in Nat
    OBVIOUS
  <2> QED BY <2>1, <2>2, ApproveLeaves
<1> QED BY <1>2, <1>3

\* What the approval before the router call leaves.
LEMMA ApprovalLeaves ==
    ASSUME NEW old \in [ERC20 -> Nat], NEW r \in SwapRequest, NEW new \in AfterApproval(r, old)
    PROVE  /\ new \in [ERC20 -> Nat]
           /\ \A x \in ERC20 \ {r.tokenIn} : new[x] = old[x]
           /\ \A x \in ERC20 : new[x] <= old[x] \/ (x = r.tokenIn /\ new[x] <= r.amountIn)
<1>1. r.tokenIn \in Tokens /\ r.amountIn \in Nat
  BY DEF SwapRequest
<1>2. CASE r.tokenIn = Native
  BY <1>2 DEF AfterApproval
<1>3. CASE r.tokenIn # Native
  <2>1. r.tokenIn \in ERC20
    BY <1>1, <1>3 DEF ERC20
  <2>2. PICK zeroed \in AfterClear(r, old) : new \in AfterApprove(r.tokenIn, zeroed, r.amountIn)
    BY <1>3 DEF AfterApproval
  <2>3. /\ zeroed \in [ERC20 -> Nat]
        /\ \A x \in ERC20 \ {r.tokenIn} : zeroed[x] = old[x]
        /\ \A x \in ERC20 : zeroed[x] <= old[x]
    BY <2>2, ClearLeaves
  <2>4. /\ new \in [ERC20 -> Nat]
        /\ \A x \in ERC20 \ {r.tokenIn} : new[x] = zeroed[x]
        /\ new[r.tokenIn] \in {zeroed[r.tokenIn], r.amountIn}
    BY <1>1, <2>1, <2>2, <2>3, ApproveLeaves
  <2> QED BY <1>1, <2>3, <2>4
<1> QED BY <1>2, <1>3

\* What a swap does to the Safe, whatever the router did: the allowances it leaves, the
\* balances the module compared, and that what the router took and what it may still pull
\* are within the allowance it had or the amount it was asked to sell.
LEMMA SwapEffects ==
    ASSUME ModuleTypeOK, NEW s \in Agents, NEW r \in Requests, NEW c \in Calldatas,
           ExecuteSwap(s, r, c)
    PROVE  /\ r \in SwapRequest
           /\ UNCHANGED <<moduleOwner, modulePendingOwner, settings, listVars>>
           /\ \E final \in [ERC20 -> Nat] :
                 /\ allowance' = [allowance EXCEPT ![r.router] = final]
                 /\ \A x \in ERC20 \ {r.tokenIn} : final[x] <= allowance[r.router][x]
                 /\ r.tokenIn \in ERC20 \ QuietTokens => final[r.tokenIn] = 0
                 /\ \A x \in ERC20 :
                       \/ Taken(balance', x) + final[x] <= allowance[r.router][x]
                       \/ x = r.tokenIn /\ Taken(balance', x) + final[x] <= r.amountIn
           /\ Taken(balance', Native) <= IF r.tokenIn = Native THEN r.amountIn ELSE 0
           /\ balance' \in [Tokens -> Nat]
           /\ ProtectedKept(r, balance') /\ DeltasAcceptable(r, balance')
           /\ outflow' =
                 [outflow EXCEPT ![DayKey(now)] =
                    [k \in Tokens |->
                       IF guard = ThisGuard /\ ChargedFor(r, k) THEN @[k] + Taken(balance', k)
                                                                ELSE @[k]]]
           /\ due' =
                 [due EXCEPT ![r.router] =
                    [k \in Tokens |->
                       @[k] + (IF k = r.tokenIn THEN r.amountIn ELSE 0) - Taken(balance', k)]]
<1>1. r \in SwapRequest /\ r.router \in Routers
  BY ConstantAssumption DEF SwapRequest
<1> DEFINE value == IF r.tokenIn = Native THEN r.amountIn ELSE 0
           Done(o, final) ==
              /\ ProtectedKept(r, o.after)
              /\ DeltasAcceptable(r, o.after)
              /\ balance' = o.after
              /\ allowance' = [allowance EXCEPT ![r.router] = final]
              /\ outflow' =
                   [outflow EXCEPT ![DayKey(now)] =
                      [k \in Tokens |->
                         IF guard = ThisGuard /\ ChargedFor(r, k) THEN @[k] + Taken(o.after, k)
                                                                  ELSE @[k]]]
              /\ due' =
                   [due EXCEPT ![r.router] =
                      [k \in Tokens |->
                         @[k] + (IF k = r.tokenIn THEN r.amountIn ELSE 0) - Taken(o.after, k)]]
<1>2. PICK granted \in AfterApproval(r, allowance[r.router]) :
         \E o \in RouterOutcomes(value, granted) : \E final \in AfterClear(r, o.left) :
            Done(o, final)
  BY DEF ExecuteSwap
<1>3. PICK o \in RouterOutcomes(value, granted) : \E final \in AfterClear(r, o.left) :
            Done(o, final)
  BY <1>2
<1>4. PICK final \in AfterClear(r, o.left) : Done(o, final)
  BY <1>3
<1>5. allowance[r.router] \in [ERC20 -> Nat]
  BY <1>1 DEF ModuleTypeOK
<1>6. /\ granted \in [ERC20 -> Nat]
      /\ \A x \in ERC20 \ {r.tokenIn} : granted[x] = allowance[r.router][x]
      /\ \A x \in ERC20 : \/ granted[x] <= allowance[r.router][x]
                          \/ x = r.tokenIn /\ granted[x] <= r.amountIn
  <2> DEFINE old == allowance[r.router]
  <2>1. old \in [ERC20 -> Nat] /\ granted \in AfterApproval(r, old)
    BY <1>2, <1>5
  <2> HIDE DEF old
  <2>2. /\ granted \in [ERC20 -> Nat]
        /\ \A x \in ERC20 \ {r.tokenIn} : granted[x] = old[x]
        /\ \A x \in ERC20 : granted[x] <= old[x] \/ (x = r.tokenIn /\ granted[x] <= r.amountIn)
    BY <1>1, <2>1, ApprovalLeaves, Zenon
  <2> QED BY <2>2 DEF old
<1>7. /\ o.left \in [ERC20 -> 0 .. MaxBalance] /\ o.after \in [Tokens -> 0 .. MaxBalance]
      /\ \A x \in ERC20 : o.left[x] <= granted[x]
      /\ value <= balance[Native] /\ o.after[Native] >= balance[Native] - value
      /\ \A x \in ERC20 : o.after[x] >= balance[x] - (granted[x] - o.left[x])
  BY <1>3, ModuleAssumption DEF RouterOutcomes, ERC20
<1>8. o.left \in [ERC20 -> Nat] /\ o.after \in [Tokens -> Nat]
  BY <1>7, ModuleAssumption
<1>9. /\ final \in [ERC20 -> Nat]
      /\ \A x \in ERC20 \ {r.tokenIn} : final[x] = o.left[x]
      /\ \A x \in ERC20 : final[x] <= o.left[x]
      /\ r.tokenIn \in ERC20 \ QuietTokens => final[r.tokenIn] = 0
  BY <1>1, <1>4, <1>8, ClearLeaves
<1>10. \A x \in ERC20 \ {r.tokenIn} : final[x] <= allowance[r.router][x]
  BY <1>6, <1>7, <1>9
<1>11. balance' = o.after
  BY <1>4
<1>12. ProtectedKept(r, balance') /\ DeltasAcceptable(r, balance')
  BY <1>4, <1>11
<1>13. outflow' =
         [outflow EXCEPT ![DayKey(now)] =
            [k \in Tokens |->
               IF guard = ThisGuard /\ ChargedFor(r, k) THEN @[k] + Taken(balance', k)
                                                        ELSE @[k]]]
  BY <1>4, <1>11
<1>14. UNCHANGED <<moduleOwner, modulePendingOwner, settings, listVars>>
  BY DEF ExecuteSwap
<1>15. due' = [due EXCEPT ![r.router] =
                 [k \in Tokens |->
                    @[k] + (IF k = r.tokenIn THEN r.amountIn ELSE 0) - Taken(balance', k)]]
  BY <1>4, <1>11
<1>16. \A x \in ERC20 :
          \/ Taken(balance', x) + final[x] <= allowance[r.router][x]
          \/ x = r.tokenIn /\ Taken(balance', x) + final[x] <= r.amountIn
  <2>1. SUFFICES ASSUME NEW x \in ERC20
                 PROVE  \/ Taken(balance', x) + final[x] <= allowance[r.router][x]
                        \/ x = r.tokenIn /\ Taken(balance', x) + final[x] <= r.amountIn
    OBVIOUS
  <2>2. balance[x] \in Nat /\ o.after[x] \in Nat
    BY <1>8 DEF ModuleTypeOK, ERC20
  <2>3. /\ final[x] \in Nat /\ o.left[x] \in Nat /\ granted[x] \in Nat
        /\ final[x] <= o.left[x] /\ o.left[x] <= granted[x]
        /\ o.after[x] >= balance[x] - (granted[x] - o.left[x])
    BY <1>6, <1>7, <1>8, <1>9
  <2>4. Taken(o.after, x) + final[x] <= granted[x] /\ Taken(o.after, x) + final[x] \in Nat
    BY <2>2, <2>3 DEF Taken
  <2>5. Taken(balance', x) = Taken(o.after, x)
    BY <1>11
  <2>6. allowance[r.router][x] \in Nat /\ r.amountIn \in Nat
    BY <1>1, <1>5 DEF SwapRequest
  <2>7. granted[x] <= allowance[r.router][x] \/ (x = r.tokenIn /\ granted[x] <= r.amountIn)
    BY <1>6
  <2> QED BY <2>3, <2>4, <2>5, <2>6, <2>7
<1>17. Taken(balance', Native) <= IF r.tokenIn = Native THEN r.amountIn ELSE 0
  <2>1. balance[Native] \in Nat /\ o.after[Native] \in Nat /\ r.amountIn \in Nat
    BY <1>1, <1>8, ModuleAssumption DEF ModuleTypeOK, SwapRequest
  <2> QED BY <1>7, <1>11, <2>1 DEF Taken
<1>18. \E f \in [ERC20 -> Nat] :
          /\ allowance' = [allowance EXCEPT ![r.router] = f]
          /\ \A x \in ERC20 \ {r.tokenIn} : f[x] <= allowance[r.router][x]
          /\ r.tokenIn \in ERC20 \ QuietTokens => f[r.tokenIn] = 0
          /\ \A x \in ERC20 :
                \/ Taken(balance', x) + f[x] <= allowance[r.router][x]
                \/ x = r.tokenIn /\ Taken(balance', x) + f[x] <= r.amountIn
  BY <1>4, <1>9, <1>10, <1>16
<1> QED BY <1>1, <1>8, <1>11, <1>12, <1>13, <1>14, <1>15, <1>17, <1>18

\* A router's own transaction pulls from the Safe what its allowance goes down by, and changes
\* nothing else.
LEMMA RouterEffects ==
    ASSUME ModuleTypeOK, NEW x \in Routers, RouterActs(x)
    PROVE  /\ UNCHANGED <<vars, moduleOwner, modulePendingOwner, settings, listVars, outflow>>
           /\ balance' \in [Tokens -> Nat]
           /\ \E k \in ERC20, amount \in Nat :
                 /\ amount <= allowance[x][k]
                 /\ allowance' = [allowance EXCEPT ![x][k] = @ - amount]
                 /\ due' = [due EXCEPT ![x][k] = @ - amount]
           /\ allowance' \in [Routers -> [ERC20 -> Nat]]
           /\ due' \in [Routers -> [Tokens -> Int]]
<1>1. PICK k \in ERC20 : \E amount \in 1 .. balance[k] :
         /\ amount <= allowance[x][k]
         /\ balance' = [balance EXCEPT ![k] = @ - amount]
         /\ allowance' = [allowance EXCEPT ![x][k] = @ - amount]
         /\ due' = [due EXCEPT ![x][k] = @ - amount]
  BY DEF RouterActs
<1>2. PICK amount \in 1 .. balance[k] :
         /\ amount <= allowance[x][k]
         /\ balance' = [balance EXCEPT ![k] = @ - amount]
         /\ allowance' = [allowance EXCEPT ![x][k] = @ - amount]
         /\ due' = [due EXCEPT ![x][k] = @ - amount]
  BY <1>1
<1>3. k \in Tokens /\ balance[k] \in Nat /\ amount \in Nat /\ amount <= balance[k]
  BY <1>2 DEF ERC20, ModuleTypeOK
<1>4. allowance[x][k] \in Nat /\ allowance[x] \in [ERC20 -> Nat] /\ due[x] \in [Tokens -> Int]
  BY DEF ModuleTypeOK
<1>5. balance' \in [Tokens -> Nat]
  BY <1>2, <1>3 DEF ModuleTypeOK
<1>6. allowance' \in [Routers -> [ERC20 -> Nat]]
  BY <1>2, <1>3, <1>4 DEF ModuleTypeOK
<1>7. due' \in [Routers -> [Tokens -> Int]]
  BY <1>2, <1>3, <1>4 DEF ModuleTypeOK
<1>8. UNCHANGED <<vars, moduleOwner, modulePendingOwner, settings, listVars, outflow>>
  BY DEF RouterActs
<1> QED BY <1>2, <1>3, <1>5, <1>6, <1>7, <1>8

\* The guard's part of every step of the module is a step of the guard, or none.
LEMMA GuardSteps ==
    ASSUME ModuleInv, [ModuleNext]_<<vars, moduleVars>>
    PROVE  [Next]_vars
<1>1. CASE UNCHANGED <<vars, moduleVars>>
  BY <1>1
<1>2. CASE GuardMoves
  BY <1>2 DEF GuardMoves, Next
<1>3. ASSUME NEW s \in Addresses, ModuleOwnerStep(s)
      PROVE  UNCHANGED vars
  BY <1>3, OwnerKeeps
<1>4. ASSUME NEW a \in Agents, NEW r \in Requests, NEW c \in Calldatas, ExecuteSwap(a, r, c)
      PROVE  [Next]_vars
  <2>1. Module \in Addresses /\ agent \in Agents
    BY ModuleAssumption DEF ModuleInv, ModuleTypeOK
  <2>2. ValidateAndConsume(Module, agent, r) \/ UNCHANGED vars
    BY <1>4 DEF ExecuteSwap
  <2> QED BY <2>1, <2>2 DEF Next
<1>5. ASSUME NEW x \in Routers, RouterActs(x)
      PROVE  UNCHANGED vars
  BY <1>5 DEF RouterActs
<1> QED BY <1>1, <1>2, <1>3, <1>4, <1>5 DEF ModuleNext

\* The module and its guard stay typed, and the list of protected tokens right.
LEMMA ModuleStep ==
    ASSUME ModuleInv, [ModuleNext]_<<vars, moduleVars>>
    PROVE  ModuleInv'
<1>1. TypeOK'
  BY GuardSteps, TypeStep DEF ModuleInv, ModuleTypeOK
<1>2. CASE UNCHANGED moduleVars
  BY <1>1, <1>2 DEF moduleVars, settings, listVars, safeVars, ModuleInv, ModuleTypeOK,
                    TokenList!ListTypeOK, TokenList!ListMatchesFlags
<1>3. ASSUME NEW s \in Addresses, ModuleOwnerStep(s)
      PROVE  ModuleInv'
  BY <1>3, OwnerKeeps
<1>4. ASSUME NEW a \in Agents, NEW r \in Requests, NEW c \in Calldatas, ExecuteSwap(a, r, c)
      PROVE  ModuleInv'
  <2>1. ModuleTypeOK
    BY DEF ModuleInv
  <2>2. /\ r \in SwapRequest
        /\ UNCHANGED <<moduleOwner, modulePendingOwner, settings, listVars>>
        /\ balance' \in [Tokens -> Nat]
    BY <1>4, <2>1, SwapEffects
  <2>3. allowance' \in [Routers -> [ERC20 -> Nat]]
    <3>1. PICK final \in [ERC20 -> Nat] : allowance' = [allowance EXCEPT ![r.router] = final]
      BY <1>4, <2>1, SwapEffects
    <3> QED BY <2>1, <3>1 DEF ModuleTypeOK
  <2>4. outflow' \in [Days -> [Tokens -> Nat]]
    <3> DEFINE new == [k \in Tokens |->
                         IF guard = ThisGuard /\ ChargedFor(r, k)
                         THEN outflow[DayKey(now)][k] + Taken(balance', k)
                         ELSE outflow[DayKey(now)][k]]
    <3>1. outflow' = [outflow EXCEPT ![DayKey(now)] = new]
      BY <1>4, <2>1, SwapEffects
    <3>2. DayKey(now) \in Days /\ outflow \in [Days -> [Tokens -> Nat]]
          /\ balance \in [Tokens -> Nat]
      BY <2>1, DayKeyInDays DEF ModuleTypeOK, TypeOK
    <3>3. new \in [Tokens -> Nat]
      BY <2>2, <3>2 DEF Taken
    <3> HIDE DEF new
    <3> QED BY <3>1, <3>2, <3>3
  <2>5. due' \in [Routers -> [Tokens -> Int]]
    <3> DEFINE new == [k \in Tokens |->
                         due[r.router][k] + (IF k = r.tokenIn THEN r.amountIn ELSE 0)
                           - Taken(balance', k)]
    <3>1. due' = [due EXCEPT ![r.router] = new]
      BY <1>4, <2>1, SwapEffects
    <3>2. due \in [Routers -> [Tokens -> Int]] /\ balance \in [Tokens -> Nat]
          /\ r.amountIn \in Nat /\ r.router \in Routers
      BY <2>1, <2>2 DEF ModuleTypeOK, SwapRequest
    <3>3. new \in [Tokens -> Int]
      BY <2>2, <3>2 DEF Taken
    <3> HIDE DEF new
    <3> QED BY <3>1, <3>2, <3>3
  <2> QED
    BY <1>1, <2>2, <2>3, <2>4, <2>5
    DEF settings, listVars, ModuleInv, ModuleTypeOK,
        TokenList!ListTypeOK, TokenList!ListMatchesFlags
<1>5. ASSUME NEW x \in Routers, RouterActs(x)
      PROVE  ModuleInv'
  <2>1. /\ UNCHANGED <<moduleOwner, modulePendingOwner, settings, listVars, outflow>>
        /\ balance' \in [Tokens -> Nat] /\ allowance' \in [Routers -> [ERC20 -> Nat]]
        /\ due' \in [Routers -> [Tokens -> Int]]
    BY <1>5, RouterEffects DEF ModuleInv
  <2> QED
    BY <1>1, <2>1
    DEF settings, listVars, ModuleInv, ModuleTypeOK,
        TokenList!ListTypeOK, TokenList!ListMatchesFlags
<1> QED BY <1>2, <1>3, <1>4, <1>5 DEF ModuleNext, GuardMoves

\* Deployment leaves the storage typed and the list of protected tokens right.
LEMMA ModuleStart == ModuleInit => ModuleInv
<1> SUFFICES ASSUME ModuleInit PROVE ModuleInv
  OBVIOUS
<1>1. TypeOK
  BY TypeInit DEF ModuleInit
<1> DEFINE In(k, i) == i \in DOMAIN InitialProtected /\ InitialProtected[i] = k
<1>2. /\ protectedTokenList = InitialProtected /\ InitialProtected \in Seq(ERC20)
      /\ \A i, j \in DOMAIN InitialProtected :
            InitialProtected[i] = InitialProtected[j] => i = j
      /\ protectedTokens = [k \in ERC20 |-> \E i : In(k, i)]
      /\ protectedTokenIndexPlusOne =
            [k \in ERC20 |-> IF protectedTokens[k] THEN CHOOSE i : In(k, i) ELSE 0]
  <2>1. protectedTokens = [k \in ERC20 |-> \E i : In(k, i)]
    BY DEF ModuleInit
  <2>2. \A k \in ERC20 : (CHOOSE i \in DOMAIN InitialProtected : InitialProtected[i] = k)
                           = CHOOSE i : In(k, i)
    BY Zenon
  <2>3. protectedTokenIndexPlusOne =
            [k \in ERC20 |-> IF protectedTokens[k] THEN CHOOSE i : In(k, i) ELSE 0]
    BY <2>2 DEF ModuleInit
  <2> QED BY <2>1, <2>3, ModuleAssumption DEF ModuleInit
<1>3. DOMAIN InitialProtected = 1 .. Len(InitialProtected) /\ Len(InitialProtected) \in Nat
      /\ \A i \in DOMAIN InitialProtected : InitialProtected[i] \in ERC20
  BY <1>2
<1>4. \A k \in ERC20 : (\E i : In(k, i)) => In(k, CHOOSE i : In(k, i))
  BY Zenon
<1>5. \A k \in ERC20 : protectedTokens[k] <=> \E i : In(k, i)
  BY <1>2
<1>6. \A k \in ERC20 : /\ protectedTokens[k] => In(k, protectedTokenIndexPlusOne[k])
                       /\ ~protectedTokens[k] => protectedTokenIndexPlusOne[k] = 0
  BY <1>2, <1>4, <1>5
<1>7. TokenList!ListTypeOK
  <2>1. \A k \in ERC20 : protectedTokenIndexPlusOne[k] \in Nat
    BY <1>3, <1>6
  <2>2. protectedTokenIndexPlusOne \in [ERC20 -> Nat]
    BY <1>2, <2>1
  <2>3. protectedTokens \in [ERC20 -> BOOLEAN]
    BY <1>2
  <2> QED BY <1>2, <2>2, <2>3 DEF TokenList!ListTypeOK
<1>8. TokenList!ListMatchesFlags
  <2>1. ASSUME NEW i \in 1 .. Len(protectedTokenList)
        PROVE  /\ protectedTokens[protectedTokenList[i]]
               /\ protectedTokenIndexPlusOne[protectedTokenList[i]] = i
    <3>1. In(protectedTokenList[i], i) /\ protectedTokenList[i] \in ERC20
      BY <1>2, <1>3
    <3>2. protectedTokens[protectedTokenList[i]]
      BY <1>5, <3>1
    <3>3. In(protectedTokenList[i], protectedTokenIndexPlusOne[protectedTokenList[i]])
      BY <1>6, <3>1, <3>2
    <3> QED BY <1>2, <3>1, <3>2, <3>3
  <2>2. \A k \in ERC20 :
           protectedTokens[k] => /\ protectedTokenIndexPlusOne[k] \in 1 .. Len(protectedTokenList)
                                 /\ protectedTokenList[protectedTokenIndexPlusOne[k]] = k
    BY <1>2, <1>3, <1>6
  <2> QED BY <1>6, <2>1, <2>2 DEF TokenList!ListMatchesFlags
<1>9. /\ moduleOwner \in Addresses /\ modulePendingOwner \in Addresses \cup {NoAddress}
      /\ agent \in Agents /\ guard \in {ThisGuard, OtherGuard}
      /\ {modulePaused, allowInputBalanceIncrease, strictTokenIsolation} \subseteq BOOLEAN
      /\ allowedRouterSelectors \in [Routers -> SUBSET Selectors]
      /\ allowance \in [Routers -> [ERC20 -> Nat]]
      /\ outflow \in [Days -> [Tokens -> Nat]]
  BY ModuleAssumption, ConstantAssumption DEF ModuleInit
<1>10. balance \in [Tokens -> Nat]
  BY ModuleAssumption DEF ModuleInit
<1>11. due \in [Routers -> [Tokens -> Int]]
  <2>1. \A x \in Routers, k \in Tokens :
           (IF k = Native THEN 0 ELSE LegacyAllowance[x][k]) \in Int
    BY ModuleAssumption DEF ERC20
  <2> QED BY <2>1 DEF ModuleInit
<1> QED BY <1>1, <1>7, <1>8, <1>9, <1>10, <1>11 DEF ModuleInv, ModuleTypeOK

\* The module's storage and the Safe's funds always hold values of their types: owner, agent
\* and guard are never unset, and no balance or allowance goes below zero.
THEOREM ModuleTypeCorrect == ModuleSpec => []ModuleTypeOK
<1>1. ModuleInit => ModuleInv
  BY ModuleStart
<1>2. ModuleInv /\ [ModuleNext]_<<vars, moduleVars>> => ModuleInv'
  BY ModuleStep
<1>3. ModuleInv => ModuleTypeOK
  BY DEF ModuleInv
<1> QED BY <1>1, <1>2, <1>3, PTL DEF ModuleSpec

\* The guard inside the module is the guard: no call of the module, of its owner or of a
\* router makes a step of SwapGuard that SwapGuard alone does not have.  What is proved of
\* the guard holds of the module with it.
THEOREM GuardWithinModule == ModuleSpec => Spec
<1>1. ModuleInit => ModuleInv /\ Init
  BY ModuleStart DEF ModuleInit
<1>2. ModuleInv /\ [ModuleNext]_<<vars, moduleVars>> => ModuleInv' /\ [Next]_vars
  BY ModuleStep, GuardSteps
<1> QED BY <1>1, <1>2, PTL DEF ModuleSpec, Spec

-----------------------------------------------------------------------------
(* What a router may pull later.                                           *)

\* The allowances of tokens whose approve does what it says, with the types.
AllowanceInv == ModuleInv /\ NoAllowanceLeft

\* executeSwap clears what it approved, and the router can only have used up the rest.
LEMMA AllowanceStep ==
    ASSUME AllowanceInv, [ModuleNext]_<<vars, moduleVars>>
    PROVE  NoAllowanceLeft'
<1>1. ModuleInv /\ ModuleTypeOK
  BY DEF AllowanceInv, ModuleInv
<1>2. CASE UNCHANGED moduleVars
  BY <1>2 DEF moduleVars, safeVars, AllowanceInv, NoAllowanceLeft
<1>3. ASSUME NEW s \in Addresses, ModuleOwnerStep(s)
      PROVE  NoAllowanceLeft'
  <2>1. UNCHANGED safeVars
    BY <1>1, <1>3, OwnerKeeps
  <2> QED BY <2>1 DEF safeVars, AllowanceInv, NoAllowanceLeft
<1>4. ASSUME NEW a \in Agents, NEW r \in Requests, NEW c \in Calldatas, ExecuteSwap(a, r, c)
      PROVE  NoAllowanceLeft'
  <2>1. r \in SwapRequest
    BY ConstantAssumption
  <2>2. PICK final \in [ERC20 -> Nat] :
           /\ allowance' = [allowance EXCEPT ![r.router] = final]
           /\ \A x \in ERC20 \ {r.tokenIn} : final[x] <= allowance[r.router][x]
           /\ r.tokenIn \in ERC20 \ QuietTokens => final[r.tokenIn] = 0
    BY <1>1, <1>4, SwapEffects
  <2>3. SUFFICES ASSUME NEW x \in Routers, NEW k \in ERC20 \ QuietTokens
                 PROVE  allowance'[x][k] <= LegacyAllowance[x][k]
    BY DEF NoAllowanceLeft
  <2>4. /\ allowance \in [Routers -> [ERC20 -> Nat]]
        /\ allowance[x][k] \in Nat /\ LegacyAllowance[x][k] \in Nat
        /\ allowance[x][k] <= LegacyAllowance[x][k]
    BY <1>1, ModuleAssumption DEF ModuleTypeOK, AllowanceInv, NoAllowanceLeft
  <2>5. allowance'[x] = IF x = r.router THEN final ELSE allowance[x]
    BY <2>2, <2>4
  <2>6. CASE x # r.router
    BY <2>4, <2>5, <2>6
  <2>7. CASE x = r.router /\ k # r.tokenIn
    <3>1. final[k] <= allowance[x][k] /\ final[k] \in Nat
      BY <2>2, <2>7
    <3> QED BY <2>4, <2>5, <2>7, <3>1
  <2>8. CASE x = r.router /\ k = r.tokenIn
    BY <2>2, <2>4, <2>5, <2>8
  <2> QED BY <2>6, <2>7, <2>8
<1>5. ASSUME NEW x \in Routers, RouterActs(x)
      PROVE  NoAllowanceLeft'
  <2>1. PICK k \in ERC20, amount \in Nat :
           allowance' = [allowance EXCEPT ![x][k] = @ - amount]
    BY <1>1, <1>5, RouterEffects
  <2>2. \A y \in Routers, j \in ERC20 :
           /\ allowance[y][j] \in Nat /\ allowance'[y][j] \in Int
           /\ allowance'[y][j] <= allowance[y][j]
    BY <1>1, <2>1 DEF ModuleTypeOK
  <2>3. \A y \in Routers, j \in ERC20 : LegacyAllowance[y][j] \in Nat
    BY ModuleAssumption
  <2> QED BY <2>2, <2>3 DEF AllowanceInv, NoAllowanceLeft
<1> QED BY <1>2, <1>3, <1>4, <1>5 DEF ModuleNext, GuardMoves

\* Between transactions no router holds an allowance the module gave it, whatever it did with
\* the funds, as long as the token's approve does what it says.
THEOREM NoAllowanceStays == ModuleSpec => []NoAllowanceLeft
<1>1. ModuleInit => AllowanceInv
  <2>1. ModuleInit => NoAllowanceLeft
    BY ModuleAssumption DEF ModuleInit, NoAllowanceLeft
  <2> QED BY <2>1, ModuleStart DEF AllowanceInv
<1>2. AllowanceInv /\ [ModuleNext]_<<vars, moduleVars>> => AllowanceInv'
  BY AllowanceStep, ModuleStep DEF AllowanceInv
<1>3. AllowanceInv => NoAllowanceLeft
  BY DEF AllowanceInv
<1> QED BY <1>1, <1>2, <1>3, PTL DEF ModuleSpec

\* What routers may have covers their allowances, with the types.
DueInv == ModuleInv /\ RoutersTakeTheirDue

\* The parts of a request and of the types that swaps are about.
LEMMA RequestTyped ==
    ASSUME NEW r \in SwapRequest
    PROVE  /\ r.amountIn \in Nat /\ r.router \in Routers
           /\ r.tokenIn \in Tokens /\ r.tokenOut \in Tokens
BY DEF SwapRequest

LEMMA BalanceTyped ==
    ASSUME ModuleTypeOK
    PROVE  balance \in [Tokens -> Nat]
BY DEF ModuleTypeOK

\* A swap adds its amount to what its router may have; what the router took, in the swap or
\* by itself, and what it may still pull come out of that or of its old allowance.
LEMMA DueStep ==
    ASSUME DueInv, [ModuleNext]_<<vars, moduleVars>>
    PROVE  RoutersTakeTheirDue'
<1>1. ModuleInv /\ ModuleTypeOK
  BY DEF DueInv, ModuleInv
<1>2. CASE UNCHANGED moduleVars
  BY <1>2 DEF moduleVars, safeVars, DueInv, RoutersTakeTheirDue
<1>3. ASSUME NEW s \in Addresses, ModuleOwnerStep(s)
      PROVE  RoutersTakeTheirDue'
  <2>1. UNCHANGED safeVars
    BY <1>1, <1>3, OwnerKeeps
  <2> QED BY <2>1 DEF safeVars, DueInv, RoutersTakeTheirDue
<1>4. ASSUME NEW a \in Agents, NEW r \in Requests, NEW c \in Calldatas, ExecuteSwap(a, r, c)
      PROVE  RoutersTakeTheirDue'
  <2>0. r \in SwapRequest /\ balance' \in [Tokens -> Nat]
    BY <1>1, <1>4, SwapEffects
  <2>1. /\ r \in SwapRequest /\ balance' \in [Tokens -> Nat] /\ balance \in [Tokens -> Nat]
        /\ r.amountIn \in Nat /\ r.router \in Routers
    BY <1>1, <2>0, RequestTyped, BalanceTyped
  <2>2. PICK final \in [ERC20 -> Nat] :
           /\ allowance' = [allowance EXCEPT ![r.router] = final]
           /\ \A k \in ERC20 :
                 \/ Taken(balance', k) + final[k] <= allowance[r.router][k]
                 \/ k = r.tokenIn /\ Taken(balance', k) + final[k] <= r.amountIn
    BY <1>1, <1>4, SwapEffects
  <2>3. SUFFICES ASSUME NEW x \in Routers, NEW k \in Tokens
                 PROVE  due'[x][k] >= IF k = Native THEN 0 ELSE allowance'[x][k]
    BY DEF RoutersTakeTheirDue
  <2> DEFINE asked == IF k = r.tokenIn THEN r.amountIn ELSE 0
  <2>4. /\ due[x][k] \in Int /\ due[x][k] >= IF k = Native THEN 0 ELSE allowance[x][k]
        /\ k # Native => allowance[x][k] \in Nat
        /\ Taken(balance', k) \in Nat /\ asked \in Nat
    BY <1>1, <2>1 DEF DueInv, RoutersTakeTheirDue, ModuleTypeOK, ERC20, Taken
  <2>5. allowance'[x] = IF x = r.router THEN final ELSE allowance[x]
    BY <1>1, <2>2 DEF ModuleTypeOK
  <2>6. due'[x][k] = IF x = r.router THEN due[x][k] + asked - Taken(balance', k)
                                     ELSE due[x][k]
    <3>1. due' = [due EXCEPT ![r.router] =
                    [y \in Tokens |->
                       @[y] + (IF y = r.tokenIn THEN r.amountIn ELSE 0) - Taken(balance', y)]]
      BY <1>1, <1>4, SwapEffects
    <3>2. due \in [Routers -> [Tokens -> Int]]
      BY <1>1 DEF ModuleTypeOK
    <3> QED BY <3>1, <3>2
  <2> HIDE DEF asked
  <2>7. CASE x # r.router
    BY <2>4, <2>5, <2>6, <2>7
  <2>8. CASE x = r.router /\ k # Native
    <3>1. k \in ERC20 /\ final[k] \in Nat
      BY <2>8 DEF ERC20
    <3>2. \/ Taken(balance', k) + final[k] <= allowance[x][k]
          \/ k = r.tokenIn /\ Taken(balance', k) + final[k] <= r.amountIn
      BY <2>2, <2>8, <3>1
    <3>3. k = r.tokenIn => asked = r.amountIn
      BY DEF asked
    <3> QED BY <2>1, <2>4, <2>5, <2>6, <2>8, <3>1, <3>2, <3>3
  <2>9. CASE x = r.router /\ k = Native
    <3>1. Taken(balance', Native) <= IF r.tokenIn = Native THEN r.amountIn ELSE 0
      BY <1>1, <1>4, SwapEffects
    <3>2. Taken(balance', k) <= asked
      BY <2>9, <3>1 DEF asked
    <3> QED BY <2>4, <2>6, <2>9, <3>2
  <2> QED BY <2>7, <2>8, <2>9
<1>5. ASSUME NEW x \in Routers, RouterActs(x)
      PROVE  RoutersTakeTheirDue'
  <2>1. PICK k \in ERC20, amount \in Nat :
           /\ allowance' = [allowance EXCEPT ![x][k] = @ - amount]
           /\ due' = [due EXCEPT ![x][k] = @ - amount]
    BY <1>1, <1>5, RouterEffects
  <2>2. \A y \in Routers, j \in Tokens :
           /\ due[y][j] \in Int
           /\ due'[y][j] = IF y = x /\ j = k THEN due[y][j] - amount ELSE due[y][j]
    BY <1>1, <2>1 DEF ModuleTypeOK
  <2>3. \A y \in Routers, j \in ERC20 :
           /\ allowance[y][j] \in Nat
           /\ allowance'[y][j] = IF y = x /\ j = k THEN allowance[y][j] - amount
                                                   ELSE allowance[y][j]
    BY <1>1, <2>1 DEF ModuleTypeOK
  <2>4. k # Native
    BY DEF ERC20
  <2> QED BY <2>2, <2>3, <2>4 DEF DueInv, RoutersTakeTheirDue, ERC20
<1> QED BY <1>2, <1>3, <1>4, <1>5 DEF ModuleNext, GuardMoves

\* In swaps, under whatever guard, and between them, for tokens whose approve fails too: what
\* a router ever took and may still pull is what it was asked to sell and the allowances it
\* had before the module.
THEOREM RoutersNeverTakeMore == ModuleSpec => []RoutersTakeTheirDue
<1>1. ModuleInit => DueInv
  <2>1. ASSUME ModuleInit PROVE RoutersTakeTheirDue
    <3>1. \A x \in Routers, k \in Tokens :
             due[x][k] = IF k = Native THEN 0 ELSE allowance[x][k]
      BY <2>1 DEF ModuleInit
    <3>2. \A x \in Routers, k \in ERC20 : allowance[x][k] \in Nat
      BY <2>1, ModuleAssumption DEF ModuleInit
    <3> QED BY <3>1, <3>2 DEF RoutersTakeTheirDue, ERC20
  <2> QED BY <2>1, ModuleStart DEF DueInv
<1>2. DueInv /\ [ModuleNext]_<<vars, moduleVars>> => DueInv'
  BY DueStep, ModuleStep DEF DueInv
<1>3. DueInv => RoutersTakeTheirDue
  BY DEF DueInv
<1> QED BY <1>1, <1>2, <1>3, PTL DEF ModuleSpec

-----------------------------------------------------------------------------
(* What may leave the Safe.  The list of protected tokens has to be right: *)
(* executeSwap compares the balances of the tokens in the list, the owner  *)
(* counts on those with the flag.                                          *)

\* What the agents were charged for a token on a day.
Charged(d, k) == SumFunctionOnSet([a \in Agents |-> dailyVolumeByAgentToken[a][k][d]], Agents)

\* The outflow is within the charge, with the types and the list.
OutflowInv == ModuleInv /\ OutflowIsCharged

\* The sum the property is stated with is the sum over the agents.
LEMMA ChargedIsSum ==
    ASSUME NEW d, NEW k
    PROVE  SumFunction([a \in Agents |-> dailyVolumeByAgentToken[a][k][d]]) = Charged(d, k)
BY DEF SumFunction, Charged

\* A swap through the guard adds its amount to what the agents were charged for the token
\* it sells today, and to nothing else.
LEMMA SwapCharges ==
    ASSUME TypeOK, NEW s \in Addresses, NEW a \in Agents, NEW r \in Requests,
           ValidateAndConsume(s, a, r), NEW d \in Days, NEW k \in Tokens
    PROVE  /\ Charged(d, k) \in Nat
           /\ Charged(d, k)' = IF d = DayKey(now) /\ k = r.tokenIn
                               THEN Charged(d, k) + r.amountIn ELSE Charged(d, k)
<1> DEFINE old == [b \in Agents |-> dailyVolumeByAgentToken[b][k][d]]
           new == [b \in Agents |-> dailyVolumeByAgentToken'[b][k][d]]
           today == DayKey(now)
           x == r.tokenIn
           amount == r.amountIn
           rest == Agents \ {a}
<1>1. /\ x \in Tokens /\ today \in Days /\ amount \in Nat
      /\ dailyVolumeByAgentToken \in [Agents -> [Tokens -> [Days -> Nat]]]
      /\ dailyVolumeByAgentToken' =
           [dailyVolumeByAgentToken EXCEPT ![a][x][today] = @ + amount]
  BY ConsumeLogs DEF ValidateAndConsume, AddVolume, TypeOK
<1>2. Charged(d, k) = SumFunctionOnSet(old, Agents)
      /\ Charged(d, k)' = SumFunctionOnSet(new, Agents)
  BY DEF Charged
<1> HIDE DEF today, x, amount
<1>3. /\ \A b \in Agents : old[b] \in Nat
      /\ \A b \in Agents : new[b] = IF b = a /\ x = k /\ today = d THEN old[b] + amount ELSE old[b]
  BY <1>1
<1>4. \A b \in Agents : new[b] \in Nat
  BY <1>1, <1>3
<1>5. IsFiniteSet(Agents) /\ IsFiniteSet(rest) /\ rest \in SUBSET Agents /\ Agents \in SUBSET Agents
  BY ModuleAssumption, FS_Subset
<1> HIDE DEF old, new
<1>6. SumFunctionOnSet(old, Agents) = old[a] + SumFunctionOnSet(old, rest)
  BY <1>3, <1>5, SumRemove
<1>7. SumFunctionOnSet(new, Agents) = new[a] + SumFunctionOnSet(new, rest)
  BY <1>4, <1>5, SumRemove
<1>8. SumFunctionOnSet(new, rest) = SumFunctionOnSet(old, rest)
  <2>1. \A b \in rest : new[b] = old[b]
    BY <1>3
  <2> HIDE DEF rest
  <2> QED BY <1>5, <2>1, SumCongruent
<1>9. SumFunctionOnSet(old, rest) \in Nat /\ SumFunctionOnSet(old, Agents) \in Nat
  BY <1>3, <1>5, SumNat
<1>10. old[a] \in Nat
       /\ new[a] = IF x = k /\ today = d THEN old[a] + amount ELSE old[a]
  BY <1>3
<1>11. SumFunctionOnSet(new, Agents) = IF d = today /\ k = x
                                       THEN SumFunctionOnSet(old, Agents) + amount
                                       ELSE SumFunctionOnSet(old, Agents)
  BY <1>1, <1>6, <1>7, <1>8, <1>9, <1>10
<1> QED BY <1>2, <1>9, <1>11 DEF today, x, amount

\* Of the tokens the guard answers for, a swap takes at most its amount of the token it
\* sells, and nothing of the others: each has its place in the list.
LEMMA SwapTakes ==
    ASSUME ModuleInv, NEW s \in Agents, NEW r \in Requests, NEW c \in Calldatas,
           ExecuteSwap(s, r, c), NEW k \in Tokens, ChargedFor(r, k)
    PROVE  /\ Taken(balance', k) \in Nat
           /\ k = r.tokenIn => Taken(balance', k) <= r.amountIn
           /\ k # r.tokenIn => Taken(balance', k) = 0
<1>1. ModuleTypeOK
  BY DEF ModuleInv
<1>2. /\ balance \in [Tokens -> Nat] /\ balance' \in [Tokens -> Nat]
      /\ ProtectedKept(r, balance') /\ DeltasAcceptable(r, balance')
      /\ r.amountIn \in Nat /\ r.tokenIn \in Tokens /\ r.tokenOut \in Tokens
  <2>1. /\ r \in SwapRequest /\ balance' \in [Tokens -> Nat]
        /\ ProtectedKept(r, balance') /\ DeltasAcceptable(r, balance')
    BY <1>1, SwapEffects
  <2> QED BY <1>1, <2>1, RequestTyped, BalanceTyped
<1>3. Taken(balance', k) \in Nat
  BY <1>2 DEF Taken
<1>4. CASE k = r.tokenIn
  <2>1. balance[k] - balance'[k] <= r.amountIn
    BY <1>2, <1>4 DEF DeltasAcceptable
  <2> QED BY <1>2, <1>3, <1>4, <2>1 DEF Taken
<1>5. CASE k # r.tokenIn
  <2>1. k \in ERC20 /\ protectedTokens[k]
    BY <1>5 DEF ChargedFor
  <2>2. PICK i \in 1 .. Len(protectedTokenList) : protectedTokenList[i] = k
    BY <2>1 DEF ModuleInv, TokenList!ListMatchesFlags
  <2>3. k \in {r.tokenIn, r.tokenOut} \/ balance'[k] >= balance[k]
    BY <1>2, <2>2 DEF ProtectedKept
  <2>4. k = r.tokenOut => balance'[k] - balance[k] >= 0
    BY <1>2 DEF DeltasAcceptable
  <2>5. balance'[k] >= balance[k]
    BY <1>2, <1>5, <2>3, <2>4
  <2>6. Taken(balance', k) = 0
    BY <1>2, <2>5 DEF Taken
  <2> QED BY <1>3, <1>5, <2>6
<1> QED BY <1>4, <1>5

\* Every step keeps the outflow of each day within what its agents were charged.
LEMMA OutflowStep ==
    ASSUME OutflowInv, [ModuleNext]_<<vars, moduleVars>>
    PROVE  OutflowIsCharged'
<1>1. ModuleInv /\ ModuleTypeOK /\ TypeOK
  BY DEF OutflowInv, ModuleInv, ModuleTypeOK
<1>2. ASSUME UNCHANGED <<dailyVolumeByAgentToken, outflow>>
      PROVE  OutflowIsCharged'
  BY <1>2 DEF OutflowInv, OutflowIsCharged
<1>3. CASE UNCHANGED <<vars, moduleVars>>
  BY <1>2, <1>3 DEF vars, ledger, moduleVars, safeVars
<1>4. CASE GuardMoves
  <2>1. LedgerIdle
    BY <1>1, <1>4, IdleSteps DEF GuardMoves
  <2> QED BY <1>2, <1>4, <2>1 DEF GuardMoves, LedgerIdle, ledger, moduleVars, safeVars
<1>5. ASSUME NEW s \in Addresses, ModuleOwnerStep(s)
      PROVE  OutflowIsCharged'
  <2>1. UNCHANGED <<vars, safeVars>>
    BY <1>1, <1>5, OwnerKeeps
  <2> QED BY <1>2, <2>1 DEF vars, ledger, safeVars
<1>6. ASSUME NEW a \in Agents, NEW r \in Requests, NEW c \in Calldatas, ExecuteSwap(a, r, c)
      PROVE  OutflowIsCharged'
  <2>1. SUFFICES ASSUME NEW d \in Days, NEW k \in Tokens
                 PROVE  outflow'[d][k] <= Charged(d, k)'
    BY DEF OutflowIsCharged, Charged, SumFunction
  <2>2. outflow[d][k] <= Charged(d, k) /\ outflow[d][k] \in Nat
    BY <1>1, ChargedIsSum DEF OutflowInv, OutflowIsCharged, ModuleTypeOK
  <2>3. outflow'[d][k] = IF d = DayKey(now) /\ guard = ThisGuard /\ ChargedFor(r, k)
                         THEN outflow[d][k] + Taken(balance', k) ELSE outflow[d][k]
    <3> DEFINE new == [y \in Tokens |->
                         IF guard = ThisGuard /\ ChargedFor(r, y)
                         THEN outflow[DayKey(now)][y] + Taken(balance', y)
                         ELSE outflow[DayKey(now)][y]]
    <3>1. outflow' = [outflow EXCEPT ![DayKey(now)] = new]
      BY <1>1, <1>6, SwapEffects
    <3>2. outflow \in [Days -> [Tokens -> Nat]]
      BY <1>1 DEF ModuleTypeOK
    <3>3. new[k] = IF guard = ThisGuard /\ ChargedFor(r, k)
                   THEN outflow[DayKey(now)][k] + Taken(balance', k)
                   ELSE outflow[DayKey(now)][k]
      OBVIOUS
    <3> HIDE DEF new
    <3> QED BY <3>1, <3>2, <3>3
  <2>4. CASE guard = ThisGuard
    <3>1. ValidateAndConsume(Module, agent, r) /\ Module \in Addresses /\ agent \in Agents
      BY <1>1, <1>6, <2>4, ModuleAssumption DEF ExecuteSwap, ModuleTypeOK
    <3>2. /\ Charged(d, k) \in Nat
          /\ Charged(d, k)' = IF d = DayKey(now) /\ k = r.tokenIn
                              THEN Charged(d, k) + r.amountIn ELSE Charged(d, k)
      BY <1>1, <3>1, SwapCharges
    <3>3. r.amountIn \in Nat
      BY <1>1, <3>1, ConsumeLogs
    <3>4. ChargedFor(r, k) => /\ Taken(balance', k) \in Nat
                              /\ k = r.tokenIn => Taken(balance', k) <= r.amountIn
                              /\ k # r.tokenIn => Taken(balance', k) = 0
      BY <1>1, <1>6, SwapTakes
    <3>5. k = r.tokenIn => ChargedFor(r, k)
      BY DEF ChargedFor
    <3> QED BY <2>2, <2>3, <2>4, <3>2, <3>3, <3>4, <3>5
  <2>5. CASE guard # ThisGuard
    <3>1. UNCHANGED dailyVolumeByAgentToken
      BY <1>6, <2>5 DEF ExecuteSwap, vars, ledger
    <3>2. Charged(d, k)' = Charged(d, k)
      BY <3>1 DEF Charged
    <3> QED BY <2>2, <2>3, <2>5, <3>2
  <2> QED BY <2>4, <2>5
<1>7. ASSUME NEW x \in Routers, RouterActs(x)
      PROVE  OutflowIsCharged'
  <2>1. UNCHANGED <<vars, outflow>>
    BY <1>1, <1>7, RouterEffects
  <2> QED BY <1>2, <2>1 DEF vars, ledger
<1> QED BY <1>3, <1>4, <1>5, <1>6, <1>7 DEF ModuleNext

\* What leaves the Safe in swaps through this guard in a day, of the tokens sold and of every
\* protected token, was charged by the guard to some agent that day.
THEOREM OutflowAlwaysCharged == ModuleSpec => []OutflowIsCharged
<1>1. ModuleInit => OutflowInv
  <2> SUFFICES ASSUME ModuleInit PROVE OutflowInv
    OBVIOUS
  <2>1. ModuleInv /\ TypeOK
    BY ModuleStart DEF ModuleInv, ModuleTypeOK
  <2>2. ASSUME NEW d \in Days, NEW k \in Tokens
        PROVE  outflow[d][k] = 0 /\ Charged(d, k) \in Nat
    <3> DEFINE f == [a \in Agents |-> dailyVolumeByAgentToken[a][k][d]]
    <3>1. \A a \in Agents : f[a] \in Nat
      BY <2>1 DEF TypeOK
    <3>2. IsFiniteSet(Agents) /\ Agents \in SUBSET Agents
      BY ModuleAssumption
    <3>3. Charged(d, k) = SumFunctionOnSet(f, Agents)
      BY DEF Charged
    <3> HIDE DEF f
    <3>4. Charged(d, k) \in Nat
      BY <3>1, <3>2, <3>3, SumNat
    <3> QED BY <3>4 DEF ModuleInit
  <2>3. \A d \in Days, k \in Tokens : outflow[d][k] <= Charged(d, k)
    BY <2>2
  <2> QED BY <2>1, <2>3, ChargedIsSum DEF OutflowInv, OutflowIsCharged
<1>2. OutflowInv /\ [ModuleNext]_<<vars, moduleVars>> => OutflowInv'
  BY OutflowStep, ModuleStep DEF OutflowInv
<1>3. OutflowInv => OutflowIsCharged
  BY DEF OutflowInv
<1> QED BY <1>1, <1>2, <1>3, PTL DEF ModuleSpec

-----------------------------------------------------------------------------
(* What the Safe is paid.                                                  *)

\* An exact-output swap the guard accepted expects no less than the oracle's price less the
\* deviation.
LEMMA ExpectedCoversFloor ==
    ASSUME TypeOK, NEW a \in Agents, NEW r \in Requests, Validate(a, r)
    PROVE  LET floor == (OracleAmountOut(r) * (MAX_BPS - policy.maxOracleDeviationBps)) \div MAX_BPS
           IN  floor \in Nat /\ floor <= r.expectedAmountOut
<1>1. /\ r.amountIn \in Nat /\ r.expectedAmountIn \in Nat /\ feed.rate \in Nat
      /\ policy.maxOracleDeviationBps \in 0 .. MAX_BPS
  BY ConstantAssumption DEF SwapRequest, TypeOK, PolicyType
<1>2. OracleAmountOut(r) \in Nat
  BY <1>1 DEF OracleAmountOut
<1>3. MAX_BPS - policy.maxOracleDeviationBps \in Nat
  <2>1. \A x \in 0 .. MAX_BPS : MAX_BPS - x \in Nat
    BY DEF MAX_BPS
  <2> QED BY <1>1, <2>1
<1>4. OracleAmountOut(r) * (MAX_BPS - policy.maxOracleDeviationBps) \in Nat
  BY <1>2, <1>3
<1>5. MAX_BPS \in Nat \ {0}
  BY DEF MAX_BPS
<1>6. (OracleAmountOut(r) * (MAX_BPS - policy.maxOracleDeviationBps)) \div MAX_BPS \in Nat
  BY <1>4, <1>5, DivisionDef
<1> QED BY <1>6 DEF Validate, OracleAgrees

\* What the guard checked of the request and what the module compared of the balances meet:
\* the Safe is paid the oracle's price less the tolerances.
LEMMA SwapPays ==
    ASSUME ModuleInv, NEW s \in Agents, NEW r \in Requests, NEW c \in Calldatas,
           ExecuteSwap(s, r, c), guard = ThisGuard
    PROVE  LET floor == (OracleAmountOut(r) * (MAX_BPS - policy.maxOracleDeviationBps)) \div MAX_BPS
               slippage == IF r.swapType = SWAP_TYPE_EXACT_INPUT
                           THEN policy.maxSlippageBps + 1 ELSE 0
           IN  (balance'[r.tokenOut] - balance[r.tokenOut]) * MAX_BPS
                  >= floor * (MAX_BPS - slippage)
<1> DEFINE floor == (OracleAmountOut(r) * (MAX_BPS - policy.maxOracleDeviationBps)) \div MAX_BPS
           received == balance'[r.tokenOut] - balance[r.tokenOut]
<1>1. ModuleTypeOK /\ TypeOK
  BY DEF ModuleInv, ModuleTypeOK
<1>2. agent \in Agents /\ Validate(agent, r)
  BY <1>1 DEF ExecuteSwap, ValidateAndConsume, ModuleTypeOK
<1>3. /\ r.minAmountOut \in Nat /\ r.expectedAmountOut \in Nat /\ r.tokenOut \in Tokens
      /\ DeltasAcceptable(r, balance')
      /\ balance \in [Tokens -> Nat] /\ balance' \in [Tokens -> Nat]
  <2>1. r \in SwapRequest /\ DeltasAcceptable(r, balance') /\ balance' \in [Tokens -> Nat]
    BY <1>1, SwapEffects
  <2> QED BY <1>1, <2>1 DEF SwapRequest, ModuleTypeOK
<1>4. /\ received \in Nat
      /\ r.swapType = SWAP_TYPE_EXACT_INPUT => received >= r.minAmountOut
      /\ r.swapType # SWAP_TYPE_EXACT_INPUT => received >= r.expectedAmountOut
  BY <1>3 DEF DeltasAcceptable
<1>5. floor \in Nat /\ floor <= r.expectedAmountOut
  BY <1>1, <1>2, ExpectedCoversFloor
<1>6. CASE r.swapType = SWAP_TYPE_EXACT_INPUT
  <2>1. r.minAmountOut * MAX_BPS >= floor * (MAX_BPS - (policy.maxSlippageBps + 1))
    BY <1>1, <1>2, <1>6, ConsumePriced
  <2> DEFINE share == floor * (MAX_BPS - (policy.maxSlippageBps + 1))
  <2>2. share \in Int
    <3>1. policy \in PolicyType
      BY <1>1 DEF TypeOK
    <3>2. policy.maxSlippageBps \in 0 .. MAX_BPS
      BY <3>1 DEF PolicyType
    <3>3. \A x \in 0 .. MAX_BPS : MAX_BPS - (x + 1) \in Int
      BY DEF MAX_BPS
    <3>4. \A x \in Nat, y \in Int : x * y \in Int
      OBVIOUS
    <3> HIDE DEF floor
    <3> QED BY <1>5, <3>2, <3>3, <3>4
  <2> HIDE DEF floor, received, share
  <2>3. received * MAX_BPS >= r.minAmountOut * MAX_BPS
    BY <1>3, <1>4, <1>6 DEF MAX_BPS
  <2>4. received * MAX_BPS \in Int /\ r.minAmountOut * MAX_BPS \in Int
    BY <1>3, <1>4 DEF MAX_BPS
  <2>5. r.minAmountOut * MAX_BPS >= share
    BY <2>1 DEF share
  <2>6. received * MAX_BPS >= share
    BY <2>2, <2>3, <2>4, <2>5
  <2> QED BY <1>6, <2>6 DEF floor, received, share
<1>7. CASE r.swapType # SWAP_TYPE_EXACT_INPUT
  <2>1. received >= floor
    <3> HIDE DEF floor, received
    <3> QED BY <1>3, <1>4, <1>5, <1>7
  <2> HIDE DEF floor, received
  <2>2. received * MAX_BPS >= floor * (MAX_BPS - 0)
    BY <1>4, <1>5, <2>1 DEF MAX_BPS
  <2> QED BY <1>7, <2>2 DEF floor, received
<1> QED BY <1>6, <1>7

\* Only a swap through this guard writes the log, and its event is the swap's.
LEMMA PaidStep ==
    ASSUME ModuleInv, [ModuleNext]_<<vars, moduleVars>>, Len(log') > Len(log)
    PROVE  LET e == log'[Len(log')]
               out == e.request.tokenOut
               floor == (e.oracleOut * (MAX_BPS - e.policy.maxOracleDeviationBps)) \div MAX_BPS
               slippage == IF e.request.swapType = SWAP_TYPE_EXACT_INPUT
                           THEN e.policy.maxSlippageBps + 1 ELSE 0
           IN  (balance'[out] - balance[out]) * MAX_BPS >= floor * (MAX_BPS - slippage)
<1>1. TypeOK /\ Len(log) \in Nat
  BY LogSums DEF ModuleInv, ModuleTypeOK
<1>2. ~UNCHANGED log
  BY <1>1
<1>3. ~UNCHANGED <<vars, moduleVars>>
  BY <1>2 DEF vars
<1>4. ~GuardMoves
  <2>1. SUFFICES ASSUME GuardMoves PROVE FALSE
    OBVIOUS
  <2>2. LedgerIdle
    BY <1>1, <2>1, IdleSteps DEF GuardMoves
  <2> QED BY <1>2, <2>2 DEF LedgerIdle
<1>5. \A s \in Addresses : ~ModuleOwnerStep(s)
  BY <1>2, OwnerKeeps DEF vars
<1>6. PICK s \in Agents, r \in Requests, c \in Calldatas : ExecuteSwap(s, r, c)
  <2>1. \A x \in Routers : ~RouterActs(x)
    BY <1>2 DEF RouterActs, vars
  <2> QED BY <1>3, <1>4, <1>5, <2>1 DEF ModuleNext
<1>7. guard = ThisGuard /\ ValidateAndConsume(Module, agent, r)
  BY <1>2, <1>6 DEF ExecuteSwap, vars
<1> DEFINE e == [agent |-> agent, request |-> r, at |-> now, policy |-> policy,
                 oracleOut |-> OracleAmountOut(r)]
<1>8. e.request = r /\ e.policy = policy /\ e.oracleOut = OracleAmountOut(r)
  OBVIOUS
<1>9. log'[Len(log')] = e
  <2>1. Module \in Addresses /\ agent \in Agents
    BY ModuleAssumption DEF ModuleInv, ModuleTypeOK
  <2>2. log' = Append(log, e) /\ e \in Event /\ log \in Seq(Event)
    BY <1>1, <1>7, <2>1, ConsumeLogs DEF ValidateAndConsume, TypeOK
  <2> HIDE DEF e
  <2> QED BY <2>2
<1>10. (balance'[r.tokenOut] - balance[r.tokenOut]) * MAX_BPS
         >= ((OracleAmountOut(r) * (MAX_BPS - policy.maxOracleDeviationBps)) \div MAX_BPS)
              * (MAX_BPS - IF r.swapType = SWAP_TYPE_EXACT_INPUT
                           THEN policy.maxSlippageBps + 1 ELSE 0)
  BY <1>6, <1>7, SwapPays
<1> HIDE DEF e
<1> QED BY <1>8, <1>9, <1>10

\* Whatever the router did, a swap through this guard pays the Safe the oracle's price less
\* the deviation and the slippage in force when it was accepted.
THEOREM SafeAlwaysPaid == ModuleSpec => SafePaidOraclePrice
<1> DEFINE Paid ==
       Len(log') > Len(log) =>
         LET e == log'[Len(log')]
             out == e.request.tokenOut
             floor == (e.oracleOut * (MAX_BPS - e.policy.maxOracleDeviationBps)) \div MAX_BPS
             slippage == IF e.request.swapType = SWAP_TYPE_EXACT_INPUT
                         THEN e.policy.maxSlippageBps + 1 ELSE 0
         IN  (balance'[out] - balance[out]) * MAX_BPS >= floor * (MAX_BPS - slippage)
<1>1. ModuleInit => ModuleInv
  BY ModuleStart
<1>2. ModuleInv /\ [ModuleNext]_<<vars, moduleVars>> => ModuleInv' /\ [Paid]_<<vars, moduleVars>>
  BY ModuleStep, PaidStep
<1>3. [][Paid]_<<vars, moduleVars>> <=> SafePaidOraclePrice
  BY DEF SafePaidOraclePrice
<1> HIDE DEF Paid
<1> QED BY <1>1, <1>2, <1>3, PTL DEF ModuleSpec
==============================================================================
