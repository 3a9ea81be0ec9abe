-------------------------- MODULE ProtectedTokenList --------------------------
(***************************************************************************)
(* The protected tokens of contracts/src/EquiliBotModule.sol: a flag per   *)
(* token, the array executeSwap walks to compare balances, and each        *)
(* token's place in that array plus one (zero for "not there").  Removing  *)
(* a token moves the last one into its place.                              *)
(***************************************************************************)
EXTENDS Integers, Sequences, FiniteSets

CONSTANT Tokens  \* every address but address(0)

VARIABLES
    protectedTokens,             \* mapping(address => bool)
    protectedTokenList,          \* address[]
    protectedTokenIndexPlusOne   \* mapping(address => uint256)

listVars == <<protectedTokens, protectedTokenList, protectedTokenIndexPlusOne>>

ListInit ==
    /\ protectedTokens = [t \in Tokens |-> FALSE]
    /\ protectedTokenList = <<>>
    /\ protectedTokenIndexPlusOne = [t \in Tokens |-> 0]

\* Mutant: the first element goes instead.
PoppedFront(list) == Tail(list)

\* The array without its last element.
Popped(list) == [i \in 1 .. Len(list) - 1 |-> list[i]]

\* setProtectedToken(token, true)
Protect(token) ==
    /\ ~protectedTokens[token]
    /\ protectedTokens' = [protectedTokens EXCEPT ![token] = TRUE]
    /\ protectedTokenList' = Append(protectedTokenList, token)
    /\ protectedTokenIndexPlusOne' =
         [protectedTokenIndexPlusOne EXCEPT ![token] = Len(protectedTokenList) + 1]

\* setProtectedToken(token, false).  Array positions count from one here, so the
\* code's idx is place - 1 and its lastIdx is Len(list) - 1.
Unprotect(token) ==
    LET place == protectedTokenIndexPlusOne[token]
        moved == protectedTokenList[Len(protectedTokenList)]
        filled == [protectedTokenList EXCEPT ![place] = moved]
    IN  /\ protectedTokens[token]
        /\ protectedTokens' = [protectedTokens EXCEPT ![token] = FALSE]
        /\ protectedTokenList' = Popped(filled)
        /\ protectedTokenIndexPlusOne' =
             [protectedTokenIndexPlusOne EXCEPT ![moved] = place, ![token] = 0]

\* A call that asks for what already holds changes nothing.
SetProtectedToken(token, shouldProtect) ==
    IF shouldProtect = protectedTokens[token] THEN UNCHANGED listVars
    ELSE IF shouldProtect THEN Protect(token)
    ELSE Unprotect(token)

ListNext == \E t \in Tokens, b \in BOOLEAN : SetProtectedToken(t, b)

ListSpec == ListInit /\ [][ListNext]_listVars

-----------------------------------------------------------------------------
\* The three storage variables hold values of their declared types.
ListTypeOK ==
    /\ protectedTokens \in [Tokens -> BOOLEAN]
    /\ protectedTokenList \in Seq(Tokens)
    /\ protectedTokenIndexPlusOne \in [Tokens -> Nat]

\* The array holds the flagged tokens and no other, each once and at the place
\* recorded for it, however tokens were added and removed: executeSwap compares
\* the balance of every protected token, and of each only once.
ListMatchesFlags ==
    /\ \A i \in 1 .. Len(protectedTokenList) :
          /\ protectedTokens[protectedTokenList[i]]
          /\ protectedTokenIndexPlusOne[protectedTokenList[i]] = i
    /\ \A t \in Tokens :
          protectedTokens[t] =>
             /\ protectedTokenIndexPlusOne[t] \in 1 .. Len(protectedTokenList)
             /\ protectedTokenList[protectedTokenIndexPlusOne[t]] = t
    /\ \A t \in Tokens : ~protectedTokens[t] => protectedTokenIndexPlusOne[t] = 0
===============================================================================
