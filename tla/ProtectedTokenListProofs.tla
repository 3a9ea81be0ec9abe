----------------------- MODULE ProtectedTokenListProofs -----------------------
(* The array of protected tokens stays right under any sequence of calls.  *)
EXTENDS ProtectedTokenList, TLAPS

\* The list agrees with the flags, with the types the step needs: inductive as it is.
Inv == ListTypeOK /\ ListMatchesFlags

\* Setting a flag (push of setProtectedToken) keeps the list right.
LEMMA ProtectStep ==
    ASSUME Inv, NEW t \in Tokens, Protect(t)
    PROVE  Inv'
<1> DEFINE n == Len(protectedTokenList)
<1>1. /\ protectedTokenList \in Seq(Tokens) /\ n \in Nat
      /\ protectedTokenList' = Append(protectedTokenList, t)
      /\ Len(protectedTokenList') = n + 1
      /\ \A i \in 1 .. n : protectedTokenList'[i] = protectedTokenList[i] /\ protectedTokenList[i] \in Tokens
      /\ protectedTokenList'[n + 1] = t
  BY DEF Inv, ListTypeOK, Protect
<1>2. /\ protectedTokens' = [protectedTokens EXCEPT ![t] = TRUE]
      /\ protectedTokenIndexPlusOne' = [protectedTokenIndexPlusOne EXCEPT ![t] = n + 1]
      /\ ~protectedTokens[t]
      /\ protectedTokens \in [Tokens -> BOOLEAN]
      /\ protectedTokenIndexPlusOne \in [Tokens -> Nat]
  BY DEF Inv, ListTypeOK, Protect
<1> HIDE DEF n
<1>3. ListTypeOK'
  BY <1>1, <1>2 DEF ListTypeOK
<1>4. ListMatchesFlags'
  <2>1. \A i \in 1 .. n : protectedTokenList[i] # t
    BY <1>2 DEF Inv, ListMatchesFlags, n
  <2>2. ASSUME NEW i \in 1 .. n + 1
        PROVE  /\ protectedTokens'[protectedTokenList'[i]]
               /\ protectedTokenIndexPlusOne'[protectedTokenList'[i]] = i
    <3>1. CASE i = n + 1
      BY <1>1, <1>2, <3>1
    <3>2. CASE i \in 1 .. n
      BY <1>1, <1>2, <2>1, <3>2 DEF Inv, ListMatchesFlags, n
    <3> QED BY <1>1, <3>1, <3>2
  <2>3. ASSUME NEW u \in Tokens
        PROVE  /\ protectedTokens'[u] =>
                     /\ protectedTokenIndexPlusOne'[u] \in 1 .. n + 1
                     /\ protectedTokenList'[protectedTokenIndexPlusOne'[u]] = u
               /\ ~protectedTokens'[u] => protectedTokenIndexPlusOne'[u] = 0
    <3>1. CASE u = t
      BY <1>1, <1>2, <3>1
    <3>2. CASE u # t
      BY <1>1, <1>2, <3>2 DEF Inv, ListMatchesFlags, n
    <3> QED BY <3>1, <3>2
  <2> QED BY <1>1, <2>2, <2>3 DEF ListMatchesFlags
<1> QED BY <1>3, <1>4 DEF Inv

\* Clearing a flag (swap with the last entry and pop) keeps the list right.
LEMMA UnprotectStep ==
    ASSUME Inv, NEW t \in Tokens, Unprotect(t)
    PROVE  Inv'
<1> DEFINE n == Len(protectedTokenList)
           place == protectedTokenIndexPlusOne[t]
           moved == protectedTokenList[n]
<1>1. /\ protectedTokenList \in Seq(Tokens) /\ n \in Nat
      /\ protectedTokens \in [Tokens -> BOOLEAN]
      /\ protectedTokenIndexPlusOne \in [Tokens -> Nat]
      /\ protectedTokens[t]
      /\ \A i \in 1 .. n : protectedTokenList[i] \in Tokens
  BY DEF Inv, ListTypeOK, Unprotect
<1>2. place \in 1 .. n /\ protectedTokenList[place] = t /\ moved \in Tokens
  BY <1>1 DEF Inv, ListMatchesFlags
<1>3. /\ protectedTokens[moved] /\ protectedTokenIndexPlusOne[moved] = n
  BY <1>2 DEF Inv, ListMatchesFlags
<1>4. /\ protectedTokens' = [protectedTokens EXCEPT ![t] = FALSE]
      /\ protectedTokenIndexPlusOne' =
           [protectedTokenIndexPlusOne EXCEPT ![moved] = place, ![t] = 0]
  BY DEF Unprotect
<1>5. /\ protectedTokenList' \in Seq(Tokens) /\ Len(protectedTokenList') = n - 1
      /\ \A i \in 1 .. n - 1 :
            protectedTokenList'[i] = IF i = place THEN moved ELSE protectedTokenList[i]
  <2> DEFINE filled == [protectedTokenList EXCEPT ![place] = moved]
  <2>1. filled \in Seq(Tokens) /\ Len(filled) = n
    BY <1>1, <1>2
  <2>2. protectedTokenList' = [i \in 1 .. n - 1 |-> filled[i]]
    BY <2>1 DEF Unprotect, Popped
  <2>3. \A i \in 1 .. n - 1 :
           filled[i] = (IF i = place THEN moved ELSE protectedTokenList[i]) /\ filled[i] \in Tokens
    BY <1>1, <1>2
  <2>4. n - 1 \in Nat
    BY <1>1, <1>2
  <2> HIDE DEF filled, n, place, moved
  <2>5. protectedTokenList' \in [1 .. n - 1 -> Tokens]
    BY <2>2, <2>3
  <2>6. protectedTokenList' \in Seq(Tokens) /\ Len(protectedTokenList') = n - 1
    BY <2>2, <2>4, <2>5
  <2> QED BY <2>2, <2>3, <2>6
<1>6. \A i \in 1 .. n : protectedTokenIndexPlusOne[protectedTokenList[i]] = i
                        /\ protectedTokens[protectedTokenList[i]]
  BY DEF Inv, ListMatchesFlags
<1>7. \A u \in Tokens :
         /\ protectedTokens[u] =>
               /\ protectedTokenIndexPlusOne[u] \in 1 .. n
               /\ protectedTokenList[protectedTokenIndexPlusOne[u]] = u
         /\ ~protectedTokens[u] => protectedTokenIndexPlusOne[u] = 0
  BY DEF Inv, ListMatchesFlags
<1> HIDE DEF n, place, moved
<1>8. /\ protectedTokenIndexPlusOne' \in [Tokens -> Nat]
       /\ \A u \in Tokens : protectedTokenIndexPlusOne'[u] =
             IF u = t THEN 0 ELSE IF u = moved THEN place ELSE protectedTokenIndexPlusOne[u]
  BY <1>1, <1>2, <1>4
<1>9. /\ protectedTokens' \in [Tokens -> BOOLEAN]
       /\ \A u \in Tokens : protectedTokens'[u] = (u # t /\ protectedTokens[u])
  BY <1>1, <1>4
<1>10. ListTypeOK'
  BY <1>5, <1>8, <1>9 DEF ListTypeOK
<1>11. ListMatchesFlags'
  <2>0. moved = protectedTokenList[n]
    BY DEF moved
  <2>1. ASSUME NEW i \in 1 .. n - 1
        PROVE  /\ protectedTokens'[protectedTokenList'[i]]
               /\ protectedTokenIndexPlusOne'[protectedTokenList'[i]] = i
    <3>1. CASE i = place
      <4>1. moved # t
        BY <1>1, <1>2, <1>3, <1>6, <3>1
      <4> QED BY <1>1, <1>2, <1>3, <1>5, <1>8, <1>9, <3>1, <4>1
    <3>2. CASE i # place
      <4>1. protectedTokenList[i] # t /\ protectedTokenList[i] # moved
        BY <1>1, <1>2, <1>3, <1>6, <3>2
      <4> QED BY <1>1, <1>5, <1>6, <1>8, <1>9, <3>2, <4>1
    <3> QED BY <3>1, <3>2
  <2>2. ASSUME NEW u \in Tokens
        PROVE  /\ protectedTokens'[u] =>
                     /\ protectedTokenIndexPlusOne'[u] \in 1 .. n - 1
                     /\ protectedTokenList'[protectedTokenIndexPlusOne'[u]] = u
               /\ ~protectedTokens'[u] => protectedTokenIndexPlusOne'[u] = 0
    <3>1. CASE u = t
      BY <1>8, <1>9, <3>1
    <3>2. CASE u = moved /\ u # t
      <4>1. place \in 1 .. n - 1
        <5>1. place # n
          BY <1>2, <2>0, <3>2
        <5> QED BY <1>1, <1>2, <5>1
      <4> QED BY <1>5, <1>8, <1>9, <1>3, <3>2, <4>1
    <3>3. CASE u # moved /\ u # t
      <4>1. protectedTokens'[u] = protectedTokens[u]
            /\ protectedTokenIndexPlusOne'[u] = protectedTokenIndexPlusOne[u]
        BY <1>1, <1>4, <1>8, <3>3
      <4>2. ASSUME protectedTokens[u]
            PROVE  /\ protectedTokenIndexPlusOne[u] \in 1 .. n - 1
                   /\ protectedTokenList'[protectedTokenIndexPlusOne[u]] = u
        <5>1. /\ protectedTokenIndexPlusOne[u] \in 1 .. n
              /\ protectedTokenList[protectedTokenIndexPlusOne[u]] = u
          BY <1>7, <4>2
        <5>2. protectedTokenIndexPlusOne[u] # n /\ protectedTokenIndexPlusOne[u] # place
          BY <1>2, <2>0, <3>3, <5>1
        <5>3. protectedTokenIndexPlusOne[u] \in 1 .. n - 1
          BY <1>1, <5>1, <5>2
        <5> QED BY <1>5, <5>1, <5>2, <5>3
      <4> QED BY <1>7, <4>1, <4>2
    <3> QED BY <3>1, <3>2, <3>3
  <2> QED BY <1>1, <1>5, <2>1, <2>2 DEF ListMatchesFlags
<1> QED BY <1>10, <1>11 DEF Inv

\* Flags, array and indices agree after any sequence of additions and removals.
THEOREM ListAlwaysMatches == ListSpec => []ListMatchesFlags
<1>1. ListInit => Inv
  BY DEF ListInit, Inv, ListTypeOK, ListMatchesFlags
<1>2. Inv /\ [ListNext]_listVars => Inv'
  <2> SUFFICES ASSUME Inv, [ListNext]_listVars PROVE Inv'
    OBVIOUS
  <2>1. CASE UNCHANGED listVars
    BY <2>1 DEF listVars, Inv, ListTypeOK, ListMatchesFlags
  <2>2. ASSUME NEW t \in Tokens, NEW b \in BOOLEAN, SetProtectedToken(t, b)
        PROVE  Inv'
    BY <2>1, <2>2, ProtectStep, UnprotectStep DEF SetProtectedToken
  <2> QED BY <2>1, <2>2 DEF ListNext
<1>3. Inv => ListMatchesFlags
  BY DEF Inv
<1> QED BY <1>1, <1>2, <1>3, PTL DEF ListSpec
===============================================================================
