------------------------- MODULE MarketObserverProofs -------------------------
(***************************************************************************)
(* How old the observer's labels may be, for any number of pools, blocks,  *)
(* swaps and polls under way at once, any lag of the endpoint and the      *)
(* cache, and whatever becomes of events.                                  *)
(***************************************************************************)
EXTENDS MarketObserver, TLAPS

\* What fetchSlot0 may hold between its reads.
PollStates ==
    {NoPoll} \cup [stage : {"slot0"}, pool : Pools]
             \cup [stage : {"number"}, pool : Pools, version : Nat]
             \cup [stage : {"store"}, pool : Pools, version : Nat, block : 1 .. MaxBlock]

SwapRecords == [block : Nat, logIndex : LogIndexes]

\* Every swap is in a block of the chain.
SwapsMined == \A p \in Pools : \A n \in 1 .. Len(swaps[p]) : swaps[p][n].block \in 1 .. head

\* The state numbered version of pool p exists, and block is not too far before it.
LabelFits(p, version, block) ==
    /\ version \in 0 .. Len(swaps[p])
    /\ version > 0 => block + MaxLag + CacheBlocks >= swaps[p][version].block

StatesFit == \A p \in Pools : LabelFits(p, poolStates[p].version, poolStates[p].block)

\* What a poll has read is a state the pool was in, and so is what it is to store.
PollsFit ==
    \A f \in Polls :
        /\ poll[f].stage = "number" => poll[f].version \in 0 .. Len(swaps[poll[f].pool])
        /\ poll[f].stage = "store" => LabelFits(poll[f].pool, poll[f].version, poll[f].block)

ObserverInv ==
    TypeOK /\ poll \in [Polls -> PollStates] /\ SwapsMined /\ StatesFit /\ PollsFit

LEMMA InitObserverInv == Init => ObserverInv
<1> SUFFICES ASSUME Init PROVE ObserverInv
  OBVIOUS
<1>1. TypeOK
  <2>1. head \in 1 .. MaxBlock /\ {running, pollFailed} \subseteq BOOLEAN
    BY ObserverAssumption, 1 \in 1 .. MaxBlock DEF Init
  <2>2. swaps \in [Pools -> Seq(SwapRecords)]
    <3>1. <<>> \in Seq(SwapRecords)
      OBVIOUS
    <3> QED BY <3>1 DEF Init
  <2>3. /\ poolStates \in [Pools -> [version : Nat, block : 1 .. MaxBlock,
                                     logIndex : {0} \cup LogIndexes]]
        /\ staleTimer \in [Pools -> BOOLEAN]
    BY ObserverAssumption DEF Init
  <2>4. \A f \in Polls : poll[f].stage \in {"none", "slot0", "number", "store"}
    BY DEF Init, NoPoll
  <2> QED BY <2>1, <2>2, <2>3, <2>4 DEF TypeOK, SwapRecords
<1>2. poll \in [Polls -> PollStates]
  BY DEF Init, PollStates
<1>3. SwapsMined /\ StatesFit /\ PollsFit
  BY DEF Init, SwapsMined, StatesFit, PollsFit, LabelFits, NoPoll
<1> QED BY <1>1, <1>2, <1>3 DEF ObserverInv

\* The fields of a poll, stage by stage.
LEMMA PollFields ==
    ASSUME poll \in [Polls -> PollStates], NEW f \in Polls
    PROVE  /\ poll[f].stage \in {"none", "slot0", "number", "store"}
           /\ poll[f].stage # "none" => poll[f].pool \in Pools
           /\ poll[f].stage \in {"number", "store"} => poll[f].version \in Nat
           /\ poll[f].stage = "store" => poll[f].block \in 1 .. MaxBlock
BY DEF PollStates, NoPoll

\* A swap is appended: what was there before stays where it was.
LEMMA SwapKeeps ==
    ASSUME ObserverInv, NEW p \in Pools, NEW x \in LogIndexes, Swap(p, x)
    PROVE  ObserverInv'
<1> DEFINE s == [block |-> head, logIndex |-> x]
<1>1. /\ swaps \in [Pools -> Seq(SwapRecords)]
      /\ head \in 1 .. MaxBlock /\ MaxBlock \in Nat
      /\ s \in SwapRecords /\ s.block = head
  <2>1. swaps \in [Pools -> Seq(SwapRecords)] /\ head \in 1 .. MaxBlock
    BY DEF ObserverInv, TypeOK, SwapRecords
  <2>2. MaxBlock \in Nat
    BY ObserverAssumption
  <2>3. s \in [block : Nat, logIndex : LogIndexes] /\ s.block = head
    BY <2>1, <2>2
  <2> QED BY <2>1, <2>2, <2>3 DEF SwapRecords
<1>2. /\ swaps' = [swaps EXCEPT ![p] = Append(swaps[p], s)]
      /\ UNCHANGED <<head, running, poolStates, staleTimer, poll, pollFailed>>
  BY DEF Swap
<1> HIDE DEF s
<1>3. swaps' \in [Pools -> Seq(SwapRecords)]
  <2>1. swaps[p] \in Seq(SwapRecords)
    BY <1>1
  <2>2. Append(swaps[p], s) \in Seq(SwapRecords)
    BY <1>1, <2>1
  <2> QED BY <1>1, <1>2, <2>2
<1>4. ASSUME NEW q \in Pools
      PROVE  /\ Len(swaps[q]) \in Nat /\ Len(swaps'[q]) \in Nat
             /\ Len(swaps[q]) <= Len(swaps'[q])
             /\ \A n \in 1 .. Len(swaps[q]) : swaps'[q][n] = swaps[q][n]
             /\ \A n \in 1 .. Len(swaps'[q]) : n > Len(swaps[q]) => swaps'[q][n] = s
  <2>1. CASE q = p
    <3>1. swaps'[p] = Append(swaps[p], s) /\ swaps[p] \in Seq(SwapRecords)
      BY <1>1, <1>2
    <3> QED BY <2>1, <3>1, <1>1
  <2>2. CASE q # p
    <3>1. swaps'[q] = swaps[q] /\ swaps[q] \in Seq(SwapRecords)
      BY <1>1, <1>2, <2>2
    <3> QED BY <3>1
  <2> QED BY <2>1, <2>2
<1>5. TypeOK' /\ (poll \in [Polls -> PollStates])'
  BY <1>2, <1>3 DEF ObserverInv, TypeOK, PollStates, NoPoll, SwapRecords
<1>6. SwapsMined'
  <2>1. ASSUME NEW q \in Pools, NEW n \in 1 .. Len(swaps'[q])
        PROVE  swaps'[q][n].block \in 1 .. head
    <3>1. CASE n \in 1 .. Len(swaps[q])
      BY <1>4, <3>1 DEF ObserverInv, SwapsMined
    <3>2. CASE n > Len(swaps[q])
      BY <1>1, <1>4, <3>2
    <3> QED BY <1>4, <3>1, <3>2
  <2> QED BY <1>2, <2>1 DEF SwapsMined
<1>7. ASSUME NEW q \in Pools, NEW v, NEW b, LabelFits(q, v, b)
      PROVE  LabelFits(q, v, b)'
  BY <1>4, <1>7 DEF LabelFits
<1>8. StatesFit'
  BY <1>2, <1>7 DEF ObserverInv, StatesFit
<1>9. PollsFit'
  BY <1>2, <1>4, <1>7, PollFields DEF ObserverInv, PollsFit
<1> QED BY <1>5, <1>6, <1>8, <1>9 DEF ObserverInv

\* The chain goes on.
LEMMA NewBlockKeeps ==
    ASSUME ObserverInv, NewBlock
    PROVE  ObserverInv'
<1>1. /\ head' = head + 1 /\ head' \in 1 .. MaxBlock /\ head \in Nat
      /\ UNCHANGED <<swaps, running, poolStates, staleTimer, poll, pollFailed>>
  BY ObserverAssumption DEF ObserverInv, TypeOK, NewBlock
<1>2. TypeOK' /\ (poll \in [Polls -> PollStates])'
  BY <1>1 DEF ObserverInv, TypeOK, PollStates, NoPoll
<1>3. SwapsMined'
  BY <1>1 DEF ObserverInv, SwapsMined
<1>4. StatesFit' /\ PollsFit'
  BY <1>1 DEF ObserverInv, StatesFit, PollsFit, LabelFits
<1> QED BY <1>2, <1>3, <1>4 DEF ObserverInv

\* An event gives its pool the state and the label of its swap.
LEMMA EventKeeps ==
    ASSUME ObserverInv, NEW p \in Pools, NEW n \in DOMAIN swaps[p], SwapEvent(p, n)
    PROVE  ObserverInv'
<1> DEFINE s == [version |-> n, block |-> swaps[p][n].block, logIndex |-> swaps[p][n].logIndex]
<1>1. /\ swaps[p] \in Seq(SwapRecords) /\ n \in 1 .. Len(swaps[p]) /\ n \in Nat
      /\ head \in 1 .. MaxBlock /\ MaxBlock \in Nat
      /\ swaps[p][n].block \in 1 .. head
  <2>1. swaps[p] \in Seq(SwapRecords)
    BY DEF ObserverInv, TypeOK, SwapRecords
  <2>2. n \in 1 .. Len(swaps[p]) /\ n \in Nat
    BY <2>1
  <2>3. head \in 1 .. MaxBlock /\ MaxBlock \in Nat
    BY ObserverAssumption DEF ObserverInv, TypeOK
  <2>4. swaps[p][n].block \in 1 .. head
    BY <2>2 DEF ObserverInv, SwapsMined
  <2> QED BY <2>1, <2>2, <2>3, <2>4
<1>2. swaps[p][n] \in SwapRecords
  BY <1>1
<1>3. /\ poolStates' = [poolStates EXCEPT ![p] = s]
      /\ staleTimer' = [staleTimer EXCEPT ![p] = TRUE]
      /\ UNCHANGED <<head, swaps, running, poll, pollFailed>>
  BY DEF SwapEvent
<1>4. /\ s \in [version : Nat, block : 1 .. MaxBlock, logIndex : {0} \cup LogIndexes]
      /\ LabelFits(p, s.version, s.block)
  BY <1>1, <1>2, ObserverAssumption DEF SwapRecords, LabelFits
<1> HIDE DEF s
<1>5. TypeOK'
  BY <1>3, <1>4 DEF ObserverInv, TypeOK
<1>6. StatesFit'
  BY <1>3, <1>4 DEF ObserverInv, TypeOK, StatesFit, LabelFits
<1>7. (poll \in [Polls -> PollStates])' /\ SwapsMined' /\ PollsFit'
  BY <1>3 DEF ObserverInv, PollStates, NoPoll, SwapsMined, PollsFit, LabelFits
<1> QED BY <1>5, <1>6, <1>7 DEF ObserverInv

\* A step by which a poll moves on to y, or ends, and the map stays as it is.
LEMMA PollMovesKeeps ==
    ASSUME ObserverInv, NEW f \in Polls, NEW y \in PollStates,
           poll' = [poll EXCEPT ![f] = y],
           UNCHANGED <<head, swaps, poolStates, running>>,
           staleTimer' \in [Pools -> BOOLEAN], pollFailed' \in BOOLEAN,
           y.stage = "number" => y.version \in 0 .. Len(swaps[y.pool]),
           y.stage = "store" => LabelFits(y.pool, y.version, y.block)
    PROVE  ObserverInv'
<1>1. (poll \in [Polls -> PollStates])'
  BY DEF ObserverInv, PollStates, NoPoll
<1>2. \A g \in Polls : (poll[g].stage)' \in {"none", "slot0", "number", "store"}
  BY <1>1 DEF PollStates, NoPoll
<1>3. TypeOK'
  BY <1>2 DEF ObserverInv, TypeOK
<1>4. SwapsMined' /\ StatesFit'
  BY DEF ObserverInv, SwapsMined, StatesFit, LabelFits
<1>5. PollsFit'
  <2>1. ASSUME NEW g \in Polls
        PROVE  /\ poll'[g].stage = "number" => poll'[g].version \in 0 .. Len(swaps[poll'[g].pool])
               /\ poll'[g].stage = "store" =>
                     LabelFits(poll'[g].pool, poll'[g].version, poll'[g].block)
    <3>1. CASE g = f
      BY <3>1 DEF ObserverInv
    <3>2. CASE g # f
      BY <3>2 DEF ObserverInv, PollsFit
    <3> QED BY <3>1, <3>2
  <2> QED BY <2>1 DEF PollsFit, LabelFits
<1> QED BY <1>1, <1>3, <1>4, <1>5 DEF ObserverInv

LEMMA TimerKeeps ==
    ASSUME ObserverInv, NEW p \in Pools, StaleTimerFires(p)
    PROVE  ObserverInv'
<1>1. /\ staleTimer' = [staleTimer EXCEPT ![p] = FALSE]
      /\ UNCHANGED <<head, swaps, running, poolStates, pollFailed>>
  BY DEF StaleTimerFires
<1>2. staleTimer' \in [Pools -> BOOLEAN] /\ pollFailed' \in BOOLEAN
  BY <1>1 DEF ObserverInv, TypeOK
<1>3. CASE running
  <2> DEFINE y == [stage |-> "slot0", pool |-> p]
  <2>1. PICK f \in Polls : poll' = [poll EXCEPT ![f] = y]
    BY <1>3 DEF StaleTimerFires
  <2>2. y \in PollStates /\ y.stage = "slot0"
    BY DEF PollStates
  <2> QED BY <1>1, <1>2, <2>1, <2>2, PollMovesKeeps
<1>4. CASE ~running
  <2>1. UNCHANGED poll
    BY <1>4 DEF StaleTimerFires
  <2> QED
    BY <1>1, <1>2, <2>1 DEF ObserverInv, TypeOK, PollStates, NoPoll, SwapsMined, StatesFit,
       PollsFit, LabelFits
<1> QED BY <1>3, <1>4

\* What slot0 answers is a state the pool was in.
LEMMA ReadSlot0Keeps ==
    ASSUME ObserverInv, NEW f \in Polls, ReadSlot0(f)
    PROVE  ObserverInv'
<1> DEFINE p == poll[f].pool
<1>1. PICK n \in 0 .. Len(swaps[p]) :
          poll' = [poll EXCEPT ![f] = [stage |-> "number", pool |-> p, version |-> n]]
  BY DEF ReadSlot0
<1> DEFINE y == [stage |-> "number", pool |-> p, version |-> n]
<1>2. p \in Pools
  BY PollFields DEF ObserverInv, ReadSlot0
<1>3. swaps[p] \in Seq(SwapRecords)
  BY <1>2 DEF ObserverInv, TypeOK, SwapRecords
<1>4. n \in Nat
  BY <1>1, <1>3
<1>5. y \in PollStates /\ y.stage = "number" /\ y.version \in 0 .. Len(swaps[y.pool])
  BY <1>1, <1>2, <1>4 DEF PollStates
<1>6. UNCHANGED <<head, swaps, running, poolStates, staleTimer, pollFailed>>
  BY DEF ReadSlot0
<1>7. staleTimer' \in [Pools -> BOOLEAN] /\ pollFailed' \in BOOLEAN
  BY <1>6 DEF ObserverInv, TypeOK
<1> HIDE DEF p, y
<1> QED BY <1>1, <1>5, <1>6, <1>7, PollMovesKeeps DEF y

\* The block number is read later, so that a swap read before it is in a later block by
\* no more than the answer is behind the head.
LEMMA ReadBlockNumberKeeps ==
    ASSUME ObserverInv, NEW f \in Polls, ReadBlockNumber(f)
    PROVE  ObserverInv'
<1> DEFINE p == poll[f].pool
           v == poll[f].version
<1>1. PICK b \in AnswersFrom(MaxLag + CacheBlocks) :
          poll' = [poll EXCEPT ![f] = [stage |-> "store", pool |-> p, version |-> v,
                                       block |-> b]]
  BY DEF ReadBlockNumber
<1> DEFINE y == [stage |-> "store", pool |-> p, version |-> v, block |-> b]
<1>2. p \in Pools /\ v \in Nat /\ v \in 0 .. Len(swaps[p])
  BY PollFields DEF ObserverInv, ReadBlockNumber, PollsFit
<1>3. /\ head \in 1 .. MaxBlock /\ MaxBlock \in Nat /\ MaxLag \in Nat /\ CacheBlocks \in Nat
      /\ b \in 1 .. MaxBlock /\ b + MaxLag + CacheBlocks >= head
  BY ObserverAssumption DEF ObserverInv, TypeOK, AnswersFrom
<1>4. y \in PollStates /\ y.stage = "store"
  BY <1>2, <1>3 DEF PollStates
<1>5. Len(swaps[p]) \in Nat
  BY <1>2 DEF ObserverInv, TypeOK
<1>6. LabelFits(y.pool, y.version, y.block)
  <2>1. v > 0 => swaps[p][v].block \in 1 .. head
    BY <1>2, <1>5 DEF ObserverInv, SwapsMined
  <2> QED BY <1>2, <1>3, <2>1 DEF LabelFits
<1>7. UNCHANGED <<head, swaps, running, poolStates, staleTimer, pollFailed>>
  BY DEF ReadBlockNumber
<1>8. staleTimer' \in [Pools -> BOOLEAN] /\ pollFailed' \in BOOLEAN
  BY <1>7 DEF ObserverInv, TypeOK
<1> HIDE DEF p, v, y
<1> QED BY <1>1, <1>4, <1>6, <1>7, <1>8, PollMovesKeeps DEF y

LEMMA StorePollKeeps ==
    ASSUME ObserverInv, NEW f \in Polls, StorePoll(f)
    PROVE  ObserverInv'
<1> DEFINE p == poll[f].pool
           s == Labelled(poll[f])
<1>1. /\ p \in Pools /\ poll[f].version \in Nat /\ poll[f].block \in 1 .. MaxBlock
      /\ LabelFits(p, poll[f].version, poll[f].block)
  BY PollFields DEF ObserverInv, StorePoll, PollsFit
<1>2. /\ s \in [version : Nat, block : 1 .. MaxBlock, logIndex : {0} \cup LogIndexes]
      /\ LabelFits(p, s.version, s.block)
  BY <1>1 DEF Labelled
<1>3. /\ poolStates' = [poolStates EXCEPT ![p] = s]
      /\ staleTimer' = [staleTimer EXCEPT ![p] = TRUE]
      /\ poll' = [poll EXCEPT ![f] = NoPoll]
      /\ UNCHANGED <<head, swaps, running, pollFailed>>
  BY DEF StorePoll, ResetStaleTimer
<1> HIDE DEF s, p
<1>4. (poll \in [Polls -> PollStates])'
  BY <1>3 DEF ObserverInv, PollStates, NoPoll
<1>5. TypeOK'
  <2>1. \A g \in Polls : (poll[g].stage)' \in {"none", "slot0", "number", "store"}
    BY <1>4 DEF PollStates, NoPoll
  <2> QED BY <1>1, <1>2, <1>3, <2>1 DEF ObserverInv, TypeOK
<1>6. StatesFit'
  BY <1>1, <1>2, <1>3 DEF ObserverInv, TypeOK, StatesFit, LabelFits
<1>7. SwapsMined' /\ PollsFit'
  BY <1>3 DEF ObserverInv, SwapsMined, PollsFit, LabelFits, NoPoll
<1> QED BY <1>4, <1>5, <1>6, <1>7 DEF ObserverInv

LEMMA PollFailsKeeps ==
    ASSUME ObserverInv, NEW f \in Polls, PollFails(f)
    PROVE  ObserverInv'
<1>1. NoPoll \in PollStates /\ NoPoll.stage = "none"
  BY DEF PollStates, NoPoll
<1>2. staleTimer' \in [Pools -> BOOLEAN] /\ pollFailed' \in BOOLEAN
  BY DEF ObserverInv, TypeOK, PollFails
<1> QED BY <1>1, <1>2, PollMovesKeeps DEF PollFails

LEMMA StopKeeps ==
    ASSUME ObserverInv, Stop
    PROVE  ObserverInv'
BY DEF ObserverInv, Stop, TypeOK, PollStates, NoPoll, SwapsMined, StatesFit, PollsFit, LabelFits

LEMMA NextObserverInv == ObserverInv /\ [Next]_vars => ObserverInv'
<1> SUFFICES ASSUME ObserverInv, [Next]_vars PROVE ObserverInv'
  OBVIOUS
<1>1. ASSUME NEW p \in Pools, NEW x \in LogIndexes, Swap(p, x) PROVE ObserverInv'
  BY <1>1, SwapKeeps
<1>2. ASSUME NEW p \in Pools, NEW n \in DOMAIN swaps[p], SwapEvent(p, n) PROVE ObserverInv'
  BY <1>2, EventKeeps
<1>3. ASSUME NEW p \in Pools, StaleTimerFires(p) PROVE ObserverInv'
  BY <1>3, TimerKeeps
<1>4. ASSUME NEW f \in Polls, PollStep(f) PROVE ObserverInv'
  BY <1>4, ReadSlot0Keeps, ReadBlockNumberKeeps, StorePollKeeps, PollFailsKeeps DEF PollStep
<1>5. CASE NewBlock
  BY <1>5, NewBlockKeeps
<1>6. CASE Stop
  BY <1>6, StopKeeps
<1>7. CASE UNCHANGED vars
  BY <1>7 DEF vars, ObserverInv, TypeOK, PollStates, NoPoll, SwapsMined, StatesFit, PollsFit,
     LabelFits
<1> QED BY <1>1, <1>2, <1>3, <1>4, <1>5, <1>6, <1>7 DEF Next

\* A state in the map is labelled with a block that is before that of the swap it shows by
\* no more than the endpoint lags and the client caches (onLogs and fetchSlot0), whichever
\* reads overlap and whichever events are lost.
THEOREM LabelsStayWithinLag == Spec => []LabelWithinLag
<1>1. ObserverInv => LabelWithinLag
  BY DEF ObserverInv, StatesFit, LabelFits, LabelWithinLag
<1> QED BY <1>1, InitObserverInv, NextObserverInv, PTL DEF Spec
===============================================================================
