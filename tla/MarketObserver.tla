---------------------------- MODULE MarketObserver ----------------------------
(***************************************************************************)
(* agent/src/services/market-observer.ts: the map of pool states, fed by   *)
(* Swap events over a WebSocket and by slot0 reads over HTTP, and the      *)
(* timer of each pool that starts such a read when no event came for 60s.  *)
(*                                                                         *)
(* What a pool looks like is the number of its last swap, its version; a   *)
(* state in the map carries the version seen and the label (block and log  *)
(* index) the code compares.  The two reads of a poll, slot0 and then the  *)
(* block number, and the use of their results are separate steps, as the   *)
(* awaits between them allow events and other polls to come first.         *)
(***************************************************************************)
EXTENDS Integers, Sequences

CONSTANTS
    Pools,
    MaxLag,       \* most blocks the HTTP endpoint's answers lie behind the head
    CacheBlocks,  \* most blocks that pass while viem's client cache keeps a block number
    LogIndexes,   \* log indexes a swap may have in its block, above 0
    MaxBlock,     \* bound: blocks
    MaxSwaps,     \* bound: swaps of a pool
    Polls         \* identifiers of polls that may be under way at once

ASSUME ObserverAssumption ==
    /\ LogIndexes \subseteq Nat \ {0}
    /\ MaxBlock \in Nat \ {0} /\ {MaxSwaps, MaxLag, CacheBlocks} \subseteq Nat

VARIABLES
    head,        \* the chain's last block
    swaps,       \* [Pools -> the swaps mined, in order, with their blocks and indexes]
    running,     \* _running
    poolStates,  \* [Pools -> [version, block, logIndex]]
    staleTimer,  \* [Pools -> is its timer armed]
    poll,        \* [Polls -> what fetchSlot0 is at]
    pollFailed   \* history: some poll has failed

vars == <<head, swaps, running, poolStates, staleTimer, poll, pollFailed>>

NoPoll == [stage |-> "none"]
Fetches(p) == {f \in Polls : poll[f].stage # "none" /\ poll[f].pool = p}

-----------------------------------------------------------------------------
\* start has read every pool and armed its timer; the first swaps are yet to come.
Init ==
    /\ head = 1
    /\ swaps = [p \in Pools |-> <<>>]
    /\ running = TRUE
    /\ poolStates = [p \in Pools |-> [version |-> 0, block |-> 1, logIndex |-> 0]]
    /\ staleTimer = [p \in Pools |-> TRUE]
    /\ poll = [f \in Polls |-> NoPoll]
    /\ pollFailed = FALSE

\* External: a swap in the last block, or a new block.
Swap(p, index) ==
    /\ Len(swaps[p]) < MaxSwaps
    /\ \A q \in Pools : \A n \in DOMAIN swaps[q] :
          swaps[q][n].block = head => swaps[q][n].logIndex < index
    /\ swaps' = [swaps EXCEPT ![p] = Append(@, [block |-> head, logIndex |-> index])]
    /\ UNCHANGED <<head, running, poolStates, staleTimer, poll, pollFailed>>

NewBlock ==
    /\ head < MaxBlock
    /\ head' = head + 1
    /\ UNCHANGED <<swaps, running, poolStates, staleTimer, poll, pollFailed>>

\* onLogs for one event, which may come late, again, or out of order: it is dropped
\* unless its label is above the one in the map.
Newer(event, state) ==
    \/ event.block > state.block
    \/ event.block = state.block /\ event.logIndex > state.logIndex

SwapEvent(p, n) ==
    /\ running
    /\ Newer(swaps[p][n], poolStates[p])
    /\ poolStates' = [poolStates EXCEPT ![p] =
                         [version |-> n, block |-> swaps[p][n].block,
                          logIndex |-> swaps[p][n].logIndex]]
    /\ staleTimer' = [staleTimer EXCEPT ![p] = TRUE]
    /\ UNCHANGED <<head, swaps, running, poll, pollFailed>>

\* The timer's callback; after stop it does nothing.
StaleTimerFires(p) ==
    /\ staleTimer[p]
    /\ staleTimer' = [staleTimer EXCEPT ![p] = FALSE]
    /\ IF running
       THEN \E f \in Polls : /\ poll[f] = NoPoll
                             /\ poll' = [poll EXCEPT ![f] = [stage |-> "slot0", pool |-> p]]
       ELSE UNCHANGED poll
    /\ UNCHANGED <<head, swaps, running, poolStates, pollFailed>>

\* External: blocks from which an answer may come that is at most lag blocks behind;
\* the next answer may be from an older one again.
AnswersFrom(lag) == {b \in 1 .. head : b + lag >= head}

\* The pool as of block b is what its n-th swap made it.
AsOf(p, b, n) ==
    /\ n > 0 => swaps[p][n].block <= b
    /\ n < Len(swaps[p]) => swaps[p][n + 1].block > b

\* fetchSlot0: slot0 and liquidity, then the block number, then the map.
ReadSlot0(f) ==
    LET p == poll[f].pool
    IN  /\ poll[f].stage = "slot0"
        /\ \E b \in AnswersFrom(MaxLag), n \in 0 .. Len(swaps[p]) :
              /\ AsOf(p, b, n)
              /\ poll' = [poll EXCEPT ![f] = [stage |-> "number", pool |-> p, version |-> n]]
        /\ UNCHANGED <<head, swaps, running, poolStates, staleTimer, pollFailed>>

\* getBlockNumber has no cacheTime of its own: it may repeat the number that the
\* client, which all polls share, read for another pool.
ReadBlockNumber(f) ==
    /\ poll[f].stage = "number"
    /\ \E b \in AnswersFrom(MaxLag + CacheBlocks) :
          poll' = [poll EXCEPT ![f] = [stage |-> "store", pool |-> poll[f].pool,
                                       version |-> poll[f].version, block |-> b]]
    /\ UNCHANGED <<head, swaps, running, poolStates, staleTimer, pollFailed>>

\* Mutant: the timer is not armed again.
TimerLeftOff(p) == UNCHANGED staleTimer

\* resetStaleTimer
ResetStaleTimer(p) == staleTimer' = [staleTimer EXCEPT ![p] = TRUE]

\* Mutant: the state is labelled with the block before.
LabelOneLess(x) == [version |-> x.version, block |-> x.block - 1, logIndex |-> 0]
Labelled(x) == [version |-> x.version, block |-> x.block, logIndex |-> 0]

StorePoll(f) ==
    /\ poll[f].stage = "store"
    /\ poolStates' = [poolStates EXCEPT ![poll[f].pool] = Labelled(poll[f])]
    /\ ResetStaleTimer(poll[f].pool)
    /\ poll' = [poll EXCEPT ![f] = NoPoll]
    /\ UNCHANGED <<head, swaps, running, pollFailed>>

\* A read fails after its retries: the error is logged and that is all.
PollFails(f) ==
    /\ poll[f].stage \in {"slot0", "number"}
    /\ poll' = [poll EXCEPT ![f] = NoPoll]
    /\ pollFailed' = TRUE
    /\ UNCHANGED <<head, swaps, running, poolStates, staleTimer>>

\* stop: polls under way are not cancelled.
Stop ==
    /\ running
    /\ running' = FALSE
    /\ staleTimer' = [p \in Pools |-> FALSE]
    /\ UNCHANGED <<head, swaps, poolStates, poll, pollFailed>>

PollStep(f) == ReadSlot0(f) \/ ReadBlockNumber(f) \/ StorePoll(f) \/ PollFails(f)

Next ==
    \/ \E p \in Pools : \/ \E x \in LogIndexes : Swap(p, x)
                        \/ \E n \in DOMAIN swaps[p] : SwapEvent(p, n)
                        \/ StaleTimerFires(p)
    \/ \E f \in Polls : PollStep(f)
    \/ NewBlock
    \/ Stop

Spec == Init /\ [][Next]_vars

\* Timers fire and polls return; nothing is assumed of events, which may be lost.
FairSpec == /\ Spec
            /\ \A p \in Pools : WF_vars(StaleTimerFires(p))
            /\ \A f \in Polls : WF_vars(PollStep(f))

-----------------------------------------------------------------------------
\* The map and the polls hold values of their types; a label is a block of the chain.
TypeOK ==
    /\ head \in 1 .. MaxBlock /\ {running, pollFailed} \subseteq BOOLEAN
    /\ swaps \in [Pools -> Seq([block : Nat, logIndex : LogIndexes])]
    /\ poolStates \in [Pools -> [version : Nat, block : 1 .. MaxBlock, logIndex : {0} \cup LogIndexes]]
    /\ staleTimer \in [Pools -> BOOLEAN]
    /\ \A f \in Polls : poll[f].stage \in {"none", "slot0", "number", "store"}

\* What labels a state is older than the swap the state shows by no more than the
\* endpoint and the client's cache are behind: overlapping polls, events and timers add
\* nothing, and no event of a block before that replaces the state.
LabelWithinLag ==
    \A p \in Pools :
        LET s == poolStates[p]
        IN  s.version > 0 => s.block + MaxLag + CacheBlocks >= swaps[p][s.version].block

\* Once no more events come in, whether the last ones were lost, or dropped for a
\* label that was too new, or came in the wrong order, and the endpoint has caught up,
\* the polls bring the map of a running observer up to date, as long as they do not fail.
NoMoreEvents == <>[][poolStates' # poolStates => poll' # poll]_vars
EndpointCaughtUp ==
    <>[][\A f \in Polls : poll[f].stage = "slot0" /\ poll'[f].stage = "number"
            => poll'[f].version = Len(swaps[poll[f].pool])]_vars
EventuallyCurrent ==
    NoMoreEvents /\ EndpointCaughtUp /\ []~pollFailed =>
        \A p \in Pools : <>[](running => poolStates[p].version = Len(swaps[p]))

-----------------------------------------------------------------------------
(* Statements of the file's header that the code does not keep.            *)

\* Line 9, "Event ordering: blockNumber + logIndex dedup", and line 5, "always-current":
\* the map never goes back to how a pool looked before.
NeverGoesBack ==
    [][\A p \in Pools : poolStates'[p].version >= poolStates[p].version]_vars

\* Line 10, "heartbeat poll if no events for STALE_TIMEOUT_MS": a running observer
\* always has a timer armed or a poll under way for a pool.
HeartbeatGoesOn == \A p \in Pools : running => staleTimer[p] \/ Fetches(p) # {}
==============================================================================
