------------------------------- MODULE Balances -------------------------------
(***************************************************************************)
(* services/balance-service.ts: the Safe's balances, cached under the      *)
(* block the caller asked for, by the pipeline and the task runner at      *)
(* once.  What a balance is does not matter here, only how old it is: it   *)
(* is the block it was read at.  The caller has its block from the events  *)
(* of RPC_WSS_URL, the balance comes from the nodes behind RPC_HTTP_URL,   *)
(* which may be behind that one and one behind the other.                  *)
(***************************************************************************)
EXTENDS Integers

CONSTANTS
    Assets,          \* tokens read
    Readers,         \* callers that may read at once
    EndpointLag,     \* how many blocks a node behind RPC_HTTP_URL is late
    MaxHead          \* bound: blocks

ASSUME BalancesAssumption == EndpointLag \in Nat /\ MaxHead \in Nat \ {0}

VARIABLES
    chainHead,       \* the chain's last block
    cache,           \* [Assets -> [block, readAt]], or NotCached
    read,            \* [Readers -> what its getBalance is at]
    served           \* [Readers -> the last balance it was given: [asked, readAt]]

balanceVars == <<chainHead, cache, read, served>>

NotCached == [block |-> 0, readAt |-> 0]
NoRead == [stage |-> "none"]

BalancesInit ==
    /\ chainHead = 1
    /\ cache = [a \in Assets |-> NotCached]
    /\ read = [r \in Readers |-> NoRead]
    /\ served = [r \in Readers |-> [asked |-> 0, readAt |-> 0]]

\* Mutant: whatever is cached is served.
AnyCached(a, block) == cache[a] # NotCached

CacheHit(a, block) == cache[a] # NotCached /\ cache[a].block >= block

\* getBalance, up to its first await: the caller names a block it has seen.
Ask(r, a, block) ==
    /\ read[r] = NoRead
    /\ IF CacheHit(a, block)
       THEN /\ served' = [served EXCEPT ![r] = [asked |-> block, readAt |-> cache[a].readAt]]
            /\ UNCHANGED read
       ELSE /\ read' = [read EXCEPT ![r] = [stage |-> "asked", asset |-> a, block |-> block]]
            /\ UNCHANGED served
    /\ UNCHANGED <<chainHead, cache>>

\* External: some node answers from the last block that it has.
NodeAnswers(r) ==
    /\ read[r].stage = "asked"
    /\ \E last \in 1 .. chainHead :
          /\ last + EndpointLag >= chainHead
          /\ read' = [read EXCEPT ![r] = [stage |-> "answered", asset |-> read[r].asset,
                                          block |-> read[r].block, readAt |-> last]]
    /\ UNCHANGED <<chainHead, cache, served>>

\* getBalance after its last await.
StoreBalance(r) ==
    /\ read[r].stage = "answered"
    /\ cache' = [cache EXCEPT ![read[r].asset] = [block |-> read[r].block, readAt |-> read[r].readAt]]
    /\ served' = [served EXCEPT ![r] = [asked |-> read[r].block, readAt |-> read[r].readAt]]
    /\ read' = [read EXCEPT ![r] = NoRead]
    /\ UNCHANGED chainHead

\* Every attempt has failed: the caller's pipeline or task fails.
ReadFails(r) ==
    /\ read[r].stage = "asked"
    /\ read' = [read EXCEPT ![r] = NoRead]
    /\ UNCHANGED <<chainHead, cache, served>>

\* invalidateAll, after a swap or a burn.  Reads under way are stored after it.
InvalidateAll ==
    /\ cache' = [a \in Assets |-> NotCached]
    /\ UNCHANGED <<chainHead, read, served>>

MineBlock ==
    /\ chainHead < MaxHead
    /\ chainHead' = chainHead + 1
    /\ UNCHANGED <<cache, read, served>>

BalancesNext ==
    \/ \E r \in Readers : \/ \E a \in Assets, block \in 1 .. chainHead : Ask(r, a, block)
                          \/ NodeAnswers(r) \/ StoreBalance(r) \/ ReadFails(r)
    \/ InvalidateAll \/ MineBlock

BalancesSpec == BalancesInit /\ [][BalancesNext]_balanceVars

-----------------------------------------------------------------------------
\* A caller is never given a balance that is further behind the block it asked for than
\* the node itself may be: the cache adds nothing to that, though reads overlap, end in
\* any order and are stored under the block asked for and not the one they were
\* answered at, and the cache may go back to an earlier block.
CacheAddsNoLag == \A r \in Readers : served[r].readAt + EndpointLag >= served[r].asked
=============================================================================
