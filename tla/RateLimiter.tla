----------------------------- MODULE RateLimiter -----------------------------
(***************************************************************************)
(* frontend/src/lib/rate-limiter.ts: the token bucket of one address, in   *)
(* front of the routes under app/api/ai.                                   *)
(***************************************************************************)
EXTENDS Integers, Sequences, FiniteSets

CONSTANTS
    WINDOW_MS, MAX_TOKENS,
    EndOfTime        \* bound: the last request's time

ASSUME LimiterAssumption ==
    {WINDOW_MS, MAX_TOKENS} \subseteq Nat \ {0} /\ EndOfTime \in Nat

VARIABLES
    requestTime,     \* Date.now() of the last request
    tokens, lastRefillAt,   \* the bucket
    allowed          \* history: when requests were let through

limiterVars == <<requestTime, tokens, lastRefillAt, allowed>>

\* The first request finds no bucket and gets a full one.
LimiterInit == requestTime = 0 /\ tokens = MAX_TOKENS /\ lastRefillAt = 0 /\ allowed = <<>>

Lower(a, b) == IF a < b THEN a ELSE b

\* Mutant: the refill is reckoned from the last request, refilled or not, again and again.
RefillKept(refill, t) == lastRefillAt

RefillMoved(refill, t) == IF refill > 0 THEN t ELSE lastRefillAt

\* checkRateLimit at time t: null, or the answer 429.
CheckRateLimit(t) ==
    LET refill == ((t - lastRefillAt) * MAX_TOKENS) \div WINDOW_MS
        filled == Lower(MAX_TOKENS, tokens + refill)
    IN  /\ requestTime' = t
        /\ lastRefillAt' = RefillMoved(refill, t)
        /\ IF filled <= 0
           THEN tokens' = filled /\ UNCHANGED allowed
           ELSE tokens' = filled - 1 /\ allowed' = Append(allowed, t)

LimiterNext == \E t \in requestTime .. EndOfTime : CheckRateLimit(t)
LimiterSpec == LimiterInit /\ [][LimiterNext]_limiterVars

-----------------------------------------------------------------------------
\* The requests let through in the window that ends with the i-th of them.
InWindow(i) == Cardinality({j \in 1 .. i : allowed[j] > allowed[i] - WINDOW_MS})

\* No window sees more requests than a full bucket and what refills meanwhile: up to
\* twice the 10 requests per 60 seconds the file's header promises, as a bucket may be
\* full when the window begins, and never more than that.
BurstBounded == \A i \in DOMAIN allowed : InWindow(i) <= 2 * MAX_TOKENS
=============================================================================
