--------------------------- MODULE ArithmeticLemmas ---------------------------
(***************************************************************************)
(* Facts about integer division, and about the sum of a function over a    *)
(* finite set (SumFunctionOnSet of the community module Functions), that   *)
(* the proofs about limits and volumes rest on.                            *)
(*                                                                         *)
(* The library's induction theorems take an operator, which the provers do *)
(* not instantiate.  The inductions below take a set instead: among the    *)
(* finite subsets for which a fact fails there would be a minimal one.     *)
(***************************************************************************)
EXTENDS Integers, FiniteSetsExt, FiniteSetTheorems, TLAPS

\* Quotient and remainder of naturals are what they should be.
LEMMA DivisionDef ==
    ASSUME NEW n \in Nat, NEW d \in Nat \ {0}
    PROVE  n \div d \in Nat /\ n % d \in 0 .. d - 1 /\ n = d * (n \div d) + (n % d)
OBVIOUS

\* Multiplication by a natural is monotone.
LEMMA TimesMonotone ==
    ASSUME NEW v \in Nat, NEW a \in Nat, NEW b \in Nat, a <= b
    PROVE  v * a \in Nat /\ v * b \in Nat /\ v * a <= v * b
<1>1. PICK k \in Nat : b = a + k
  BY b - a \in Nat
<1>2. v * (a + k) = v * a + v * k /\ v * k \in Nat /\ v * a \in Nat
  OBVIOUS
<1> QED BY <1>1, <1>2

\* Division rounds down, and so is monotone.
LEMMA DivisionMonotone ==
    ASSUME NEW n \in Nat, NEW m \in Nat, NEW d \in Nat \ {0}, n <= m
    PROVE  n \div d <= m \div d
<1> DEFINE q == n \div d
           p == m \div d
<1>1. /\ q \in Nat /\ p \in Nat
      /\ n % d \in 0 .. d - 1 /\ m % d \in 0 .. d - 1
      /\ n = d * q + (n % d) /\ m = d * p + (m % d)
  BY DivisionDef
<1>2. SUFFICES ASSUME q > p PROVE FALSE
  BY <1>1
<1> HIDE DEF q, p
<1>3. PICK k \in Nat : q = p + 1 + k
  BY <1>1, <1>2, q - p - 1 \in Nat
<1>4. d * (p + 1 + k) = d * p + d + d * k /\ d * k \in Nat /\ d * p \in Nat
  BY <1>1
<1> QED BY <1>1, <1>3, <1>4

\* Dividing undoes multiplying.
LEMMA DivisionCancels ==
    ASSUME NEW v \in Nat, NEW d \in Nat \ {0}
    PROVE  (v * d) \div d = v
OBVIOUS

\* The next number either continues a block of d numbers or starts a new one.
LEMMA DivisionSuccessor ==
    ASSUME NEW t \in Nat, NEW d \in Nat \ {0}
    PROVE  \/ (t + 1) \div d = t \div d /\ (t + 1) % d = (t % d) + 1
           \/ (t + 1) \div d = (t \div d) + 1 /\ (t + 1) % d = 0
OBVIOUS

\* Adding whole divisors adds to the quotient.
LEMMA DivisionShift ==
    ASSUME NEW t \in Nat, NEW d \in Nat \ {0}, NEW m \in Nat
    PROVE  (t + m * d) \div d = (t \div d) + m
<1> DEFINE u == t + m * d
           q == t \div d
           p == u \div d
<1>1. m * d \in Nat /\ m * d = d * m /\ u \in Nat
  OBVIOUS
<1>2. /\ q \in Nat /\ t % d \in 0 .. d - 1 /\ t = d * q + (t % d)
      /\ p \in Nat /\ u % d \in 0 .. d - 1 /\ u = d * p + (u % d)
  BY <1>1, DivisionDef
<1>3. u = t + d * m
  BY <1>1
<1> SUFFICES p = q + m
  OBVIOUS
<1> HIDE DEF q, p, u
<1>4. d * q \in Nat /\ d * p \in Nat /\ d * m \in Nat
  BY <1>2
<1>5. ASSUME NEW k \in Nat, p = q + m + 1 + k PROVE FALSE
  <2>1. d * (q + m + 1 + k) = d * q + d * m + d + d * k /\ d * k \in Nat
    BY <1>2
  <2> QED BY <1>2, <1>3, <1>4, <1>5, <2>1
<1>6. ASSUME NEW k \in Nat, p + 1 + k = q + m PROVE FALSE
  <2>1. d * (p + 1 + k) = d * p + d + d * k /\ d * k \in Nat
    BY <1>2
  <2>2. d * (q + m) = d * q + d * m
    BY <1>2
  <2> QED BY <1>2, <1>3, <1>4, <1>6, <2>1, <2>2
<1>7. CASE p > q + m
  <2>1. p - (q + m + 1) \in Nat /\ p = q + m + 1 + (p - (q + m + 1))
    BY <1>2, <1>7
  <2> QED BY <1>5, <2>1
<1>8. CASE p < q + m
  <2>1. (q + m) - (p + 1) \in Nat /\ p + 1 + ((q + m) - (p + 1)) = q + m
    BY <1>2, <1>8
  <2> QED BY <1>6, <2>1
<1> QED BY <1>2, <1>7, <1>8

\* Division rounds down, by less than one.
LEMMA FloorBounds ==
    ASSUME NEW n \in Nat, NEW d \in Nat \ {0}
    PROVE  /\ n \div d \in Nat
           /\ (n \div d) * d <= n
           /\ n < (n \div d) * d + d
<1> DEFINE q == n \div d
           r == n % d
<1>1. q \in Nat /\ r \in 0 .. d - 1 /\ n = d * q + r
  BY DivisionDef
<1> HIDE DEF q, r
<1>2. d * q = q * d /\ d * q \in Nat
  BY <1>1
<1>3. q \in Nat /\ q * d <= n /\ n < q * d + d
  BY <1>1, <1>2
<1> QED BY <1>3 DEF q

\* Comparisons may be multiplied by a positive number.
LEMMA TimesStrict ==
    ASSUME NEW a \in Nat, NEW b \in Nat, NEW v \in Nat \ {0}, a < b
    PROVE  a * v < b * v /\ a * v \in Nat /\ b * v \in Nat
<1>1. PICK k \in Nat : b = a + 1 + k
  BY b - a - 1 \in Nat
<1>2. (a + 1 + k) * v = a * v + v + k * v /\ k * v \in Nat /\ a * v \in Nat
  OBVIOUS
<1> QED BY <1>1, <1>2

\* The same, not strictly.
LEMMA TimesWeak ==
    ASSUME NEW a \in Nat, NEW b \in Nat, NEW v \in Nat, a <= b
    PROVE  a * v <= b * v
<1>1. v * a <= v * b
  BY TimesMonotone
<1>2. v * a = a * v /\ v * b = b * v
  OBVIOUS
<1> QED BY <1>1, <1>2

\* What weighting a volume v by the rest of the day leaves out is at most the share e / d of a
\* limit on it, rounded up.
LEMMA WeightLeftOut ==
    ASSUME NEW v \in Nat, NEW limit \in Nat, v <= limit,
           NEW d \in Nat \ {0}, NEW e \in 0 .. d - 1
    PROVE  /\ (v * (d - e)) \div d \in Nat
           /\ (limit * e + d - 1) \div d \in Nat
           /\ v <= (v * (d - e)) \div d + (limit * e + d - 1) \div d
<1> DEFINE n == v * (d - e)
           m == limit * e
           p == n \div d
           q == (m + d - 1) \div d
<1>1. e \in Nat /\ d - e \in Nat /\ n \in Nat /\ m \in Nat
  OBVIOUS
<1>2. n = v * d - v * e /\ v * d \in Nat /\ v * e \in Nat
  BY <1>1
<1>3. v * e <= m
  BY <1>1, TimesWeak
<1> HIDE DEF n, m
<1>4. p \in Nat /\ n < p * d + d /\ p * d \in Nat
  BY <1>1, FloorBounds
<1>5. m + d - 1 \in Nat
  BY <1>1
<1>6. q \in Nat /\ m + d - 1 < q * d + d /\ q * d \in Nat
  BY <1>5, FloorBounds
<1> HIDE DEF p, q
<1>7. v * d < p * d + q * d + d
  BY <1>1, <1>2, <1>3, <1>4, <1>6
<1>8. v <= p + q
  <2>1. SUFFICES ASSUME v >= p + q + 1 PROVE FALSE
    BY <1>4, <1>6
  <2>2. p + q + 1 \in Nat
    BY <1>4, <1>6
  <2>3. (p + q + 1) * d <= v * d
    BY <2>1, <2>2, TimesWeak
  <2>4. (p + q + 1) * d = p * d + q * d + d
    BY <1>4, <1>6
  <2> QED BY <1>2, <1>4, <1>6, <1>7, <2>3, <2>4
<1> QED BY <1>4, <1>6, <1>8 DEF n, m, p, q

-----------------------------------------------------------------------------
(* Sums.                                                                   *)

\* The element MapThenFoldSet takes next.
One(s) == CHOOSE x \in s : TRUE

\* g holds the partial sums SumFunctionOnSet computes for the subsets of U.
Sums(f, g, U) ==
    g = [s \in SUBSET U |-> IF s = {} THEN 0 ELSE f[One(s)] + g[s \ {One(s)}]]

\* What CHOOSE takes from a set that is not empty belongs to it.
LEMMA OneIsMember ==
    ASSUME NEW s, s # {}
    PROVE  One(s) \in s
BY DEF One

\* The library's fold is the last entry of a table of partial sums.
LEMMA SumIsPartialSum ==
    ASSUME NEW f, NEW S
    PROVE  SumFunctionOnSet(f, S) = (CHOOSE g : Sums(f, g, S))[S]
BY Zenon DEF SumFunctionOnSet, FoldFunctionOnSet, MapThenFoldSet, Sums, One

\* Every nonempty collection of finite subsets has a minimal member.
LEMMA MinimalSubset ==
    ASSUME NEW U, IsFiniteSet(U), NEW T \in SUBSET (SUBSET U), T # {}
    PROVE  \E X \in T : \A Y \in T : Y \subseteq X => Y = X
<1>1. T \subseteq FiniteSubsetsOf(U)
  BY FS_FiniteSubsetsOfFinite
<1>2. IsWellFoundedOn(StrictSubsetOrdering(U), FiniteSubsetsOf(U))
  BY FS_StrictSubsetOrderingWellFounded
<1>3. PICK X \in T : \A Y \in T : ~ (<<Y, X>> \in StrictSubsetOrdering(U))
  BY <1>1, <1>2, WFMin
<1>4. \A Y \in T : Y \subseteq X => Y = X
  BY <1>3 DEF StrictSubsetOrdering
<1> QED BY <1>4

\* Two tables of partial sums agree where both are defined.
LEMMA SumsUnique ==
    ASSUME NEW f, NEW g, NEW h, NEW U, NEW V, IsFiniteSet(U),
           Sums(f, g, U), Sums(f, h, V)
    PROVE  \A s \in SUBSET U : s \subseteq V => g[s] = h[s]
<1> DEFINE T == {s \in SUBSET U : s \subseteq V /\ g[s] # h[s]}
<1>1. SUFFICES ASSUME T # {} PROVE FALSE
  OBVIOUS
<1>2. PICK X \in T : \A Y \in T : Y \subseteq X => Y = X
  <2>1. T \in SUBSET (SUBSET U)
    OBVIOUS
  <2> HIDE DEF T
  <2> QED BY <1>1, <2>1, MinimalSubset
<1>3. X \in SUBSET U /\ X \in SUBSET V /\ g[X] # h[X]
  OBVIOUS
<1>4. X # {}
  BY <1>3 DEF Sums
<1> DEFINE Y == X \ {One(X)}
<1>5. One(X) \in X /\ Y \in SUBSET U /\ Y \in SUBSET V /\ Y \subseteq X /\ Y # X
  BY <1>3, <1>4, OneIsMember
<1>6. g[Y] = h[Y]
  BY <1>2, <1>5
<1>7. g[X] = f[One(X)] + g[Y] /\ h[X] = f[One(X)] + h[Y]
  BY <1>3, <1>4 DEF Sums
<1> QED BY <1>3, <1>6, <1>7

\* A table of partial sums exists for every finite set.
LEMMA SumsExist ==
    ASSUME NEW f, NEW U, IsFiniteSet(U)
    PROVE  \E g : Sums(f, g, U)
<1> DEFINE T == {X \in SUBSET U : ~ \E g : Sums(f, g, X)}
<1>1. SUFFICES ASSUME T # {} PROVE FALSE
  OBVIOUS
<1>2. PICK X \in T : \A Y \in T : Y \subseteq X => Y = X
  <2>1. T \in SUBSET (SUBSET U)
    OBVIOUS
  <2> HIDE DEF T
  <2> QED BY <1>1, <2>1, MinimalSubset
<1>3. X \in SUBSET U /\ IsFiniteSet(X)
  BY FS_Subset
<1> DEFINE G(s) == CHOOSE g : Sums(f, g, s)
           Val(s) == IF s = {} THEN 0 ELSE f[One(s)] + G(s \ {One(s)})[s \ {One(s)}]
           g == [s \in SUBSET X |-> Val(s)]
<1>4. ASSUME NEW s \in SUBSET X, s # X
      PROVE  Sums(f, G(s), s)
  BY <1>2, <1>3, <1>4
<1>5. ASSUME NEW s \in SUBSET X, s # X
      PROVE  g[s] = G(s)[s]
  <2>1. Sums(f, G(s), s)
    BY <1>4, <1>5
  <2>2. g[s] = Val(s)
    OBVIOUS
  <2>3. CASE s = {}
    BY <2>1, <2>2, <2>3 DEF Sums
  <2>4. CASE s # {}
    <3> DEFINE r == s \ {One(s)}
    <3>1. One(s) \in s /\ r \in SUBSET s /\ r \in SUBSET X /\ r # X
      BY <2>4, OneIsMember, <1>5
    <3>2. Sums(f, G(r), r) /\ IsFiniteSet(r)
      BY <1>3, <1>4, <3>1, FS_Subset
    <3> HIDE DEF G
    <3>3. G(r)[r] = G(s)[r]
      BY <2>1, <3>1, <3>2, SumsUnique
    <3>4. G(s)[s] = f[One(s)] + G(s)[r]
      BY <2>1, <2>4 DEF Sums
    <3> QED BY <2>2, <2>4, <3>3, <3>4
  <2> QED BY <2>3, <2>4
<1> HIDE DEF G
<1>6. ASSUME NEW s \in SUBSET X, s # {}
      PROVE  g[s] = f[One(s)] + g[s \ {One(s)}]
  <2>1. One(s) \in s /\ s \ {One(s)} \in SUBSET X /\ s \ {One(s)} # X
    BY <1>6, OneIsMember
  <2> QED BY <1>5, <1>6, <2>1
<1>7. g[{}] = 0
  OBVIOUS
<1>8. \A s \in SUBSET X : g[s] = IF s = {} THEN 0 ELSE f[One(s)] + g[s \ {One(s)}]
  BY <1>6, <1>7
<1>9. g = [s \in SUBSET X |-> g[s]]
  OBVIOUS
<1> HIDE DEF g
<1>10. Sums(f, g, X)
  BY <1>8, <1>9 DEF Sums
<1> QED BY <1>2, <1>10

\* The table SumFunctionOnSet reads is one of partial sums.
LEMMA TableOfSums ==
    ASSUME NEW f, NEW S, IsFiniteSet(S)
    PROVE  \E g : Sums(f, g, S) /\ SumFunctionOnSet(f, S) = g[S]
BY SumIsPartialSum, SumsExist

\* Any table of partial sums for U has the sums of all its subsets.
LEMMA SumInTable ==
    ASSUME NEW f, NEW g, NEW U, IsFiniteSet(U), Sums(f, g, U), NEW S \in SUBSET U
    PROVE  SumFunctionOnSet(f, S) = g[S]
<1>1. IsFiniteSet(S)
  BY FS_Subset
<1>2. PICK h : Sums(f, h, S) /\ SumFunctionOnSet(f, S) = h[S]
  BY <1>1, TableOfSums
<1>3. h[S] = g[S]
  BY <1>1, <1>2, SumsUnique
<1> QED BY <1>2, <1>3

\* The sum over the empty set is zero.
LEMMA SumEmpty ==
    ASSUME NEW f
    PROVE  SumFunctionOnSet(f, {}) = 0
<1>1. PICK g : Sums(f, g, {}) /\ SumFunctionOnSet(f, {}) = g[{}]
  BY TableOfSums, FS_EmptySet
<1> QED BY <1>1 DEF Sums

\* The elements are added in the order CHOOSE gives.
LEMMA SumByChoice ==
    ASSUME NEW f, NEW S, IsFiniteSet(S), S # {}
    PROVE  SumFunctionOnSet(f, S) = f[One(S)] + SumFunctionOnSet(f, S \ {One(S)})
<1>1. PICK g : Sums(f, g, S) /\ SumFunctionOnSet(f, S) = g[S]
  BY TableOfSums
<1>2. S \ {One(S)} \in SUBSET S
  OBVIOUS
<1>3. SumFunctionOnSet(f, S \ {One(S)}) = g[S \ {One(S)}]
  BY <1>1, <1>2, SumInTable
<1>4. g[S] = f[One(S)] + g[S \ {One(S)}]
  BY <1>1 DEF Sums
<1> QED BY <1>1, <1>3, <1>4

\* Sums of naturals are naturals.
LEMMA SumNat ==
    ASSUME NEW f, NEW U, IsFiniteSet(U), \A x \in U : f[x] \in Nat
    PROVE  \A S \in SUBSET U : SumFunctionOnSet(f, S) \in Nat
<1> DEFINE T == {S \in SUBSET U : SumFunctionOnSet(f, S) \notin Nat}
<1>1. SUFFICES ASSUME T # {} PROVE FALSE
  OBVIOUS
<1>2. PICK X \in T : \A Y \in T : Y \subseteq X => Y = X
  <2>1. T \in SUBSET (SUBSET U)
    OBVIOUS
  <2> HIDE DEF T
  <2> QED BY <1>1, <2>1, MinimalSubset
<1>3. X \in SUBSET U /\ IsFiniteSet(X) /\ SumFunctionOnSet(f, X) \notin Nat
  BY FS_Subset
<1>4. X # {}
  BY <1>3, SumEmpty
<1> DEFINE Y == X \ {One(X)}
<1>5. One(X) \in X /\ One(X) \in U /\ Y \in SUBSET U /\ Y \subseteq X /\ Y # X
  BY <1>3, <1>4, OneIsMember
<1>6. SumFunctionOnSet(f, Y) \in Nat
  BY <1>2, <1>5
<1>7. SumFunctionOnSet(f, X) = f[One(X)] + SumFunctionOnSet(f, Y)
  BY <1>3, <1>4, SumByChoice
<1>8. f[One(X)] \in Nat
  BY <1>5
<1> QED BY <1>3, <1>6, <1>7, <1>8

\* Any element may be added last: addition commutes.
LEMMA SumRemove ==
    ASSUME NEW f, NEW U, IsFiniteSet(U), \A x \in U : f[x] \in Nat
    PROVE  \A S \in SUBSET U : \A x \in S :
              SumFunctionOnSet(f, S) = f[x] + SumFunctionOnSet(f, S \ {x})
<1> DEFINE Right(S) == \A x \in S : SumFunctionOnSet(f, S) = f[x] + SumFunctionOnSet(f, S \ {x})
           T == {S \in SUBSET U : ~Right(S)}
<1>1. SUFFICES ASSUME T # {} PROVE FALSE
  OBVIOUS
<1>2. PICK X \in T : \A Y \in T : Y \subseteq X => Y = X
  <2>1. T \in SUBSET (SUBSET U)
    OBVIOUS
  <2> HIDE DEF T
  <2> QED BY <1>1, <2>1, MinimalSubset
<1>3. X \in SUBSET U /\ IsFiniteSet(X)
  BY FS_Subset
<1>4. PICK x \in X : SumFunctionOnSet(f, X) # f[x] + SumFunctionOnSet(f, X \ {x})
  BY <1>2
<1> DEFINE c == One(X)
           Y == X \ {c}
           Z == X \ {x}
           W == Y \ {x}
<1>5. c \in X
  BY <1>4, OneIsMember
<1>6. SumFunctionOnSet(f, X) = f[c] + SumFunctionOnSet(f, Y)
  BY <1>3, <1>4, SumByChoice
<1>7. x # c
  BY <1>4, <1>6
<1> HIDE DEF c
<1>8. /\ Y \in SUBSET U /\ Y \subseteq X /\ Y # X /\ x \in Y
      /\ Z \in SUBSET U /\ Z \subseteq X /\ Z # X /\ c \in Z
      /\ W = Z \ {c} /\ W \in SUBSET U
  BY <1>3, <1>4, <1>5, <1>7
<1>9. SumFunctionOnSet(f, Y) = f[x] + SumFunctionOnSet(f, W)
  BY <1>2, <1>8
<1>10. SumFunctionOnSet(f, Z) = f[c] + SumFunctionOnSet(f, W)
  <2>1. Right(Z)
    BY <1>2, <1>8
  <2> QED BY <1>8, <2>1
<1>11. f[x] \in Nat /\ f[c] \in Nat /\ SumFunctionOnSet(f, W) \in Nat
  BY <1>3, <1>4, <1>5, <1>8, SumNat
<1> QED BY <1>4, <1>6, <1>9, <1>10, <1>11

\* Only the values on the set matter.
LEMMA SumCongruent ==
    ASSUME NEW f, NEW h, NEW U, IsFiniteSet(U), \A x \in U : f[x] = h[x]
    PROVE  SumFunctionOnSet(f, U) = SumFunctionOnSet(h, U)
<1>1. PICK g : Sums(f, g, U) /\ SumFunctionOnSet(f, U) = g[U]
  BY TableOfSums
<1>2. \A s \in SUBSET U : s # {} => f[One(s)] = h[One(s)]
  BY OneIsMember
<1>3. Sums(h, g, U)
  <2>1. \A s \in SUBSET U :
           g[s] = IF s = {} THEN 0 ELSE h[One(s)] + g[s \ {One(s)}]
    BY <1>1, <1>2 DEF Sums
  <2>2. g = [s \in SUBSET U |-> g[s]]
    BY <1>1 DEF Sums
  <2> QED BY <2>1, <2>2 DEF Sums
<1>4. U \in SUBSET U
  OBVIOUS
<1> QED BY <1>1, <1>3, <1>4, SumInTable

\* The sum over two disjoint sets is the sum of their sums.
LEMMA SumUnion ==
    ASSUME NEW f, NEW U, IsFiniteSet(U), \A x \in U : f[x] \in Nat,
           NEW A \in SUBSET U
    PROVE  \A B \in SUBSET U : A \cap B = {} =>
              SumFunctionOnSet(f, A \cup B) = SumFunctionOnSet(f, A) + SumFunctionOnSet(f, B)
<1> DEFINE Right(B) == SumFunctionOnSet(f, A \cup B) = SumFunctionOnSet(f, A) + SumFunctionOnSet(f, B)
           T == {B \in SUBSET U : A \cap B = {} /\ ~Right(B)}
<1>1. SUFFICES ASSUME T # {} PROVE FALSE
  OBVIOUS
<1>2. PICK X \in T : \A Y \in T : Y \subseteq X => Y = X
  <2>1. T \in SUBSET (SUBSET U)
    OBVIOUS
  <2> HIDE DEF T
  <2> QED BY <1>1, <2>1, MinimalSubset
<1>3. X \in SUBSET U /\ A \cap X = {} /\ ~Right(X)
  BY <1>2
<1>4. SumFunctionOnSet(f, A) \in Nat
  BY SumNat
<1>5. X # {}
  <2>1. ASSUME X = {} PROVE Right(X)
    <3>1. A \cup X = A
      BY <2>1
    <3> QED BY <1>4, <2>1, <3>1, SumEmpty
  <2> QED BY <1>3, <2>1
<1>6. PICK x \in X : TRUE
  BY <1>5
<1> DEFINE Y == X \ {x}
<1>7. /\ Y \in SUBSET U /\ Y \subseteq X /\ Y # X /\ A \cap Y = {} /\ x \in U
      /\ (A \cup X) \ {x} = A \cup Y /\ A \cup X \in SUBSET U /\ x \in A \cup X
  BY <1>3, <1>6
<1>8. Right(Y)
  <2>1. Y \notin T
    BY <1>2, <1>7
  <2> QED BY <1>7, <2>1
<1>9. SumFunctionOnSet(f, X) = f[x] + SumFunctionOnSet(f, Y)
  BY <1>3, <1>6, SumRemove
<1>10. SumFunctionOnSet(f, A \cup X) = f[x] + SumFunctionOnSet(f, A \cup Y)
  <2>1. SumFunctionOnSet(f, A \cup X) = f[x] + SumFunctionOnSet(f, (A \cup X) \ {x})
    BY <1>7, SumRemove
  <2> QED BY <1>7, <2>1
<1>11. f[x] \in Nat /\ SumFunctionOnSet(f, Y) \in Nat
  BY <1>7, SumNat
<1> QED BY <1>3, <1>4, <1>8, <1>9, <1>10, <1>11

\* A larger set has no smaller sum.
LEMMA SumMonotone ==
    ASSUME NEW f, NEW U, IsFiniteSet(U), \A x \in U : f[x] \in Nat, NEW S \in SUBSET U
    PROVE  /\ SumFunctionOnSet(f, S) \in Nat /\ SumFunctionOnSet(f, U) \in Nat
           /\ SumFunctionOnSet(f, S) <= SumFunctionOnSet(f, U)
<1> DEFINE R == U \ S
<1>1. R \in SUBSET U /\ S \cap R = {} /\ S \cup R = U /\ U \in SUBSET U
  OBVIOUS
<1> HIDE DEF R
<1>2. SumFunctionOnSet(f, S \cup R) = SumFunctionOnSet(f, S) + SumFunctionOnSet(f, R)
  BY <1>1, SumUnion
<1>3. /\ SumFunctionOnSet(f, S) \in Nat /\ SumFunctionOnSet(f, R) \in Nat
      /\ SumFunctionOnSet(f, U) \in Nat
  BY <1>1, SumNat
<1>4. SumFunctionOnSet(f, U) = SumFunctionOnSet(f, S) + SumFunctionOnSet(f, R)
  BY <1>1, <1>2
<1> QED BY <1>3, <1>4

\* A finite set of numbers that is not empty has a largest one, and Max finds it.
LEMMA MaxIsLargest ==
    ASSUME NEW U, IsFiniteSet(U), U # {}, \A x \in U : x \in Int
    PROVE  Max(U) \in U /\ \A x \in U : Max(U) >= x
<1> DEFINE HasLargest(S) == \E m \in S : \A x \in S : m >= x
           T == {S \in SUBSET U : S # {} /\ ~HasLargest(S)}
<1>1. SUFFICES HasLargest(U)
  <2>1. ASSUME NEW m \in U, \A x \in U : m >= x
        PROVE  Max(U) \in U /\ \A x \in U : Max(U) >= x
    BY <2>1, Zenon DEF Max
  <2> QED BY <2>1
<1>2. SUFFICES ASSUME T # {} PROVE FALSE
  <2>1. U \notin T => HasLargest(U)
    BY Zenon DEF T
  <2> QED BY <2>1
<1>3. PICK X \in T : \A Y \in T : Y \subseteq X => Y = X
  <2>1. T \in SUBSET (SUBSET U)
    OBVIOUS
  <2> HIDE DEF T
  <2> QED BY <1>2, <2>1, MinimalSubset
<1>4. X \in SUBSET U /\ X # {} /\ ~HasLargest(X)
  BY <1>3
<1>5. PICK x \in X : x \in Int
  BY <1>4
<1> DEFINE Y == X \ {x}
<1>6. Y # {}
  <2>1. ASSUME Y = {} PROVE HasLargest(X)
    <3>1. \A y \in X : x >= y
      BY <1>5, <2>1
    <3> QED BY <1>5, <3>1
  <2> QED BY <1>4, <2>1
<1>7. Y \in SUBSET U /\ Y \subseteq X /\ Y # X
  BY <1>4, <1>5
<1>8. HasLargest(Y)
  BY <1>3, <1>6, <1>7
<1>9. PICK m \in Y : \A y \in Y : m >= y
  BY <1>8
<1>10. m \in X /\ m \in Int /\ \A y \in X : y \in Int /\ (y = x \/ y \in Y)
  BY <1>4, <1>9
<1> HIDE DEF Y, T
<1>11. HasLargest(X)
  <2>1. CASE m >= x
    <3>1. \A y \in X : m >= y
      BY <1>9, <1>10, <2>1
    <3> QED BY <1>10, <3>1
  <2>2. CASE ~(m >= x)
    <3>1. \A y \in X : x >= y
      BY <1>5, <1>9, <1>10, <2>2
    <3> QED BY <1>5, <3>1
  <2> QED BY <2>1, <2>2
<1> QED BY <1>4, <1>11

\* The same of its smallest.
LEMMA MinIsSmallest ==
    ASSUME NEW U, IsFiniteSet(U), U # {}, \A x \in U : x \in Int
    PROVE  Min(U) \in U /\ \A x \in U : Min(U) <= x
<1> DEFINE f == [x \in U |-> 0 - x]
           V == {0 - x : x \in U}
<1>1. V # {} /\ \A y \in V : y \in Int
  OBVIOUS
<1>2. IsFiniteSet(V)
  <2>1. f \in Surjection(U, V)
    BY DEF Surjection
  <2> HIDE DEF f, V
  <2> QED BY <2>1, FS_Surjection
<1>3. PICK y \in V : \A z \in V : y >= z
  <2> HIDE DEF V
  <2>1. Max(V) \in V /\ \A z \in V : Max(V) >= z
    BY <1>1, <1>2, MaxIsLargest
  <2> QED BY <2>1
<1>4. PICK m \in U : y = 0 - m
  OBVIOUS
<1>5. ASSUME NEW x \in U PROVE m <= x
  <2>1. 0 - x \in V
    OBVIOUS
  <2>2. y >= 0 - x
    BY <1>3, <2>1
  <2> QED BY <1>4, <2>2
<1>6. ASSUME NEW k \in U, \A x \in U : k <= x
      PROVE  Min(U) \in U /\ \A x \in U : Min(U) <= x
  BY <1>6, Zenon DEF Min
<1> QED BY <1>5, <1>6

\* Of some numbers up to n, one is the smallest.
LEMMA LeastOfInterval ==
    ASSUME NEW n \in Nat, NEW T \in SUBSET (0 .. n), T # {}
    PROVE  \E m \in T : \A k \in T : m <= k
<1>1. IsFiniteSet(0 .. n)
  <2>1. 0 \in Int /\ n \in Int
    OBVIOUS
  <2> QED BY <2>1, FS_Interval
<1>2. IsFiniteSet(T)
  BY <1>1, FS_Subset
<1>3. \A x \in T : x \in Int
  OBVIOUS
<1> QED BY <1>2, <1>3, MinIsSmallest
===============================================================================
