------------------------------ MODULE UserProofs ------------------------------
(***************************************************************************)
(* Proofs about the accounts of users and what they stake.  First BetBook, *)
(* for any users, bets, slips, prices and limits: the combinations of a    *)
(* system bet, the limits of assessBet, what is promised, quoted and paid, *)
(* and what the reports say.  Then Session, for any calls, limit of        *)
(* attempts and clock:                                                     *)
(* a session that was logged out stays out, the attempts are counted, and  *)
(* locks and signed-out accounts open only as they may.                    *)
(***************************************************************************)
EXTENDS BetBook, Session, TotalsProofs

-------------------------------------------------------------------------------
\* Pricing.

\* A fraction that is not greater is not rounded to more; one greater by a half at most
\* is rounded to one more at most.
LEMMA RoundedOrder ==
    ASSUME NEW a \in Nat, NEW b \in Nat \ {0}, NEW c \in Nat, NEW e \in Nat \ {0}
    PROVE  /\ a * e <= c * b => Rounded(Frac(a, b)) <= Rounded(Frac(c, e))
           /\ 2 * (a * e) <= 2 * (c * b) + b * e
                => Rounded(Frac(a, b)) <= Rounded(Frac(c, e)) + 1
<1> DEFINE r == Rounded(Frac(a, b))
           v == Rounded(Frac(c, e))
<1>1. /\ r \in Nat /\ 2 * b * r <= 2 * a + b
      /\ v \in Nat /\ 2 * c + e < 2 * e * (v + 1)
  BY RoundedBounds
<1> HIDE DEF r, v
<1> DEFINE ae == a * e
           cb == c * b
           be == b * e
<1>2. ae \in Nat /\ cb \in Nat /\ be \in Nat
  OBVIOUS
<1>3. ASSUME NEW k \in Nat, r >= k PROVE be * (2 * k) <= 2 * ae + be
  <2>1. (2 * b) * k <= (2 * b) * r
    <3>1. 2 * b \in Nat /\ k <= r
      BY <1>1, <1>3
    <3> QED BY <1>1, <3>1, Times
  <2>2. 2 * b * k <= 2 * a + b
    BY <1>1, <2>1
  <2>3. e * (2 * b * k) <= e * (2 * a + b)
    BY <2>2, Times
  <2>4. e * (2 * b * k) = be * (2 * k) /\ e * (2 * a + b) = 2 * ae + be
    OBVIOUS
  <2> QED BY <2>3, <2>4
<1>4. b * (2 * c + e) + b <= be * (2 * (v + 1))
  <2>1. b * (2 * c + e + 1) <= b * (2 * e * (v + 1))
    BY <1>1, Times
  <2>2. b * (2 * c + e + 1) = b * (2 * c + e) + b /\ b * (2 * e * (v + 1)) = be * (2 * (v + 1))
    BY <1>1
  <2> QED BY <2>1, <2>2
<1>5. b * (2 * c + e) = 2 * cb + be /\ be * (2 * (v + 1)) = 2 * (be * v) + 2 * be
      /\ be * (2 * (v + 2)) = 2 * (be * v) + 4 * be /\ be * v \in Nat
  BY <1>1
<1>6. ASSUME ae <= cb PROVE r <= v
  <2> SUFFICES ASSUME r >= v + 1 PROVE FALSE
    BY <1>1
  <2>1. be * (2 * (v + 1)) <= 2 * ae + be
    BY <1>1, <1>3
  <2> HIDE DEF ae, be, cb
  <2> QED BY <1>2, <1>4, <1>5, <1>6, <2>1
<1>7. ASSUME 2 * ae <= 2 * cb + be PROVE r <= v + 1
  <2> SUFFICES ASSUME r >= v + 2 PROVE FALSE
    BY <1>1
  <2>1. be * (2 * (v + 2)) <= 2 * ae + be
    BY <1>1, <1>3
  <2> HIDE DEF ae, be, cb
  <2> QED BY <1>2, <1>4, <1>5, <1>7, <2>1
<1> QED BY <1>6, <1>7 DEF r, v

\* What is left after a part is sold is not more than there was.
LEMMA RemainingType ==
    ASSUME NEW s \in Nat, NEW p \in 0 .. Whole
    PROVE  /\ Rounded(Remaining(s, p)) \in Nat
           /\ Rounded(Remaining(s, p)) <= s
BY UnitsAssumption, Shares DEF Remaining

\* The two halves of a sale, each rounded, make up the stake or a unit more.
LEMMA SaleAddsUp ==
    ASSUME NEW s \in Nat, NEW p \in 0 .. Whole
    PROVE  Rounded(Remaining(s, p)) + Rounded(Remaining(s, Whole - p)) - s \in 0 .. 1
<1>1. Whole \in Nat \ {0}
  BY UnitsAssumption
<1>2. Whole - (Whole - p) = p
  BY <1>1
<1>3. Rounded(Frac(s * p, Whole)) + Rounded(Frac(s * (Whole - p), Whole)) - s \in 0 .. 1
  BY <1>1, Shares
<1>4. /\ Rounded(Frac(s * p, Whole)) \in Nat
      /\ Rounded(Frac(s * (Whole - p), Whole)) \in Nat
  BY <1>1, Shares
<1> DEFINE y == Rounded(Frac(s * (Whole - p), Whole))
           z == Rounded(Frac(s * p, Whole))
<1>5. Rounded(Remaining(s, p)) = y /\ Rounded(Remaining(s, Whole - p)) = z
  BY <1>2 DEF Remaining
<1> HIDE DEF y, z
<1>6. y \in Nat /\ z \in Nat
  BY <1>4 DEF y, z
<1>7. z + y - s \in 0 .. 1
  BY <1>3 DEF y, z
<1>8. y + z - s \in 0 .. 1
  BY <1>6, <1>7
<1> QED BY <1>5, <1>8

-------------------------------------------------------------------------------
\* System bets.

\* The legs from a place on, k of them at a time.
LegSets(start, n, k) == {c \in SUBSET (start .. n) : Cardinality(c) = k}

\* To choose k legs is to choose the first and k - 1 of those after it.
LEMMA FirstAndRest ==
    ASSUME NEW n \in Nat, NEW start \in 1 .. n + 1, NEW k \in Nat \ {0}
    PROVE  LegSets(start, n, k)
             = UNION {{{i} \cup c : c \in LegSets(i + 1, n, k - 1)} : i \in start .. n}
<1>1. ASSUME NEW c \in LegSets(start, n, k)
      PROVE  \E i \in start .. n : \E d \in LegSets(i + 1, n, k - 1) : c = {i} \cup d
  <2>1. c \subseteq start .. n /\ Cardinality(c) = k
    BY DEF LegSets
  <2>2. IsFiniteSet(c) /\ c # {}
    <3>1. IsFiniteSet(start .. n)
      BY FS_Interval
    <3> QED BY <2>1, <3>1, FS_Subset, FS_EmptySet
  <2>3. PICK i \in c : \A j \in c : ~(<<j, i>> \in OpToRel(<, Nat))
    <3>1. c \subseteq Nat
      BY <2>1
    <3> QED BY <2>2, <3>1, WFMin, NatLessThanWellFounded
  <2>4. \A j \in c : i <= j
    <3>1. \A j \in c : j \in Nat
      BY <2>1
    <3>2. \A j \in c : ~(j < i)
      BY <2>3, <3>1 DEF OpToRel
    <3> QED BY <3>1, <3>2
  <2> DEFINE d == c \ {i}
  <2>5. d \subseteq i + 1 .. n
    BY <2>1, <2>4
  <2>6. Cardinality(d) = k - 1
    BY <2>1, <2>2, FS_RemoveElement
  <2>7. d \in LegSets(i + 1, n, k - 1)
    BY <2>5, <2>6 DEF LegSets
  <2>8. c = {i} \cup d /\ i \in start .. n
    BY <2>1
  <2> QED BY <2>7, <2>8
<1>2. ASSUME NEW i \in start .. n, NEW d \in LegSets(i + 1, n, k - 1)
      PROVE  {i} \cup d \in LegSets(start, n, k)
  <2>1. d \subseteq i + 1 .. n /\ Cardinality(d) = k - 1
    BY DEF LegSets
  <2>2. IsFiniteSet(d)
    <3>1. IsFiniteSet(i + 1 .. n)
      BY FS_Interval
    <3> QED BY <2>1, <3>1, FS_Subset
  <2>3. i \notin d /\ {i} \cup d \subseteq start .. n
    BY <2>1
  <2>4. Cardinality(d \cup {i}) = k
    BY <2>1, <2>2, <2>3, FS_AddElement
  <2>5. d \cup {i} = {i} \cup d
    OBVIOUS
  <2> QED BY <2>3, <2>4, <2>5 DEF LegSets
<1> QED BY <1>1, <1>2

\* One level of the recursion of getSystemBetCombinations, from the one below.
Level(n, left, below) ==
    [start \in 1 .. n + 1 |->
        IF left = 0 THEN {{}}
        ELSE UNION {{{i} \cup c : c \in below[i + 1]} : i \in start .. n}]

\* f is that recursion.
Combines(n, size, f) == f = [left \in 0 .. size |-> Level(n, left, f[left - 1])]

LEMMA CombinationsDef ==
    ASSUME NEW n, NEW size
    PROVE  Combinations(n, size) = (CHOOSE f : Combines(n, size, f))[size][1]
BY DEF Combinations, Combines, Level

\* What it should compute: a function of left and start.
AllLegSets(n, size) == [left \in 0 .. size |-> [start \in 1 .. n + 1 |-> LegSets(start, n, left)]]

\* The choices of one level are made of those of the level below.
LEMMA LevelLegSets ==
    ASSUME NEW n \in Nat, NEW left \in Nat, NEW below,
           left # 0 => \A start \in 1 .. n + 1 : below[start] = LegSets(start, n, left - 1)
    PROVE  Level(n, left, below) = [start \in 1 .. n + 1 |-> LegSets(start, n, left)]
<1> DEFINE Next1(start) == IF left = 0 THEN {{}}
                           ELSE UNION {{{i} \cup c : c \in below[i + 1]} : i \in start .. n}
<1>1. ASSUME NEW start \in 1 .. n + 1
      PROVE  LegSets(start, n, left) = Next1(start)
  <2>1. CASE left = 0
    <3>1. \A c \in SUBSET (start .. n) : Cardinality(c) = 0 <=> c = {}
      <4>1. IsFiniteSet(start .. n)
        BY FS_Interval
      <4> QED BY <4>1, FS_Subset, FS_EmptySet
    <3>2. LegSets(start, n, 0) = {{}}
      BY <3>1 DEF LegSets
    <3> QED BY <2>1, <3>2
  <2>2. CASE left # 0
    <3>1. \A i \in start .. n : below[i + 1] = LegSets(i + 1, n, left - 1)
      <4> TAKE i \in start .. n
      <4>1. i + 1 \in 1 .. n + 1
        OBVIOUS
      <4> QED BY <2>2, <4>1
    <3>2. left \in Nat \ {0}
      BY <2>2
    <3>3. LegSets(start, n, left)
            = UNION {{{i} \cup c : c \in LegSets(i + 1, n, left - 1)} : i \in start .. n}
      BY <3>2, FirstAndRest
    <3> QED BY <2>2, <3>1, <3>3
  <2> QED BY <2>1, <2>2
<1> HIDE DEF Next1
<1>2. [start \in 1 .. n + 1 |-> Next1(start)] = [start \in 1 .. n + 1 |-> LegSets(start, n, left)]
  BY <1>1
<1> QED BY <1>2 DEF Level, Next1

\* The choices are a solution of the recursion.
LEMMA CombinesExists ==
    ASSUME NEW n \in Nat, NEW size \in Nat
    PROVE  Combines(n, size, AllLegSets(n, size))
<1> DEFINE g == AllLegSets(n, size)
<1>1. ASSUME NEW left \in 0 .. size
      PROVE  g[left] = Level(n, left, g[left - 1])
  <2>1. g[left] = [start \in 1 .. n + 1 |-> LegSets(start, n, left)]
    BY DEF AllLegSets
  <2>2. left # 0 => \A start \in 1 .. n + 1 : g[left - 1][start] = LegSets(start, n, left - 1)
    <3> HAVE left # 0
    <3>1. left - 1 \in 0 .. size
      OBVIOUS
    <3> QED BY <3>1 DEF AllLegSets
  <2> HIDE DEF g
  <2>3. Level(n, left, g[left - 1]) = [start \in 1 .. n + 1 |-> LegSets(start, n, left)]
    BY <2>2, LevelLegSets
  <2> QED BY <2>1, <2>3
<1>2. g = [left \in 0 .. size |-> g[left]]
  BY DEF AllLegSets
<1> HIDE DEF g
<1>3. g = [left \in 0 .. size |-> Level(n, left, g[left - 1])]
  BY <1>1, <1>2
<1> QED BY <1>3 DEF Combines, g

\* Every solution is: the recursion goes down in left.
LEMMA CombinesUnique ==
    ASSUME NEW n \in Nat, NEW size \in Nat, NEW f, Combines(n, size, f)
    PROVE  \A left \in 0 .. size : f[left] = AllLegSets(n, size)[left]
<1> DEFINE g == AllLegSets(n, size)
           L == {k \in 0 .. size : f[k] # g[k]}
<1> SUFFICES ASSUME L # {} PROVE FALSE
  OBVIOUS
<1>1. \A k \in L : k \in Nat
  OBVIOUS
<1>2. PICK k \in L : \A j \in L : ~(<<j, k>> \in OpToRel(<, Nat))
  <2> HIDE DEF L
  <2> QED BY <1>1, WFMin, NatLessThanWellFounded
<1>3. \A j \in L : ~(j < k)
  BY <1>1, <1>2 DEF OpToRel
<1>4. k \in 0 .. size /\ f[k] # g[k]
  OBVIOUS
<1>5. f[k] = Level(n, k, f[k - 1])
  BY <1>4 DEF Combines
<1>6. g[k] = [start \in 1 .. n + 1 |-> LegSets(start, n, k)]
  BY <1>4 DEF AllLegSets
<1>7. k # 0 => \A start \in 1 .. n + 1 : f[k - 1][start] = LegSets(start, n, k - 1)
  <2> HAVE k # 0
  <2>1. k - 1 \in 0 .. size /\ k - 1 < k
    BY <1>4
  <2>2. k - 1 \notin L
    BY <1>3, <2>1
  <2>3. f[k - 1] = g[k - 1]
    BY <2>1, <2>2
  <2>4. \A start \in 1 .. n + 1 : g[k - 1][start] = LegSets(start, n, k - 1)
    BY <2>1 DEF AllLegSets
  <2> QED BY <2>3, <2>4
<1>8. Level(n, k, f[k - 1]) = [start \in 1 .. n + 1 |-> LegSets(start, n, k)]
  <2>1. k \in Nat
    BY <1>4
  <2> QED BY <1>7, <2>1, LevelLegSets
<1> QED BY <1>4, <1>5, <1>6, <1>8

\* getSystemBetCombinations lists the sets of size legs, each of them, whatever the
\* number of legs.
THEOREM CombinationsComplete ==
    ASSUME NEW n \in Nat, NEW size \in Nat
    PROVE  Combinations(n, size) = {c \in SUBSET (1 .. n) : Cardinality(c) = size}
<1> DEFINE f == CHOOSE h : Combines(n, size, h)
<1>1. Combines(n, size, f)
  <2>1. \E h : Combines(n, size, h)
    BY CombinesExists
  <2> QED BY <2>1
<1> HIDE DEF f
<1>2. f[size][1] = LegSets(1, n, size)
  <2>1. 1 \in 1 .. n + 1 /\ size \in 0 .. size
    OBVIOUS
  <2>2. f[size] = AllLegSets(n, size)[size]
    BY <1>1, <2>1, CombinesUnique
  <2> QED BY <2>1, <2>2 DEF AllLegSets
<1>3. Combinations(n, size) = f[size][1]
  BY CombinationsDef DEF f
<1> QED BY <1>2, <1>3 DEF LegSets

\* A fraction of positive numbers.
Ratios == [num : Nat \ {0}, den : Nat \ {0}]

\* Positive prices combine to positive odds, whatever legs are combined.
LEMMA CombinedType ==
    ASSUME NEW x, NEW S, IsFiniteSet(S), \A i \in S : x[i] \in Nat \ {0}
    PROVE  CombinedOdds(x, S) \in Ratios
<1>1. Units(S) \in Nat \ {0}
  <2> DEFINE f == [i \in S |-> OddsUnit]
  <2>1. \A i \in S : f[i] \in Nat \ {0}
    BY UnitsAssumption
  <2> HIDE DEF f
  <2>2. Product(f, S) \in Nat \ {0}
    BY <2>1, ProductType
  <2> QED BY <2>2 DEF Units, f
<1>2. Product(x, S) \in Nat \ {0}
  BY ProductType
<1> QED BY <1>1, <1>2 DEF CombinedOdds, Frac, Ratios

\* So does a system bet.
LEMMA SystemType ==
    ASSUME NEW x \in Seq(Nat \ {0}), NEW size \in 0 .. Len(x)
    PROVE  SystemOdds(x, size) \in Ratios
<1> DEFINE n == Len(x)
           C == Combinations(n, size)
           f == [c \in C |-> Product(x, c)]
<1>1. n \in Nat /\ DOMAIN x = 1 .. n /\ Cardinality(DOMAIN x) = n
  <2>1. n \in Nat /\ DOMAIN x = 1 .. n
    OBVIOUS
  <2>2. \A m \in Nat : Cardinality(1 .. m) = m
    BY FS_Interval
  <2> QED BY <2>1, <2>2
<1>2. C = {c \in SUBSET (1 .. n) : Cardinality(c) = size}
  BY CombinationsComplete
<1>3. IsFiniteSet(1 .. n) /\ IsFiniteSet(1 .. size) /\ Cardinality(1 .. size) = size
  BY <1>1, FS_Interval
<1>4. IsFiniteSet(C)
  <2>1. IsFiniteSet(SUBSET (1 .. n))
    BY <1>3, FS_SUBSET
  <2>2. C \subseteq SUBSET (1 .. n)
    BY <1>2
  <2> QED BY <2>1, <2>2, FS_Subset
<1>5. C # {}
  <2>1. 1 .. size \in SUBSET (1 .. n)
    BY <1>1
  <2> QED BY <1>2, <1>3, <2>1
<1>6. Cardinality(C) \in Nat \ {0}
  <2> HIDE DEF C
  <2> QED BY <1>4, <1>5, FS_CardinalityType, FS_EmptySet
<1>7. Total(f, C) \in Nat \ {0}
  <2>1. \A c \in C : Product(x, c) \in Nat \ {0}
    <3> TAKE c \in C
    <3>1. c \subseteq 1 .. n /\ IsFiniteSet(c)
      BY <1>2, <1>3, FS_Subset
    <3>2. \A i \in c : x[i] \in Nat \ {0}
      BY <1>1, <3>1
    <3> QED BY <3>1, <3>2, ProductType
  <2> HIDE DEF C
  <2>2. \A c \in C : f[c] \in Nat \ {0}
    BY <2>1
  <2> HIDE DEF f
  <2> QED BY <1>4, <1>5, <2>2, TotalPositive
<1>8. Units(1 .. size) \in Nat \ {0}
  <2>1. \A i \in 1 .. size : [j \in 1 .. size |-> 1][i] \in Nat \ {0}
    OBVIOUS
  <2>2. CombinedOdds([j \in 1 .. size |-> 1], 1 .. size) \in Ratios
    BY <1>3, <2>1, CombinedType
  <2> QED BY <2>2 DEF CombinedOdds, Frac, Ratios
<1>9. Cardinality(C) * Units(1 .. size) \in Nat \ {0}
  <2> HIDE DEF C
  <2> QED BY <1>6, <1>8
<1>10. SystemOdds(x, size) = Frac(Total(f, C), Cardinality(C) * Units(1 .. size))
  BY <1>1 DEF SystemOdds
<1> HIDE DEF C, f
<1> QED BY <1>7, <1>9, <1>10 DEF Frac, Ratios

\* The combined odds of a slip are positive.
LEMMA OddsType ==
    ASSUME NEW type, NEW x \in Seq(Nat \ {0}), NEW size \in 0 .. Len(x)
    PROVE  /\ TotalOdds(type, size, x) \in Ratios
           /\ CombinedOdds(x, DOMAIN x) \in Ratios
<1>1. CombinedOdds(x, DOMAIN x) \in Ratios
  <2>1. Len(x) \in Nat /\ DOMAIN x = 1 .. Len(x) /\ \A i \in DOMAIN x : x[i] \in Nat \ {0}
    OBVIOUS
  <2>2. IsFiniteSet(DOMAIN x)
    BY <2>1, FS_Interval
  <2> QED BY <2>1, <2>2, CombinedType
<1> QED BY <1>1, SystemType DEF TotalOdds

\* The sum, over the ways to choose j of the first i places, of the product there.
ChosenSum(x, i, j) == Total([c \in LegSets(1, i, j) |-> Product(x, c)], LegSets(1, i, j))

\* Ways to choose are finitely many.
LEMMA LegSetsFinite ==
    ASSUME NEW i \in Nat, NEW j
    PROVE  IsFiniteSet(LegSets(1, i, j)) /\ \A c \in LegSets(1, i, j) : IsFiniteSet(c)
<1>1. IsFiniteSet(1 .. i) /\ IsFiniteSet(SUBSET (1 .. i))
  <2>1. IsFiniteSet(1 .. i)
    BY FS_Interval
  <2> QED BY <2>1, FS_SUBSET
<1>2. LegSets(1, i, j) \subseteq SUBSET (1 .. i)
  BY DEF LegSets
<1>3. IsFiniteSet(LegSets(1, i, j))
  BY <1>1, <1>2, FS_Subset
<1>4. \A c \in LegSets(1, i, j) : IsFiniteSet(c)
  BY <1>1, <1>2, FS_Subset
<1> QED BY <1>3, <1>4

\* To choose j of the first i places is to leave out the last, or to add it.
LEMMA LastAndRest ==
    ASSUME NEW i \in Nat \ {0}, NEW j \in Nat \ {0}
    PROVE  LegSets(1, i, j)
             = LegSets(1, i - 1, j) \cup {c \cup {i} : c \in LegSets(1, i - 1, j - 1)}
<1>1. ASSUME NEW c \in LegSets(1, i, j), c \notin LegSets(1, i - 1, j)
      PROVE  \E d \in LegSets(1, i - 1, j - 1) : c = d \cup {i}
  <2>1. c \subseteq 1 .. i /\ Cardinality(c) = j /\ IsFiniteSet(c)
    BY LegSetsFinite DEF LegSets
  <2>2. i \in c
    BY <1>1, <2>1 DEF LegSets
  <2> DEFINE d == c \ {i}
  <2>3. d \subseteq 1 .. i - 1 /\ c = d \cup {i}
    BY <2>1, <2>2
  <2>4. Cardinality(d) = j - 1
    BY <2>1, <2>2, FS_RemoveElement
  <2>5. d \in LegSets(1, i - 1, j - 1)
    BY <2>3, <2>4 DEF LegSets
  <2> QED BY <2>3, <2>5
<1>2. ASSUME NEW d \in LegSets(1, i - 1, j - 1)
      PROVE  d \cup {i} \in LegSets(1, i, j)
  <2>1. d \subseteq 1 .. i - 1 /\ Cardinality(d) = j - 1
    BY DEF LegSets
  <2>2. IsFiniteSet(d) /\ i \notin d
    BY <2>1, LegSetsFinite
  <2>3. Cardinality(d \cup {i}) = j
    BY <2>1, <2>2, FS_AddElement
  <2>4. d \cup {i} \subseteq 1 .. i
    BY <2>1
  <2> QED BY <2>3, <2>4 DEF LegSets
<1>3. LegSets(1, i - 1, j) \subseteq LegSets(1, i, j)
  BY DEF LegSets
<1> QED BY <1>1, <1>2, <1>3

\* Hence the recurrence.
LEMMA ChosenSumStep ==
    ASSUME NEW i \in Nat \ {0}, NEW j \in Nat \ {0},
           NEW x, \A l \in 1 .. i : x[l] \in Nat \ {0}
    PROVE  ChosenSum(x, i, j) = ChosenSum(x, i - 1, j) + x[i] * ChosenSum(x, i - 1, j - 1)
<1> DEFINE A == LegSets(1, i - 1, j)
           D == LegSets(1, i - 1, j - 1)
           add == [c \in D |-> c \cup {i}]
           E == {add[c] : c \in D}
           P == [c \in SUBSET (1 .. i) |-> Product(x, c)]
           Q == [c \in D |-> Product(x, c)]
           R == [c \in D |-> P[add[c]]]
<1>1. /\ A \subseteq SUBSET (1 .. i - 1) /\ D \subseteq SUBSET (1 .. i - 1)
      /\ IsFiniteSet(A) /\ IsFiniteSet(D)
      /\ i - 1 \in Nat /\ 1 .. i - 1 \subseteq 1 .. i /\ i \in 1 .. i /\ i \notin 1 .. i - 1
  <2>1. A \subseteq SUBSET (1 .. i - 1) /\ D \subseteq SUBSET (1 .. i - 1)
    BY DEF LegSets
  <2>2. IsFiniteSet(A) /\ IsFiniteSet(D)
    BY LegSetsFinite
  <2> QED BY <2>1, <2>2
<1>2. LegSets(1, i, j) = A \cup E
  <2>1. E = {c \cup {i} : c \in D}
    OBVIOUS
  <2> HIDE DEF E, add
  <2> QED BY <2>1, LastAndRest
<1>3. \A c \in SUBSET (1 .. i) : IsFiniteSet(c) /\ P[c] = Product(x, c) /\ P[c] \in Nat \ {0}
  <2> TAKE c \in SUBSET (1 .. i)
  <2>1. IsFiniteSet(c)
    <3>1. IsFiniteSet(1 .. i)
      BY FS_Interval
    <3> QED BY <3>1, FS_Subset
  <2>2. Product(x, c) \in Nat \ {0}
    BY <2>1, ProductType
  <2> QED BY <2>1, <2>2
<1>4. A \cap E = {} /\ E \subseteq SUBSET (1 .. i) /\ A \subseteq SUBSET (1 .. i)
  <2> HIDE DEF A, D
  <2>1. \A c \in D : add[c] = c \cup {i} /\ add[c] \subseteq 1 .. i /\ i \in add[c]
    BY <1>1
  <2> HIDE DEF add
  <2>2. \A e \in E : e \subseteq 1 .. i /\ i \in e
    BY <2>1
  <2> HIDE DEF E
  <2>3. \A e \in A : e \subseteq 1 .. i /\ i \notin e
    BY <1>1
  <2> QED BY <2>2, <2>3
<1>5. \A c, d \in D : add[c] = add[d] => c = d
  <2> HIDE DEF D
  <2> TAKE c, d \in D
  <2>1. i \notin c /\ i \notin d
    BY <1>1
  <2>2. add[c] = c \cup {i} /\ add[d] = d \cup {i}
    OBVIOUS
  <2> HIDE DEF add
  <2> QED BY <2>1, <2>2
<1>6. \A c \in D : R[c] = x[i] * Q[c] /\ Q[c] \in Nat /\ R[c] \in Int /\ P[add[c]] = R[c]
  <2> HIDE DEF D
  <2> TAKE c \in D
  <2>1. c \in SUBSET (1 .. i) /\ c \cup {i} \in SUBSET (1 .. i) /\ i \notin c
    BY <1>1
  <2>2. Product(x, c \cup {i}) = x[i] * Product(x, (c \cup {i}) \ {i})
    <3>1. IsFiniteSet(c \cup {i})
      BY <1>3, <2>1
    <3> QED BY <2>1, <3>1, ProductSplit
  <2>3. (c \cup {i}) \ {i} = c
    BY <2>1
  <2>4. add[c] = c \cup {i} /\ Q[c] = Product(x, c) /\ R[c] = P[add[c]]
    OBVIOUS
  <2>5. /\ P[c \cup {i}] = Product(x, c \cup {i}) /\ Product(x, c \cup {i}) \in Nat
        /\ Product(x, c) \in Nat
    BY <1>3, <2>1
  <2> HIDE DEF P, Q, R, add
  <2> QED BY <2>2, <2>3, <2>4, <2>5
<1> HIDE DEF A, D, add
<1>7. IsFiniteSet(E) /\ Total(P, E) = Total(R, D)
  <2>1. (\A c \in D : R[c] \in Int) /\ \A c \in D : P[add[c]] = R[c]
    BY <1>6
  <2> HIDE DEF P, R, E
  <2>2. IsFiniteSet({add[c] : c \in D}) /\ Total(P, {add[c] : c \in D}) = Total(R, D)
    BY <1>1, <1>5, <2>1, TotalShift
  <2> QED BY <2>2 DEF E
<1>8. Total(R, D) = x[i] * Total(Q, D)
  <2>1. x[i] \in Int /\ \A c \in D : Q[c] \in Int /\ R[c] = x[i] * Q[c]
    <3>1. x[i] \in Int
      BY <1>1
    <3> HIDE DEF E, P, Q, R
    <3>2. \A c \in D : Q[c] \in Int /\ R[c] = x[i] * Q[c]
      BY <1>6
    <3> QED BY <3>1, <3>2
  <2> HIDE DEF Q, R
  <2> QED BY <1>1, <2>1, TotalScale
<1> HIDE DEF E
<1>9. Total(P, A \cup E) = Total(P, A) + Total(P, E)
  <2>1. \A c \in A \cup E : P[c] \in Int
    <3> HIDE DEF P
    <3> QED BY <1>3, <1>4
  <2> HIDE DEF P
  <2> QED BY <1>1, <1>4, <1>7, <2>1, TotalUnion
<1>10. Total(P, A) = ChosenSum(x, i - 1, j)
  <2> DEFINE G == [c \in A |-> Product(x, c)]
  <2>1. \A c \in A : P[c] = G[c]
    BY <1>3, <1>4
  <2> HIDE DEF P, G
  <2>2. Total(P, A) = Total(G, A)
    BY <1>1, <2>1, TotalSame
  <2> QED BY <2>2 DEF ChosenSum, A, G
<1>11. Total(P, A \cup E) = ChosenSum(x, i, j)
  <2> DEFINE G == [c \in LegSets(1, i, j) |-> Product(x, c)]
  <2>1. \A c \in A \cup E : P[c] = G[c]
    <3>1. \A c \in A \cup E : c \in SUBSET (1 .. i) /\ c \in LegSets(1, i, j)
      BY <1>2, <1>4
    <3> QED BY <1>3, <3>1
  <2>2. IsFiniteSet(A \cup E)
    BY <1>1, <1>7, FS_Union
  <2> HIDE DEF P, G
  <2>3. Total(P, A \cup E) = Total(G, A \cup E)
    BY <2>1, <2>2, TotalSame
  <2> QED BY <1>2, <2>3 DEF ChosenSum, G
<1>12. Total(Q, D) = ChosenSum(x, i - 1, j - 1)
  BY DEF ChosenSum, D
<1> HIDE DEF P, Q, R
<1> QED BY <1>7, <1>8, <1>9, <1>10, <1>11, <1>12

\* Nothing to choose is one way, nothing to choose from is none.
LEMMA ChosenSumEnds ==
    ASSUME NEW x
    PROVE  /\ \A i \in Nat : ChosenSum(x, i, 0) = 1
           /\ \A j \in Nat \ {0} : ChosenSum(x, 0, j) = 0
<1>1. ASSUME NEW i \in Nat PROVE ChosenSum(x, i, 0) = 1
  <2>1. LegSets(1, i, 0) = {{}}
    <3>1. IsFiniteSet(1 .. i)
      BY FS_Interval
    <3>2. \A c \in SUBSET (1 .. i) : Cardinality(c) = 0 <=> c = {}
      BY <3>1, FS_Subset, FS_EmptySet
    <3> QED BY <3>2 DEF LegSets
  <2> DEFINE f == [c \in {{}} |-> Product(x, c)]
  <2>2. f[{}] = 1
    BY ProductEmpty
  <2> HIDE DEF f
  <2>3. \A c \in {{}} : f[c] = 1
    BY <2>2
  <2>4. IsFiniteSet({{}}) /\ Cardinality({{}}) = 1
    BY FS_Singleton
  <2>5. Total(f, {{}}) = Cardinality({{}}) * 1
    <3>1. 1 \in Int
      OBVIOUS
    <3> QED BY <2>3, <2>4, <3>1, TotalConstant
  <2>6. Total(f, {{}}) = 1
    BY <2>4, <2>5
  <2> QED BY <2>1, <2>6 DEF ChosenSum, f
<1>2. ASSUME NEW j \in Nat \ {0} PROVE ChosenSum(x, 0, j) = 0
  <2>1. LegSets(1, 0, j) = {}
    <3>1. 1 .. 0 = {}
      OBVIOUS
    <3>2. LegSets(1, 0, j) \subseteq {{}}
      BY <3>1 DEF LegSets
    <3>3. {} \notin LegSets(1, 0, j)
      BY FS_EmptySet DEF LegSets
    <3> QED BY <3>2, <3>3
  <2> QED BY <2>1, TotalEmpty DEF ChosenSum
<1> QED BY <1>1, <1>2

\* e is the recursion of SumOfProducts over n places.
Recurs(x, n, k, e) ==
    e = [i \in 0 .. n |->
            [j \in 0 .. k |->
                IF j = 0 THEN 1 ELSE IF i = 0 THEN 0 ELSE e[i - 1][j] + x[i] * e[i - 1][j - 1]]]

\* SumOfProducts takes its value from a solution of the recurrence.
LEMMA SumOfProductsDef ==
    ASSUME NEW x, NEW k
    PROVE  SumOfProducts(x, k)
             = (CHOOSE e : Recurs(x, Cardinality(DOMAIN x), k, e))[Cardinality(DOMAIN x)][k]
BY DEF SumOfProducts, Recurs

\* SumOfProducts is what it is named for.
LEMMA SumOfProductsIs ==
    ASSUME NEW n \in Nat, NEW k \in Nat, NEW x, DOMAIN x = 1 .. n,
           \A l \in 1 .. n : x[l] \in Nat \ {0}
    PROVE  SumOfProducts(x, k) = ChosenSum(x, n, k)
<1>1. Cardinality(DOMAIN x) = n
  <2>1. \A m \in Nat : Cardinality(1 .. m) = m
    BY FS_Interval
  <2> QED BY <2>1
<1> DEFINE g == [i \in 0 .. n |-> [j \in 0 .. k |-> ChosenSum(x, i, j)]]
<1>2. \A i \in 0 .. n : \A j \in 0 .. k :
         ChosenSum(x, i, j) = IF j = 0 THEN 1 ELSE IF i = 0 THEN 0
                              ELSE ChosenSum(x, i - 1, j) + x[i] * ChosenSum(x, i - 1, j - 1)
  <2> TAKE i \in 0 .. n
  <2> TAKE j \in 0 .. k
  <2>1. CASE j = 0
    BY <2>1, ChosenSumEnds
  <2>2. CASE j # 0 /\ i = 0
    BY <2>2, ChosenSumEnds
  <2>3. CASE j # 0 /\ i # 0
    <3>1. i \in Nat \ {0} /\ j \in Nat \ {0} /\ \A l \in 1 .. i : x[l] \in Nat \ {0}
      BY <2>3
    <3> QED BY <2>3, <3>1, ChosenSumStep
  <2> QED BY <2>1, <2>2, <2>3
<1>3. ASSUME NEW i \in 0 .. n, NEW j \in 0 .. k
      PROVE  g[i][j] = IF j = 0 THEN 1 ELSE IF i = 0 THEN 0
                       ELSE g[i - 1][j] + x[i] * g[i - 1][j - 1]
  <2>1. g[i][j] = ChosenSum(x, i, j)
    OBVIOUS
  <2>2. j # 0 /\ i # 0 => /\ g[i - 1][j] = ChosenSum(x, i - 1, j)
                          /\ g[i - 1][j - 1] = ChosenSum(x, i - 1, j - 1)
    OBVIOUS
  <2> HIDE DEF g
  <2> QED BY <1>2, <2>1, <2>2
<1>4. g = [i \in 0 .. n |-> [j \in 0 .. k |-> g[i][j]]]
  OBVIOUS
<1> HIDE DEF g
<1>5. Recurs(x, n, k, g)
  BY <1>3, <1>4 DEF Recurs
<1> DEFINE f == CHOOSE e : Recurs(x, n, k, e)
<1>6. Recurs(x, n, k, f)
  BY <1>5
<1> HIDE DEF f
<1>7. ASSUME NEW i \in 0 .. n, NEW j \in 0 .. k
      PROVE  f[i][j] = IF j = 0 THEN 1 ELSE IF i = 0 THEN 0
                       ELSE f[i - 1][j] + x[i] * f[i - 1][j - 1]
  <2> DEFINE row(q) == [p \in 0 .. k |-> IF p = 0 THEN 1 ELSE IF q = 0 THEN 0
                            ELSE f[q - 1][p] + x[q] * f[q - 1][p - 1]]
  <2>1. f = [q \in 0 .. n |-> row(q)]
    BY <1>6 DEF Recurs
  <2> HIDE DEF row
  <2>2. f[i] = row(i)
    BY <2>1
  <2> QED BY <2>2 DEF row
<1>8. \A i \in 0 .. n : \A j \in 0 .. k : f[i][j] = ChosenSum(x, i, j)
  <2> DEFINE B == {i \in 0 .. n : \E j \in 0 .. k : f[i][j] # ChosenSum(x, i, j)}
  <2> SUFFICES ASSUME B # {} PROVE FALSE
    OBVIOUS
  <2>1. B \subseteq Nat
    OBVIOUS
  <2> HIDE DEF B
  <2>2. PICK i \in B : \A h \in B : ~(<<h, i>> \in OpToRel(<, Nat))
    BY <2>1, WFMin, NatLessThanWellFounded
  <2>3. \A h \in Nat : h < i => h \notin B
    BY <2>1, <2>2 DEF OpToRel
  <2>4. i \in 0 .. n /\ \E j \in 0 .. k : f[i][j] # ChosenSum(x, i, j)
    BY DEF B
  <2>5. PICK j \in 0 .. k : f[i][j] # ChosenSum(x, i, j)
    BY <2>4
  <2>6. f[i][j] = IF j = 0 THEN 1 ELSE IF i = 0 THEN 0
                  ELSE f[i - 1][j] + x[i] * f[i - 1][j - 1]
    BY <1>7, <2>4
  <2>7. j # 0 /\ i # 0
    BY <1>2, <2>4, <2>5, <2>6
  <2>8. i - 1 \in 0 .. n /\ i - 1 \notin B /\ j - 1 \in 0 .. k
    BY <2>3, <2>4, <2>7
  <2>9. f[i - 1][j] = ChosenSum(x, i - 1, j) /\ f[i - 1][j - 1] = ChosenSum(x, i - 1, j - 1)
    BY <2>8 DEF B
  <2> QED BY <1>2, <2>4, <2>5, <2>6, <2>7, <2>9
<1>9. SumOfProducts(x, k) = f[n][k]
  BY <1>1, SumOfProductsDef DEF f
<1>10. n \in 0 .. n /\ k \in 0 .. k
  OBVIOUS
<1> QED BY <1>8, <1>9, <1>10

\* One way to choose them all.
LEMMA ChosenAll ==
    ASSUME NEW n \in Nat, NEW x, \A l \in 1 .. n : x[l] \in Nat \ {0}
    PROVE  ChosenSum(x, n, n) = Product(x, 1 .. n)
<1>1. LegSets(1, n, n) = {1 .. n}
  <2>1. IsFiniteSet(1 .. n) /\ Cardinality(1 .. n) = n
    BY FS_Interval
  <2>2. \A c \in SUBSET (1 .. n) : Cardinality(c) = n => c = 1 .. n
    BY <2>1, FS_Subset
  <2> QED BY <2>1, <2>2 DEF LegSets
<1> DEFINE f == [c \in {1 .. n} |-> Product(x, c)]
           p == Product(x, 1 .. n)
<1>2. p \in Int
  <2>1. IsFiniteSet(1 .. n)
    BY FS_Interval
  <2>2. p \in Nat \ {0}
    BY <2>1, ProductType
  <2> QED BY <2>2
<1>3. \A c \in {1 .. n} : f[c] = p
  OBVIOUS
<1>4. IsFiniteSet({1 .. n}) /\ Cardinality({1 .. n}) = 1
  BY FS_Singleton
<1> HIDE DEF f, p
<1>5. Total(f, {1 .. n}) = Cardinality({1 .. n}) * p
  BY <1>2, <1>3, <1>4, TotalConstant
<1>6. Total(f, {1 .. n}) = p
  BY <1>2, <1>4, <1>5
<1> QED BY <1>1, <1>6 DEF ChosenSum, f, p

\* n legs at even odds.
Evens(n) == [i \in 1 .. n |-> OddsUnit]

\* At even odds every way to choose has the same product.
LEMMA ChosenEvens ==
    ASSUME NEW n \in Nat, NEW k \in 0 .. n
    PROVE  ChosenSum(Evens(n), n, k) = Cardinality(LegSets(1, n, k)) * Units(1 .. k)
<1> DEFINE C == LegSets(1, n, k)
           f == [c \in C |-> Product(Evens(n), c)]
           one == [i \in 1 .. k |-> OddsUnit]
<1>1. IsFiniteSet(C) /\ IsFiniteSet(1 .. k) /\ Cardinality(1 .. k) = k
  <2>1. IsFiniteSet(C)
    BY LegSetsFinite
  <2>2. IsFiniteSet(1 .. k) /\ Cardinality(1 .. k) = k
    <3>1. k \in Nat
      OBVIOUS
    <3> QED BY <3>1, FS_Interval
  <2> QED BY <2>1, <2>2
<1>2. \A c \in C : f[c] = Units(1 .. k)
  <2> TAKE c \in C
  <2>1. c \subseteq 1 .. n /\ Cardinality(c) = k /\ IsFiniteSet(c)
    BY LegSetsFinite DEF LegSets
  <2>2. (\A i \in c : Evens(n)[i] = OddsUnit) /\ \A i \in 1 .. k : one[i] = OddsUnit
    BY <2>1 DEF Evens
  <2> HIDE DEF one
  <2>3. Product(Evens(n), c) = Product(one, 1 .. k)
    <3>1. OddsUnit \in Nat \ {0} /\ Cardinality(c) = Cardinality(1 .. k)
      BY <1>1, <2>1, UnitsAssumption
    <3>2. IsFiniteSet(1 .. k) /\ IsFiniteSet(c)
      BY <1>1, <2>1
    <3> DEFINE e == Evens(n)
               T == 1 .. k
    <3>3. (\A i \in c : e[i] = OddsUnit) /\ \A i \in T : one[i] = OddsUnit
      BY <2>2
    <3> HIDE DEF C, f, e, T
    <3>4. IsFiniteSet(T) /\ Cardinality(c) = Cardinality(T)
      BY <3>1, <3>2 DEF T
    <3>5. Product(e, c) = Product(one, T)
      BY <3>1, <3>2, <3>3, <3>4, ProductConstant
    <3> QED BY <3>5 DEF e, T
  <2> QED BY <2>3 DEF Units, one
<1>3. Units(1 .. k) \in Int
  <2>1. \A i \in 1 .. k : one[i] \in Nat \ {0}
    BY UnitsAssumption
  <2> HIDE DEF one
  <2>2. Product(one, 1 .. k) \in Nat \ {0}
    BY <1>1, <2>1, ProductType
  <2> QED BY <2>2 DEF Units, one
<1> HIDE DEF C, f
<1>4. Total(f, C) = Cardinality(C) * Units(1 .. k)
  BY <1>1, <1>2, <1>3, TotalConstant
<1> QED BY <1>4 DEF ChosenSum, C, f

\* How many legs the combinations of a bet have.
Chosen(type, size, n) == IF type = "SYSTEM" /\ size > 0 THEN size ELSE n

\* The odds of a bet are the sum over its combinations, by what it is at even odds.
LEMMA OddsAreSums ==
    ASSUME NEW type, NEW x \in Seq(Nat \ {0}), NEW size \in 0 .. Len(x)
    PROVE  LET n == Len(x)
               k == Chosen(type, size, n)
           IN  /\ TotalOdds(type, size, x) = Frac(ChosenSum(x, n, k), ChosenSum(Evens(n), n, k))
               /\ CombinedOdds(x, DOMAIN x) = Frac(Product(x, 1 .. n), Product(Evens(n), 1 .. n))
<1> DEFINE n == Len(x)
           k == Chosen(type, size, n)
<1>1. n \in Nat /\ DOMAIN x = 1 .. n /\ \A l \in 1 .. n : x[l] \in Nat \ {0}
  OBVIOUS
<1>2. Cardinality(DOMAIN x) = n
  <2>1. \A m \in Nat : Cardinality(1 .. m) = m
    BY FS_Interval
  <2> QED BY <1>1, <2>1
<1>3. CombinedOdds(x, DOMAIN x) = Frac(Product(x, 1 .. n), Product(Evens(n), 1 .. n))
  BY <1>1 DEF CombinedOdds, Units, Evens
<1>4. CASE type = "SYSTEM" /\ size > 0
  <2>1. k = size /\ k \in 0 .. n
    BY <1>1, <1>4 DEF Chosen
  <2> DEFINE C == Combinations(n, k)
  <2>2. C = LegSets(1, n, k)
    BY <1>1, <2>1, CombinationsComplete DEF LegSets
  <2>3. SystemOdds(x, k) = Frac(Total([c \in C |-> Product(x, c)], C), Cardinality(C) * Units(1 .. k))
    BY <1>2 DEF SystemOdds
  <2>4. ChosenSum(x, n, k) = Total([c \in C |-> Product(x, c)], C)
    BY <2>2 DEF ChosenSum
  <2>5. ChosenSum(Evens(n), n, k) = Cardinality(C) * Units(1 .. k)
    BY <1>1, <2>1, <2>2, ChosenEvens
  <2>6. TotalOdds(type, size, x) = SystemOdds(x, k)
    BY <1>4, <2>1 DEF TotalOdds
  <2> HIDE DEF C, k
  <2> QED BY <1>3, <2>3, <2>4, <2>5, <2>6 DEF k
<1>5. CASE ~(type = "SYSTEM" /\ size > 0)
  <2>1. k = n /\ TotalOdds(type, size, x) = CombinedOdds(x, DOMAIN x)
    BY <1>5 DEF Chosen, TotalOdds
  <2>2. \A l \in 1 .. n : Evens(n)[l] \in Nat \ {0}
    BY UnitsAssumption DEF Evens
  <2>3. ChosenSum(x, n, n) = Product(x, 1 .. n) /\ ChosenSum(Evens(n), n, n) = Product(Evens(n), 1 .. n)
    BY <1>1, <2>2, ChosenAll
  <2> HIDE DEF k
  <2> QED BY <1>3, <2>1, <2>3 DEF k
<1> QED BY <1>4, <1>5

\* Where no price is below one, neither are the odds of a bet, and none are better than
\* those of all its legs together.
LEMMA OddsBounds ==
    ASSUME NEW type, NEW x \in Seq(Nat \ {0}), NEW size \in 0 .. Len(x),
           \A l \in 1 .. Len(x) : x[l] >= OddsUnit
    PROVE  LET t == TotalOdds(type, size, x)
               all == CombinedOdds(x, DOMAIN x)
           IN  t.den <= t.num /\ t.num * all.den <= all.num * t.den
<1> DEFINE n == Len(x)
           k == Chosen(type, size, n)
           y == Evens(n)
           C == LegSets(1, n, k)
           p == Product(x, 1 .. n)
           q == Product(y, 1 .. n)
           f == [c \in C |-> Product(x, c)]
           g == [c \in C |-> Product(y, c)]
           fq == [c \in C |-> q * f[c]]
           gp == [c \in C |-> p * g[c]]
<1>1. n \in Nat /\ IsFiniteSet(1 .. n) /\ IsFiniteSet(C) /\ C \subseteq SUBSET (1 .. n)
  <2>1. n \in Nat
    OBVIOUS
  <2> HIDE DEF n, k
  <2> QED BY <2>1, LegSetsFinite, FS_Interval DEF LegSets
<1>2. \A l \in 1 .. n : x[l] \in Nat \ {0} /\ y[l] \in Nat \ {0} /\ y[l] <= x[l]
  BY UnitsAssumption DEF Evens
<1> HIDE DEF n, k, y, C
<1>3. ASSUME NEW c \in SUBSET (1 .. n)
      PROVE  /\ Product(x, c) \in Nat \ {0} /\ Product(y, c) \in Nat \ {0}
             /\ Product(y, c) <= Product(x, c)
             /\ Product(x, c) * q <= p * Product(y, c)
  <2>1. IsFiniteSet(c)
    BY <1>1, FS_Subset
  <2>2. Product(x, c) \in Nat \ {0} /\ Product(y, c) \in Nat \ {0}
    BY <1>2, <2>1, ProductType
  <2>3. Product(x, {}) * Product(y, c) <= Product(x, c) * Product(y, {})
    <3>1. {} \in SUBSET c
      OBVIOUS
    <3> QED BY <1>2, <2>1, <3>1, ProductGrows
  <2>4. Product(x, {}) = 1 /\ Product(y, {}) = 1
    BY ProductEmpty
  <2>5. Product(y, c) <= Product(x, c)
    BY <2>2, <2>3, <2>4
  <2>6. Product(x, c) * q <= p * Product(y, c)
    BY <1>1, <1>2, ProductGrows
  <2> QED BY <2>2, <2>5, <2>6
<1>4. p \in Nat \ {0} /\ q \in Nat \ {0}
  <2>1. 1 .. n \in SUBSET (1 .. n)
    OBVIOUS
  <2> QED BY <1>3, <2>1
<1> HIDE DEF p, q
<1>5. \A c \in C : /\ f[c] \in Nat /\ g[c] \in Nat /\ g[c] <= f[c]
                   /\ fq[c] = q * f[c] /\ gp[c] = p * g[c]
                   /\ fq[c] \in Nat /\ gp[c] \in Nat /\ fq[c] <= gp[c]
  <2> TAKE c \in C
  <2>1. /\ Product(x, c) \in Nat /\ Product(y, c) \in Nat
        /\ Product(y, c) <= Product(x, c)
        /\ Product(x, c) * q <= p * Product(y, c)
    BY <1>1, <1>3
  <2>2. f[c] = Product(x, c) /\ g[c] = Product(y, c) /\ fq[c] = q * f[c] /\ gp[c] = p * g[c]
    OBVIOUS
  <2> HIDE DEF f, g, fq, gp
  <2> QED BY <1>4, <2>1, <2>2
<1> HIDE DEF f, g, fq, gp
<1>6. C \in SUBSET C
  OBVIOUS
<1>7. Total(f, C) \in Nat /\ Total(g, C) \in Nat /\ Total(g, C) <= Total(f, C)
  BY <1>1, <1>5, <1>6, TotalMonotone
<1>8. Total(fq, C) <= Total(gp, C)
  BY <1>1, <1>5, <1>6, TotalMonotone
<1>9. Total(fq, C) = q * Total(f, C) /\ Total(gp, C) = p * Total(g, C)
  <2>1. p \in Int /\ q \in Int /\ \A c \in C : f[c] \in Int /\ g[c] \in Int
    BY <1>4, <1>5
  <2> QED BY <1>1, <1>5, <2>1, TotalScale
<1>10. TotalOdds(type, size, x) = Frac(Total(f, C), Total(g, C))
       /\ CombinedOdds(x, DOMAIN x) = Frac(p, q)
  <2>1. TotalOdds(type, size, x) = Frac(ChosenSum(x, n, k), ChosenSum(y, n, k))
        /\ CombinedOdds(x, DOMAIN x) = Frac(p, q)
    BY OddsAreSums DEF n, k, y, p, q
  <2> QED BY <2>1 DEF ChosenSum, f, g, C
<1>11. Total(f, C) * q <= p * Total(g, C)
  BY <1>4, <1>7, <1>8, <1>9
<1> QED BY <1>7, <1>10, <1>11 DEF Frac

\* A rounded multiple of positive odds is a natural number.
LEMMA ScaledType ==
    ASSUME NEW s \in Nat, NEW x \in Ratios
    PROVE  Rounded(Scaled(s, x)) \in Nat
<1>1. s * x.num \in Nat /\ x.den \in Nat \ {0}
  BY DEF Ratios
<1> QED BY <1>1, RoundedBounds DEF Scaled

\* A finite nonempty set of numbers has a greatest one.
LEMMA MaxIs ==
    ASSUME NEW S \in SUBSET Nat, IsFiniteSet(S), S # {}
    PROVE  Max(S) \in S /\ \A x \in S : x <= Max(S)
<1> DEFINE Top(s) == \E m \in s : \A x \in s : m >= x
           B == {s \in SUBSET S : s # {} /\ ~Top(s)}
<1>1. SUFFICES ASSUME B # {} PROVE FALSE
  <2>1. S \in SUBSET S
    OBVIOUS
  <2>2. CASE B = {}
    <3>1. Top(S)
      BY <2>1, <2>2
    <3>2. Max(S) \in S /\ \A x \in S : Max(S) >= x
      BY <3>1 DEF Max
    <3>3. \A x, y \in Nat : x >= y => y <= x
      OBVIOUS
    <3> QED BY <3>2, <3>3
  <2> QED BY <2>2
<1>2. \A r \in B : IsFiniteSet(r)
  BY FS_Subset
<1> HIDE DEF B
<1>3. PICK s \in B : \A q \in B : ~(Cardinality(q) < Cardinality(s))
  BY <1>1, <1>2, Least
<1> USE DEF B
<1>4. PICK x \in s : TRUE
  OBVIOUS
<1>5. s \ {x} \notin B
  BY <1>2, <1>3, <1>4, Smaller
<1>6. CASE s \ {x} = {}
  <2>1. \A y \in s : y = x /\ y \in Nat
    BY <1>6
  <2>2. \A y \in s : x >= y
    BY <2>1
  <2> QED BY <1>4, <2>2
<1>7. CASE s \ {x} # {}
  <2>1. PICK m \in s \ {x} : \A y \in s \ {x} : m >= y
    BY <1>5, <1>7
  <2>2. m \in Nat /\ x \in Nat /\ \A y \in s : y \in Nat
    OBVIOUS
  <2>3. CASE m >= x
    <3>1. \A y \in s : m >= y
      BY <2>1, <2>3
    <3> QED BY <3>1
  <2>4. CASE ~(m >= x)
    <3>1. \A y \in s : x >= y
      BY <2>1, <2>2, <2>4
    <3> QED BY <1>4, <3>1
  <2> QED BY <2>3, <2>4
<1> QED BY <1>6, <1>7

-------------------------------------------------------------------------------
\* The rows.

\* The stakes of the rows of a book f, and the winnings they promise, as functions.
Stakes(f) == [b \in Bets |-> f[b].stake]

Promises(f) ==
    [b \in Bets |-> Rounded(Scaled(f[b].slip.stake,
                        TotalOdds(f[b].slip.type, f[b].slip.size, f[b].odds)))]

\* A sum over some bets is a sum of these.
LEMMA StakesIs ==
    ASSUME NEW f, NEW B \in SUBSET Bets
    PROVE  IsFiniteSet(B) /\ Total([b \in B |-> f[b].stake], B) = Total(Stakes(f), B)
<1>1. IsFiniteSet(B)
  BY FS_Subset, BoundsAssumption
<1> DEFINE g == [b \in B |-> f[b].stake]
<1>2. \A b \in B : g[b] = Stakes(f)[b]
  BY DEF Stakes
<1> HIDE DEF g
<1>3. Total(g, B) = Total(Stakes(f), B)
  BY <1>1, <1>2, TotalSame
<1> QED BY <1>1, <1>3 DEF g

LEMMA PromisesIs ==
    ASSUME NEW f, NEW B \in SUBSET Bets
    PROVE  Total([b \in B |-> Rounded(Scaled(f[b].slip.stake,
                        TotalOdds(f[b].slip.type, f[b].slip.size, f[b].odds)))], B)
             = Total(Promises(f), B)
<1>1. IsFiniteSet(B)
  BY FS_Subset, BoundsAssumption
<1> DEFINE g == [b \in B |-> Rounded(Scaled(f[b].slip.stake,
                        TotalOdds(f[b].slip.type, f[b].slip.size, f[b].odds)))]
<1>2. \A b \in B : g[b] = Promises(f)[b]
  BY DEF Promises
<1> HIDE DEF g
<1>3. Total(g, B) = Total(Promises(f), B)
  BY <1>1, <1>2, TotalSame
<1> QED BY <1>3 DEF g

\* Prices are positive.
LEMMA PriceType == AnyPrice \subseteq Nat \ {0} /\ Seq(AnyPrice) \subseteq Seq(Nat \ {0})
<1>1. AnyPrice \subseteq Nat \ {0}
  BY PricesAssumption DEF AnyPrice
<1>2. ASSUME NEW x \in Seq(AnyPrice) PROVE x \in Seq(Nat \ {0})
  <2>1. Len(x) \in Nat /\ DOMAIN x = 1 .. Len(x) /\ \A i \in 1 .. Len(x) : x[i] \in AnyPrice
    OBVIOUS
  <2>2. \A i \in 1 .. Len(x) : x[i] \in Nat \ {0}
    BY <1>1, <2>1
  <2> QED BY <2>1, <2>2
<1> QED BY <1>1, <1>2

\* What is known of the row of a bet.
LEMMA RowType ==
    ASSUME NEW r \in Rows, Len(r.odds) = Len(r.slip.legs)
    PROVE  /\ r.user \in Users /\ r.market \in Markets /\ r.limit \in DailyLimits /\ r.limit \in Nat
           /\ r.stake \in Nat /\ r.total \in Nat /\ r.win \in Nat /\ r.won \in Nat /\ r.cash \in Nat
           /\ r.sold \in Nat /\ r.parts \in 0 .. MaxParts /\ r.day \in 0 .. MaxChanges
           /\ r.slip \in Slips /\ r.slip.stake \in Nat \ {0}
           /\ TotalOdds(r.slip.type, r.slip.size, r.odds) \in Ratios
           /\ Rounded(Scaled(r.slip.stake, TotalOdds(r.slip.type, r.slip.size, r.odds))) \in Nat
<1>1. /\ r.user \in Users /\ r.market \in Markets /\ r.limit \in DailyLimits
      /\ r.stake \in Nat /\ r.total \in Nat /\ r.win \in Nat /\ r.won \in Nat /\ r.cash \in Nat
      /\ r.sold \in Nat /\ r.parts \in 0 .. MaxParts /\ r.day \in 0 .. MaxChanges
      /\ r.slip \in Slips /\ r.odds \in Seq(Nat \ {0})
  BY PriceType DEF Rows
<1>2. r.limit \in Nat
  BY <1>1, LimitsAssumption
<1>3. r.slip.stake \in Nat \ {0} /\ r.slip.size \in 0 .. Len(r.odds)
  BY <1>1, SlipsAssumption
<1>4. TotalOdds(r.slip.type, r.slip.size, r.odds) \in Ratios
  BY <1>1, <1>3, OddsType
<1>5. Rounded(Scaled(r.slip.stake, TotalOdds(r.slip.type, r.slip.size, r.odds))) \in Nat
  BY <1>3, <1>4, ScaledType
<1> QED BY <1>1, <1>2, <1>3, <1>4, <1>5

LEMMA BetType ==
    ASSUME TypeOK, NEW b \in Bets, pc[b] # "idle"
    PROVE  /\ bet[b] \in Rows /\ Len(bet[b].odds) = Len(bet[b].slip.legs)
           /\ bet[b].user \in Users /\ bet[b].market \in Markets
           /\ bet[b].limit \in DailyLimits /\ bet[b].limit \in Nat
           /\ bet[b].day \in Nat /\ bet[b].day <= day
           /\ bet[b].stake \in Nat /\ Stakes(bet)[b] = bet[b].stake
           /\ Promised(b) \in Nat /\ Promises(bet)[b] = Promised(b)
<1>1. bet[b] \in Rows /\ Len(bet[b].odds) = Len(bet[b].slip.legs) /\ bet[b].day <= day
  BY DEF TypeOK
<1>2. bet[b].day \in Nat
  BY <1>1, RowType
<1>3. Promises(bet)[b] = Promised(b)
  BY DEF Promises, Promised
<1> QED BY <1>1, <1>2, <1>3, RowType DEF Promised, Stakes

-------------------------------------------------------------------------------
\* The initial state.

LEMMA NoBetSums ==
    ASSUME NEW f
    PROVE  Total(f, {}) = 0 /\ IsFiniteSet({})
BY TotalEmpty, FS_EmptySet

LEMMA InitIInv == Init => IInv
<1> SUFFICES ASSUME Init PROVE IInv
  OBVIOUS
<1>1. \A l \in Legs : odds[l] \in Prices[l] /\ odds[l] \in Nat \ {0}
  <2> TAKE l \in Legs
  <2>1. Prices[l] \in SUBSET Nat /\ IsFiniteSet(Prices[l]) /\ Prices[l] # {}
    BY PricesAssumption
  <2>2. Max(Prices[l]) \in Prices[l]
    BY <2>1, MaxIs
  <2>3. odds[l] = Max(Prices[l])
    BY DEF Init
  <2> QED BY <2>2, <2>3, PricesAssumption
<1>2. Max(DailyLimits) \in DailyLimits
  BY LimitsAssumption, MaxIs
<1>3. TypeOK
  <2>1. odds \in [Legs -> Nat \ {0}] /\ \A l \in Legs : odds[l] \in Prices[l]
    <3>1. odds = [l \in Legs |-> Max(Prices[l])]
      BY DEF Init
    <3>2. odds = [l \in Legs |-> odds[l]]
      BY <3>1
    <3> QED BY <1>1, <3>2
  <2>2. limit \in [Users -> DailyLimits]
    BY <1>2 DEF Init
  <2>3. changes \in 0 .. MaxChanges /\ day \in 0 .. changes
    BY BoundsAssumption DEF Init
  <2> QED BY <2>1, <2>2, <2>3 DEF Init, TypeOK
<1>4. Stored = {} /\ Assessed = {} /\ \A m : Tracked(m) = {}
  BY DEF Init, Stored, Assessed, Tracked
<1>5. MetOK
  BY DEF Init, MetOK, InFlight
<1>6. DayOK
  BY <1>4 DEF DayOK, DayFits, OfDay, Counted
<1>7. Liability({}) = 0
  BY NoBetSums DEF Liability
<1>8. ExposureOK
  <2>1. \A m \in Markets : exposure[m] = Liability(Tracked(m))
    BY <1>4, <1>7 DEF Init
  <2>2. MarketFits
    <3>1. ASSUME NEW m \in Markets,
                 NEW C \in SUBSET {b \in Stored : bet[b].market = m /\ pc[b] # "untracked"}
          PROVE  Liability(C) <= MaxExposure
      <4>1. C = {}
        BY <1>4
      <4>2. Liability(C) = 0
        BY <1>7, <4>1
      <4> QED BY <4>2, LimitsAssumption
    <3> QED BY <3>1 DEF MarketFits
  <2> QED BY <1>4, <2>1, <2>2 DEF ExposureOK
<1>9. MoneyOK
  BY <1>4 DEF Init, MoneyOK
<1> QED BY <1>3, <1>5, <1>6, <1>8, <1>9 DEF IInv

-------------------------------------------------------------------------------
\* What a step leaves as it is.

\* A pair of bets that are still there stays in met.
MetKept == \A b, c \in Bets : pc'[b] # "idle" /\ pc'[c] # "idle" /\ {b, c} \in met => {b, c} \in met'

\* Stored bets keep whose they are and when they were stored; stakes only go down,
\* and a cancelled bet stays one.
RowsKept ==
    \A b \in Stored :
        /\ bet'[b].user = bet[b].user /\ bet'[b].day = bet[b].day /\ bet'[b].limit = bet[b].limit
        /\ bet'[b].stake <= bet[b].stake
        /\ bet'[b].status \notin {"CANCELLED", "VOID"} => bet[b].status \notin {"CANCELLED", "VOID"}
        /\ bet'[b].market = bet[b].market /\ bet'[b].slip = bet[b].slip /\ bet'[b].odds = bet[b].odds

\* Bets of a step that stores none: of a day, and no two in flight together, they
\* were so before.
LEMMA OldChoice ==
    ASSUME TypeOK, Stored' = Stored, MetKept, RowsKept,
           NEW C \in SUBSET Stored, Apart(C)'
    PROVE  Apart(C) /\ C \in SUBSET Bets /\ IsFiniteSet(C)
<1>1. C \in SUBSET Bets /\ \A b \in C : pc'[b] # "idle"
  <2>1. \A b \in Stored' : b \in Bets /\ pc'[b] # "idle"
    BY DEF Stored
  <2> QED BY <2>1
<1>2. Apart(C)
  BY <1>1 DEF Apart, MetKept
<1> QED BY <1>1, <1>2, FS_Subset, BoundsAssumption

\* Less is staked on the same bets.
LEMMA LessStaked ==
    ASSUME TypeOK, TypeOK', Stored' = Stored, RowsKept, NEW S \in SUBSET Stored, NEW C \in SUBSET S
    PROVE  /\ Total(Stakes(bet'), C) \in Nat /\ Total(Stakes(bet), S) \in Nat
           /\ Total(Stakes(bet'), C) <= Total(Stakes(bet), S)
<1>2. IsFiniteSet(S)
  <2>1. S \in SUBSET Bets
    BY DEF Stored
  <2> QED BY <2>1, StakesIs
<1>3. \A b \in Stored : Stakes(bet)[b] \in Nat /\ Stakes(bet)[b] = bet[b].stake
  <2> TAKE b \in Stored
  <2>1. b \in Bets /\ pc[b] # "idle"
    BY DEF Stored
  <2> QED BY <2>1, BetType
<1>4. \A b \in Stored : Stakes(bet')[b] \in Nat /\ Stakes(bet')[b] = bet'[b].stake
  <2> TAKE b \in Stored
  <2>1. b \in Bets /\ pc'[b] # "idle"
    <3>1. b \in Stored'
      OBVIOUS
    <3> QED BY <3>1 DEF Stored
  <2>2. bet'[b] \in Rows
    BY <2>1 DEF TypeOK
  <2>3. bet'[b].stake \in Nat
    BY <2>2 DEF Rows
  <2> QED BY <2>1, <2>3 DEF Stakes
<1>5. \A b \in C : Stakes(bet')[b] \in Nat /\ Stakes(bet')[b] <= Stakes(bet)[b]
  BY <1>3, <1>4 DEF RowsKept
<1>6. \A b \in S : Stakes(bet)[b] \in Nat
  BY <1>3
<1> QED BY <1>2, <1>5, <1>6, TotalMonotone

\* What that leaves of the daily limits.
LEMMA DayStays ==
    ASSUME TypeOK, TypeOK', DayOK, Stored' = Stored, MetKept, RowsKept
    PROVE  /\ DayFits'
           /\ \A b \in Bets : pc[b] = "assessed" /\ pc'[b] = "assessed" /\ bet'[b] = bet[b]
                                  => DayRoom(b)'
<1>1. ASSUME NEW u, NEW d PROVE OfDay(u, d)' \subseteq OfDay(u, d)
  BY DEF OfDay, Counted, RowsKept
<1>2. ASSUME NEW u, NEW d PROVE OfDay(u, d) \subseteq Stored
  BY DEF OfDay, Counted
<1>3. \A b \in Stored : b \in Bets /\ pc[b] # "idle" /\ pc'[b] # "idle"
  <2>1. \A b \in Stored' : pc'[b] # "idle"
    BY DEF Stored
  <2> QED BY <2>1 DEF Stored
<1>4. DayFits'
  <2> SUFFICES ASSUME NEW u \in Users, NEW d \in 0 .. day', NEW C \in SUBSET OfDay(u, d)',
                      C # {}, Apart(C)'
               PROVE  \E b \in C : StakesOf(C)' <= bet'[b].limit
    BY DEF DayFits
  <2>1. C \in SUBSET OfDay(u, d) /\ C \in SUBSET Stored
    BY <1>1, <1>2
  <2>2. Apart(C)
    BY <2>1, OldChoice
  <2>3. d \in 0 .. day
    <3>1. PICK b \in C : TRUE
      OBVIOUS
    <3>2. b \in Stored /\ bet[b].day = d
      BY <2>1, <3>1 DEF OfDay, Counted
    <3>3. bet[b].day \in Nat /\ bet[b].day <= day
      BY <1>3, <3>2, BetType
    <3> QED BY <3>2, <3>3 DEF TypeOK
  <2>4. PICK b \in C : StakesOf(C) <= bet[b].limit
    BY <2>1, <2>2, <2>3 DEF DayOK, DayFits
  <2>5. StakesOf(C)' \in Nat /\ StakesOf(C) \in Nat /\ StakesOf(C)' <= StakesOf(C)
    <3>1. C \in SUBSET Bets
      BY <2>1 DEF Stored
    <3>2. StakesOf(C)' = Total(Stakes(bet'), C) /\ StakesOf(C) = Total(Stakes(bet), C)
      BY <3>1, StakesIs DEF StakesOf
    <3> QED BY <2>1, <3>2, LessStaked
  <2>6. bet[b].limit \in Nat /\ bet'[b].limit = bet[b].limit
    BY <1>3, <2>1, BetType DEF RowsKept
  <2> QED BY <2>4, <2>5, <2>6
<1>5. ASSUME NEW b \in Bets, pc[b] = "assessed", pc'[b] = "assessed", bet'[b] = bet[b]
      PROVE  DayRoom(b)'
  <2> DEFINE S == {c \in OfDay(bet[b].user, bet[b].day) : {b, c} \notin met}
  <2>1. StakesOf(S) + bet[b].stake <= bet[b].limit
        /\ \A c \in Stored : bet[c].day > bet[b].day => {b, c} \in met
    BY <1>5 DEF DayOK, DayRoom, Assessed
  <2>2. \A c \in Stored : {b, c} \in met => {b, c} \in met'
    BY <1>3, <1>5 DEF MetKept
  <2>3. S \in SUBSET Stored /\ S \in SUBSET Bets
    BY <1>2 DEF Stored
  <2>4. S' \in SUBSET S /\ S' \in SUBSET Bets
    <3>1. bet'[b].user = bet[b].user /\ bet'[b].day = bet[b].day
      BY <1>5
    <3>2. \A c \in S' : c \in Stored' /\ bet'[c].status \notin {"CANCELLED", "VOID"}
                          /\ bet'[c].user = bet'[b].user /\ bet'[c].day = bet'[b].day
                          /\ {b, c} \notin met'
      BY DEF OfDay, Counted
    <3>3. \A c \in S' : c \in S
      BY <2>2, <3>1, <3>2 DEF OfDay, Counted, RowsKept
    <3> HIDE DEF S
    <3> QED BY <2>3, <3>3
  <2>5. StakesOf(S)' \in Nat /\ StakesOf(S) \in Nat /\ StakesOf(S)' <= StakesOf(S)
    <3> HIDE DEF S
    <3>1. StakesOf(S)' = Total(Stakes(bet'), S') /\ StakesOf(S) = Total(Stakes(bet), S)
      BY <2>3, <2>4, StakesIs DEF StakesOf
    <3> QED BY <2>3, <2>4, <3>1, LessStaked
  <2>6. bet[b].stake \in Nat /\ bet[b].limit \in Nat
    BY <1>5, BetType
  <2>7. StakesOf(S)' + bet'[b].stake <= bet'[b].limit
    <3> HIDE DEF S
    <3> QED BY <1>5, <2>1, <2>5, <2>6
  <2>8. \A c \in Stored' : bet'[c].day > bet'[b].day => {b, c} \in met'
    BY <1>5, <2>1, <2>2 DEF RowsKept
  <2> QED BY <2>7, <2>8 DEF DayRoom
<1> QED BY <1>4, <1>5

\* Stored bets promise what they promised.
LEMMA SamePromised ==
    ASSUME RowsKept, NEW S \in SUBSET Stored
    PROVE  Total(Promises(bet'), S) = Total(Promises(bet), S)
<1>1. IsFiniteSet(S)
  <2>1. S \in SUBSET Bets
    BY DEF Stored
  <2> QED BY <2>1, StakesIs
<1>2. \A b \in S : Promises(bet')[b] = Promises(bet)[b]
  <2> TAKE b \in S
  <2>1. b \in Bets /\ bet'[b].slip = bet[b].slip /\ bet'[b].odds = bet[b].odds
    BY DEF Stored, RowsKept
  <2> QED BY <2>1 DEF Promises
<1> QED BY <1>1, <1>2, TotalSame

\* A part of what bets promise is not more.
LEMMA LessPromised ==
    ASSUME TypeOK, NEW S \in SUBSET Stored, NEW C \in SUBSET S
    PROVE  /\ Total(Promises(bet), C) \in Nat /\ Total(Promises(bet), S) \in Nat
           /\ Total(Promises(bet), C) <= Total(Promises(bet), S)
<1>1. IsFiniteSet(S)
  <2>1. S \in SUBSET Bets
    BY DEF Stored
  <2> QED BY <2>1, StakesIs
<1>2. \A b \in S : Promises(bet)[b] \in Nat /\ Promises(bet)[b] <= Promises(bet)[b]
  <2> TAKE b \in S
  <2>1. b \in Bets /\ pc[b] # "idle"
    BY DEF Stored
  <2>2. Promises(bet)[b] \in Nat
    BY <2>1, BetType
  <2> QED BY <2>2
<1> QED BY <1>1, <1>2, TotalMonotone

\* The same bets are tracked, and none that is untracked becomes tracked.
TrackedKept ==
    \A b \in Bets : /\ pc'[b] = "tracked" <=> pc[b] = "tracked"
                    /\ pc[b] = "untracked" => pc'[b] = "untracked"

LEMMA MarketStays ==
    ASSUME TypeOK, TypeOK', ExposureOK, Stored' = Stored, MetKept, RowsKept, TrackedKept
    PROVE  /\ exposure' = exposure => \A m \in Markets : exposure'[m] = Liability(Tracked(m))'
           /\ MarketFits'
           /\ \A b \in Bets : pc[b] = "assessed" /\ pc'[b] = "assessed" /\ bet'[b] = bet[b]
                                  => MarketRoom(b)'
<1>1. ASSUME NEW m PROVE Tracked(m)' = Tracked(m) /\ Tracked(m) \in SUBSET Stored
  <2>1. \A b \in Bets : pc[b] = "tracked" => b \in Stored
    BY DEF Stored
  <2> QED BY <2>1 DEF Tracked, TrackedKept, RowsKept
<1>2. Stored \in SUBSET Bets
  BY DEF Stored
<1>3. \A b \in Stored : b \in Bets /\ pc[b] # "idle" /\ pc'[b] # "idle"
  <2>1. \A b \in Stored' : pc'[b] # "idle"
    BY DEF Stored
  <2> QED BY <2>1 DEF Stored
<1>4. ASSUME exposure' = exposure, NEW m \in Markets PROVE exposure'[m] = Liability(Tracked(m))'
  <2>1. Tracked(m)' \in SUBSET Bets /\ Tracked(m) \in SUBSET Bets
    BY <1>1, <1>2
  <2>2. /\ Liability(Tracked(m))' = Total(Promises(bet'), Tracked(m)')
        /\ Liability(Tracked(m)) = Total(Promises(bet), Tracked(m))
    BY <2>1, PromisesIs DEF Liability, Promised
  <2>3. Total(Promises(bet'), Tracked(m)) = Total(Promises(bet), Tracked(m))
    BY <1>1, SamePromised
  <2> QED BY <1>1, <1>4, <2>2, <2>3 DEF ExposureOK
<1>5. MarketFits'
  <2> SUFFICES ASSUME NEW m \in Markets,
                      NEW C \in SUBSET {b \in Stored' : bet'[b].market = m /\ pc'[b] # "untracked"},
                      Apart(C)'
               PROVE  Liability(C)' <= MaxExposure
    BY DEF MarketFits
  <2>1. C \in SUBSET {b \in Stored : bet[b].market = m /\ pc[b] # "untracked"}
    BY <1>3 DEF RowsKept, TrackedKept
  <2>2. C \in SUBSET Stored /\ C \in SUBSET Bets
    BY <1>2, <2>1
  <2>3. Apart(C)
    BY <2>2, OldChoice
  <2>4. Liability(C) <= MaxExposure
    BY <2>1, <2>3 DEF ExposureOK, MarketFits
  <2>5. Liability(C)' = Total(Promises(bet'), C) /\ Liability(C) = Total(Promises(bet), C)
    BY <2>2, PromisesIs DEF Liability, Promised
  <2> QED BY <2>2, <2>4, <2>5, SamePromised
<1>6. ASSUME NEW b \in Bets, pc[b] = "assessed", pc'[b] = "assessed", bet'[b] = bet[b]
      PROVE  MarketRoom(b)'
  <2> DEFINE S == {c \in Tracked(bet[b].market) : {b, c} \notin met}
  <2>1. Liability(S) + Promised(b) <= MaxExposure
    BY <1>6 DEF ExposureOK, MarketRoom, Assessed
  <2>2. S \in SUBSET Stored /\ S \in SUBSET Bets
    BY <1>1, <1>2
  <2>3. S' \in SUBSET S /\ S' \in SUBSET Bets
    <3>1. \A c \in S' : /\ c \in Bets /\ pc'[c] = "tracked" /\ bet'[c].market = bet'[b].market
                        /\ {b, c} \notin met'
      BY DEF Tracked
    <3>2. \A c \in S' : pc[c] = "tracked" /\ {b, c} \notin met
      BY <1>6, <3>1 DEF TrackedKept, MetKept
    <3>3. \A c \in S' : c \in Stored
      BY <3>1, <3>2 DEF Stored
    <3>4. \A c \in S' : c \in S
      BY <1>6, <3>1, <3>2, <3>3 DEF RowsKept, Tracked
    <3> HIDE DEF S
    <3> QED BY <2>2, <3>4
  <2> HIDE DEF S
  <2>4. Liability(S)' = Total(Promises(bet'), S') /\ Liability(S) = Total(Promises(bet), S)
    BY <2>2, <2>3, PromisesIs DEF Liability, Promised
  <2>5. Total(Promises(bet'), S') = Total(Promises(bet), S')
    BY <2>2, <2>3, SamePromised
  <2>6. /\ Total(Promises(bet), S') \in Nat /\ Total(Promises(bet), S) \in Nat
        /\ Total(Promises(bet), S') <= Total(Promises(bet), S)
    BY <2>2, <2>3, LessPromised
  <2>7. Promised(b)' = Promised(b) /\ Promised(b) \in Nat
    BY <1>6, BetType DEF Promised
  <2>8. Liability(S)' + Promised(b)' <= MaxExposure
    BY <2>1, <2>4, <2>5, <2>6, <2>7, LimitsAssumption
  <2> QED BY <2>8 DEF MarketRoom, S
<1> QED BY <1>4, <1>5, <1>6

-------------------------------------------------------------------------------
\* The steps that leave the bets alone.

LEMMA QuietIInv ==
    ASSUME IInv, TypeOK', UNCHANGED <<exposure, pc, bookVars, met>>
    PROVE  IInv'
<1>1. Stored' = Stored /\ Assessed' = Assessed /\ bet' = bet /\ pc' = pc /\ met' = met
      /\ credited' = credited /\ exposure' = exposure
  BY DEF Stored, Assessed, bookVars
<1>2. TypeOK /\ MetOK /\ DayOK /\ ExposureOK /\ MoneyOK
  BY DEF IInv
<1>3. MetKept /\ TrackedKept
  BY <1>1 DEF MetKept, TrackedKept
<1>4. RowsKept
  <2> SUFFICES ASSUME NEW b \in Stored PROVE bet[b].stake <= bet[b].stake
    BY <1>1 DEF RowsKept
  <2>1. b \in Bets /\ pc[b] # "idle"
    BY DEF Stored
  <2>2. bet[b].stake \in Nat
    BY <1>2, <2>1, BetType
  <2> QED BY <1>1, <2>2
<1>5. MetOK'
  BY <1>1, <1>2 DEF MetOK
<1>6. DayOK'
  <2>1. \A b \in Assessed' : b \in Bets /\ pc[b] = "assessed" /\ pc'[b] = "assessed"
    BY <1>1 DEF Assessed
  <2> QED BY <1>1, <1>2, <1>3, <1>4, <2>1, DayStays DEF DayOK
<1>7. ExposureOK'
  <2>1. \A b \in Assessed' : b \in Bets /\ pc[b] = "assessed" /\ pc'[b] = "assessed"
    BY <1>1 DEF Assessed
  <2> QED BY <1>1, <1>2, <1>3, <1>4, <2>1, MarketStays DEF ExposureOK
<1>8. MoneyOK'
  <2>1. \A b : RowOK(b)' <=> RowOK(b)
    BY <1>1 DEF RowOK, ActualWin, Promised
  <2> QED BY <1>1, <1>2, <2>1 DEF MoneyOK
<1> QED BY <1>5, <1>6, <1>7, <1>8 DEF IInv

LEMMA ExpireIInv == ASSUME IInv, NEW u \in Users, Expire(u) PROVE IInv'
<1>1. TypeOK'
  BY DEF IInv, TypeOK, Expire, worldVars, bookVars
<1> QED BY <1>1, QuietIInv DEF Expire

LEMMA SetLimitsIInv == ASSUME IInv, NEW u \in Users, SetLimits(u) PROVE IInv'
<1>1. TypeOK'
  BY BoundsAssumption DEF IInv, TypeOK, SetLimits, Change, bookVars
<1> QED BY <1>1, QuietIInv DEF SetLimits

LEMMA UpdateOddsIInv == ASSUME IInv, NEW l \in Legs, UpdateOdds(l) PROVE IInv'
<1>1. PICK o \in Prices[l] : odds' = [odds EXCEPT ![l] = o]
  BY DEF UpdateOdds
<1>2. o \in Nat \ {0}
  BY PricesAssumption
<1>3. odds' \in [Legs -> Nat \ {0}] /\ \A k \in Legs : odds'[k] \in Prices[k]
  BY <1>1, <1>2 DEF IInv, TypeOK
<1>4. TypeOK'
  BY <1>3, BoundsAssumption DEF IInv, TypeOK, UpdateOdds, Change, bookVars
<1> QED BY <1>4, QuietIInv DEF UpdateOdds

LEMMA MidnightIInv == ASSUME IInv, Midnight PROVE IInv'
<1>1. changes' \in 0 .. MaxChanges /\ day' \in 0 .. changes' /\ day \in Nat /\ day' = day + 1
  BY BoundsAssumption DEF IInv, TypeOK, Midnight, Change
<1>2. \A b \in Bets : pc[b] # "idle" => bet[b].day <= day'
  <2> TAKE b \in Bets
  <2> HAVE pc[b] # "idle"
  <2>1. bet[b].day \in Nat /\ bet[b].day <= day
    BY BetType DEF IInv
  <2> QED BY <1>1, <2>1
<1>3. TypeOK'
  BY <1>1, <1>2 DEF IInv, TypeOK, Midnight, bookVars
<1> QED BY <1>3, QuietIInv DEF Midnight

LEMMA StutterIInv == ASSUME IInv, UNCHANGED vars PROVE IInv'
<1>1. TypeOK'
  BY DEF IInv, TypeOK, vars
<1> QED BY <1>1, QuietIInv DEF vars, bookVars

-------------------------------------------------------------------------------
\* The steps of a placement that are not its first two.

\* The bets a step does not touch are as they were.
LEMMA SameRows ==
    ASSUME TypeOK, bet' = bet
    PROVE  RowsKept
<1> SUFFICES ASSUME NEW b \in Stored PROVE bet[b].stake <= bet[b].stake
  BY DEF RowsKept
<1>1. b \in Bets /\ pc[b] # "idle"
  BY DEF Stored
<1>2. bet[b].stake \in Nat
  BY <1>1, BetType
<1> QED BY <1>2

LEMMA DropIInv == ASSUME IInv, NEW b \in Bets, Drop(b) PROVE IInv'
<1>1. TypeOK /\ MetOK /\ DayOK /\ ExposureOK /\ MoneyOK
  BY DEF IInv
<1>2. /\ pc[b] = "assessed" /\ pc' = [pc EXCEPT ![b] = "idle"]
      /\ bet' = [bet EXCEPT ![b] = NoBet] /\ met' = {p \in met : b \notin p}
      /\ exposure' = exposure /\ credited' = credited
      /\ odds' = odds /\ limit' = limit /\ day' = day /\ changes' = changes
  BY DEF Drop, Goto, worldVars
<1>3. /\ \A c \in Bets : pc'[c] = IF c = b THEN "idle" ELSE pc[c]
      /\ \A c \in Bets : c # b => bet'[c] = bet[c]
      /\ bet'[b] = NoBet
  BY <1>1, <1>2 DEF TypeOK
<1>4. TypeOK'
  <2>1. lock' \in [Users -> Bets \cup {Nobody}]
    BY <1>1 DEF TypeOK, Drop, Unlock
  <2>2. pc' \in [Bets -> InFlight \cup {"idle", "tracked", "untracked"}]
    BY <1>1, <1>2 DEF TypeOK
  <2>3. DOMAIN bet' = Bets
    BY <1>1, <1>2 DEF TypeOK
  <2>4. \A c \in Bets : IF pc'[c] = "idle" THEN bet'[c] = NoBet
                        ELSE /\ bet'[c] \in Rows /\ Len(bet'[c].odds) = Len(bet'[c].slip.legs)
                             /\ bet'[c].stake <= bet'[c].slip.stake /\ bet'[c].day <= day'
    BY <1>1, <1>2, <1>3 DEF TypeOK
  <2>5. met' \subseteq SUBSET Bets
    BY <1>1, <1>2 DEF TypeOK
  <2> QED BY <1>1, <1>2, <2>1, <2>2, <2>3, <2>4, <2>5 DEF TypeOK
<1>5. Stored' = Stored /\ b \notin Stored
  BY <1>2, <1>3 DEF Stored
<1>6. Assessed' = Assessed \ {b} /\ b \in Bets
  BY <1>3 DEF Assessed
<1>7. MetKept
  BY <1>2, <1>3 DEF MetKept
<1>8. RowsKept
  <2> SUFFICES ASSUME NEW c \in Stored PROVE bet'[c] = bet[c] /\ bet[c].stake <= bet[c].stake
    BY DEF RowsKept
  <2>1. c \in Bets /\ c # b /\ pc[c] # "idle"
    BY <1>5 DEF Stored
  <2>2. bet[c].stake \in Nat
    BY <1>1, <2>1, BetType
  <2> QED BY <1>3, <2>1, <2>2
<1>9. TrackedKept
  BY <1>2, <1>3 DEF TrackedKept
<1>10. \A c \in Assessed' : c \in Bets /\ pc[c] = "assessed" /\ pc'[c] = "assessed" /\ bet'[c] = bet[c]
  BY <1>3, <1>6 DEF Assessed
<1>11. MetOK'
  BY <1>1, <1>2, <1>3 DEF MetOK, InFlight
<1>12. DayOK'
  BY <1>1, <1>4, <1>5, <1>7, <1>8, <1>10, DayStays DEF DayOK
<1>13. ExposureOK'
  BY <1>1, <1>2, <1>4, <1>5, <1>7, <1>8, <1>9, <1>10, MarketStays DEF ExposureOK
<1>14. MoneyOK'
  <2>1. \A c \in Bets \ {b} : RowOK(c)' <=> RowOK(c)
    BY <1>2, <1>3 DEF RowOK, ActualWin, Promised
  <2>2. b \notin Stored /\ Stored \subseteq Bets /\ Assessed \subseteq Bets
    BY <1>5 DEF Stored, Assessed
  <2>3. \A c \in Assessed' : bet'[c].status = "ACCEPTED" /\ bet'[c].parts = 0
                              /\ bet'[c].sold = 0 /\ bet'[c].cash = 0
    BY <1>1, <1>6, <1>10 DEF MoneyOK
  <2> QED BY <1>1, <1>2, <1>5, <1>6, <2>1, <2>2, <2>3 DEF MoneyOK
<1> QED BY <1>4, <1>11, <1>12, <1>13, <1>14 DEF IInv

\* What both outcomes of the tracking leave alone.
LEMMA Tracks ==
    ASSUME IInv, NEW b \in Bets, NEW l \in {"tracked", "untracked"},
           pc[b] = "stored", pc' = [pc EXCEPT ![b] = l], Unlock(b),
           exposure' \in [Markets -> Nat], UNCHANGED <<worldVars, bookVars, met>>
    PROVE  /\ TypeOK' /\ MetOK' /\ DayOK' /\ MoneyOK' /\ MarketFits'
           /\ Stored' = Stored /\ Assessed' = Assessed
           /\ \A c \in Bets : pc'[c] = IF c = b THEN l ELSE pc[c]
<1>1. TypeOK /\ MetOK /\ DayOK /\ ExposureOK /\ MoneyOK
  BY DEF IInv
<1>2. /\ bet' = bet /\ credited' = credited /\ met' = met
      /\ odds' = odds /\ limit' = limit /\ day' = day /\ changes' = changes
  BY DEF worldVars, bookVars
<1>3. \A c \in Bets : pc'[c] = IF c = b THEN l ELSE pc[c]
  BY <1>1 DEF TypeOK
<1>4. TypeOK'
  <2>1. lock' \in [Users -> Bets \cup {Nobody}]
    BY <1>1 DEF TypeOK, Unlock
  <2>2. pc' \in [Bets -> InFlight \cup {"idle", "tracked", "untracked"}]
    BY <1>1 DEF TypeOK
  <2>3. \A c \in Bets : pc'[c] = "idle" <=> pc[c] = "idle"
    BY <1>3
  <2> QED BY <1>1, <1>2, <2>1, <2>2, <2>3 DEF TypeOK
<1>5. Stored' = Stored /\ Assessed' = Assessed
  BY <1>3 DEF Stored, Assessed
<1>6. MetKept
  BY <1>2 DEF MetKept
<1>7. RowsKept
  BY <1>1, <1>2, SameRows
<1>8. \A c \in Assessed' : c \in Bets /\ pc[c] = "assessed" /\ pc'[c] = "assessed"
  BY <1>3, <1>5 DEF Assessed
<1>9. MetOK'
  BY <1>1, <1>2, <1>3 DEF MetOK, InFlight
<1>10. DayOK'
  BY <1>1, <1>2, <1>4, <1>5, <1>6, <1>7, <1>8, DayStays DEF DayOK
<1>11. MoneyOK'
  <2>1. \A c : RowOK(c)' <=> RowOK(c)
    BY <1>2 DEF RowOK, ActualWin, Promised
  <2> QED BY <1>1, <1>2, <1>5, <2>1 DEF MoneyOK
<1>12. MarketFits'
  <2> SUFFICES ASSUME NEW m \in Markets,
                      NEW C \in SUBSET {c \in Stored' : bet'[c].market = m /\ pc'[c] # "untracked"},
                      Apart(C)'
               PROVE  Liability(C)' <= MaxExposure
    BY DEF MarketFits
  <2>1. C \in SUBSET {c \in Stored : bet[c].market = m /\ pc[c] # "untracked"}
    <3>1. \A c \in C : c \in Bets /\ pc[c] # "untracked"
      BY <1>3 DEF Stored
    <3> QED BY <1>2, <1>5, <3>1
  <2>2. Apart(C)
    BY <1>2 DEF Apart
  <2>3. Liability(C) <= MaxExposure
    BY <1>1, <2>1, <2>2 DEF ExposureOK, MarketFits
  <2> QED BY <1>2, <2>3 DEF Liability, Promised
<1> QED BY <1>3, <1>4, <1>5, <1>9, <1>10, <1>11, <1>12

LEMMA TrackFailsIInv == ASSUME IInv, NEW b \in Bets, TrackFails(b) PROVE IInv'
<1>1. TypeOK /\ ExposureOK
  BY DEF IInv
<1>2. /\ pc[b] = "stored" /\ pc' = [pc EXCEPT ![b] = "untracked"] /\ Unlock(b)
      /\ exposure' = exposure /\ UNCHANGED <<worldVars, bookVars, met>>
  BY DEF TrackFails, Goto
<1>3. exposure' \in [Markets -> Nat]
  BY <1>1, <1>2 DEF TypeOK
<1>4. /\ TypeOK' /\ MetOK' /\ DayOK' /\ MoneyOK' /\ MarketFits'
      /\ Stored' = Stored /\ Assessed' = Assessed
      /\ \A c \in Bets : pc'[c] = IF c = b THEN "untracked" ELSE pc[c]
  BY <1>2, <1>3, Tracks
<1>5. MetKept /\ TrackedKept /\ RowsKept /\ bet' = bet
  BY <1>1, <1>2, <1>4, SameRows DEF MetKept, TrackedKept, bookVars
<1>6. \A c \in Assessed' : c \in Bets /\ pc[c] = "assessed" /\ pc'[c] = "assessed"
  BY <1>4 DEF Assessed
<1>7. ExposureOK'
  BY <1>1, <1>2, <1>4, <1>5, <1>6, MarketStays DEF ExposureOK
<1> QED BY <1>4, <1>7 DEF IInv

LEMMA TrackIInv == ASSUME IInv, NEW b \in Bets, Track(b) PROVE IInv'
<1>1. TypeOK /\ ExposureOK /\ MetOK
  BY DEF IInv
<1> DEFINE n == bet[b].market
<1>2. /\ pc[b] = "stored" /\ pc' = [pc EXCEPT ![b] = "tracked"] /\ Unlock(b)
      /\ exposure' = [exposure EXCEPT ![n] = @ + Promised(b)]
      /\ UNCHANGED <<worldVars, bookVars, met>> /\ bet' = bet /\ met' = met
  BY DEF Track, Goto, bookVars
<1>3. n \in Markets /\ Promised(b) \in Nat /\ Promises(bet)[b] = Promised(b)
  BY <1>1, <1>2, BetType
<1> HIDE DEF n
<1>4. exposure' \in [Markets -> Nat]
      /\ \A m \in Markets : exposure'[m] = exposure[m] + (IF m = n THEN Promised(b) ELSE 0)
  BY <1>1, <1>2, <1>3 DEF TypeOK
<1>5. /\ TypeOK' /\ MetOK' /\ DayOK' /\ MoneyOK' /\ MarketFits'
      /\ Stored' = Stored /\ Assessed' = Assessed
      /\ \A c \in Bets : pc'[c] = IF c = b THEN "tracked" ELSE pc[c]
  BY <1>2, <1>4, Tracks
<1>6. \A m : Tracked(m)' = IF m = n THEN Tracked(m) \cup {b} ELSE Tracked(m)
  BY <1>2, <1>5 DEF Tracked, n
<1>7. \A m : b \notin Tracked(m) /\ Tracked(m) \in SUBSET Bets
  BY <1>2 DEF Tracked
<1>8. ASSUME NEW m \in Markets PROVE exposure'[m] = Liability(Tracked(m))'
  <2>1. exposure[m] = Liability(Tracked(m))
    BY <1>1 DEF ExposureOK
  <2>2. Tracked(m)' \in SUBSET Bets
    BY <1>6, <1>7
  <2>3. Liability(Tracked(m)) = Total(Promises(bet), Tracked(m))
    BY <1>7, PromisesIs DEF Liability, Promised
  <2>4. Liability(Tracked(m))' = Total(Promises(bet), Tracked(m)')
    BY <1>2, <2>2, PromisesIs DEF Liability, Promised
  <2>5. CASE m = n
    <3>1. Tracked(m)' = Tracked(m) \cup {b} /\ (Tracked(m) \cup {b}) \ {b} = Tracked(m)
      BY <1>6, <1>7, <2>5
    <3>2. \A c \in Tracked(m)' : Promises(bet)[c] \in Nat
      <4>1. \A c \in Tracked(m)' : c \in Bets /\ pc[c] # "idle"
        BY <1>2, <1>7, <3>1 DEF Tracked
      <4> QED BY <1>1, <4>1, BetType
    <3>3. IsFiniteSet(Tracked(m)')
      BY <2>2, StakesIs
    <3>4. Total(Promises(bet), Tracked(m) \cup {b}) = Promises(bet)[b] + Total(Promises(bet), Tracked(m))
      <4>1. \A c \in Tracked(m) \cup {b} : Promises(bet)[c] \in Int
        BY <3>1, <3>2
      <4>2. b \in Tracked(m) \cup {b}
        OBVIOUS
      <4>3. Total(Promises(bet), Tracked(m) \cup {b})
              = Promises(bet)[b] + Total(Promises(bet), (Tracked(m) \cup {b}) \ {b})
        BY <3>1, <3>3, <4>1, <4>2, TotalSplit
      <4> QED BY <3>1, <4>3
    <3>5. exposure[m] \in Nat
      BY <1>1 DEF TypeOK
    <3> QED BY <1>3, <1>4, <2>1, <2>3, <2>4, <2>5, <3>1, <3>4, <3>5
  <2>6. CASE m # n
    <3>1. Tracked(m)' = Tracked(m) /\ exposure[m] \in Nat
      BY <1>1, <1>6, <2>6 DEF TypeOK
    <3> QED BY <1>4, <2>1, <2>3, <2>4, <2>6, <3>1
  <2> QED BY <2>5, <2>6
<1>9. ASSUME NEW c \in Assessed' PROVE MarketRoom(c)'
  <2>1. c \in Bets /\ c # b /\ pc[c] = "assessed" /\ c \in Assessed
    BY <1>2, <1>5 DEF Assessed
  <2>2. {c, b} \in met
    BY <1>1, <1>2, <2>1 DEF MetOK, InFlight
  <2> DEFINE S == {x \in Tracked(bet[c].market) : {c, x} \notin met}
  <2>3. Liability(S) + Promised(c) <= MaxExposure
    BY <1>1, <2>1 DEF ExposureOK, MarketRoom
  <2>4. S' = S
    <3>1. S' = {x \in Tracked(bet[c].market)' : {c, x} \notin met}
      BY <1>2
    <3>2. Tracked(bet[c].market)' = IF bet[c].market = n THEN Tracked(bet[c].market) \cup {b}
                                                         ELSE Tracked(bet[c].market)
      BY <1>2, <1>6 DEF Tracked
    <3> QED BY <2>2, <3>1, <3>2
  <2> HIDE DEF S
  <2>5. Liability(S)' = Liability(S) /\ Promised(c)' = Promised(c)
    BY <1>2, <2>4 DEF Liability, Promised
  <2>6. Liability(S)' + Promised(c)' <= MaxExposure
    BY <2>3, <2>5
  <2> QED BY <2>6 DEF MarketRoom, S
<1> QED BY <1>5, <1>8, <1>9 DEF IInv, ExposureOK

-------------------------------------------------------------------------------
\* Placing and storing.

\* What placeBet computes is a row.
LEMMA PricedRow ==
    ASSUME TypeOK, NEW u \in Users, NEW slip \in Slips, NEW m \in Markets
    PROVE  /\ Priced(u, slip, m) \in Rows
           /\ Len(Priced(u, slip, m).odds) = Len(Priced(u, slip, m).slip.legs)
<1> DEFINE x == LegOdds(slip.legs)
           t == TotalOdds(slip.type, slip.size, x)
           row == Priced(u, slip, m)
<1>1. slip.legs \in Seq(Legs) /\ slip.stake \in Nat /\ slip.size \in 0 .. Len(slip.legs)
  BY SlipsAssumption
<1>2. x \in Seq(AnyPrice) /\ x \in Seq(Nat \ {0}) /\ Len(x) = Len(slip.legs)
  <2>1. Len(slip.legs) \in Nat /\ \A i \in 1 .. Len(slip.legs) : slip.legs[i] \in Legs
    BY <1>1
  <2>2. \A i \in 1 .. Len(slip.legs) : odds[slip.legs[i]] \in AnyPrice
    BY <2>1 DEF TypeOK, AnyPrice
  <2>3. x \in Seq(AnyPrice) /\ Len(x) = Len(slip.legs)
    BY <2>1, <2>2 DEF LegOdds
  <2> QED BY <2>3, PriceType
<1>3. t \in Ratios
  <2> HIDE DEF x
  <2> QED BY <1>1, <1>2, OddsType
<1>4. Rounded(Scaled(TotalUnit, t)) \in Nat /\ Rounded(Scaled(slip.stake, t)) \in Nat
  <2> HIDE DEF t
  <2> QED BY <1>1, <1>3, ScaledType, UnitsAssumption
<1>5. limit[u] \in DailyLimits /\ day \in 0 .. MaxChanges /\ 0 \in 0 .. MaxParts
  BY BoundsAssumption DEF TypeOK
<1>6. row = [user |-> u, slip |-> slip, market |-> m, odds |-> x, status |-> "ACCEPTED",
             stake |-> slip.stake, total |-> Rounded(Scaled(TotalUnit, t)),
             win |-> Rounded(Scaled(slip.stake, t)), won |-> 0, cash |-> 0, sold |-> 0,
             parts |-> 0, day |-> day, limit |-> limit[u]]
  BY DEF Priced
<1> HIDE DEF x, t, row
<1>7. row \in Rows
  BY <1>1, <1>2, <1>4, <1>5, <1>6 DEF Rows
<1>8. row.odds = x /\ row.slip = slip
  BY <1>6
<1> QED BY <1>2, <1>7, <1>8 DEF row

LEMMA PlaceIInv ==
    ASSUME IInv, NEW b \in Bets, NEW u \in Users, NEW slip \in Slips, Place(b, u, slip)
    PROVE  IInv'
<1>1. TypeOK /\ MetOK /\ DayOK /\ ExposureOK /\ MoneyOK
  BY DEF IInv
<1>2. PICK i \in 1 .. Len(slip.legs) :
        LET row == Priced(u, slip, MarketOf[slip.legs[i]])
        IN  /\ WithinDailyLimit(u, slip.stake)
            /\ WithinMarketLimit(row.market, row.win)
            /\ bet' = [bet EXCEPT ![b] = row]
  BY DEF Place
<1> DEFINE m == MarketOf[slip.legs[i]]
           row == Priced(u, slip, m)
           new == {{b, c} : c \in {d \in Bets \ {b} : pc[d] \in InFlight}}
<1>3. /\ pc[b] = "idle" /\ lock' = [lock EXCEPT ![u] = b] /\ pc' = [pc EXCEPT ![b] = "assessed"]
      /\ met' = met \cup new /\ exposure' = exposure /\ credited' = credited
      /\ odds' = odds /\ limit' = limit /\ day' = day /\ changes' = changes
      /\ bet' = [bet EXCEPT ![b] = row]
      /\ WithinDailyLimit(u, slip.stake) /\ WithinMarketLimit(row.market, row.win)
  BY <1>2 DEF Place, Goto, worldVars
<1>4. m \in Markets
  <2>1. slip.legs[i] \in Legs
    BY SlipsAssumption
  <2> QED BY <2>1 DEF Markets
<1> HIDE DEF m
<1>5. row \in Rows /\ Len(row.odds) = Len(row.slip.legs)
  BY <1>1, <1>4, PricedRow
<1>6. /\ row.user = u /\ row.slip = slip /\ row.market = m /\ row.status = "ACCEPTED"
      /\ row.stake = slip.stake /\ row.won = 0 /\ row.cash = 0 /\ row.sold = 0 /\ row.parts = 0
      /\ row.day = day /\ row.limit = limit[u]
      /\ row.win = Rounded(Scaled(slip.stake, TotalOdds(slip.type, slip.size, row.odds)))
      /\ row.total = Rounded(Scaled(TotalUnit, TotalOdds(slip.type, slip.size, row.odds)))
  BY DEF Priced
<1> HIDE DEF row
<1>7. /\ \A c \in Bets : pc'[c] = IF c = b THEN "assessed" ELSE pc[c]
      /\ \A c \in Bets : c # b => bet'[c] = bet[c]
      /\ bet'[b] = row
  BY <1>1, <1>3 DEF TypeOK
<1>8. slip.stake \in Nat /\ day \in Nat
  BY <1>1, SlipsAssumption, BoundsAssumption DEF TypeOK
<1>9. TypeOK'
  <2>1. lock' \in [Users -> Bets \cup {Nobody}]
    BY <1>1, <1>3 DEF TypeOK
  <2>2. pc' \in [Bets -> InFlight \cup {"idle", "tracked", "untracked"}]
    BY <1>1, <1>3 DEF TypeOK, InFlight
  <2>3. DOMAIN bet' = Bets
    BY <1>1, <1>3 DEF TypeOK
  <2>4. \A c \in Bets : IF pc'[c] = "idle" THEN bet'[c] = NoBet
                        ELSE /\ bet'[c] \in Rows /\ Len(bet'[c].odds) = Len(bet'[c].slip.legs)
                             /\ bet'[c].stake <= bet'[c].slip.stake /\ bet'[c].day <= day'
    <3> SUFFICES ASSUME NEW c \in Bets
                 PROVE  IF pc'[c] = "idle" THEN bet'[c] = NoBet
                        ELSE /\ bet'[c] \in Rows /\ Len(bet'[c].odds) = Len(bet'[c].slip.legs)
                             /\ bet'[c].stake <= bet'[c].slip.stake /\ bet'[c].day <= day'
      OBVIOUS
    <3>1. CASE c = b
      <4>1. row.stake <= row.slip.stake /\ row.day <= day' /\ pc'[c] # "idle"
        BY <1>3, <1>6, <1>7, <1>8, <3>1
      <4> QED BY <1>5, <1>7, <3>1, <4>1
    <3>2. CASE c # b
      BY <1>1, <1>3, <1>7, <3>2 DEF TypeOK
    <3> QED BY <3>1, <3>2
  <2>5. met' \subseteq SUBSET Bets
    BY <1>1, <1>3 DEF TypeOK
  <2> QED BY <1>1, <1>3, <2>1, <2>2, <2>3, <2>4, <2>5 DEF TypeOK
<1>10. Stored' = Stored /\ b \notin Stored /\ Stored \in SUBSET Bets
  BY <1>3, <1>7 DEF Stored
<1>11. Assessed' = Assessed \cup {b}
  BY <1>7 DEF Assessed
<1>12. MetKept
  BY <1>3 DEF MetKept
<1>13. RowsKept
  <2> SUFFICES ASSUME NEW c \in Stored PROVE bet'[c] = bet[c] /\ bet[c].stake <= bet[c].stake
    BY DEF RowsKept
  <2>1. c \in Bets /\ c # b /\ pc[c] # "idle"
    BY <1>10 DEF Stored
  <2>2. bet[c].stake \in Nat
    BY <1>1, <2>1, BetType
  <2> QED BY <1>7, <2>1, <2>2
<1>14. TrackedKept
  BY <1>3, <1>7 DEF TrackedKept
<1>15. \A c \in Assessed' \ {b} :
          c \in Bets /\ pc[c] = "assessed" /\ pc'[c] = "assessed" /\ bet'[c] = bet[c] /\ c \in Assessed
  BY <1>7, <1>11 DEF Assessed
<1>16. MetOK'
  <2>1. ASSUME NEW c \in Bets, NEW d \in Bets, c # d, pc'[c] \in InFlight, pc'[d] \in InFlight
        PROVE  {c, d} \in met'
    <3>1. CASE c = b
      BY <1>3, <1>7, <2>1, <3>1
    <3>2. CASE d = b
      <4>1. {c, d} = {b, c}
        BY <3>2
      <4> QED BY <1>3, <1>7, <2>1, <3>2, <4>1
    <3>3. CASE c # b /\ d # b
      BY <1>1, <1>3, <1>7, <2>1, <3>3 DEF MetOK
    <3> QED BY <3>1, <3>2, <3>3
  <2>2. ASSUME NEW p \in met', NEW c \in p PROVE pc'[c] # "idle"
    <3>1. CASE p \in met
      <4>1. c \in Bets /\ pc[c] # "idle"
        BY <1>1, <2>2, <3>1 DEF MetOK, TypeOK
      <4> QED BY <1>7, <4>1
    <3>2. CASE p \in new
      <4>1. c \in Bets /\ (c = b \/ pc[c] \in InFlight)
        BY <2>2, <3>2
      <4> QED BY <1>7, <4>1 DEF InFlight
    <3> QED BY <1>3, <3>1, <3>2
  <2> QED BY <2>1, <2>2 DEF MetOK
<1>17. DayRoom(b)'
  <2> DEFINE S == {c \in OfDay(bet[b].user, bet[b].day) : {b, c} \notin met}
             W == {c \in Today(Counted(Stored)) : bet[c].user = u}
  <2>1. S' \in SUBSET W
    <3>1. \A c \in S' : c \in Stored /\ bet'[c].status \notin {"CANCELLED", "VOID"}
                        /\ bet'[c].user = u /\ bet'[c].day = day
      BY <1>6, <1>7, <1>10 DEF OfDay, Counted
    <3>2. \A c \in S' : c \in Bets /\ c # b
      BY <1>10, <3>1
    <3>3. \A c \in S' : c \in W
      BY <1>7, <3>1, <3>2 DEF Today, Counted
    <3> HIDE DEF S, W
    <3> QED BY <3>3
  <2>2. W \in SUBSET Stored
    BY DEF Today, Counted
  <2>3. StakesOf(W) + slip.stake <= limit[u]
    BY <1>3 DEF WithinDailyLimit
  <2> HIDE DEF W
  <2>4. StakesOf(S)' \in Nat /\ StakesOf(W) \in Nat /\ StakesOf(S)' <= StakesOf(W)
    <3> HIDE DEF S
    <3>1. S' \in SUBSET Bets /\ W \in SUBSET Bets
      BY <1>10, <2>1, <2>2
    <3>2. StakesOf(S)' = Total(Stakes(bet'), S') /\ StakesOf(W) = Total(Stakes(bet), W)
      BY <3>1, StakesIs DEF StakesOf
    <3> QED BY <1>1, <1>9, <1>10, <1>13, <2>1, <2>2, <3>2, LessStaked
  <2>5. limit[u] \in Nat
    BY <1>1, LimitsAssumption DEF TypeOK
  <2>6. StakesOf(S)' + bet'[b].stake <= bet'[b].limit
    <3> HIDE DEF S
    <3> QED BY <1>6, <1>7, <1>8, <2>3, <2>4, <2>5
  <2>7. \A c \in Stored' : ~(bet'[c].day > bet'[b].day)
    <3> TAKE c \in Stored'
    <3>1. c \in Bets /\ pc[c] # "idle" /\ bet'[c] = bet[c]
      BY <1>7, <1>10 DEF Stored
    <3>2. bet[c].day \in Nat /\ bet[c].day <= day
      BY <1>1, <3>1, BetType
    <3> QED BY <1>6, <1>7, <1>8, <3>1, <3>2
  <2> QED BY <2>6, <2>7 DEF DayRoom
<1>18. DayOK'
  BY <1>1, <1>9, <1>10, <1>12, <1>13, <1>15, <1>17, DayStays DEF DayOK
<1>19. MarketRoom(b)'
  <2> DEFINE S == {c \in Tracked(bet[b].market) : {b, c} \notin met}
  <2>1. S' \in SUBSET Tracked(m)
    <3>1. \A c \in S' : c \in Bets /\ pc'[c] = "tracked" /\ bet'[c].market = m
      BY <1>6, <1>7 DEF Tracked
    <3>2. \A c \in S' : c \in Tracked(m)
      BY <1>7, <3>1 DEF Tracked
    <3> HIDE DEF S
    <3> QED BY <3>2
  <2> HIDE DEF S
  <2>2. Tracked(m) \in SUBSET Stored
    BY DEF Tracked, Stored
  <2>3. exposure[m] = Total(Promises(bet), Tracked(m))
    <3>1. Tracked(m) \in SUBSET Bets
      BY DEF Tracked
    <3> QED BY <1>1, <1>4, <3>1, PromisesIs DEF ExposureOK, Liability, Promised
  <2>4. S' \in SUBSET Stored
    BY <2>1, <2>2
  <2>5. Liability(S)' = Total(Promises(bet), S')
    <3>1. S' \in SUBSET Bets
      BY <1>10, <2>4
    <3>2. Liability(S)' = Total(Promises(bet'), S')
      BY <3>1, PromisesIs DEF Liability, Promised
    <3> QED BY <1>13, <2>4, <3>2, SamePromised
  <2>6. /\ Total(Promises(bet), S') \in Nat /\ Total(Promises(bet), Tracked(m)) \in Nat
        /\ Total(Promises(bet), S') <= Total(Promises(bet), Tracked(m))
    BY <1>1, <2>1, <2>2, LessPromised
  <2>7. exposure[m] + row.win <= MaxExposure
    BY <1>3, <1>6 DEF WithinMarketLimit
  <2>8. Promised(b)' = row.win /\ row.win \in Nat
    BY <1>5, <1>6, <1>7 DEF Promised, Rows
  <2>9. Liability(S)' + Promised(b)' <= MaxExposure
    BY <2>3, <2>5, <2>6, <2>7, <2>8, LimitsAssumption
  <2> QED BY <2>9 DEF MarketRoom, S
<1>20. ExposureOK'
  BY <1>1, <1>3, <1>9, <1>10, <1>12, <1>13, <1>14, <1>15, <1>19, MarketStays DEF ExposureOK
<1>21. MoneyOK'
  <2>1. \A c \in Bets \ {b} : RowOK(c)' <=> RowOK(c)
    BY <1>3, <1>7 DEF RowOK, ActualWin, Promised
  <2>2. RowOK(b)'
    <3>1. credited'[b] = 0
      BY <1>1, <1>3, <1>10 DEF MoneyOK
    <3>2. bet'[b].stake + bet'[b].sold - bet'[b].slip.stake = 0
      BY <1>6, <1>7, <1>8
    <3>3. Promised(b)' = row.win
      BY <1>6, <1>7 DEF Promised
    <3> QED BY <1>6, <1>7, <3>1, <3>2, <3>3 DEF RowOK
  <2>3. \A c \in Assessed' : bet'[c].status = "ACCEPTED" /\ bet'[c].parts = 0
                              /\ bet'[c].sold = 0 /\ bet'[c].cash = 0
    <3> TAKE c \in Assessed'
    <3>1. CASE c = b
      BY <1>6, <1>7, <3>1
    <3>2. CASE c # b
      BY <1>1, <1>15, <3>2 DEF MoneyOK
    <3> QED BY <3>1, <3>2
  <2>4. \A c \in Assessed' \cup Stored' : RowOK(c)'
    <3> TAKE c \in Assessed' \cup Stored'
    <3>1. CASE c = b
      BY <2>2, <3>1
    <3>2. CASE c # b
      BY <1>1, <1>10, <1>15, <2>1, <3>2 DEF MoneyOK
    <3> QED BY <3>1, <3>2
  <2> QED BY <1>1, <1>3, <1>10, <2>3, <2>4 DEF MoneyOK
<1> QED BY <1>9, <1>16, <1>18, <1>20, <1>21 DEF IInv

\* A sum over less is not more.
LEMMA FewerStaked ==
    ASSUME TypeOK, NEW S \in SUBSET Stored, NEW C \in SUBSET S
    PROVE  /\ Total(Stakes(bet), C) \in Nat /\ Total(Stakes(bet), S) \in Nat
           /\ Total(Stakes(bet), C) <= Total(Stakes(bet), S)
<1>1. IsFiniteSet(S)
  <2>1. S \in SUBSET Bets
    BY DEF Stored
  <2> QED BY <2>1, StakesIs
<1>2. \A b \in S : Stakes(bet)[b] \in Nat /\ Stakes(bet)[b] <= Stakes(bet)[b]
  <2> TAKE b \in S
  <2>1. b \in Bets /\ pc[b] # "idle"
    BY DEF Stored
  <2>2. Stakes(bet)[b] \in Nat
    BY <2>1, BetType
  <2> QED BY <2>2
<1> QED BY <1>1, <1>2, TotalMonotone

LEMMA StoreIInv == ASSUME IInv, NEW b \in Bets, Store(b) PROVE IInv'
<1>1. TypeOK /\ MetOK /\ DayOK /\ ExposureOK /\ MoneyOK
  BY DEF IInv
<1>2. /\ pc[b] = "assessed" /\ pc' = [pc EXCEPT ![b] = "stored"]
      /\ bet' = [bet EXCEPT ![b].day = day] /\ met' = met /\ lock' = lock
      /\ exposure' = exposure /\ credited' = credited
      /\ odds' = odds /\ limit' = limit /\ day' = day /\ changes' = changes
  BY DEF Store, Goto, worldVars
<1>3. /\ bet[b] \in Rows /\ Len(bet[b].odds) = Len(bet[b].slip.legs)
      /\ bet[b].stake <= bet[b].slip.stake
      /\ bet[b].user \in Users /\ bet[b].market \in Markets /\ bet[b].limit \in Nat
      /\ bet[b].day \in Nat /\ bet[b].day <= day /\ bet[b].stake \in Nat /\ Promised(b) \in Nat
      /\ Stakes(bet)[b] = bet[b].stake /\ Promises(bet)[b] = Promised(b)
      /\ b \in Assessed
  <2>1. pc[b] # "idle"
    BY <1>2
  <2>2. bet[b].stake <= bet[b].slip.stake
    BY <1>1, <2>1 DEF TypeOK
  <2> QED BY <1>1, <1>2, <2>1, <2>2, BetType DEF Assessed
<1>4. day \in 0 .. MaxChanges /\ day \in Nat
  BY <1>1, BoundsAssumption DEF TypeOK
<1>5. /\ \A c \in Bets : pc'[c] = IF c = b THEN "stored" ELSE pc[c]
      /\ \A c \in Bets : c # b => bet'[c] = bet[c]
      /\ bet'[b] = [bet[b] EXCEPT !.day = day]
  BY <1>1, <1>2 DEF TypeOK
<1>6. /\ bet'[b] \in Rows /\ bet'[b].day = day /\ bet'[b].user = bet[b].user
      /\ bet'[b].market = bet[b].market /\ bet'[b].slip = bet[b].slip /\ bet'[b].odds = bet[b].odds
      /\ bet'[b].status = bet[b].status /\ bet'[b].stake = bet[b].stake
      /\ bet'[b].limit = bet[b].limit /\ bet'[b].total = bet[b].total /\ bet'[b].win = bet[b].win
      /\ bet'[b].won = bet[b].won /\ bet'[b].cash = bet[b].cash /\ bet'[b].sold = bet[b].sold
      /\ bet'[b].parts = bet[b].parts
  BY <1>3, <1>4, <1>5 DEF Rows
<1>7. TypeOK'
  <2>1. pc' \in [Bets -> InFlight \cup {"idle", "tracked", "untracked"}]
    BY <1>1, <1>2 DEF TypeOK, InFlight
  <2>2. DOMAIN bet' = Bets
    BY <1>1, <1>2 DEF TypeOK
  <2>3. \A c \in Bets : IF pc'[c] = "idle" THEN bet'[c] = NoBet
                        ELSE /\ bet'[c] \in Rows /\ Len(bet'[c].odds) = Len(bet'[c].slip.legs)
                             /\ bet'[c].stake <= bet'[c].slip.stake /\ bet'[c].day <= day'
    <3> SUFFICES ASSUME NEW c \in Bets
                 PROVE  IF pc'[c] = "idle" THEN bet'[c] = NoBet
                        ELSE /\ bet'[c] \in Rows /\ Len(bet'[c].odds) = Len(bet'[c].slip.legs)
                             /\ bet'[c].stake <= bet'[c].slip.stake /\ bet'[c].day <= day'
      OBVIOUS
    <3>1. CASE c = b
      <4>1. bet'[b].day <= day' /\ pc'[b] # "idle"
        BY <1>2, <1>4, <1>5, <1>6
      <4> QED BY <1>3, <1>6, <3>1, <4>1
    <3>2. CASE c # b
      BY <1>1, <1>2, <1>5, <3>2 DEF TypeOK
    <3> QED BY <3>1, <3>2
  <2> QED BY <1>1, <1>2, <2>1, <2>2, <2>3 DEF TypeOK
<1>8. Stored' = Stored \cup {b} /\ b \notin Stored /\ Stored \in SUBSET Bets
  BY <1>2, <1>5 DEF Stored
<1>9. Assessed' = Assessed \ {b}
  BY <1>5 DEF Assessed
<1>10. \A c \in Assessed' : c \in Bets /\ c # b /\ c \in Assessed /\ bet'[c] = bet[c] /\ {c, b} \in met
  <2>1. \A c \in Assessed' : c \in Bets /\ c # b /\ pc[c] = "assessed"
    BY <1>9 DEF Assessed
  <2> QED BY <1>1, <1>2, <1>5, <1>9, <2>1 DEF MetOK, InFlight
<1>11. Stakes(bet') = Stakes(bet)
  <2>1. \A c \in Bets : bet'[c].stake = bet[c].stake
    BY <1>5, <1>6
  <2> QED BY <2>1 DEF Stakes
<1>12. Promises(bet') = Promises(bet)
  <2>1. \A c \in Bets : bet'[c].slip = bet[c].slip /\ bet'[c].odds = bet[c].odds
    BY <1>5, <1>6
  <2> QED BY <2>1 DEF Promises
<1>13. ASSUME NEW C \in SUBSET Bets
       PROVE  /\ StakesOf(C) = Total(Stakes(bet), C) /\ StakesOf(C)' = Total(Stakes(bet), C)
              /\ Liability(C) = Total(Promises(bet), C)
              /\ Liability(C)' = Total(Promises(bet), C)
  BY <1>11, <1>12, StakesIs, PromisesIs DEF StakesOf, Liability, Promised
<1>14. MetOK'
  BY <1>1, <1>2, <1>5 DEF MetOK, InFlight
<1>15. DayFits'
  <2> SUFFICES ASSUME NEW u \in Users, NEW d \in 0 .. day', NEW C \in SUBSET OfDay(u, d)',
                      C # {}, Apart(C)'
               PROVE  \E c \in C : StakesOf(C)' <= bet'[c].limit
    BY DEF DayFits
  <2>1. /\ Apart(C) /\ d \in 0 .. day
        /\ \A c \in C : /\ c \in Stored' /\ c \in Bets /\ bet'[c].user = u /\ bet'[c].day = d
                        /\ bet'[c].status \notin {"CANCELLED", "VOID"}
    BY <1>2, <1>8 DEF OfDay, Counted, Apart
  <2>2. C \in SUBSET Bets
    BY <2>1
  <2>3. CASE b \notin C
    <3>1. C \in SUBSET OfDay(u, d)
      BY <1>5, <1>8, <2>1, <2>3 DEF OfDay, Counted
    <3>2. PICK c \in C : StakesOf(C) <= bet[c].limit
      BY <1>1, <2>1, <3>1 DEF DayOK, DayFits
    <3>3. bet'[c].limit = bet[c].limit
      BY <1>5, <2>2, <2>3
    <3> QED BY <1>13, <2>2, <3>2, <3>3
  <2>4. CASE b \in C
    <3> DEFINE S == {c \in OfDay(bet[b].user, bet[b].day) : {b, c} \notin met}
    <3>1. StakesOf(S) + bet[b].stake <= bet[b].limit
          /\ \A c \in Stored : bet[c].day > bet[b].day => {b, c} \in met
      BY <1>1, <1>3 DEF DayOK, DayRoom
    <3>2. u = bet[b].user /\ d = day
      BY <1>6, <2>1, <2>4
    <3>3. C \ {b} \in SUBSET S
      <4> SUFFICES ASSUME NEW c \in C, c # b PROVE c \in S
        OBVIOUS
      <4>1. c \in Stored /\ bet[c].user = bet[b].user /\ bet[c].day = day
            /\ bet[c].status \notin {"CANCELLED", "VOID"} /\ {b, c} \notin met
        BY <1>5, <1>8, <2>1, <2>4, <3>2 DEF Apart
      <4>2. ~(bet[c].day > bet[b].day)
        BY <3>1, <4>1
      <4>3. bet[c].day = bet[b].day
        BY <1>3, <1>4, <4>1, <4>2
      <4> QED BY <4>1, <4>3 DEF OfDay, Counted
    <3>4. S \in SUBSET Stored
      BY DEF OfDay, Counted
    <3> HIDE DEF S
    <3>5. /\ Total(Stakes(bet), C \ {b}) \in Nat /\ Total(Stakes(bet), S) \in Nat
          /\ Total(Stakes(bet), C \ {b}) <= Total(Stakes(bet), S)
      BY <1>1, <3>3, <3>4, FewerStaked
    <3>6. Total(Stakes(bet), C) = Stakes(bet)[b] + Total(Stakes(bet), C \ {b})
      <4>1. \A c \in C : Stakes(bet)[c] \in Int
        <5> TAKE c \in C
        <5>1. c \in Bets /\ pc[c] # "idle"
          BY <1>2, <1>8, <2>1 DEF Stored
        <5>2. Stakes(bet)[c] \in Nat
          BY <1>1, <5>1, BetType
        <5> QED BY <5>2
      <4>2. IsFiniteSet(C)
        BY <2>2, StakesIs
      <4> QED BY <2>4, <4>1, <4>2, TotalSplit
    <3>7. StakesOf(S) = Total(Stakes(bet), S)
      BY <1>8, <1>13, <3>4
    <3>8. StakesOf(C)' = Total(Stakes(bet), C)
      BY <1>13, <2>2
    <3>9. StakesOf(C)' <= bet'[b].limit
      BY <1>3, <1>6, <3>1, <3>5, <3>6, <3>7, <3>8
    <3> QED BY <2>4, <3>9
  <2> QED BY <2>3, <2>4
<1>16. ASSUME NEW c \in Assessed' PROVE DayRoom(c)'
  <2> DEFINE S == {x \in OfDay(bet[c].user, bet[c].day) : {c, x} \notin met}
  <2>1. c \in Bets /\ c # b /\ c \in Assessed /\ bet'[c] = bet[c] /\ {c, b} \in met
    BY <1>10
  <2>2. StakesOf(S) + bet[c].stake <= bet[c].limit
        /\ \A x \in Stored : bet[x].day > bet[c].day => {c, x} \in met
    BY <1>1, <2>1 DEF DayOK, DayRoom
  <2>3. S' = S
    <3>1. \A x : x \in S' <=> /\ x \in Stored' /\ bet'[x].status \notin {"CANCELLED", "VOID"}
                              /\ bet'[x].user = bet'[c].user /\ bet'[x].day = bet'[c].day
                              /\ {c, x} \notin met'
      BY DEF OfDay, Counted
    <3>2. \A x : x \in S <=> /\ x \in Stored /\ bet[x].status \notin {"CANCELLED", "VOID"}
                             /\ bet[x].user = bet[c].user /\ bet[x].day = bet[c].day
                             /\ {c, x} \notin met
      BY DEF OfDay, Counted
    <3>3. \A x \in Stored : bet'[x] = bet[x]
      BY <1>5, <1>8
    <3>4. \A x : x \in S' <=> x \in S
      BY <1>2, <1>8, <2>1, <3>1, <3>2, <3>3
    <3> HIDE DEF S
    <3> QED BY <3>4
  <2>4. S \in SUBSET Bets
    BY <1>8 DEF OfDay, Counted
  <2> HIDE DEF S
  <2>5. StakesOf(S)' = StakesOf(S)
    <3>1. StakesOf(S)' = Total(Stakes(bet'), S')
      BY <2>3, <2>4, StakesIs DEF StakesOf
    <3> QED BY <1>11, <1>13, <2>3, <2>4, <3>1
  <2>6. StakesOf(S)' + bet'[c].stake <= bet'[c].limit
    BY <2>1, <2>2, <2>5
  <2>7. \A x \in Stored' : bet'[x].day > bet'[c].day => {c, x} \in met'
    <3> TAKE x \in Stored'
    <3>1. CASE x = b
      BY <1>2, <2>1, <3>1
    <3>2. CASE x # b
      BY <1>2, <1>5, <1>8, <2>1, <2>2, <3>2
    <3> QED BY <3>1, <3>2
  <2> QED BY <2>6, <2>7 DEF DayRoom, S
<1>17. \A m : Tracked(m)' = Tracked(m) /\ Tracked(m) \in SUBSET Stored
  BY <1>2, <1>5 DEF Tracked, Stored
<1>18. MarketFits'
  <2> SUFFICES ASSUME NEW m \in Markets,
                      NEW C \in SUBSET {c \in Stored' : bet'[c].market = m /\ pc'[c] # "untracked"},
                      Apart(C)'
               PROVE  Liability(C)' <= MaxExposure
    BY DEF MarketFits
  <2>1. /\ Apart(C)
        /\ \A c \in C : /\ c \in Stored' /\ c \in Bets /\ bet[c].market = m /\ pc[c] # "untracked"
    BY <1>2, <1>5, <1>6, <1>8 DEF Apart
  <2>2. C \in SUBSET Bets
    BY <2>1
  <2>3. CASE b \notin C
    <3>1. C \in SUBSET {c \in Stored : bet[c].market = m /\ pc[c] # "untracked"}
      BY <1>8, <2>1, <2>3
    <3>2. Liability(C) <= MaxExposure
      BY <1>1, <2>1, <3>1 DEF ExposureOK, MarketFits
    <3> QED BY <1>13, <2>2, <3>2
  <2>4. CASE b \in C
    <3> DEFINE S == {c \in Tracked(bet[b].market) : {b, c} \notin met}
    <3>1. Liability(S) + Promised(b) <= MaxExposure
      BY <1>1, <1>3 DEF ExposureOK, MarketRoom
    <3>2. C \ {b} \in SUBSET S
      <4> SUFFICES ASSUME NEW c \in C, c # b PROVE c \in S
        OBVIOUS
      <4>1. c \in Stored /\ bet[c].market = bet[b].market /\ {b, c} \notin met /\ c \in Bets
        BY <1>8, <2>1, <2>4 DEF Apart
      <4>2. pc[c] \notin InFlight
        BY <1>1, <1>2, <4>1 DEF MetOK, InFlight
      <4>3. pc[c] = "tracked"
        BY <2>1, <4>1, <4>2 DEF Stored, InFlight
      <4> QED BY <4>1, <4>3 DEF Tracked
    <3>3. S \in SUBSET Stored
      BY <1>17
    <3> HIDE DEF S
    <3>4. /\ Total(Promises(bet), C \ {b}) \in Nat /\ Total(Promises(bet), S) \in Nat
          /\ Total(Promises(bet), C \ {b}) <= Total(Promises(bet), S)
      BY <1>1, <3>2, <3>3, LessPromised
    <3>5. Total(Promises(bet), C) = Promises(bet)[b] + Total(Promises(bet), C \ {b})
      <4>1. \A c \in C : Promises(bet)[c] \in Int
        <5> TAKE c \in C
        <5>1. c \in Bets /\ pc[c] # "idle"
          BY <1>2, <1>8, <2>1 DEF Stored
        <5>2. Promises(bet)[c] \in Nat
          BY <1>1, <5>1, BetType
        <5> QED BY <5>2
      <4>2. IsFiniteSet(C)
        BY <2>2, StakesIs
      <4> QED BY <2>4, <4>1, <4>2, TotalSplit
    <3>6. Liability(S) = Total(Promises(bet), S)
      BY <1>8, <1>13, <3>3
    <3>7. Liability(C)' = Total(Promises(bet), C)
      BY <1>13, <2>2
    <3> QED BY <1>3, <3>1, <3>4, <3>5, <3>6, <3>7, LimitsAssumption
  <2> QED BY <2>3, <2>4
<1>19. ASSUME NEW c \in Assessed' PROVE MarketRoom(c)'
  <2> DEFINE S == {x \in Tracked(bet[c].market) : {c, x} \notin met}
  <2>1. c \in Bets /\ c # b /\ c \in Assessed /\ bet'[c] = bet[c]
    BY <1>10
  <2>2. Liability(S) + Promised(c) <= MaxExposure
    BY <1>1, <2>1 DEF ExposureOK, MarketRoom
  <2>3. S' = S
    <3>1. Tracked(bet[c].market)' = Tracked(bet[c].market)
      BY <1>2, <1>5, <2>1 DEF Tracked
    <3> QED BY <1>2, <3>1
  <2>4. S \in SUBSET Bets
    BY DEF Tracked
  <2> HIDE DEF S
  <2>5. Liability(S)' = Liability(S) /\ Promised(c)' = Promised(c)
    <3>1. Liability(S)' = Total(Promises(bet'), S')
      BY <2>3, <2>4, PromisesIs DEF Liability, Promised
    <3> QED BY <1>12, <1>13, <2>1, <2>3, <2>4, <3>1 DEF Promised
  <2>6. Liability(S)' + Promised(c)' <= MaxExposure
    BY <2>2, <2>5
  <2> QED BY <2>6 DEF MarketRoom, S
<1>20. ASSUME NEW m \in Markets PROVE exposure'[m] = Liability(Tracked(m))'
  <2>1. Tracked(m) \in SUBSET Bets
    BY DEF Tracked
  <2>2. Liability(Tracked(m))' = Total(Promises(bet'), Tracked(m)')
    BY <1>17, <2>1, PromisesIs DEF Liability, Promised
  <2>3. Liability(Tracked(m)) = Total(Promises(bet), Tracked(m))
    BY <1>13, <2>1
  <2> QED BY <1>1, <1>2, <1>12, <1>17, <2>2, <2>3 DEF ExposureOK
<1>21. MoneyOK'
  <2>1. \A c \in Bets \ {b} : RowOK(c)' <=> RowOK(c)
    BY <1>2, <1>5 DEF RowOK, ActualWin, Promised
  <2>2. RowOK(b)' <=> RowOK(b)
    BY <1>2, <1>6 DEF RowOK, ActualWin, Promised
  <2>3. \A c \in Assessed' \cup Stored' : RowOK(c)'
    <3> TAKE c \in Assessed' \cup Stored'
    <3>1. c \in Bets /\ c \in Assessed \cup Stored
      BY <1>3, <1>8, <1>9 DEF Assessed
    <3> QED BY <1>1, <2>1, <2>2, <3>1 DEF MoneyOK
  <2>4. \A c \in Assessed' : bet'[c].status = "ACCEPTED" /\ bet'[c].parts = 0
                              /\ bet'[c].sold = 0 /\ bet'[c].cash = 0
    BY <1>1, <1>10 DEF MoneyOK
  <2> QED BY <1>1, <1>2, <1>8, <2>3, <2>4 DEF MoneyOK
<1> QED BY <1>7, <1>14, <1>15, <1>16, <1>18, <1>19, <1>20, <1>21 DEF IInv, DayOK, ExposureOK

-------------------------------------------------------------------------------
\* What happens to a stored bet.

\* A row that may replace r: the placement's columns stay, the stake does not grow.
Follows(row, r) ==
    /\ row \in Rows
    /\ row.user = r.user /\ row.slip = r.slip /\ row.market = r.market /\ row.odds = r.odds
    /\ row.day = r.day /\ row.limit = r.limit /\ row.total = r.total
    /\ row.stake <= r.stake

LEMMA WriteIInv ==
    ASSUME IInv, NEW b \in Bets, NEW row, NEW pays \in Nat,
           Write(b, row, pays), Follows(row, bet[b]), RowOK(b)'
    PROVE  IInv'
<1>1. TypeOK /\ MetOK /\ DayOK /\ ExposureOK /\ MoneyOK
  BY DEF IInv
<1>2. /\ b \in Stored /\ bet[b].status = "ACCEPTED"
      /\ bet' = [bet EXCEPT ![b] = row] /\ credited' = [credited EXCEPT ![b] = @ + pays]
      /\ pc' = pc /\ met' = met /\ lock' = lock /\ exposure' = exposure
      /\ odds' = odds /\ limit' = limit /\ day' = day /\ changes' = changes
  BY DEF Write, worldVars
<1>3. /\ \A c \in Bets : c # b => bet'[c] = bet[c] /\ credited'[c] = credited[c]
      /\ bet'[b] = row
  BY <1>1, <1>2 DEF TypeOK
<1>4. /\ pc[b] # "idle" /\ bet[b] \in Rows /\ Len(bet[b].odds) = Len(bet[b].slip.legs)
      /\ bet[b].stake <= bet[b].slip.stake /\ bet[b].stake \in Nat /\ bet[b].day <= day
  <2>1. pc[b] # "idle"
    BY <1>2 DEF Stored
  <2> QED BY <1>1, <2>1, BetType DEF TypeOK
<1>5. bet[b].slip.stake \in Nat
  BY <1>4, RowType
<1>6. row.stake \in Nat /\ row.stake <= bet[b].slip.stake
  <2>1. row.stake \in Nat /\ row.stake <= bet[b].stake
    BY DEF Follows, Rows
  <2> QED BY <1>4, <1>5, <2>1
<1>7. TypeOK'
  <2>1. DOMAIN bet' = Bets
    BY <1>1, <1>2 DEF TypeOK
  <2>2. credited' \in [Bets -> Nat]
    BY <1>1, <1>2 DEF TypeOK
  <2>3. \A c \in Bets : IF pc'[c] = "idle" THEN bet'[c] = NoBet
                        ELSE /\ bet'[c] \in Rows /\ Len(bet'[c].odds) = Len(bet'[c].slip.legs)
                             /\ bet'[c].stake <= bet'[c].slip.stake /\ bet'[c].day <= day'
    <3> SUFFICES ASSUME NEW c \in Bets
                 PROVE  IF pc'[c] = "idle" THEN bet'[c] = NoBet
                        ELSE /\ bet'[c] \in Rows /\ Len(bet'[c].odds) = Len(bet'[c].slip.legs)
                             /\ bet'[c].stake <= bet'[c].slip.stake /\ bet'[c].day <= day'
      OBVIOUS
    <3>1. CASE c = b
      BY <1>2, <1>3, <1>4, <1>6, <3>1 DEF Follows
    <3>2. CASE c # b
      BY <1>1, <1>2, <1>3, <3>2 DEF TypeOK
    <3> QED BY <3>1, <3>2
  <2> QED BY <1>1, <1>2, <2>1, <2>2, <2>3 DEF TypeOK
<1>8. Stored' = Stored /\ Assessed' = Assessed /\ Stored \in SUBSET Bets
  BY <1>2 DEF Stored, Assessed
<1>9. MetKept /\ TrackedKept
  BY <1>2 DEF MetKept, TrackedKept
<1>10. RowsKept
  <2>1. ASSUME NEW c \in Stored, c # b PROVE bet'[c] = bet[c] /\ bet[c].stake <= bet[c].stake
    <3>1. c \in Bets /\ pc[c] # "idle"
      BY DEF Stored
    <3>2. bet[c].stake \in Nat
      BY <1>1, <3>1, BetType
    <3> QED BY <1>3, <2>1, <3>1, <3>2
  <2> SUFFICES ASSUME NEW c \in Stored
               PROVE
        /\ bet'[c].user = bet[c].user /\ bet'[c].day = bet[c].day /\ bet'[c].limit = bet[c].limit
        /\ bet'[c].stake <= bet[c].stake
        /\ bet'[c].status \notin {"CANCELLED", "VOID"} => bet[c].status \notin {"CANCELLED", "VOID"}
        /\ bet'[c].market = bet[c].market /\ bet'[c].slip = bet[c].slip /\ bet'[c].odds = bet[c].odds
    BY DEF RowsKept
  <2>2. CASE c = b
    BY <1>2, <1>3, <2>2 DEF Follows
  <2>3. CASE c # b
    BY <2>1, <2>3
  <2> QED BY <2>2, <2>3
<1>11. \A c \in Assessed' : c \in Bets /\ c # b /\ pc[c] = "assessed" /\ pc'[c] = "assessed"
                            /\ bet'[c] = bet[c]
  BY <1>2, <1>3, <1>8 DEF Assessed, Stored
<1>12. MetOK'
  BY <1>1, <1>2 DEF MetOK
<1>13. DayOK'
  BY <1>1, <1>7, <1>8, <1>9, <1>10, <1>11, DayStays DEF DayOK
<1>14. ExposureOK'
  BY <1>1, <1>2, <1>7, <1>8, <1>9, <1>10, <1>11, MarketStays DEF ExposureOK
<1>15. MoneyOK'
  <2>1. \A c \in Bets \ {b} : RowOK(c)' <=> RowOK(c)
    BY <1>3 DEF RowOK, ActualWin, Promised
  <2>2. \A c \in Assessed' \cup Stored' : RowOK(c)'
    <3> TAKE c \in Assessed' \cup Stored'
    <3>1. c \in Bets /\ c \in Assessed \cup Stored
      BY <1>8, <1>11
    <3> QED BY <1>1, <2>1, <3>1 DEF MoneyOK
  <2>3. \A c \in Assessed' : bet'[c].status = "ACCEPTED" /\ bet'[c].parts = 0
                              /\ bet'[c].sold = 0 /\ bet'[c].cash = 0
    BY <1>1, <1>8, <1>11 DEF MoneyOK
  <2>4. \A c \in Bets \ Stored' : credited'[c] = 0
    BY <1>1, <1>2, <1>3, <1>8 DEF MoneyOK
  <2> QED BY <2>2, <2>3, <2>4 DEF MoneyOK
<1> QED BY <1>7, <1>12, <1>13, <1>14, <1>15 DEF IInv

\* The columns of a row that replaces that of b, when the wallet is credited pays.
Balanced(b, row, pays) ==
    /\ row.stake + row.sold - row.slip.stake \in 0 .. row.parts
    /\ row.won = IF row.status = "WON"
                 THEN Rounded(Frac(row.stake * row.total, TotalUnit)) ELSE 0
    /\ credited[b] + pays
         = row.cash + row.won + (IF row.status = "CANCELLED" THEN row.stake ELSE 0)
    /\ row.parts = 0 => row.stake = row.slip.stake /\ row.win = Promised(b)

\* The new row of a bet keeps the money in order if it does by its own columns.
LEMMA WrittenIInv ==
    ASSUME IInv, NEW b \in Bets, NEW row, NEW pays \in Nat,
           Write(b, row, pays), Follows(row, bet[b]),
           Balanced(b, row, pays)
    PROVE  IInv'
<1>1. /\ b \in Stored
      /\ bet' = [bet EXCEPT ![b] = row] /\ credited' = [credited EXCEPT ![b] = @ + pays]
  BY DEF Write
<1>2. bet'[b] = row /\ credited'[b] = credited[b] + pays
  BY <1>1 DEF IInv, TypeOK
<1>3. bet[b].total = Rounded(Scaled(TotalUnit,
                        TotalOdds(bet[b].slip.type, bet[b].slip.size, bet[b].odds)))
  BY <1>1 DEF IInv, MoneyOK, RowOK
<1>4. Promised(b)' = Promised(b)
  BY <1>2 DEF Promised, Follows
<1>5. ActualWin(b)' = Rounded(Frac(row.stake * row.total, TotalUnit))
  BY <1>2 DEF ActualWin
<1>6. row.total = Rounded(Scaled(TotalUnit, TotalOdds(row.slip.type, row.slip.size, row.odds)))
  BY <1>3 DEF Follows
<1>7. RowOK(b)'
  BY <1>2, <1>4, <1>5, <1>6 DEF RowOK, Balanced
<1> QED BY <1>7, WriteIInv

\* What is known of an open bet.
LEMMA OpenRow ==
    ASSUME IInv, NEW b \in Stored, bet[b].status = "ACCEPTED"
    PROVE  /\ bet[b] \in Rows /\ Len(bet[b].odds) = Len(bet[b].slip.legs)
           /\ bet[b].stake \in Nat /\ bet[b].total \in Nat /\ bet[b].win \in Nat
           /\ bet[b].cash \in Nat /\ bet[b].sold \in Nat /\ bet[b].parts \in 0 .. MaxParts
           /\ bet[b].slip \in Slips /\ bet[b].slip.stake \in Nat
           /\ bet[b].stake + bet[b].sold - bet[b].slip.stake \in 0 .. bet[b].parts
           /\ bet[b].won = 0 /\ credited[b] = bet[b].cash
           /\ bet[b].parts = 0 => bet[b].stake = bet[b].slip.stake /\ bet[b].win = Promised(b)
           /\ ActualWin(b) = Rounded(Frac(bet[b].stake * bet[b].total, TotalUnit))
           /\ ActualWin(b) \in Nat
<1>1. b \in Bets /\ pc[b] # "idle"
  BY DEF Stored
<1>2. bet[b] \in Rows /\ Len(bet[b].odds) = Len(bet[b].slip.legs)
  BY <1>1 DEF IInv, TypeOK
<1>3. /\ bet[b].stake \in Nat /\ bet[b].total \in Nat /\ bet[b].win \in Nat
      /\ bet[b].cash \in Nat /\ bet[b].sold \in Nat /\ bet[b].parts \in 0 .. MaxParts
      /\ bet[b].slip \in Slips /\ bet[b].slip.stake \in Nat
  BY <1>2, RowType
<1>4. RowOK(b)
  BY DEF IInv, MoneyOK
<1>5. ActualWin(b) = Rounded(Frac(bet[b].stake * bet[b].total, TotalUnit))
  BY DEF ActualWin
<1>6. ActualWin(b) \in Nat
  <2>1. bet[b].stake * bet[b].total \in Nat
    BY <1>3
  <2> QED BY <1>5, <2>1, RoundedBounds, UnitsAssumption
<1>7. bet[b].won = 0
  BY <1>4 DEF RowOK
<1>8. credited[b] = bet[b].cash
  BY <1>3, <1>4, <1>7 DEF RowOK
<1> QED BY <1>2, <1>3, <1>4, <1>5, <1>6, <1>7, <1>8 DEF RowOK

LEMMA CancelBetIInv == ASSUME IInv, NEW b \in Bets, CancelBet(b) PROVE IInv'
<1> DEFINE row == [bet[b] EXCEPT !.status = "CANCELLED"]
<1>1. Write(b, row, bet[b].stake) /\ b \in Stored /\ bet[b].status = "ACCEPTED"
  BY DEF CancelBet, Write
<1>2. bet[b] \in Rows /\ bet[b].stake \in Nat /\ bet[b].cash \in Nat
  BY <1>1, OpenRow
<1>3. row \in Rows
  BY <1>2 DEF Rows
<1>4. /\ row.user = bet[b].user /\ row.slip = bet[b].slip /\ row.market = bet[b].market
      /\ row.odds = bet[b].odds /\ row.day = bet[b].day /\ row.limit = bet[b].limit
      /\ row.total = bet[b].total /\ row.stake = bet[b].stake /\ row.sold = bet[b].sold
      /\ row.parts = bet[b].parts /\ row.win = bet[b].win /\ row.cash = bet[b].cash
      /\ row.won = bet[b].won /\ row.status = "CANCELLED"
  BY <1>2 DEF Rows
<1> HIDE DEF row
<1>5. Follows(row, bet[b])
  BY <1>2, <1>3, <1>4 DEF Follows
<1>6. /\ bet[b].stake + bet[b].sold - bet[b].slip.stake \in 0 .. bet[b].parts
      /\ bet[b].won = 0 /\ credited[b] = bet[b].cash
      /\ bet[b].parts = 0 => bet[b].stake = bet[b].slip.stake /\ bet[b].win = Promised(b)
  BY <1>1, OpenRow
<1>7. Balanced(b, row, bet[b].stake)
  BY <1>2, <1>4, <1>6 DEF Balanced
<1> QED BY <1>1, <1>2, <1>5, <1>7, WrittenIInv

LEMMA SettleBetIInv == ASSUME IInv, NEW b \in Bets, SettleBet(b) PROVE IInv'
<1> DEFINE won == [bet[b] EXCEPT !.status = "WON", !.won = ActualWin(b)]
           lost == [bet[b] EXCEPT !.status = "LOST"]
<1>1. /\ Write(b, won, ActualWin(b)) \/ Write(b, lost, 0)
      /\ b \in Stored /\ bet[b].status = "ACCEPTED"
  BY DEF SettleBet, Write
<1>2. /\ bet[b] \in Rows /\ bet[b].stake \in Nat /\ bet[b].cash \in Nat
      /\ ActualWin(b) \in Nat
      /\ ActualWin(b) = Rounded(Frac(bet[b].stake * bet[b].total, TotalUnit))
  BY <1>1, OpenRow
<1>3. won \in Rows /\ lost \in Rows
  BY <1>2 DEF Rows
<1>4. /\ won.user = bet[b].user /\ won.slip = bet[b].slip /\ won.market = bet[b].market
      /\ won.odds = bet[b].odds /\ won.day = bet[b].day /\ won.limit = bet[b].limit
      /\ won.total = bet[b].total /\ won.stake = bet[b].stake /\ won.sold = bet[b].sold
      /\ won.parts = bet[b].parts /\ won.win = bet[b].win /\ won.cash = bet[b].cash
      /\ won.won = ActualWin(b) /\ won.status = "WON"
  BY <1>2 DEF Rows
<1>5. /\ lost.user = bet[b].user /\ lost.slip = bet[b].slip /\ lost.market = bet[b].market
      /\ lost.odds = bet[b].odds /\ lost.day = bet[b].day /\ lost.limit = bet[b].limit
      /\ lost.total = bet[b].total /\ lost.stake = bet[b].stake /\ lost.sold = bet[b].sold
      /\ lost.parts = bet[b].parts /\ lost.win = bet[b].win /\ lost.cash = bet[b].cash
      /\ lost.won = bet[b].won /\ lost.status = "LOST"
  BY <1>2 DEF Rows
<1> HIDE DEF won, lost
<1>6. Follows(won, bet[b]) /\ Follows(lost, bet[b])
  BY <1>2, <1>3, <1>4, <1>5 DEF Follows
<1>7. /\ bet[b].stake + bet[b].sold - bet[b].slip.stake \in 0 .. bet[b].parts
      /\ bet[b].won = 0 /\ credited[b] = bet[b].cash
      /\ bet[b].parts = 0 => bet[b].stake = bet[b].slip.stake /\ bet[b].win = Promised(b)
  BY <1>1, OpenRow
<1>8. Balanced(b, won, ActualWin(b))
  BY <1>2, <1>4, <1>7 DEF Balanced
<1>9. Balanced(b, lost, 0)
  BY <1>2, <1>5, <1>7 DEF Balanced
<1>10. CASE Write(b, won, ActualWin(b))
  BY <1>2, <1>6, <1>8, <1>10, WrittenIInv
<1>11. CASE Write(b, lost, 0)
  BY <1>6, <1>9, <1>11, WrittenIInv
<1> QED BY <1>1, <1>10, <1>11

\* The odds now are positive.
LEMMA LiveOddsType ==
    ASSUME IInv, NEW b \in Stored
    PROVE  LiveOdds(b).num \in Nat \ {0} /\ LiveOdds(b).den \in Nat \ {0}
<1> DEFINE legs == bet[b].slip.legs
           x == LegOdds(legs)
<1>1. legs \in Seq(Legs)
  <2>1. b \in Bets /\ pc[b] # "idle"
    BY DEF Stored
  <2>2. bet[b] \in Rows
    BY <2>1 DEF IInv, TypeOK
  <2> QED BY <2>2, SlipsAssumption DEF Rows
<1>2. x \in Seq(Nat \ {0})
  <2>1. Len(legs) \in Nat /\ \A i \in 1 .. Len(legs) : legs[i] \in Legs
    BY <1>1
  <2>2. \A i \in 1 .. Len(legs) : odds[legs[i]] \in Nat \ {0}
    BY <2>1 DEF IInv, TypeOK
  <2> HIDE DEF legs
  <2> QED BY <2>1, <2>2 DEF LegOdds
<1>3. LiveOdds(b) = CombinedOdds(x, DOMAIN x)
  BY DEF LiveOdds
<1> HIDE DEF x
<1>4. CombinedOdds(x, DOMAIN x) \in Ratios
  <2>1. 0 \in 0 .. Len(x)
    BY <1>2
  <2> QED BY <1>2, <2>1, OddsType
<1> QED BY <1>3, <1>4 DEF Ratios

\* What a cashout pays is a natural number.
LEMMA ValueType ==
    ASSUME IInv, NEW b \in Stored, bet[b].status = "ACCEPTED", NEW part \in 0 .. Whole
    PROVE  Rounded(Value(b, part)) \in Nat
<1> DEFINE s == bet[b].stake
           t == bet[b].total
           x == LiveOdds(b)
<1>1. s \in Nat /\ t \in Nat
  BY OpenRow
<1>2. x.num \in Nat \ {0} /\ x.den \in Nat \ {0}
  BY LiveOddsType
<1>3. Value(b, part) = Frac(s * part * t * x.den * (Whole - Margin),
                            Whole * TotalUnit * x.num * Whole)
  BY DEF Value, CashoutValue
<1> HIDE DEF s, t, x
<1>4. Whole \in Nat \ {0} /\ TotalUnit \in Nat \ {0} /\ Whole - Margin \in Nat /\ part \in Nat
  BY UnitsAssumption, MarginAssumption
<1>5. s * part * t * x.den * (Whole - Margin) \in Nat
  <2>1. s * part * t * x.den \in Nat
    BY <1>1, <1>2, <1>4
  <2> QED BY <1>4, <2>1
<1>6. Whole * TotalUnit * x.num * Whole \in Nat \ {0}
  <2>1. \A i, j \in Nat \ {0} : i * j \in Nat \ {0}
    OBVIOUS
  <2>2. Whole * TotalUnit * x.num \in Nat \ {0}
    BY <1>2, <1>4, <2>1
  <2> QED BY <1>4, <2>1, <2>2
<1> QED BY <1>3, <1>5, <1>6, RoundedBounds

LEMMA CashoutIInv == ASSUME IInv, NEW b \in Bets, Cashout(b) PROVE IInv'
<1> DEFINE v == Rounded(Value(b, Whole))
           cash == bet[b].cash + v
           row == [bet[b] EXCEPT !.status = "CASHED_OUT", !.cash = cash]
<1>1. Write(b, row, v) /\ b \in Stored /\ bet[b].status = "ACCEPTED"
  BY DEF Cashout, Write
<1>2. bet[b] \in Rows /\ bet[b].stake \in Nat /\ bet[b].cash \in Nat
  BY <1>1, OpenRow
<1>3. v \in Nat
  <2>1. Whole \in 0 .. Whole
    BY UnitsAssumption
  <2> QED BY <1>1, <2>1, ValueType
<1> HIDE DEF v
<1>4. row \in Rows
  <2>1. cash \in Nat
    BY <1>2, <1>3
  <2> HIDE DEF cash
  <2> QED BY <1>2, <2>1 DEF Rows
<1>5. /\ row.user = bet[b].user /\ row.slip = bet[b].slip /\ row.market = bet[b].market
      /\ row.odds = bet[b].odds /\ row.day = bet[b].day /\ row.limit = bet[b].limit
      /\ row.total = bet[b].total /\ row.stake = bet[b].stake /\ row.sold = bet[b].sold
      /\ row.parts = bet[b].parts /\ row.win = bet[b].win /\ row.cash = bet[b].cash + v
      /\ row.won = bet[b].won /\ row.status = "CASHED_OUT"
  BY <1>2 DEF Rows
<1> HIDE DEF row
<1>6. Follows(row, bet[b])
  BY <1>2, <1>4, <1>5 DEF Follows
<1>7. /\ bet[b].stake + bet[b].sold - bet[b].slip.stake \in 0 .. bet[b].parts
      /\ bet[b].won = 0 /\ credited[b] = bet[b].cash
      /\ bet[b].parts = 0 => bet[b].stake = bet[b].slip.stake /\ bet[b].win = Promised(b)
  BY <1>1, OpenRow
<1>8. Balanced(b, row, v)
  BY <1>2, <1>3, <1>5, <1>7 DEF Balanced
<1> QED BY <1>1, <1>3, <1>6, <1>8, WrittenIInv

LEMMA PartialCashoutIInv ==
    ASSUME IInv, NEW b \in Bets, NEW part \in Parts, PartialCashout(b, part)
    PROVE  IInv'
<1> DEFINE v == Rounded(Value(b, part))
           kept == Rounded(Remaining(bet[b].stake, part))
           gone == Rounded(Remaining(bet[b].stake, Whole - part))
           left == Remaining(bet[b].stake, part)
           live == LiveOdds(b)
           win == Rounded(Frac(left.num * live.num, left.den * live.den))
           cash == bet[b].cash + v
           sold == bet[b].sold + gone
           parts == bet[b].parts + 1
           row == [bet[b] EXCEPT !.stake = kept, !.cash = cash, !.parts = parts,
                                 !.sold = sold, !.win = win]
<1>1. Write(b, row, v) /\ b \in Stored /\ bet[b].status = "ACCEPTED" /\ bet[b].parts < MaxParts
  BY DEF PartialCashout, Write
<1>2. /\ bet[b] \in Rows /\ bet[b].stake \in Nat /\ bet[b].cash \in Nat /\ bet[b].sold \in Nat
      /\ bet[b].parts \in 0 .. MaxParts /\ bet[b].slip.stake \in Nat
      /\ bet[b].stake + bet[b].sold - bet[b].slip.stake \in 0 .. bet[b].parts
      /\ bet[b].won = 0 /\ credited[b] = bet[b].cash
  BY <1>1, OpenRow
<1>3. part \in 0 .. Whole /\ Whole - part \in 0 .. Whole
  BY UnitsAssumption, PartsAssumption
<1>4. v \in Nat
  BY <1>1, <1>3, ValueType
<1>5. /\ kept \in Nat /\ kept <= bet[b].stake /\ gone \in Nat
      /\ kept + gone - bet[b].stake \in 0 .. 1
  BY <1>2, <1>3, RemainingType, SaleAddsUp
<1>6. win \in Nat
  <2>1. left.num \in Nat /\ left.den \in Nat \ {0}
    <3>1. left.num = bet[b].stake * (Whole - part) /\ left.den = Whole
      BY DEF Remaining, Frac
    <3>2. Whole \in Nat \ {0} /\ Whole - part \in Nat
      BY <1>3, UnitsAssumption
    <3> QED BY <1>2, <3>1, <3>2
  <2>2. live.num \in Nat \ {0} /\ live.den \in Nat \ {0}
    BY <1>1, LiveOddsType
  <2> HIDE DEF left, live
  <2>3. left.num * live.num \in Nat /\ left.den * live.den \in Nat \ {0}
    BY <2>1, <2>2
  <2> QED BY <2>3, RoundedBounds
<1> HIDE DEF v, kept, gone, win
<1>7. row \in Rows
  <2>1. parts \in 0 .. MaxParts /\ cash \in Nat /\ sold \in Nat
    BY <1>1, <1>2, <1>4, <1>5, BoundsAssumption
  <2> HIDE DEF parts, cash, sold
  <2> QED BY <1>2, <1>5, <1>6, <2>1 DEF Rows
<1>8. /\ row.user = bet[b].user /\ row.slip = bet[b].slip /\ row.market = bet[b].market
      /\ row.odds = bet[b].odds /\ row.day = bet[b].day /\ row.limit = bet[b].limit
      /\ row.total = bet[b].total /\ row.stake = kept /\ row.sold = bet[b].sold + gone
      /\ row.parts = bet[b].parts + 1 /\ row.cash = bet[b].cash + v
      /\ row.won = bet[b].won /\ row.status = bet[b].status
  BY <1>2 DEF Rows
<1> HIDE DEF row
<1>9. Follows(row, bet[b])
  BY <1>2, <1>5, <1>7, <1>8 DEF Follows
<1>10. row.stake + row.sold - row.slip.stake \in 0 .. row.parts /\ row.parts # 0
  BY <1>2, <1>5, <1>8
<1>11. Balanced(b, row, v)
  <2>1. row.won = 0 /\ row.status = "ACCEPTED"
    BY <1>1, <1>2, <1>8
  <2>2. credited[b] + v = row.cash + row.won
                            + (IF row.status = "CANCELLED" THEN row.stake ELSE 0)
    BY <1>2, <1>4, <1>8, <2>1
  <2> QED BY <1>10, <2>1, <2>2 DEF Balanced
<1> QED BY <1>1, <1>4, <1>9, <1>11, WrittenIInv

-------------------------------------------------------------------------------
\* Every step.

LEMMA NextIInv == IInv /\ [Next]_vars => IInv'
<1> SUFFICES ASSUME IInv, [Next]_vars PROVE IInv'
  OBVIOUS
<1>1. ASSUME NEW b \in Bets, NEW u \in Users, NEW slip \in Slips, Place(b, u, slip) PROVE IInv'
  BY <1>1, PlaceIInv
<1>2. ASSUME NEW b \in Bets, Drop(b) PROVE IInv'
  BY <1>2, DropIInv
<1>3. ASSUME NEW b \in Bets, Store(b) PROVE IInv'
  BY <1>3, StoreIInv
<1>4. ASSUME NEW b \in Bets, Track(b) PROVE IInv'
  BY <1>4, TrackIInv
<1>5. ASSUME NEW b \in Bets, TrackFails(b) PROVE IInv'
  BY <1>5, TrackFailsIInv
<1>6. ASSUME NEW b \in Bets, CancelBet(b) PROVE IInv'
  BY <1>6, CancelBetIInv
<1>7. ASSUME NEW b \in Bets, SettleBet(b) PROVE IInv'
  BY <1>7, SettleBetIInv
<1>8. ASSUME NEW b \in Bets, Cashout(b) PROVE IInv'
  BY <1>8, CashoutIInv
<1>9. ASSUME NEW b \in Bets, NEW part \in Parts, PartialCashout(b, part) PROVE IInv'
  BY <1>9, PartialCashoutIInv
<1>10. ASSUME NEW u \in Users, Expire(u) PROVE IInv'
  BY <1>10, ExpireIInv
<1>11. ASSUME NEW u \in Users, SetLimits(u) PROVE IInv'
  BY <1>11, SetLimitsIInv
<1>12. ASSUME NEW l \in Legs, UpdateOdds(l) PROVE IInv'
  BY <1>12, UpdateOddsIInv
<1>13. CASE Midnight
  BY <1>13, MidnightIInv
<1>14. CASE UNCHANGED vars
  BY <1>14, StutterIInv
<1> QED
  BY <1>1, <1>2, <1>3, <1>4, <1>5, <1>6, <1>7, <1>8, <1>9, <1>10, <1>11, <1>12, <1>13, <1>14
  DEF Next

\* The inductive invariant holds in every reachable state: whatever overlaps, expires
\* or fails on the way of placeBet, and whatever is done to the bets it stored.
THEOREM Invariance == Spec => []IInv
<1>1. Init => IInv
  BY InitIInv
<1>2. IInv /\ [Next]_vars => IInv'
  BY NextIInv
<1> QED BY <1>1, <1>2, PTL DEF Spec

\* The rows, exposures, limits and locks always have their types: no stake, credit or
\* exposure is negative, and a row never keeps more than was staked.
THEOREM TypeCorrect == Spec => []TypeOK
<1>1. IInv => TypeOK
  BY DEF IInv
<1> QED BY <1>1, Invariance, PTL

-------------------------------------------------------------------------------
\* The limits.

\* What a user has staked on a day fits a limit its bets of that day were compared
\* with (checkDailyLoss), for any number of bets, users and days, unless two of them
\* were in flight together, as the lock of the user expired.
THEOREM DailyLimit == Spec => []DailyLimitHeld
<1>1. IInv => DailyLimitHeld
  <2> SUFFICES ASSUME IInv, NEW u \in Users, NEW d \in 0 .. day,
                      OfDay(u, d) # {}, Apart(OfDay(u, d))
               PROVE  StakesOf(OfDay(u, d)) <= Max({bet[b].limit : b \in OfDay(u, d)})
    BY DEF DailyLimitHeld, OfDay, Apart
  <2> DEFINE B == OfDay(u, d)
             L == {bet[b].limit : b \in B}
  <2>1. B \in SUBSET Stored /\ B \in SUBSET Bets
    BY DEF OfDay, Counted, Stored
  <2>2. PICK b \in B : StakesOf(B) <= bet[b].limit
    <3>1. B \in SUBSET OfDay(u, d)
      OBVIOUS
    <3> QED BY <3>1 DEF IInv, DayOK, DayFits
  <2>3. \A c \in B : bet[c].limit \in Nat
    <3> TAKE c \in B
    <3>1. c \in Bets /\ pc[c] # "idle"
      BY <2>1 DEF Stored
    <3> QED BY <3>1, BetType DEF IInv
  <2>4. StakesOf(B) \in Nat
    <3>1. \A c \in B : Stakes(bet)[c] \in Nat
      <4> TAKE c \in B
      <4>1. c \in Bets /\ pc[c] # "idle"
        BY <2>1 DEF Stored
      <4> QED BY <4>1, BetType DEF IInv
    <3> HIDE DEF B
    <3>2. IsFiniteSet(B) /\ StakesOf(B) = Total(Stakes(bet), B)
      BY <2>1, StakesIs DEF StakesOf
    <3> QED BY <3>1, <3>2, TotalNat
  <2> HIDE DEF B
  <2>5. IsFiniteSet(L) /\ L \in SUBSET Nat /\ bet[b].limit \in L
    <3>1. IsFiniteSet(L)
      <4>1. L \in SUBSET DailyLimits
        <5> SUFFICES ASSUME NEW c \in B PROVE bet[c].limit \in DailyLimits
          OBVIOUS
        <5>1. c \in Bets /\ pc[c] # "idle"
          BY <2>1 DEF Stored
        <5> QED BY <5>1, BetType DEF IInv
      <4> QED BY <4>1, FS_Subset, LimitsAssumption
    <3> QED BY <2>2, <2>3, <3>1
  <2> HIDE DEF L
  <2>6. Max(L) \in L /\ bet[b].limit <= Max(L)
    BY <2>5, MaxIs
  <2>7. bet[b].limit \in Nat /\ Max(L) \in Nat
    BY <2>2, <2>3, <2>5, <2>6
  <2>8. StakesOf(B) <= Max(L)
    BY <2>2, <2>4, <2>6, <2>7
  <2> QED BY <2>8 DEF B, L
<1> QED BY <1>1, Invariance, PTL

\* The stored bets of a market can win no more than its maximum (checkMarketExposure)
\* unless two of them were in flight together or updateMarketExposure failed for one.
THEOREM MarketLimit == Spec => []MarketLimitHeld
<1>1. IInv => MarketLimitHeld
  <2> SUFFICES ASSUME IInv, NEW m \in Markets,
                      \A b, c \in {b \in Stored : bet[b].market = m} : {b, c} \notin met,
                      \A b \in {b \in Stored : bet[b].market = m} : pc[b] # "untracked"
               PROVE  ~(Liability({b \in Stored : bet[b].market = m}) > MaxExposure)
    BY DEF MarketLimitHeld
  <2> DEFINE B == {b \in Stored : bet[b].market = m}
  <2>1. B \in SUBSET {b \in Stored : bet[b].market = m /\ pc[b] # "untracked"} /\ Apart(B)
    BY DEF Apart
  <2>2. Liability(B) <= MaxExposure
    BY <2>1 DEF IInv, ExposureOK, MarketFits
  <2>3. Liability(B) \in Nat
    <3>1. B \in SUBSET Bets
      BY DEF Stored
    <3>2. \A c \in B : Promises(bet)[c] \in Nat
      <4> TAKE c \in B
      <4>1. c \in Bets /\ pc[c] # "idle"
        BY DEF Stored
      <4> QED BY <4>1, BetType DEF IInv
    <3> HIDE DEF B
    <3>3. IsFiniteSet(B)
      BY <3>1, StakesIs
    <3>4. Liability(B) = Total(Promises(bet), B)
      BY <3>1, PromisesIs DEF Liability, Promised
    <3> QED BY <3>2, <3>3, <3>4, TotalNat
  <2> HIDE DEF B
  <2>4. ~(Liability(B) > MaxExposure)
    BY <2>2, <2>3, LimitsAssumption
  <2> QED BY <2>4 DEF B
<1> QED BY <1>1, Invariance, PTL

-------------------------------------------------------------------------------
\* The reports.

\* What the columns of some bets and their credits add up to.
LEMMA BooksBalance ==
    ASSUME IInv, NEW S \in SUBSET Stored
    PROVE  LET off == {b \in S : bet[b].status = "CANCELLED"}
               paid == Total([b \in S |-> bet[b].won], S)
           IN  /\ StakesOf(S) - paid - CashOf(S) = House(S) + StakesOf(off)
               /\ StakesOf(Counted(S)) - WonOf(S) = House(S) + CashOf(S)
               /\ StakesOf(S) \in Int /\ paid \in Int /\ CashOf(S) \in Int
<1> DEFINE off == {b \in S : bet[b].status = "CANCELLED"}
           winners == {b \in S : bet[b].status = "WON"}
           stake == [b \in S |-> bet[b].stake]
           won == [b \in S |-> bet[b].won]
           cash == [b \in S |-> bet[b].cash]
           house == [b \in S |-> bet[b].stake - credited[b]]
           lost == [b \in S |-> IF b \in off THEN bet[b].stake ELSE 0]
           kept == [b \in S |-> IF b \in Counted(S) THEN bet[b].stake ELSE 0]
           out == [b \in S |-> bet[b].won + bet[b].cash]
<1>1. IsFiniteSet(S)
  BY FS_Subset, BoundsAssumption DEF Stored
<1>2. \A b \in S : /\ bet[b].stake \in Nat /\ bet[b].won \in Nat /\ bet[b].cash \in Nat
                   /\ credited[b] = bet[b].cash + bet[b].won
                                      + (IF bet[b].status = "CANCELLED" THEN bet[b].stake ELSE 0)
                   /\ bet[b].status # "WON" => bet[b].won = 0
                   /\ bet[b].status # "VOID"
  <2> TAKE b \in S
  <2>1. b \in Bets /\ pc[b] # "idle" /\ RowOK(b)
    BY DEF Stored, IInv, MoneyOK
  <2>2. bet[b] \in Rows
    BY <2>1 DEF IInv, TypeOK
  <2>3. bet[b].stake \in Nat /\ bet[b].won \in Nat /\ bet[b].cash \in Nat /\ bet[b].status # "VOID"
    BY <2>2 DEF Rows
  <2> QED BY <2>1, <2>3 DEF RowOK
<1>3. /\ \A b \in S : stake[b] \in Int /\ won[b] \in Int /\ cash[b] \in Int /\ house[b] \in Int
      /\ \A b \in S : lost[b] \in Int /\ kept[b] \in Int /\ out[b] \in Int
      /\ \A b \in S : lost[b] = IF b \in off THEN stake[b] ELSE 0
      /\ \A b \in S : kept[b] = IF b \in Counted(S) THEN stake[b] ELSE 0
      /\ \A b \in S : won[b] = IF b \in winners THEN won[b] ELSE 0
      /\ \A b \in S : out[b] = won[b] + cash[b]
      /\ \A b \in S : stake[b] = kept[b] + lost[b]
      /\ \A b \in S : kept[b] = house[b] + out[b]
  <2> SUFFICES ASSUME NEW b \in S
               PROVE  /\ stake[b] \in Int /\ won[b] \in Int /\ cash[b] \in Int /\ house[b] \in Int
                      /\ lost[b] \in Int /\ kept[b] \in Int /\ out[b] \in Int
                      /\ lost[b] = IF b \in off THEN stake[b] ELSE 0
                      /\ kept[b] = IF b \in Counted(S) THEN stake[b] ELSE 0
                      /\ won[b] = IF b \in winners THEN won[b] ELSE 0
                      /\ out[b] = won[b] + cash[b]
                      /\ stake[b] = kept[b] + lost[b]
                      /\ kept[b] = house[b] + out[b]
    OBVIOUS
  <2>1. b \in Counted(S) <=> bet[b].status # "CANCELLED"
    BY <1>2 DEF Counted
  <2>2. CASE bet[b].status = "CANCELLED"
    BY <1>2, <2>1, <2>2
  <2>3. CASE bet[b].status # "CANCELLED"
    BY <1>2, <2>1, <2>3
  <2> QED BY <2>2, <2>3
<1>4. off \in SUBSET S /\ winners \in SUBSET S /\ Counted(S) \in SUBSET S
  BY DEF Counted
<1>5. /\ StakesOf(S) = Total(stake, S) /\ CashOf(S) = Total(cash, S) /\ House(S) = Total(house, S)
      /\ WonOf(S) = Total(won, winners)
  BY DEF StakesOf, CashOf, House, WonOf
<1>6. StakesOf(off) = Total(stake, off) /\ StakesOf(Counted(S)) = Total(stake, Counted(S))
  <2> SUFFICES ASSUME NEW T \in SUBSET S PROVE StakesOf(T) = Total(stake, T)
    BY <1>4
  <2> DEFINE f == [b \in T |-> bet[b].stake]
  <2>1. IsFiniteSet(T) /\ \A b \in T : f[b] = stake[b]
    BY <1>1, FS_Subset
  <2> HIDE DEF f, stake
  <2>2. Total(f, T) = Total(stake, T)
    BY <2>1, TotalSame
  <2> QED BY <2>2 DEF StakesOf, f
<1> HIDE DEF off, winners, stake, won, cash, house, lost, kept, out
<1>7. Total(lost, S) = Total(stake, off)
  BY <1>1, <1>3, <1>4, TotalFilter
<1>8. Total(kept, S) = Total(stake, Counted(S))
  BY <1>1, <1>3, <1>4, TotalFilter
<1>9. Total(won, S) = Total(won, winners)
  BY <1>1, <1>3, <1>4, TotalFilter
<1>10. Total(out, S) = Total(won, S) + Total(cash, S)
  BY <1>1, <1>3, TotalAdd
<1>11. Total(stake, S) = Total(kept, S) + Total(lost, S)
  BY <1>1, <1>3, TotalAdd
<1>12. Total(kept, S) = Total(house, S) + Total(out, S)
  BY <1>1, <1>3, TotalAdd
<1>13. /\ Total(stake, S) \in Int /\ Total(won, S) \in Int /\ Total(cash, S) \in Int
       /\ Total(house, S) \in Int /\ Total(lost, S) \in Int
  BY <1>1, <1>3, TotalInt
<1>14. /\ StakesOf(S) - Total(won, S) - CashOf(S) = House(S) + StakesOf(off)
       /\ StakesOf(Counted(S)) - WonOf(S) = House(S) + CashOf(S)
       /\ StakesOf(S) \in Int /\ Total(won, S) \in Int /\ CashOf(S) \in Int
  BY <1>5, <1>6, <1>7, <1>8, <1>9, <1>10, <1>11, <1>12, <1>13
<1> QED BY <1>14 DEF off, won

\* For any number of bets and whatever was done to them, the reports of admin and
\* user differ from the money taken and paid by what they leave out: cancelled stakes
\* in getFinancialReport, cashouts in getDashboardStats and getUserBettingStats, and
\* the sold parts, which make up the stakes with what is left, to a cent per sale.
THEOREM ReportsAddUp == Spec => []ReportsReconcile
<1>1. IInv => ReportsReconcile
  <2> SUFFICES ASSUME IInv PROVE ReportsReconcile
    OBVIOUS
  <2> DEFINE ofUser(u) == {b \in Stored : bet[b].user = u}
             off == {b \in Stored : bet[b].status = "CANCELLED"}
  <2>1. FinancialReport.ggr - FinancialReport.cashouts = House(Stored) + StakesOf(off)
    <3>1. Stored \in SUBSET Stored
      OBVIOUS
    <3>2. StakesOf(Stored) - Total([b \in Stored |-> bet[b].won], Stored) - CashOf(Stored)
            = House(Stored) + StakesOf(off)
      BY <3>1, BooksBalance
    <3> QED BY <3>2 DEF FinancialReport
  <2>2. DashboardStats.ggr = House(Today(Stored)) + CashOf(Today(Stored))
    <3>1. Today(Stored) \in SUBSET Stored /\ Counted(Today(Stored)) = Today(Counted(Stored))
      BY DEF Today, Counted
    <3>2. StakesOf(Counted(Today(Stored))) - WonOf(Today(Stored))
            = House(Today(Stored)) + CashOf(Today(Stored))
      BY <3>1, BooksBalance
    <3> QED BY <3>1, <3>2 DEF DashboardStats
  <2>3. ASSUME NEW u \in Users
        PROVE  UserBettingStats(u).totalStaked - UserBettingStats(u).totalWon
                 = House(ofUser(u)) + CashOf(ofUser(u))
    <3>1. ofUser(u) \in SUBSET Stored
      OBVIOUS
    <3>2. StakesOf(Counted(ofUser(u))) - WonOf(ofUser(u)) = House(ofUser(u)) + CashOf(ofUser(u))
      BY <3>1, BooksBalance
    <3> QED BY <3>2 DEF UserBettingStats
  <2>4. PartsAddUp
    BY DEF PartsAddUp, IInv, MoneyOK, RowOK
  <2> QED BY <2>1, <2>2, <2>3, <2>4 DEF ReportsReconcile
<1> QED BY <1>1, Invariance, PTL

-------------------------------------------------------------------------------
\* Settlement.

\* Rounding odds to 1/u and then the winnings of stake s misses the rounded exact
\* winnings by a unit and half of s / u at most.  t is the rounding of u * n / d, w
\* that of s * t / u and p that of s * n / d.
LEMMA RoundedTwice ==
    ASSUME NEW s \in Nat, NEW u \in Nat \ {0}, NEW n \in Nat, NEW d \in Nat \ {0},
           NEW t \in Nat, NEW w \in Nat, NEW p \in Nat,
           2 * d * t <= 2 * (u * n) + d, 2 * (u * n) + d < 2 * d * (t + 1),
           2 * u * w <= 2 * (s * t) + u, 2 * (s * t) + u < 2 * u * (w + 1),
           2 * d * p <= 2 * (s * n) + d, 2 * (s * n) + d < 2 * d * (p + 1)
    PROVE  2 * u * (w - p) <= 2 * u + s /\ 2 * u * (p - w) <= 2 * u + s
<1>1. \A i, j, k \in Int : k >= 0 /\ i <= j => k * i <= k * j
  OBVIOUS
<1>2. \A i, j, k \in Int : k > 0 /\ k * i <= k * j => i <= j
  OBVIOUS
<1> DEFINE dt == d * t
           un == u * n
           uw == u * w
           st == s * t
           dp == d * p
           sn == s * n
<1>3. dt \in Nat /\ un \in Nat /\ uw \in Nat /\ st \in Nat /\ dp \in Nat /\ sn \in Nat
  OBVIOUS
<1>4. /\ 2 * dt <= 2 * un + d /\ 2 * un <= 2 * dt + d
      /\ 2 * uw <= 2 * st + u /\ 2 * st <= 2 * uw + u
      /\ 2 * dp <= 2 * sn + d /\ 2 * sn <= 2 * dp + d
  <2>1. 2 * d * t = 2 * dt /\ 2 * d * (t + 1) = 2 * dt + 2 * d
    OBVIOUS
  <2>2. 2 * u * w = 2 * uw /\ 2 * u * (w + 1) = 2 * uw + 2 * u
    OBVIOUS
  <2>3. 2 * d * p = 2 * dp /\ 2 * d * (p + 1) = 2 * dp + 2 * d
    OBVIOUS
  <2>4. 2 * dt <= 2 * un + d /\ 2 * un + d < 2 * dt + 2 * d
    BY <2>1
  <2>5. 2 * uw <= 2 * st + u /\ 2 * st + u < 2 * uw + 2 * u
    BY <2>2
  <2>6. 2 * dp <= 2 * sn + d /\ 2 * sn + d < 2 * dp + 2 * d
    BY <2>3
  <2> HIDE DEF dt, un, uw, st, dp, sn
  <2> QED BY <1>3, <2>4, <2>5, <2>6
<1>5. /\ s * dt = d * st /\ s * un = u * sn /\ d * uw = u * (d * w) /\ u * dp = d * (u * p)
      /\ d * uw = d * (u * w)
  OBVIOUS
<1>6. /\ d * (2 * uw) <= d * (2 * st + u) /\ d * (2 * st) <= d * (2 * uw + u)
      /\ s * (2 * dt) <= s * (2 * un + d) /\ s * (2 * un) <= s * (2 * dt + d)
      /\ u * (2 * sn) <= u * (2 * dp + d) /\ u * (2 * dp) <= u * (2 * sn + d)
  <2> HIDE DEF dt, un, uw, st, dp, sn
  <2>1. /\ 2 * uw \in Int /\ 2 * st + u \in Int /\ 2 * st \in Int /\ 2 * uw + u \in Int
        /\ 2 * dt \in Int /\ 2 * un + d \in Int /\ 2 * un \in Int /\ 2 * dt + d \in Int
        /\ 2 * sn \in Int /\ 2 * dp + d \in Int /\ 2 * dp \in Int /\ 2 * sn + d \in Int
        /\ d \in Int /\ s \in Int /\ u \in Int /\ d >= 0 /\ s >= 0 /\ u >= 0
    BY <1>3
  <2> QED BY <1>1, <1>4, <2>1
<1> DEFINE a == d * uw
           b == u * dp
           c == d * st
           e == u * sn
           du == d * u
           ds == d * s
<1>7. /\ a \in Nat /\ b \in Nat /\ c \in Nat /\ e \in Nat /\ du \in Nat /\ ds \in Nat
  <2> HIDE DEF dt, un, uw, st, dp, sn
  <2> QED BY <1>3
<1>8. /\ 2 * a <= 2 * c + du /\ 2 * c <= 2 * a + du
      /\ 2 * c <= 2 * e + ds /\ 2 * e <= 2 * c + ds
      /\ 2 * e <= 2 * b + du /\ 2 * b <= 2 * e + du
  <2> HIDE DEF dt, un, uw, st, dp, sn
  <2>1. /\ d * (2 * uw) = 2 * a /\ d * (2 * st + u) = 2 * c + du
        /\ d * (2 * st) = 2 * c /\ d * (2 * uw + u) = 2 * a + du
        /\ u * (2 * sn) = 2 * e /\ u * (2 * dp + d) = 2 * b + du
        /\ u * (2 * dp) = 2 * b /\ u * (2 * sn + d) = 2 * e + du
    BY <1>3
  <2>2. /\ s * (2 * dt) = 2 * (s * dt) /\ s * (2 * un + d) = 2 * (s * un) + ds
        /\ s * (2 * un) = 2 * (s * un) /\ s * (2 * dt + d) = 2 * (s * dt) + ds
    BY <1>3
  <2> QED BY <1>5, <1>6, <2>1, <2>2
<1>9. d * (2 * u * (w - p)) = 2 * a - 2 * b /\ d * (2 * u * (p - w)) = 2 * b - 2 * a
  OBVIOUS
<1>10. d * (2 * u + s) = 2 * du + ds
  OBVIOUS
<1>11. 2 * a - 2 * b <= 2 * du + ds /\ 2 * b - 2 * a <= 2 * du + ds
  <2> HIDE DEF a, b, c, e, du, ds
  <2> QED BY <1>7, <1>8
<1>12. d * (2 * u * (w - p)) <= d * (2 * u + s) /\ d * (2 * u * (p - w)) <= d * (2 * u + s)
  <2> HIDE DEF a, b, c, e, du, ds
  <2> QED BY <1>9, <1>10, <1>11
<1>13. /\ 2 * u * (w - p) \in Int /\ 2 * u * (p - w) \in Int /\ 2 * u + s \in Int
       /\ d \in Int /\ d > 0
  OBVIOUS
<1> QED BY <1>2, <1>12, <1>13

\* settleBet, which multiplies by the stored, rounded totalOdds, pays a winner its
\* potentialWin to the cent and half of the last digit of totalOdds per cent staked.
LEMMA WinnersRight == IInv => PaysAsPriced
<1> SUFFICES ASSUME IInv, NEW b \in Stored, bet[b].status = "WON", bet[b].parts = 0
             PROVE  LET gap == bet[b].won - bet[b].win
                    IN  2 * TotalUnit * (IF gap < 0 THEN -gap ELSE gap)
                          <= 2 * TotalUnit + bet[b].stake
  BY DEF PaysAsPriced
<1> DEFINE s == bet[b].stake
           x == TotalOdds(bet[b].slip.type, bet[b].slip.size, bet[b].odds)
           t == bet[b].total
           w == bet[b].won
           p == bet[b].win
<1>1. /\ s \in Nat /\ t \in Nat /\ w \in Nat /\ p \in Nat
      /\ x.num \in Nat \ {0} /\ x.den \in Nat \ {0}
  <2>1. b \in Bets /\ pc[b] # "idle"
    BY DEF Stored
  <2>2. bet[b] \in Rows /\ Len(bet[b].odds) = Len(bet[b].slip.legs)
    BY <2>1 DEF IInv, TypeOK
  <2>3. x \in Ratios
    BY <2>2, RowType
  <2> HIDE DEF x
  <2> QED BY <2>2, <2>3, RowType DEF Ratios
<1>2. /\ s = bet[b].slip.stake
      /\ t = Rounded(Frac(TotalUnit * x.num, x.den))
      /\ w = Rounded(Frac(s * t, TotalUnit))
      /\ p = Rounded(Frac(s * x.num, x.den))
  <2>1. RowOK(b)
    BY DEF IInv, MoneyOK
  <2> QED BY <2>1 DEF RowOK, ActualWin, Promised, Scaled
<1> HIDE DEF s, x, t, w, p
<1>3. /\ TotalUnit \in Nat \ {0} /\ TotalUnit * x.num \in Nat /\ s * t \in Nat
      /\ s * x.num \in Nat
  BY <1>1, UnitsAssumption
<1>4. 2 * x.den * t <= 2 * (TotalUnit * x.num) + x.den
      /\ 2 * (TotalUnit * x.num) + x.den < 2 * x.den * (t + 1)
  BY <1>1, <1>2, <1>3, RoundedBounds
<1>5. 2 * TotalUnit * w <= 2 * (s * t) + TotalUnit
      /\ 2 * (s * t) + TotalUnit < 2 * TotalUnit * (w + 1)
  BY <1>1, <1>2, <1>3, RoundedBounds
<1>6. 2 * x.den * p <= 2 * (s * x.num) + x.den
      /\ 2 * (s * x.num) + x.den < 2 * x.den * (p + 1)
  BY <1>1, <1>2, <1>3, RoundedBounds
<1>7. 2 * TotalUnit * (w - p) <= 2 * TotalUnit + s
      /\ 2 * TotalUnit * (p - w) <= 2 * TotalUnit + s
  <2>1. x.num \in Nat
    BY <1>1
  <2> QED BY <1>1, <1>3, <1>4, <1>5, <1>6, <2>1, RoundedTwice
<1>8. w - p \in Int /\ p - w = -(w - p)
  BY <1>1
<1>9. 2 * TotalUnit * (IF w - p < 0 THEN -(w - p) ELSE w - p) <= 2 * TotalUnit + s
  BY <1>7, <1>8
<1> QED BY <1>9 DEF s, w, p

-------------------------------------------------------------------------------
\* System bets and quotes.

\* The prices of a stored bet.
LEMMA RowPrices ==
    ASSUME IInv, NEW b \in Stored
    PROVE  LET x == bet[b].odds
               slip == bet[b].slip
           IN  /\ x \in Seq(Nat \ {0}) /\ \A l \in 1 .. Len(x) : x[l] >= OddsUnit
               /\ slip \in Slips /\ Len(x) = Len(slip.legs) /\ slip.size \in 0 .. Len(x)
               /\ slip.stake \in Nat \ {0}
<1>1. b \in Bets /\ pc[b] # "idle"
  BY DEF Stored
<1>2. bet[b] \in Rows /\ Len(bet[b].odds) = Len(bet[b].slip.legs)
  BY <1>1 DEF IInv, TypeOK
<1> DEFINE x == bet[b].odds
           slip == bet[b].slip
<1>3. x \in Seq(AnyPrice) /\ slip \in Slips
  BY <1>2 DEF Rows
<1>4. slip.size \in 0 .. Len(x) /\ slip.stake \in Nat \ {0}
  BY <1>2, <1>3, SlipsAssumption
<1>5. \A p \in AnyPrice : p >= OddsUnit
  BY DecimalAssumption DEF AnyPrice
<1>6. \A l \in 1 .. Len(x) : x[l] \in AnyPrice
  BY <1>3
<1> QED BY <1>2, <1>3, <1>4, <1>5, <1>6, PriceType

\* A bet whose row is the one of its placement is promised the sum over its
\* combinations.
LEMMA SumsRight == IInv => SystemIsSum
<1> SUFFICES ASSUME IInv, NEW b \in Stored, bet[b].parts = 0
             PROVE  LET slip == bet[b].slip
                        n == Len(slip.legs)
                        k == IF slip.type = "SYSTEM" /\ slip.size > 0 THEN slip.size ELSE n
                    IN  bet[b].win = Rounded(Frac(slip.stake * SumOfProducts(bet[b].odds, k),
                                                  SumOfProducts([i \in 1 .. n |-> OddsUnit], k)))
  BY DEF SystemIsSum
<1> DEFINE slip == bet[b].slip
           x == bet[b].odds
           n == Len(slip.legs)
           k == Chosen(slip.type, slip.size, n)
<1>1. /\ x \in Seq(Nat \ {0}) /\ Len(x) = n /\ slip.size \in 0 .. Len(x)
  BY RowPrices
<1>2. n \in Nat /\ DOMAIN x = 1 .. n /\ \A l \in 1 .. n : x[l] \in Nat \ {0}
  <2> HIDE DEF x, slip
  <2> QED BY <1>1
<1>3. bet[b].win = Rounded(Scaled(slip.stake, TotalOdds(slip.type, slip.size, x)))
  <2>1. RowOK(b)
    BY DEF IInv, MoneyOK
  <2> QED BY <2>1 DEF RowOK, Promised
<1>4. TotalOdds(slip.type, slip.size, x) = Frac(ChosenSum(x, n, k), ChosenSum(Evens(n), n, k))
  <2> HIDE DEF x, slip
  <2> QED BY <1>1, OddsAreSums
<1>5. k \in Nat
  BY <1>1, <1>2 DEF Chosen
<1>6. DOMAIN Evens(n) = 1 .. n /\ \A l \in 1 .. n : Evens(n)[l] \in Nat \ {0}
  BY UnitsAssumption DEF Evens
<1> HIDE DEF x, slip, n, k
<1>7. SumOfProducts(x, k) = ChosenSum(x, n, k)
      /\ SumOfProducts(Evens(n), k) = ChosenSum(Evens(n), n, k)
  BY <1>2, <1>5, <1>6, SumOfProductsIs
<1>8. bet[b].win = Rounded(Frac(slip.stake * SumOfProducts(x, k), SumOfProducts(Evens(n), k)))
  BY <1>3, <1>4, <1>7 DEF Scaled, Frac
<1> QED BY <1>8 DEF Evens, Chosen, x, slip, n, k

\* Odds of nn / dd now, above one by more than rounding to 1/u can make up for.
LEMMA Above ==
    ASSUME NEW u \in Nat \ {0}, NEW nn \in Nat, NEW dd \in Nat,
           dd * ((2 * u + 1) * (2 * u + 1)) <= nn * ((2 * u) * (2 * u))
    PROVE  /\ dd * (2 * u + 1) <= nn * (2 * u)
           /\ nn <= 4 * u * (nn - dd)
<1> DEFINE k == 2 * u
<1>1. k \in Nat /\ k >= 2
  OBVIOUS
<1>2. dd * ((k + 1) * (k + 1)) <= nn * (k * k)
  OBVIOUS
<1> HIDE DEF k
<1> DEFINE kk == k * k
           nk == nn * k
           dk == dd * k
           nkk == nn * kk
           dkk == dd * kk
<1>3. kk \in Nat /\ nk \in Nat /\ dk \in Nat /\ nkk \in Nat /\ dkk \in Nat
  BY <1>1
<1>4. dd * ((k + 1) * (k + 1)) = dkk + 2 * dk + dd /\ nn * (k * k) = nkk
  BY <1>1
<1>5. dk + dd <= nk
  <2>1. (k + 1) * (dk + dd) = dkk + 2 * dk + dd /\ (k + 1) * nk = nkk + nk
    BY <1>1
  <2>2. dkk + 2 * dk + dd <= nkk + nk
    <3> HIDE DEF kk, nk, dk, nkk, dkk
    <3> QED BY <1>2, <1>3, <1>4
  <2>3. (k + 1) * (dk + dd) <= (k + 1) * nk
    <3> HIDE DEF kk, nk, dk, nkk, dkk
    <3> QED BY <2>1, <2>2
  <2>4. k + 1 \in Nat \ {0} /\ dk + dd \in Int /\ nk \in Int
    BY <1>1, <1>3
  <2> QED BY <2>3, <2>4, Cancel
<1>6. 2 * dk <= 2 * nk - nn
  <2>1. k * (2 * nk - nn) = 2 * nkk - nk /\ k * (2 * dk) = 2 * dkk
    BY <1>1
  <2>2. nk <= nkk
    <3>1. nn * k <= nn * kk
      <4>1. k <= kk
        BY <1>1
      <4> QED BY <1>1, <1>3, <4>1, Times
    <3> QED BY <3>1
  <2>3. k * (dkk + 2 * dk + dd) <= k * nkk
    <3>1. dkk + 2 * dk + dd <= nkk
      BY <1>2, <1>4
    <3> HIDE DEF kk, nk, dk, nkk, dkk
    <3> QED BY <1>1, <1>3, <3>1, Times
  <2> DEFINE big == (2 * k - 1) * nkk
  <2>4. (2 * k - 1) * (dkk + 2 * dk + dd) <= (2 * k - 1) * nkk
    <3>1. dkk + 2 * dk + dd <= nkk
      BY <1>2, <1>4
    <3> HIDE DEF kk, nk, dk, nkk, dkk
    <3> QED BY <1>1, <1>3, <3>1, Times
  <2>5. (2 * k - 1) * (dkk + 2 * dk + dd) = 2 * (k * dkk) + 3 * dkk - dd
    BY <1>1
  <2>6. dd <= dkk
    <3>1. dd * 1 <= dd * kk
      <4>1. 1 <= kk
        BY <1>1
      <4> QED BY <1>3, <4>1, Times
    <3> QED BY <3>1
  <2>7. 2 * (k * dkk) <= (2 * k - 1) * nkk
    <3>1. k * dkk \in Nat /\ (2 * k - 1) * nkk \in Int
      BY <1>1, <1>3
    <3> HIDE DEF kk, nk, dk, nkk, dkk
    <3> QED BY <1>3, <2>4, <2>5, <2>6, <3>1
  <2>8. kk * (2 * dk) = 2 * (k * dkk) /\ kk * (2 * nk - nn) = (2 * k - 1) * nkk
    BY <1>1
  <2>9. kk * (2 * dk) <= kk * (2 * nk - nn)
    BY <2>7, <2>8
  <2>10. kk \in Nat \ {0} /\ 2 * dk \in Int /\ 2 * nk - nn \in Int
    BY <1>1, <1>3
  <2> QED BY <2>9, <2>10, Cancel
<1>7. dd * (2 * u + 1) = dk + dd /\ nn * (2 * u) = nk
  BY DEF k
<1>8. 4 * u * (nn - dd) = 2 * nk - 2 * dk
  BY DEF k
<1>9. nn <= 2 * nk - 2 * dk
  <2> HIDE DEF kk, nk, dk, nkk, dkk
  <2> QED BY <1>3, <1>6
<1> QED BY <1>5, <1>7, <1>8, <1>9

\* t is the rounding of u * n / d, odds n / d not below one in 1/u.
LEMMA RoundedOdds ==
    ASSUME NEW u \in Nat \ {0}, NEW n \in Nat, NEW d \in Nat \ {0}, NEW t \in Nat, d <= n,
           2 * d * t <= 2 * (u * n) + d, 2 * (u * n) + d < 2 * d * (t + 1)
    PROVE  t # 0 /\ 2 * (d * t) <= n * (2 * u + 1) /\ 2 * (n * u - d * t) <= d
<1> DEFINE f == n * u
           e == d * t
<1>1. f \in Nat /\ e \in Nat /\ 2 * d * t = 2 * e /\ 2 * (u * n) = 2 * f
      /\ 2 * d * (t + 1) = 2 * e + 2 * d /\ n * (2 * u + 1) = 2 * f + n
  OBVIOUS
<1>2. d <= f
  <2>1. n * 1 <= n * u
    BY Times
  <2> QED BY <2>1
<1>3. t = 0 => e = 0
  OBVIOUS
<1> HIDE DEF f, e
<1>4. 2 * e <= 2 * f + d /\ 2 * f + d < 2 * e + 2 * d
  BY <1>1
<1>5. 2 * e <= 2 * f + n /\ 2 * (f - e) <= d /\ e # 0
  BY <1>1, <1>2, <1>4
<1> QED BY <1>1, <1>3, <1>5 DEF f, e

\* What a cashout pays is at most the rounded winnings: s * t / u by odds of nn / dd and a
\* margin, against s * n / d.
LEMMA CashoutBelowWin ==
    ASSUME NEW s \in Nat, NEW u \in Nat \ {0}, NEW n \in Nat, NEW d \in Nat \ {0}, NEW t \in Nat,
           NEW nn \in Nat, NEW dd \in Nat, NEW h \in Nat, NEW m \in Nat, m <= h,
           2 * (d * t) <= n * (2 * u + 1), dd * (2 * u + 1) <= nn * (2 * u)
    PROVE  ((d * t) * dd) * (s * m) <= ((n * u) * nn) * (s * h)
<1> DEFINE e == d * t
           f == n * u
           e1 == e * dd
           f1 == f * nn
           k == 2 * u + 1
<1>1. e \in Nat /\ f \in Nat /\ e1 \in Nat /\ f1 \in Nat /\ k \in Nat
  OBVIOUS
<1>2. e1 <= f1
  <2>1. dd * (2 * e) <= dd * (n * k)
    <3>1. 2 * e \in Nat /\ n * k \in Nat
      BY <1>1
    <3> HIDE DEF e, k
    <3> QED BY <3>1, Times DEF e, k
  <2>2. n * (dd * k) <= n * (nn * (2 * u))
    <3>1. dd * k \in Nat /\ nn * (2 * u) \in Nat
      BY <1>1
    <3> QED BY <3>1, Times
  <2>3. dd * (2 * e) = 2 * e1 /\ n * (nn * (2 * u)) = 2 * f1
    OBVIOUS
  <2> HIDE DEF e, f, k, e1, f1
  <2>4. dd * (n * k) = n * (dd * k)
    BY <1>1
  <2>5. 2 * e1 <= 2 * f1
    BY <1>1, <2>1, <2>2, <2>3, <2>4
  <2> QED BY <1>1, <2>5
<1> HIDE DEF e, f, e1, f1, k
<1>3. (s * m) * e1 <= (s * m) * f1
  BY <1>1, <1>2, Times
<1>4. f1 * (s * m) <= f1 * (s * h)
  <2>1. s * m <= s * h
    BY Times
  <2> QED BY <1>1, <2>1, Times
<1>5. e1 * (s * m) = (s * m) * e1 /\ f1 * (s * m) = (s * m) * f1
  BY <1>1
<1>6. e1 * (s * m) <= f1 * (s * h)
  <2>1. e1 * (s * m) \in Nat /\ f1 * (s * m) \in Nat /\ f1 * (s * h) \in Nat
    BY <1>1
  <2> QED BY <1>3, <1>4, <1>5, <2>1
<1> QED BY <1>6 DEF e1, f1, e, f

\* The same against what the quote would be for the odds of the bet alone.
LEMMA CashoutNearQuote ==
    ASSUME NEW s \in Nat \ {0}, NEW u \in Nat \ {0}, NEW n \in Nat, NEW d \in Nat \ {0}, d <= n,
           NEW t \in Nat, NEW nn \in Nat, NEW dd \in Nat,
           2 * (d * t) <= n * (2 * u + 1), 2 * (n * u - d * t) <= d,
           dd * ((2 * u + 1) * (2 * u + 1)) <= nn * ((2 * u) * (2 * u))
    PROVE  LET e == d * t
               f == n * u
           IN  2 * s * (e * e * dd) + u * nn * d * f <= 2 * s * (f * f * nn) + u * nn * d * e
<1> DEFINE e == d * t
           f == n * u
           a == e * e * dd
           b == f * f * nn
           w == u * nn * d
<1>1. e \in Nat /\ f \in Nat /\ a \in Nat /\ b \in Nat /\ w \in Nat
  OBVIOUS
<1>2. a <= b
  <2> DEFINE k == 2 * u + 1
             nk == n * k
  <2>1. k \in Nat /\ nk \in Nat /\ 2 * e <= nk
    OBVIOUS
  <2>2. (2 * e) * (2 * e) <= nk * nk
    <3> HIDE DEF e, nk, k
    <3>1. (2 * e) * (2 * e) <= (2 * e) * nk
      BY <1>1, <2>1, Times
    <3>2. nk * (2 * e) <= nk * nk
      BY <1>1, <2>1, Times
    <3>3. (2 * e) * nk = nk * (2 * e) /\ (2 * e) * (2 * e) \in Nat /\ nk * nk \in Nat /\ nk * (2 * e) \in Nat
      BY <1>1, <2>1
    <3> QED BY <3>1, <3>2, <3>3
  <2>3. dd * ((2 * e) * (2 * e)) <= dd * (nk * nk)
    <3> HIDE DEF e, nk, k
    <3>1. (2 * e) * (2 * e) \in Int /\ nk * nk \in Int
      BY <1>1, <2>1
    <3> QED BY <2>2, <3>1, Times
  <2>4. (n * n) * (dd * (k * k)) <= (n * n) * (nn * ((2 * u) * (2 * u)))
    <3>1. n * n \in Nat /\ dd * (k * k) \in Int /\ nn * ((2 * u) * (2 * u)) \in Int
      BY <2>1
    <3> QED BY <3>1, Times
  <2>5. dd * (nk * nk) = (n * n) * (dd * (k * k))
    <3> HIDE DEF k
    <3> QED BY <2>1
  <2>6. (n * n) * (nn * ((2 * u) * (2 * u))) = 4 * b
    OBVIOUS
  <2>7. dd * ((2 * e) * (2 * e)) = 4 * a
    <3> HIDE DEF e
    <3> QED BY <1>1
  <2> DEFINE i == dd * (nk * nk)
             j == (n * n) * (dd * (k * k))
  <2>8. i \in Nat /\ j \in Nat
    <3> HIDE DEF k, nk
    <3> QED BY <2>1
  <2>9. 4 * a <= i /\ i = j /\ j <= 4 * b
    BY <2>3, <2>4, <2>5, <2>6, <2>7
  <2> HIDE DEF i, j, a, b
  <2> QED BY <1>1, <2>8, <2>9
<1>3. CASE f <= e
  <2> HIDE DEF e, f, a, b, w
  <2>1. w * f <= w * e
    BY <1>1, <1>3, Times
  <2>2. (2 * s) * a <= (2 * s) * b
    BY <1>1, <1>2, Times
  <2>3. w * f \in Nat /\ w * e \in Nat /\ (2 * s) * a \in Nat /\ (2 * s) * b \in Nat
    BY <1>1
  <2>4. 2 * s * a + w * f <= 2 * s * b + w * e
    BY <2>1, <2>2, <2>3
  <2> QED BY <2>4 DEF e, f, a, b, w
<1>4. CASE e < f
  <2> DEFINE ff == f * f
             g == nn - dd
             du == d * u
  <2>1. ff \in Nat /\ g \in Int /\ du \in Nat
    BY <1>1
  <2>2. nn <= 4 * u * g
    BY Above
  <2>3. g >= 0
    <3>1. u * g >= 0
      BY <2>2
    <3> HIDE DEF g
    <3> QED BY <2>1, <3>1
  <2>4. ff * g <= b - a
    <3>1. dd * (e * e) <= dd * ff
      <4>1. e * e <= ff
        <5> HIDE DEF e, f
        <5>1. e * e <= e * f
          BY <1>1, <1>4, Times
        <5>2. f * e <= f * f
          BY <1>1, <1>4, Times
        <5> QED BY <1>1, <5>1, <5>2
      <4>2. e * e \in Int /\ ff \in Int
        BY <1>1
      <4> QED BY <4>1, <4>2, Times
    <3>2. ff * g = b - dd * ff /\ a = dd * (e * e)
      <4> HIDE DEF e, f
      <4> QED BY <1>1
    <3>3. dd * ff \in Int
      BY <2>1
    <3> HIDE DEF ff, e, f, a, b, g
    <3> QED BY <1>1, <2>1, <3>1, <3>2, <3>3
  <2>5. du <= f
    <3>1. u * d <= u * n
      BY Times
    <3> QED BY <3>1
  <2>6. du * du <= ff
    <3> HIDE DEF f, du
    <3>1. du * du <= du * f
      BY <1>1, <2>1, <2>5, Times
    <3>2. f * du <= f * f
      BY <1>1, <2>1, <2>5, Times
    <3> QED BY <1>1, <2>1, <3>1, <3>2
  <2>7. w * (2 * (f - e)) <= w * d
    <3> HIDE DEF w
    <3> QED BY <1>1, Times
  <2>8. w * d <= 4 * (ff * g)
    <3> DEFINE dud == du * d
    <3>1. dud \in Nat
      BY <2>1
    <3>2. dud * nn <= dud * (4 * u * g)
      <4>1. 4 * u * g \in Int
        BY <2>1
      <4> HIDE DEF dud, g
      <4> QED BY <2>2, <3>1, <4>1, Times
    <3>3. w * d = dud * nn
      OBVIOUS
    <3>4. dud * (4 * u * g) = 4 * (g * (du * du))
      <4> HIDE DEF g
      <4> QED BY <2>1
    <3>5. g * (du * du) <= g * ff
      <4>1. g \in Nat /\ du * du \in Int
        BY <2>1, <2>3
      <4> HIDE DEF g, du, ff
      <4> QED BY <2>1, <2>6, <4>1, Times
    <3>6. g * ff = ff * g /\ g * (du * du) \in Int /\ ff * g \in Int
      <4> HIDE DEF g, du, ff
      <4> QED BY <2>1
    <3>7. dud * nn \in Int /\ dud * (4 * u * g) \in Int
      BY <3>1, <3>4, <3>6
    <3> HIDE DEF dud, g, du, ff, w
    <3> QED BY <3>2, <3>3, <3>4, <3>5, <3>6, <3>7
  <2>9. b - a <= s * (b - a)
    <3>1. b - a \in Nat
      BY <1>1, <1>2
    <3> DEFINE x == b - a
    <3> HIDE DEF x
    <3>2. x * 1 <= x * s
      <4>1. x \in Nat
        BY <3>1 DEF x
      <4> QED BY <4>1, Times
    <3>3. x * s = s * x /\ x * 1 = x
      <4>1. x \in Nat
        BY <3>1 DEF x
      <4> QED BY <4>1
    <3> QED BY <3>2, <3>3 DEF x
  <2>10. w * (2 * (f - e)) = 2 * (w * f) - 2 * (w * e) /\ s * (b - a) = s * b - s * a
    <3> HIDE DEF w, e, f, a, b
    <3> QED BY <1>1
  <2>11. /\ w * f \in Int /\ w * e \in Int /\ s * b \in Int /\ s * a \in Int
         /\ w * d \in Int /\ ff * g \in Int
    <3> HIDE DEF w, e, f, a, b
    <3> QED BY <1>1, <2>1
  <2> HIDE DEF w, e, f, a, b, ff, g
  <2>12. 2 * (s * a) + w * f <= 2 * (s * b) + w * e
    BY <1>1, <2>4, <2>7, <2>8, <2>9, <2>10, <2>11
  <2>13. 2 * s * a = 2 * (s * a) /\ 2 * s * b = 2 * (s * b)
    BY <1>1
  <2>14. 2 * s * a + w * f <= 2 * s * b + w * e
    BY <2>12, <2>13
  <2> QED BY <2>14 DEF e, f, a, b, w
<1> QED BY <1>1, <1>3, <1>4

\* The same with the rounded winnings wn and the odds p / q of all legs, which the quote
\* is made of.
LEMMA NearQuote ==
    ASSUME NEW s \in Nat \ {0}, NEW u \in Nat \ {0}, NEW n \in Nat, NEW d \in Nat \ {0}, d <= n,
           NEW t \in Nat, NEW nn \in Nat, NEW dd \in Nat, NEW p \in Nat, NEW q \in Nat,
           NEW wn \in Nat, 2 * (s * n) + d < 2 * d * (wn + 1), n * q <= p * d,
           2 * (d * t) <= n * (2 * u + 1), 2 * (n * u - d * t) <= d,
           dd * ((2 * u + 1) * (2 * u + 1)) <= nn * ((2 * u) * (2 * u))
    PROVE  2 * (s * t * t * dd * q) <= 2 * (p * u * u * wn * nn) + u * nn * q * t
<1> DEFINE e == d * t
           f == n * u
           x == e * e * dd
           y == f * f * nn
           w == u * nn * d
           a == s * t * t * dd * q
           g == p * u * u * wn * nn
           b == u * nn * q * t
           d2 == d * d
<1>1. /\ e \in Nat /\ f \in Nat /\ x \in Nat /\ y \in Nat /\ w \in Nat
      /\ a \in Nat /\ g \in Nat /\ b \in Nat /\ d2 \in Nat \ {0}
  <2>1. e \in Nat /\ f \in Nat /\ x \in Nat /\ y \in Nat /\ w \in Nat
    OBVIOUS
  <2>2. a \in Nat
    OBVIOUS
  <2>3. g \in Nat
    OBVIOUS
  <2>4. b \in Nat /\ d2 \in Nat \ {0}
    OBVIOUS
  <2> HIDE DEF e, f, x, y, w, a, g, b, d2
  <2> QED BY <2>1, <2>2, <2>3, <2>4
<1>2. 2 * s * x + w * f <= 2 * s * y + w * e
  <2>1. 2 * s * (e * e * dd) + u * nn * d * f <= 2 * s * (f * f * nn) + u * nn * d * e
    BY CashoutNearQuote
  <2> QED BY <2>1
<1>3. d2 * a = q * (s * x)
  OBVIOUS
<1>4. d2 * b = q * (w * e)
  OBVIOUS
<1> DEFINE z == u * u * nn
           wd == wn * d
<1>5. z \in Nat /\ wd \in Nat
  OBVIOUS
<1>6. 2 * (s * n) - d <= 2 * wd
  <2>1. 2 * d * (wn + 1) = 2 * wd + 2 * d
    OBVIOUS
  <2>2. s * n \in Nat
    OBVIOUS
  <2> HIDE DEF wd
  <2> QED BY <1>5, <2>1, <2>2
<1>7. (z * wd) * (n * q) <= (z * wd) * (p * d)
  <2>1. z * wd \in Nat /\ n * q \in Int /\ p * d \in Int
    BY <1>5
  <2> HIDE DEF z, wd
  <2> QED BY <2>1, Times
<1>8. d2 * g = (z * wd) * (p * d)
  OBVIOUS
<1>9. (n * q * z) * (2 * (s * n) - d) <= (n * q * z) * (2 * wd)
  <2>1. n * q * z \in Nat /\ 2 * (s * n) - d \in Int /\ 2 * wd \in Int
    BY <1>5
  <2> HIDE DEF z, wd
  <2> QED BY <1>6, <2>1, Times
<1>10. (n * q * z) * (2 * (s * n) - d) = 2 * (q * (s * y)) - q * (w * f)
  OBVIOUS
<1>11. (n * q * z) * (2 * wd) = 2 * ((z * wd) * (n * q))
  <2> HIDE DEF z, wd
  <2> QED BY <1>5
<1>12. /\ q * (s * y) \in Nat /\ q * (w * f) \in Nat /\ q * (w * e) \in Nat /\ q * (s * x) \in Nat
       /\ (z * wd) * (n * q) \in Nat /\ (z * wd) * (p * d) \in Nat
       /\ d2 * a \in Nat /\ d2 * b \in Nat /\ d2 * g \in Nat
  <2> HIDE DEF e, f, x, y, w, a, b, g, z, wd, d2
  <2>1. q * (s * y) \in Nat /\ q * (s * x) \in Nat
    BY <1>1
  <2>2. q * (w * f) \in Nat /\ q * (w * e) \in Nat
    BY <1>1
  <2>3. (z * wd) * (n * q) \in Nat /\ (z * wd) * (p * d) \in Nat
    BY <1>5
  <2>4. d2 * a \in Nat /\ d2 * b \in Nat /\ d2 * g \in Nat
    BY <1>1
  <2> QED BY <2>1, <2>2, <2>3, <2>4
<1>13. q * (2 * s * x + w * f) <= q * (2 * s * y + w * e)
  <2> HIDE DEF e, f, x, y, w
  <2>1. 2 * s * x + w * f \in Int /\ 2 * s * y + w * e \in Int
    BY <1>1
  <2> QED BY <1>2, <2>1, Times
<1>14. /\ q * (2 * s * x + w * f) = 2 * (q * (s * x)) + q * (w * f)
       /\ q * (2 * s * y + w * e) = 2 * (q * (s * y)) + q * (w * e)
  <2> HIDE DEF e, f, x, y, w
  <2> QED BY <1>1
<1>15. 2 * (d2 * a) <= 2 * (d2 * g) + d2 * b
  <2>1. 2 * (q * (s * y)) - q * (w * f) <= 2 * (d2 * g)
    <3> HIDE DEF e, f, x, y, w, a, b, g, z, wd, d2
    <3>1. 2 * (q * (s * y)) - q * (w * f) <= 2 * ((z * wd) * (n * q))
      BY <1>9, <1>10, <1>11
    <3> QED BY <1>7, <1>8, <1>12, <3>1
  <2>2. 2 * (q * (s * x)) + q * (w * f) <= 2 * (q * (s * y)) + q * (w * e)
    <3> HIDE DEF e, f, x, y, w, a, b, g, z, wd, d2
    <3> QED BY <1>13, <1>14
  <2> DEFINE c1 == q * (s * x)
             c2 == q * (s * y)
             c3 == q * (w * f)
             c4 == q * (w * e)
             c5 == d2 * g
  <2> HIDE DEF e, f, x, y, w, a, b, g, z, wd, d2
  <2>3. c1 \in Nat /\ c2 \in Nat /\ c3 \in Nat /\ c4 \in Nat /\ c5 \in Nat
    BY <1>12
  <2>4. 2 * c2 - c3 <= 2 * c5 /\ 2 * c1 + c3 <= 2 * c2 + c4
    BY <2>1, <2>2
  <2>5. d2 * a = c1 /\ d2 * b = c4
    BY <1>3, <1>4
  <2> HIDE DEF c1, c2, c3, c4, c5
  <2>6. 2 * c1 <= 2 * c5 + c4
    BY <2>3, <2>4
  <2> QED BY <2>5, <2>6 DEF c5
<1> HIDE DEF e, f, x, y, w, a, b, g, z, wd, d2
<1>16. d2 * (2 * a) <= d2 * (2 * g + b)
  <2>1. d2 * (2 * a) = 2 * (d2 * a) /\ d2 * (2 * g + b) = 2 * (d2 * g) + d2 * b
    BY <1>1
  <2> QED BY <1>15, <2>1
<1>17. 2 * a \in Int /\ 2 * g + b \in Int
  BY <1>1
<1>18. 2 * a <= 2 * g + b
  BY <1>1, <1>16, <1>17, Cancel
<1> QED BY <1>18 DEF a, g, b

\* A stake s at odds o is stored with the total odds t and promised w.
PricedAt(s, o, t, w) ==
    /\ s \in Nat \ {0} /\ o \in Ratios
    /\ t = Rounded(Scaled(TotalUnit, o)) /\ w = Rounded(Scaled(s, o))

\* getCashoutValue against calculateCashoutValue, at the odds live now.
LEMMA QuoteArithmetic ==
    ASSUME NEW s, NEW o, NEW t, NEW wn, PricedAt(s, o, t, wn), o.den <= o.num,
           NEW all \in Ratios, o.num * all.den <= all.num * o.den,
           NEW live \in Ratios, live.num * OddsUnit >= MinOdds * live.den
    PROVE  /\ Rounded(CashoutValue(s, Whole, t, live)) <= wn
           /\ Rounded(CashoutValue(s, Whole, t, live))
                <= Rounded(Frac(all.num * TotalUnit * wn * (Whole - Margin), all.den * t * Whole)) + 1
<1> DEFINE n == o.num
           d == o.den
           p == all.num
           q == all.den
           nn == live.num
           dd == live.den
<1>1. /\ s \in Nat \ {0} /\ n \in Nat \ {0} /\ d \in Nat \ {0} /\ d <= n
      /\ nn \in Nat \ {0} /\ dd \in Nat \ {0} /\ p \in Nat \ {0} /\ q \in Nat \ {0}
      /\ n * q <= p * d /\ nn * OddsUnit >= MinOdds * dd
  BY DEF PricedAt, Ratios
<1>2. s * n \in Nat /\ TotalUnit * n \in Nat /\ TotalUnit \in Nat \ {0}
  <2> HIDE DEF n
  <2> QED BY <1>1, UnitsAssumption
<1>3. /\ wn \in Nat /\ 2 * d * wn <= 2 * (s * n) + d /\ 2 * (s * n) + d < 2 * d * (wn + 1)
        /\ Rounded(Frac(s * n, d)) = wn
  <2>1. wn = Rounded(Frac(s * n, d))
    BY DEF PricedAt, Scaled
  <2> HIDE DEF n, d
  <2> QED BY <1>1, <1>2, <2>1, RoundedBounds
<1>4. /\ t \in Nat /\ 2 * d * t <= 2 * (TotalUnit * n) + d
         /\ 2 * (TotalUnit * n) + d < 2 * d * (t + 1)
  <2>1. t = Rounded(Frac(TotalUnit * n, d))
    BY DEF PricedAt, Scaled
  <2> HIDE DEF n, d
  <2> QED BY <1>1, <1>2, <2>1, RoundedBounds
<1> SUFFICES /\ Rounded(CashoutValue(s, Whole, t, Frac(nn, dd))) <= wn
             /\ Rounded(CashoutValue(s, Whole, t, Frac(nn, dd)))
                  <= Rounded(Frac(p * TotalUnit * wn * (Whole - Margin), q * t * Whole)) + 1
  BY DEF CashoutValue, Frac
<1> HIDE DEF n, d, p, q, nn, dd
<1> USE <1>1, <1>3, <1>4
<1> DEFINE u == TotalUnit
           h == Whole
           m == Whole - Margin
<1>5. u \in Nat \ {0} /\ h \in Nat \ {0} /\ m \in Nat /\ m <= h
  BY UnitsAssumption, MarginAssumption
<1>6. dd * ((2 * u + 1) * (2 * u + 1)) <= nn * ((2 * u) * (2 * u))
  <2> DEFINE i == (2 * u + 1) * (2 * u + 1)
             j == (2 * u) * (2 * u)
  <2>1. i \in Nat /\ j \in Nat
    BY <1>5
  <2>2. OddsUnit \in Nat \ {0} /\ MinOdds \in Nat /\ OddsUnit * i <= MinOdds * j
    BY UnitsAssumption, MinOddsAssumption
  <2> HIDE DEF i, j
  <2>3. dd * (OddsUnit * i) <= dd * (MinOdds * j)
    <3>1. OddsUnit * i \in Int /\ MinOdds * j \in Int
      BY <2>1, <2>2
    <3> QED BY <2>2, <3>1, Times
  <2>4. j * (MinOdds * dd) <= j * (nn * OddsUnit)
    <3>1. MinOdds * dd \in Int /\ nn * OddsUnit \in Int
      BY <2>2
    <3> QED BY <2>1, <3>1, Times
  <2>5. OddsUnit * (dd * i) <= OddsUnit * (nn * j)
    <3>1. OddsUnit * (dd * i) = dd * (OddsUnit * i) /\ dd * (MinOdds * j) = j * (MinOdds * dd)
          /\ OddsUnit * (nn * j) = j * (nn * OddsUnit)
      BY <2>1, <2>2
    <3>2. dd * (OddsUnit * i) \in Int /\ dd * (MinOdds * j) \in Int /\ j * (nn * OddsUnit) \in Int
      BY <2>1, <2>2
    <3> QED BY <2>3, <2>4, <3>1, <3>2
  <2>6. dd * i \in Int /\ nn * j \in Int
    BY <2>1
  <2>7. dd * i <= nn * j
    BY <2>2, <2>5, <2>6, Cancel
  <2> QED BY <2>7 DEF i, j
<1> HIDE DEF u, h, m
<1>7. t \in Nat /\ 2 * d * t <= 2 * (u * n) + d /\ 2 * (u * n) + d < 2 * d * (t + 1)
  BY <1>4 DEF u
<1>8. t # 0 /\ 2 * (d * t) <= n * (2 * u + 1) /\ 2 * (n * u - d * t) <= d
  <2>1. n \in Nat
    OBVIOUS
  <2> QED BY <1>5, <1>7, <2>1, RoundedOdds
<1> DEFINE a == s * h * t * dd * m
           b == h * u * nn * h
           c == p * u * wn * m
           e == q * t * h
<1>9. a \in Nat /\ b \in Nat \ {0} /\ c \in Nat /\ e \in Nat \ {0} /\ s * n \in Nat
  <2>1. \A i, j \in Nat : i * j \in Nat
    OBVIOUS
  <2>2. \A i, j \in Nat \ {0} : i * j \in Nat \ {0}
    OBVIOUS
  <2>3. a \in Nat
    <3>1. s * h * t \in Nat
      BY <1>5, <1>7, <2>1
    <3>2. s * h * t * dd \in Nat
      BY <2>1, <3>1
    <3> QED BY <1>5, <2>1, <3>2
  <2>4. b \in Nat \ {0}
    <3>1. h * u * nn \in Nat \ {0}
      BY <1>5, <2>2
    <3> QED BY <1>5, <2>2, <3>1
  <2>5. c \in Nat
    <3>1. p * u * wn \in Nat
      BY <1>5, <1>3, <2>1
    <3> QED BY <1>5, <2>1, <3>1
  <2>6. e \in Nat \ {0}
    <3>1. q * t \in Nat \ {0}
      BY <1>7, <1>8, <2>2
    <3> QED BY <1>5, <2>2, <3>1
  <2> QED BY <2>3, <2>4, <2>5, <2>6
<1>10. a * d <= (s * n) * b
  <2> DEFINE i == ((d * t) * dd) * (s * m)
             j == ((n * u) * nn) * (s * h)
  <2>1. dd * (2 * u + 1) <= nn * (2 * u)
    BY <1>5, <1>6, Above
  <2>2. i <= j
    BY <1>5, <1>7, <1>8, <2>1, CashoutBelowWin
  <2>3. i \in Int /\ j \in Int
    <3>1. (d * t) * dd \in Int /\ s * m \in Int /\ (n * u) * nn \in Int /\ s * h \in Int
      BY <1>5, <1>7
    <3> QED BY <3>1
  <2>4. a * d = h * i
    BY <1>5, <1>7
  <2>5. (s * n) * b = h * j
    BY <1>5
  <2> HIDE DEF a, b, i, j
  <2>6. h * i <= h * j
    BY <1>5, <2>2, <2>3, Times
  <2> QED BY <2>4, <2>5, <2>6
<1>11. 2 * (a * e) <= 2 * (c * b) + b * e
  <2> DEFINE x == s * t * t * dd * q
             y == p * u * u * wn * nn
             z == u * nn * q * t
  <2>1. x \in Nat /\ y \in Nat /\ z \in Nat
    <3>1. x \in Nat
      BY <1>7
    <3>2. y \in Nat
      BY <1>5, <1>3
    <3>3. z \in Nat
      BY <1>5, <1>7
    <3> HIDE DEF x, y, z
    <3> QED BY <3>1, <3>2, <3>3
  <2>2. 2 * x <= 2 * y + z
    BY <1>5, <1>6, <1>3, <1>7, <1>8, NearQuote
  <2>3. a * e = (h * h * m) * x
    BY <1>5, <1>7
  <2>4. c * b = (h * h * m) * y
    BY <1>5, <1>3
  <2>5. b * e = (h * h * h) * z
    BY <1>5, <1>7
  <2> HIDE DEF a, b, c, e, x, y, z
  <2> DEFINE k == h * h * m
             l == h * h * h
  <2>6. k \in Nat /\ l \in Nat /\ k <= l
    <3>1. (h * h) * m <= (h * h) * h
      BY <1>5, Times
    <3> QED BY <1>5, <3>1
  <2> HIDE DEF k, l
  <2>7. k * (2 * x) <= k * (2 * y + z)
    BY <2>1, <2>2, <2>6, Times
  <2>8. z * k <= z * l
    BY <2>1, <2>6, Times
  <2>9. k * (2 * x) = 2 * (k * x) /\ k * (2 * y + z) = 2 * (k * y) + z * k /\ z * l = l * z
    BY <2>1, <2>6
  <2>10. k * x \in Int /\ k * y \in Int /\ z * k \in Int /\ l * z \in Int
    BY <2>1, <2>6
  <2>11. 2 * (k * x) <= 2 * (k * y) + l * z
    BY <2>7, <2>8, <2>9, <2>10
  <2>12. a * e = k * x /\ c * b = k * y /\ b * e = l * z
    BY <2>3, <2>4, <2>5 DEF k, l
  <2> QED BY <2>11, <2>12
<1>12. CashoutValue(s, Whole, t, Frac(nn, dd)) = Frac(a, b)
  BY DEF CashoutValue, Frac, u, h, m
<1>13. Frac(p * TotalUnit * wn * (Whole - Margin), q * t * Whole) = Frac(c, e)
  BY DEF u, h, m
<1> HIDE DEF a, b, c, e
<1>14. Rounded(Frac(a, b)) <= Rounded(Frac(s * n, d))
  BY <1>9, <1>10, RoundedOrder
<1>15. Rounded(Frac(a, b)) <= Rounded(Frac(c, e)) + 1
  BY <1>9, <1>11, RoundedOrder
<1> QED BY <1>3, <1>12, <1>13, <1>14, <1>15

\* So a quote covers what a cashout would pay.
LEMMA QuotesRight == IInv => QuoteCovers
<1> SUFFICES ASSUME IInv, NEW b \in Stored, bet[b].status = "ACCEPTED", bet[b].parts = 0,
                    Worth(b, Whole)
             PROVE  Rounded(Value(b, Whole)) <= Quote(b) + 1
  BY DEF QuoteCovers
<1> DEFINE slip == bet[b].slip
           x == bet[b].odds
           s == bet[b].stake
           t == bet[b].total
           w == bet[b].win
           o == TotalOdds(slip.type, slip.size, x)
           all == CombinedOdds(x, DOMAIN x)
           live == LiveOdds(b)
           v == Frac(all.num * TotalUnit * w * (Whole - Margin), all.den * t * Whole)
<1>1. /\ x \in Seq(Nat \ {0}) /\ (\A l \in 1 .. Len(x) : x[l] >= OddsUnit)
      /\ slip.size \in 0 .. Len(x) /\ slip.stake \in Nat \ {0}
  BY RowPrices
<1>2. o \in Ratios /\ all \in Ratios /\ o.den <= o.num /\ o.num * all.den <= all.num * o.den
  <2> HIDE DEF x, slip
  <2> QED BY <1>1, OddsType, OddsBounds
<1>3. s = slip.stake /\ w = Rounded(Scaled(s, o)) /\ t = Rounded(Scaled(TotalUnit, o))
  <2>1. RowOK(b)
    BY DEF IInv, MoneyOK
  <2> QED BY <2>1 DEF RowOK, Promised
<1>4. live \in Ratios
  <2>1. live = Frac(live.num, live.den)
    BY DEF LiveOdds, CombinedOdds, Frac
  <2>2. live.num \in Nat \ {0} /\ live.den \in Nat \ {0}
    BY LiveOddsType
  <2> HIDE DEF live
  <2>3. Frac(live.num, live.den) \in Ratios
    BY <2>2 DEF Frac, Ratios
  <2> QED BY <2>1, <2>3
<1>5. live.num * OddsUnit >= MinOdds * live.den
  BY DEF Worth
<1>6. Value(b, Whole) = CashoutValue(s, Whole, t, live)
  BY DEF Value
<1>7. Quote(b) = IF Rounded(v) < w THEN Rounded(v) ELSE w
  BY DEF Quote
<1>8. PricedAt(s, o, t, w) /\ s \in Nat
  BY <1>1, <1>2, <1>3 DEF PricedAt
<1>9. w \in Nat
  <2> HIDE DEF o
  <2> QED BY <1>2, <1>3, <1>8, ScaledType
<1> HIDE DEF slip, x, s, t, w, o, all, live
<1> DEFINE r == Rounded(CashoutValue(s, Whole, t, live))
<1>10. r <= w /\ r <= Rounded(v) + 1
  BY <1>2, <1>4, <1>5, <1>8, QuoteArithmetic
<1>11. r \in Int
  <2>1. Whole \in 0 .. Whole
    BY UnitsAssumption
  <2>2. Rounded(Value(b, Whole)) \in Nat
    BY <2>1, ValueType
  <2> QED BY <1>6, <2>2
<1> HIDE DEF v, r
<1>12. r <= Quote(b) + 1
  BY <1>7, <1>9, <1>10, <1>11
<1> QED BY <1>6, <1>12 DEF r

-------------------------------------------------------------------------------
\* Odds formats.

\* A price below two in hundredths, x above one: the American format and back.
LEMMA ShortPrice ==
    ASSUME NEW x \in 1 .. 99, NEW a \in Int, NEW y \in Int,
           a = (2 * (-10000) + x) \div (2 * x),
           y = (2 * (10000 * (100 - a)) + -a) \div (2 * (-a))
    PROVE  (2 * y + 100) \div 200 = x + 100
<1> DEFINE m == -a
           p == x * m
<1>1. m \in Int /\ p \in Int
  BY SMT
<1>2. 2 * p >= 20000 - x /\ 2 * p < 20000 + x
  <2>1. 2 * x * a <= x - 20000 /\ x - 20000 < 2 * x * a + 2 * x
    BY SMT
  <2>2. 2 * x * a = -(2 * p)
    BY SMT
  <2> HIDE DEF p
  <2> QED BY SMT, <1>1, <2>1, <2>2
<1>3. m >= 101
  <2> SUFFICES ASSUME m <= 100 PROVE FALSE
    BY SMT, <1>1
  <2>1. p <= x * 100
    BY SMT, <1>1, Times
  <2> HIDE DEF p, m
  <2> QED BY SMT, <1>1, <1>2, <2>1
<1> DEFINE q == m * y
<1>4. 2 * q <= 2000000 + 20001 * m /\ 2000000 + 20001 * m < 2 * q + 2 * m
  <2>1. y = (2000000 + 20001 * m) \div (2 * m)
    <3>1. 2 * (10000 * (100 - a)) + -a = 2000000 + 20001 * m /\ 2 * (-a) = 2 * m
      BY SMT
    <3> QED BY SMT, <3>1
  <2> HIDE DEF m
  <2>2. 2 * m * y <= 2000000 + 20001 * m /\ 2000000 + 20001 * m < 2 * m * y + 2 * m
    BY SMT, <1>1, <1>3, <2>1
  <2>3. 2 * m * y = 2 * q
    BY SMT, <1>1
  <2> QED BY SMT, <2>2, <2>3
<1> HIDE DEF m
<1>5. q \in Int
  BY SMT, <1>1
<1>6. y < 100 * x + 10050
  <2> SUFFICES ASSUME 100 * x + 10050 <= y PROVE FALSE
    BY SMT
  <2>1. m * (100 * x + 10050) <= q
    BY SMT, <1>1, <1>3, Times
  <2>2. m * (100 * x + 10050) = 100 * p + 10050 * m
    BY SMT, <1>1
  <2> HIDE DEF p, q
  <2> QED BY SMT, <1>1, <1>2, <1>3, <1>4, <1>5, <2>1, <2>2
<1>7. y >= 100 * x + 9950
  <2> SUFFICES ASSUME y <= 100 * x + 9949 PROVE FALSE
    BY SMT
  <2>1. q <= m * (100 * x + 9949)
    BY SMT, <1>1, <1>3, Times
  <2>2. m * (100 * x + 9949) = 100 * p + 9949 * m
    BY SMT, <1>1
  <2> HIDE DEF p, q
  <2> QED BY SMT, <1>1, <1>2, <1>3, <1>4, <1>5, <2>1, <2>2
<1> QED BY SMT, <1>6, <1>7

\* American odds give back the decimal odds above 1.00 they were made from.
LEMMA AmericanAgrees ==
    ASSUME NEW d \in Nat, d > 100
    PROVE  Rounded(Frac(AmericanToDecimal(DecimalToAmerican(d)), 100)) = d
<1>1. CASE d >= 200
  <2>1. DecimalToAmerican(d) = d - 100 /\ d - 100 > 0
    BY SMT, <1>1 DEF DecimalToAmerican
  <2>2. AmericanToDecimal(d - 100) = 100 * d
    BY SMT, <2>1 DEF AmericanToDecimal
  <2>3. (2 * (100 * d) + 100) \div 200 = d
    BY SMT
  <2> QED BY SMT, <2>1, <2>2, <2>3 DEF Rounded, Frac
<1>2. CASE d < 200
  <2> DEFINE x == d - 100
             a == (2 * (-10000) + x) \div (2 * x)
             y == (2 * (10000 * (100 - a)) + -a) \div (2 * (-a))
  <2>1. x \in 1 .. 99
    BY SMT, <1>2
  <2>2. DecimalToAmerican(d) = a
    BY SMT, <1>2 DEF DecimalToAmerican, Rounded, Frac
  <2>3. a \in Int /\ a < 0
    BY SMT, <2>1
  <2>4. AmericanToDecimal(a) = y /\ y \in Int
    <3> HIDE DEF a
    <3>1. 2 * (-a) > 0 /\ ~(a > 0)
      BY SMT, <2>3
    <3> QED BY SMT, <2>3, <3>1 DEF AmericanToDecimal, Rounded, Frac
  <2>5. (2 * y + 100) \div 200 = x + 100
    <3> HIDE DEF x
    <3>1. a = (2 * (-10000) + x) \div (2 * x) /\ y = (2 * (10000 * (100 - a)) + -a) \div (2 * (-a))
      BY SMT
    <3> HIDE DEF a, y
    <3> QED BY SMT, <2>1, <2>3, <2>4, <3>1, ShortPrice
  <2>6. Rounded(Frac(y, 100)) = (2 * y + 100) \div 200
    BY SMT DEF Rounded, Frac
  <2> HIDE DEF a, y
  <2> QED BY SMT, <2>2, <2>4, <2>5, <2>6
<1> QED BY SMT, <1>1, <1>2

\* What divides x.
Divisors(x) == {t \in Nat \ {0} : \E k \in Nat : x = t * k}

\* Dividing leaves no rest exactly for a divisor, which is not greater than what it divides.
LEMMA Divided ==
    ASSUME NEW x \in Nat, NEW t \in Nat \ {0}
    PROVE  /\ t \in Divisors(x) <=> x % t = 0
           /\ t \in Divisors(x) => x = t * (x \div t)
           /\ t \in Divisors(x) /\ x # 0 => t <= x
<1> DEFINE q == x \div t
           r == x % t
<1>1. x = t * q + r /\ q \in Nat /\ r \in Nat
  OBVIOUS
<1>2. r \in 0 .. t - 1
  OBVIOUS
<1> HIDE DEF q, r
<1>3. ASSUME NEW k \in Nat, x = t * k
      PROVE  r = 0 /\ (x # 0 => t <= x)
  <2>1. t * (k - q) = r
    BY <1>1, <1>3
  <2>3. k - q <= 0
    <3> SUFFICES ASSUME k - q >= 1 PROVE FALSE
      BY <1>1
    <3>1. t * (k - q) >= t
      BY <1>1
    <3> QED BY <1>2, <2>1, <3>1
  <2>4. k - q >= 0
    <3> SUFFICES ASSUME k - q < 0 PROVE FALSE
      BY <1>1
    <3>1. t * (k - q) < 0
      BY <1>1
    <3> QED BY <1>2, <2>1, <3>1
  <2>5. r = 0
    BY <1>1, <2>1, <2>3, <2>4
  <2>6. x # 0 => t <= x
    <3> HAVE x # 0
    <3>1. k >= 1
      BY <1>3
    <3> QED BY <1>3, <3>1
  <2> QED BY <2>5, <2>6
<1>4. ASSUME r = 0
      PROVE  x = t * q /\ t \in Divisors(x)
  BY <1>1, <1>4 DEF Divisors
<1>5. ASSUME t \in Divisors(x)
      PROVE  r = 0 /\ (x # 0 => t <= x)
  BY <1>3, <1>5 DEF Divisors
<1> QED BY <1>4, <1>5 DEF q, r

\* A step of Euclid's algorithm keeps the common divisors.
LEMMA SameDivisors ==
    ASSUME NEW a \in Nat, NEW b \in Nat \ {0}
    PROVE  Divisors(b) \cap Divisors(a % b) = Divisors(a) \cap Divisors(b)
<1> DEFINE q == a \div b
           r == a % b
<1>1. a = b * q + r /\ q \in Nat /\ r \in Nat
  OBVIOUS
<1> HIDE DEF q, r
<1> SUFFICES ASSUME NEW t \in Divisors(b)
             PROVE  t \in Divisors(r) <=> t \in Divisors(a)
  BY DEF r
<1>2. t \in Nat \ {0}
  BY DEF Divisors
<1>3. PICK j \in Nat : b = t * j
  BY DEF Divisors
<1>4. ASSUME NEW k \in Nat, r = t * k PROVE \E i \in Nat : a = t * i
  <2>1. a = t * (j * q + k)
    BY <1>1, <1>2, <1>3, <1>4
  <2>2. j * q + k \in Nat
    BY <1>1
  <2> QED BY <2>1, <2>2
<1>5. ASSUME NEW k \in Nat, a = t * k PROVE \E i \in Nat : r = t * i
  <2>1. r = t * (k - j * q)
    BY <1>1, <1>2, <1>3, <1>5
  <2> DEFINE i == k - j * q
  <2>2. i \in Int
    BY <1>1
  <2>3. r = t * i
    BY <2>1
  <2> HIDE DEF i
  <2>4. i >= 0
    BY <1>1, <1>2, <2>2, <2>3
  <2> QED BY <2>2, <2>3, <2>4
<1> QED BY <1>2, <1>4, <1>5 DEF Divisors

\* A number is known by its divisors.
LEMMA DivisorsKnow ==
    ASSUME NEW x \in Nat, NEW y \in Nat, Divisors(x) = Divisors(y)
    PROVE  x = y
<1>1. \A z \in Nat : z # 0 => z \in Divisors(z)
  <2> TAKE z \in Nat
  <2>1. z = z * 1
    OBVIOUS
  <2> QED BY <2>1 DEF Divisors
<1>2. \A z \in Nat : z + 1 \in Divisors(0)
  <2> TAKE z \in Nat
  <2>1. 0 = (z + 1) * 0
    OBVIOUS
  <2> QED BY <2>1 DEF Divisors
<1>3. \A z \in Nat : z + 1 \in Divisors(z) => z = 0
  <2> TAKE z \in Nat
  <2> QED BY Divided
<1>4. CASE x = 0 \/ y = 0
  BY <1>2, <1>3, <1>4
<1>5. CASE x # 0 /\ y # 0
  <2>1. x \in Divisors(y) /\ y \in Divisors(x)
    BY <1>1, <1>5
  <2>2. x <= y /\ y <= x
    BY <1>5, <2>1, Divided
  <2> QED BY <2>2
<1> QED BY <1>4, <1>5

\* f is the recursion of gcd.
Euclid(f) == f = [b \in Nat |-> [a \in Nat |-> IF b = 0 THEN a ELSE f[a % b][b]]]

\* Gcd is a solution of that recursion.
LEMMA GcdDef == Gcd = CHOOSE f : Euclid(f)
BY DEF Gcd, Euclid

\* There is a number with the common divisors of any two.
LEMMA CommonDivisor ==
    \A b, a \in Nat : \E x \in Nat : Divisors(x) = Divisors(a) \cap Divisors(b)
<1> DEFINE Good(b) == \A a \in Nat : \E x \in Nat : Divisors(x) = Divisors(a) \cap Divisors(b)
           B == {b \in Nat : ~Good(b)}
<1> SUFFICES ASSUME B # {} PROVE FALSE
  OBVIOUS
<1>1. B \subseteq Nat
  OBVIOUS
<1> HIDE DEF B
<1>2. PICK b \in B : \A c \in B : ~(<<c, b>> \in OpToRel(<, Nat))
  BY <1>1, WFMin, NatLessThanWellFounded
<1>3. \A c \in Nat : c < b => c \notin B
  BY <1>1, <1>2 DEF OpToRel
<1>4. PICK a \in Nat : ~\E x \in Nat : Divisors(x) = Divisors(a) \cap Divisors(b)
  BY DEF B
<1>5. CASE b = 0
  <2>1. Divisors(a) \subseteq Divisors(0)
    <3> SUFFICES ASSUME NEW t \in Divisors(a) PROVE t \in Divisors(0)
      OBVIOUS
    <3>1. t \in Nat \ {0} /\ 0 = t * 0
      BY DEF Divisors
    <3> QED BY <3>1 DEF Divisors
  <2> QED BY <1>4, <1>5, <2>1
<1>6. CASE b # 0
  <2>1. b \in Nat \ {0} /\ a % b \in Nat /\ a % b < b
    BY <1>1, <1>6
  <2>2. Good(a % b)
    BY <1>3, <2>1 DEF B
  <2>3. PICK x \in Nat : Divisors(x) = Divisors(b) \cap Divisors(a % b)
    BY <2>1, <2>2
  <2> QED BY <1>4, <2>1, <2>3, SameDivisors
<1> QED BY <1>5, <1>6

\* Every solution of the recursion has the common divisors.
LEMMA EuclidDivisors ==
    ASSUME NEW f, Euclid(f)
    PROVE  \A b, a \in Nat : f[b][a] \in Nat /\ Divisors(f[b][a]) = Divisors(a) \cap Divisors(b)
<1> DEFINE Good(b) == \A a \in Nat : f[b][a] \in Nat /\ Divisors(f[b][a]) = Divisors(a) \cap Divisors(b)
           B == {b \in Nat : ~Good(b)}
<1> SUFFICES ASSUME B # {} PROVE FALSE
  OBVIOUS
<1>1. B \subseteq Nat
  OBVIOUS
<1> HIDE DEF B
<1>2. PICK b \in B : \A c \in B : ~(<<c, b>> \in OpToRel(<, Nat))
  BY <1>1, WFMin, NatLessThanWellFounded
<1>3. \A c \in Nat : c < b => c \notin B
  BY <1>1, <1>2 DEF OpToRel
<1>4. PICK a \in Nat : ~(f[b][a] \in Nat /\ Divisors(f[b][a]) = Divisors(a) \cap Divisors(b))
  BY DEF B
<1>5. f[b][a] = IF b = 0 THEN a ELSE f[a % b][b]
  <2>1. b \in Nat
    BY <1>1
  <2>2. f[b] = [c \in Nat |-> IF b = 0 THEN c ELSE f[c % b][b]]
    BY <2>1 DEF Euclid
  <2> QED BY <2>2
<1>6. CASE b = 0
  <2>1. Divisors(a) \subseteq Divisors(0)
    <3> SUFFICES ASSUME NEW t \in Divisors(a) PROVE t \in Divisors(0)
      OBVIOUS
    <3>1. t \in Nat \ {0} /\ 0 = t * 0
      BY DEF Divisors
    <3> QED BY <3>1 DEF Divisors
  <2> QED BY <1>4, <1>5, <1>6, <2>1
<1>7. CASE b # 0
  <2>1. b \in Nat \ {0} /\ a % b \in Nat /\ a % b < b
    BY <1>1, <1>7
  <2>2. Good(a % b)
    BY <1>3, <2>1 DEF B
  <2>3. f[a % b][b] \in Nat /\ Divisors(f[a % b][b]) = Divisors(b) \cap Divisors(a % b)
    BY <2>1, <2>2
  <2> QED BY <1>4, <1>5, <1>7, <2>1, <2>3, SameDivisors
<1> QED BY <1>6, <1>7

\* gcd computes a number with the common divisors.
LEMMA GcdIs ==
    ASSUME NEW a \in Nat, NEW b \in Nat
    PROVE  Gcd[b][a] \in Nat /\ Divisors(Gcd[b][a]) = Divisors(a) \cap Divisors(b)
<1> DEFINE Has(x, c, d) == x \in Nat /\ Divisors(x) = Divisors(c) \cap Divisors(d)
           g == [d \in Nat |-> [c \in Nat |-> CHOOSE x : Has(x, c, d)]]
<1>1. \A d, c \in Nat : Has(g[d][c], c, d)
  <2> TAKE d, c \in Nat
  <2>1. \E x : Has(x, c, d)
    BY CommonDivisor
  <2>2. g[d][c] = CHOOSE x : Has(x, c, d)
    OBVIOUS
  <2> HIDE DEF Has, g
  <2> QED BY <2>1, <2>2
<1>2. \A d, c \in Nat : g[d][c] = IF d = 0 THEN c ELSE g[c % d][d]
  <2> TAKE d, c \in Nat
  <2>1. CASE d = 0
    <3>1. Divisors(c) \subseteq Divisors(0)
      <4> SUFFICES ASSUME NEW t \in Divisors(c) PROVE t \in Divisors(0)
        OBVIOUS
      <4>1. t \in Nat \ {0} /\ 0 = t * 0
        BY DEF Divisors
      <4> QED BY <4>1 DEF Divisors
    <3>2. g[d][c] \in Nat /\ Divisors(g[d][c]) = Divisors(c)
      <4>1. Has(g[d][c], c, 0)
        BY <1>1, <2>1
      <4> HIDE DEF g
      <4>2. g[d][c] \in Nat /\ Divisors(g[d][c]) = Divisors(c) \cap Divisors(0)
        BY <4>1
      <4>3. Divisors(c) \cap Divisors(0) = Divisors(c)
        BY <3>1
      <4> QED BY <4>2, <4>3
    <3> HIDE DEF g
    <3>3. g[d][c] = c
      BY <3>2, DivisorsKnow
    <3> QED BY <2>1, <3>3
  <2>2. CASE d # 0
    <3> HIDE DEF g
    <3>1. d \in Nat \ {0} /\ c % d \in Nat
      BY <2>2
    <3>2. Divisors(g[c % d][d]) = Divisors(g[d][c]) /\ g[d][c] \in Nat /\ g[c % d][d] \in Nat
      <4>1. Has(g[c % d][d], d, c % d) /\ Has(g[d][c], c, d)
        BY <1>1, <3>1
      <4>2. Divisors(d) \cap Divisors(c % d) = Divisors(c) \cap Divisors(d)
        BY <3>1, SameDivisors
      <4> QED BY <4>1, <4>2
    <3>3. g[d][c] = g[c % d][d]
      BY <3>2, DivisorsKnow
    <3> QED BY <2>2, <3>3
  <2> QED BY <2>1, <2>2
<1>3. g = [d \in Nat |-> [c \in Nat |-> g[d][c]]]
  OBVIOUS
<1> HIDE DEF g
<1>4. Euclid(g)
  BY <1>2, <1>3 DEF Euclid
<1>5. Euclid(Gcd)
  BY <1>4, GcdDef
<1> QED BY <1>5, EuclidDivisors

\* The fraction of decimalToFractional is the price, in lowest terms.
LEMMA LowestTerms ==
    ASSUME NEW x \in Nat \ {0}
    PROVE  LET g == Gcd[100][x]
           IN  /\ (x \div g) * 100 = x * (100 \div g)
               /\ \A t \in 2 .. 100 : ~((x \div g) % t = 0 /\ (100 \div g) % t = 0)
<1> DEFINE g == Gcd[100][x]
           n == x \div g
           m == 100 \div g
<1>1. g \in Nat /\ Divisors(g) = Divisors(x) \cap Divisors(100)
  BY GcdIs
<1> HIDE DEF g
<1>2. g # 0
  <2> SUFFICES ASSUME g = 0 PROVE FALSE
    OBVIOUS
  <2>1. x + 1 \in Divisors(0)
    <3>1. 0 = (x + 1) * 0
      OBVIOUS
    <3> QED BY <3>1 DEF Divisors
  <2> QED BY <1>1, <2>1, Divided
<1>3. g \in Divisors(g)
  <2>1. g = g * 1
    BY <1>1
  <2> QED BY <1>1, <1>2, <2>1 DEF Divisors
<1>4. x = g * n /\ 100 = g * m /\ n \in Nat /\ m \in Nat
  BY <1>1, <1>2, <1>3, Divided
<1> HIDE DEF n, m
<1>5. n * 100 = x * m
  BY <1>1, <1>4
<1>6. ASSUME NEW t \in 2 .. 100, n % t = 0, m % t = 0 PROVE FALSE
  <2>1. n = t * (n \div t) /\ m = t * (m \div t) /\ n \div t \in Nat /\ m \div t \in Nat
    BY <1>4, <1>6, Divided
  <2> DEFINE h == t * g
             i == n \div t
             j == m \div t
  <2>2. h \in Nat \ {0} /\ h > g
    BY <1>1, <1>2
  <2> HIDE DEF i, j
  <2>3. x = h * i /\ 100 = h * j
    <3>1. i \in Nat /\ j \in Nat /\ n = t * i /\ m = t * j
      BY <2>1 DEF i, j
    <3> QED BY <1>1, <1>4, <3>1
  <2>4. h \in Divisors(g)
    <3>1. i \in Nat /\ j \in Nat
      BY <2>1 DEF i, j
    <3> HIDE DEF h
    <3> QED BY <1>1, <2>2, <2>3, <3>1 DEF Divisors
  <2> HIDE DEF h
  <2> QED BY <1>1, <1>2, <2>2, <2>4, Divided
<1> QED BY <1>5, <1>6 DEF g, n, m

\* Every quoted price survives both conversions of formats.
LEMMA FormatsRight == FormatsAgree
<1> SUFFICES ASSUME NEW d \in Quoted
             PROVE  LET back == AmericanToDecimal(DecimalToAmerican(d))
                        f == DecimalToFractional(d)
                    IN  /\ Rounded(Frac(back, 100)) = d
                        /\ f.num * 100 = (d - 100) * f.den
                        /\ \A g \in 2 .. 100 : ~(f.num % g = 0 /\ f.den % g = 0)
  BY DEF FormatsAgree
<1>1. d \in Nat /\ d > 100 /\ d - 100 \in Nat \ {0}
  BY DecimalAssumption
<1> DEFINE f == DecimalToFractional(d)
<1>2. f.num = (d - 100) \div Gcd[100][d - 100] /\ f.den = 100 \div Gcd[100][d - 100]
  BY DEF DecimalToFractional, Frac
<1> HIDE DEF f
<1>3. f.num * 100 = (d - 100) * f.den /\ \A g \in 2 .. 100 : ~(f.num % g = 0 /\ f.den % g = 0)
  BY <1>1, <1>2, LowestTerms
<1>4. Rounded(Frac(AmericanToDecimal(DecimalToAmerican(d)), 100)) = d
  BY <1>1, AmericanAgrees
<1> QED BY <1>3, <1>4 DEF f

\* For all slips, prices and margins: a bet is promised the sum over its combinations,
\* a winner is paid what it was promised but for the rounding of totalOdds, a quote is
\* at most a cent below what a cashout pays, and odds survive their formats.
THEOREM BetsPricedRight == Spec => []PricedRight
<1>1. IInv => PricedRight
  BY SumsRight, WinnersRight, QuotesRight, FormatsRight DEF PricedRight
<1> QED BY <1>1, Invariance, PTL

-------------------------------------------------------------------------------
\* Session: its steps and invariant are SNext and SInv.

USE DEF StepTo, LoginSteps, Underway, Statements, tables, history

UserRows == [attempts : Nat, locked : BOOLEAN, refresh : BOOLEAN]

Labels == Underway \cup {"idle", "done", "out-done", "failed", "clash"}

Locals(s) == [attempts : Nat, iat : 0 .. s, todo : SUBSET Statements, broken : BOOLEAN]

\* Every type but those of the calls and their local variables.
SharedOK ==
    /\ user \in UserRows
    /\ standing \in [active : BOOLEAN, excluded : BOOLEAN]
    /\ rows \in [Seconds -> {"none", "active", "ended"}]
    /\ cached \subseteq Seconds
    /\ now \in Seconds
    /\ issued \subseteq 0 .. now
    /\ misses \subseteq Calls
    /\ crossed \in BOOLEAN
    /\ since \subseteq Calls
    /\ outs \in [Calls -> SUBSET Calls]
    /\ ending \subseteq Calls

\* The types are those of what is shared and those of the calls.
LEMMA Types ==
    STypeOK <=> SharedOK /\ callAt \in [Calls -> Labels] /\ local \in [Calls -> Locals(now)]
BY DEF STypeOK, SharedOK, UserRows, Labels, Locals

\* The invariant of one call.
LEMMA Call1 ==
    ASSUME SInv, NEW c \in Calls
    PROVE  /\ callAt[c] \in Labels /\ local[c] \in Locals(now)
           /\ Carried(c, callAt[c], local[c])
           /\ local = [local EXCEPT ![c] = local[c]]
           /\ SharedOK
BY Types DEF SInv, CallsOK

\* A time that has come is a second, and stays one.
LEMMA Clock == SharedOK => now \in Nat /\ now \in 0 .. now /\ 0 .. now \subseteq Seconds
<1>1. SharedOK => now \in 0 .. LastSecond
  BY DEF SharedOK, Seconds
<1> QED BY <1>1, BoundAssumption DEF Seconds

\* A step of a call keeps the invariant when what is shared stays typed and
\* counted, and every call has after it what it must.
LEMMA Moved ==
    ASSUME SInv, NEW c \in Calls, NEW at \in Labels, NEW v \in Locals(now),
           callAt' = [callAt EXCEPT ![c] = at], local' = [local EXCEPT ![c] = v],
           now' = now, SharedOK', Carried(c, at, v)',
           \A d \in Calls \ {c} : callAt'[d] = callAt[d] /\ local'[d] = local[d]
                                     => Carried(d, callAt[d], local[d])',
           IsFiniteSet(misses)', AttemptsCounted'
    PROVE  SInv'
<1>1. callAt \in [Calls -> Labels] /\ local \in [Calls -> Locals(now)]
  BY Types DEF SInv
<1>2. /\ callAt' \in [Calls -> Labels] /\ local' \in [Calls -> Locals(now)]
      /\ callAt'[c] = at /\ local'[c] = v
      /\ \A d \in Calls \ {c} : callAt'[d] = callAt[d] /\ local'[d] = local[d]
  BY <1>1
<1>3. STypeOK'
  BY <1>2 DEF STypeOK, SharedOK, UserRows, Labels, Locals
<1>4. ASSUME NEW d \in Calls PROVE Carried(d, callAt[d], local[d])'
  <2>1. CASE d = c
    BY <1>2, <2>1
  <2>2. CASE d # c
    BY <1>2, <2>2
  <2> QED BY <2>1, <2>2
<1>5. CallsOK'
  BY <1>4 DEF CallsOK
<1> QED BY <1>3, <1>5 DEF SInv

\* A step that leaves the account and the histories alone, and ends or creates
\* sessions only, keeps what the other calls carry.
LEMMA Quiet ==
    ASSUME SInv, NEW c \in Calls, NEW at \in Labels, NEW v \in Locals(now),
           callAt' = [callAt EXCEPT ![c] = at], local' = [local EXCEPT ![c] = v],
           UNCHANGED <<user, standing, now, misses, crossed, since, outs, ending>>,
           rows' \in [Seconds -> {"none", "active", "ended"}],
           \A t \in Seconds : rows[t] # "none" => rows'[t] # "none",
           \A t \in Seconds : rows[t] = "ended" => rows'[t] = "ended",
           cached' \subseteq Seconds, issued' \subseteq 0 .. now,
           Carried(c, at, v)'
    PROVE  SInv'
<1>1. SharedOK'
  BY Call1 DEF SharedOK
<1>2. ASSUME NEW d \in Calls, callAt'[d] = callAt[d], local'[d] = local[d]
      PROVE  Carried(d, callAt[d], local[d])'
  <2>1. Carried(d, callAt[d], local[d]) /\ local[d].iat \in Seconds
    BY Call1, Clock DEF Locals
  <2> QED BY <1>2, <2>1 DEF Carried
<1>3. IsFiniteSet(misses)' /\ AttemptsCounted'
  BY DEF SInv, AttemptsCounted
<1> QED BY <1>1, <1>2, <1>3, Moved

\* A step that writes nothing that is shared.
LEMMA ReadOnly ==
    ASSUME SInv, NEW c \in Calls, NEW at \in Labels, NEW v \in Locals(now),
           callAt' = [callAt EXCEPT ![c] = at], local' = [local EXCEPT ![c] = v],
           UNCHANGED <<user, standing, now, misses, crossed, since, outs, ending, rows,
                       cached, issued>>,
           Carried(c, at, v)
    PROVE  SInv'
<1>1. Carried(c, at, v)'
  BY DEF Carried
<1>2. /\ rows' \in [Seconds -> {"none", "active", "ended"}]
      /\ cached' \subseteq Seconds /\ issued' \subseteq 0 .. now
  BY Call1 DEF SharedOK
<1> QED BY <1>1, <1>2, Quiet

\* No call, no wrong password.
LEMMA InitSInv == SInit => SInv
<1> SUFFICES ASSUME SInit PROVE SInv
  OBVIOUS
<1> USE DEF SInit
<1>1. 0 \in 0 .. 0 /\ 0 \in Seconds
  BY BoundAssumption DEF Seconds
<1>2. SharedOK
  <2>1. user \in UserRows
    BY DEF UserRows
  <2>2. now \in Seconds /\ issued \subseteq 0 .. now
    BY <1>1
  <2> QED BY <2>1, <2>2 DEF SharedOK
<1>3. callAt \in [Calls -> Labels] /\ local \in [Calls -> Locals(now)]
  BY <1>1 DEF Labels, Locals, NoLocals
<1>4. CallsOK
  BY DEF CallsOK, Carried, NoLocals
<1>5. IsFiniteSet(misses) /\ AttemptsCounted
  BY FS_EmptySet DEF AttemptsCounted
<1> QED BY <1>2, <1>3, <1>4, <1>5, Types DEF SInv

-------------------------------------------------------------------------------
\* The steps of a login.

\* The attempts are read; a locked account is refused.
LEMMA FindUserSInv == ASSUME SInv, NEW c \in Calls, FindUser(c) PROVE SInv'
<1> DEFINE v == [local[c] EXCEPT !.attempts = user.attempts]
<1>1. PICK at \in {"compare", "failed"} :
          /\ callAt' = [callAt EXCEPT ![c] = at]
          /\ at = "compare" => ~user.locked
  BY DEF FindUser
<1>2. v \in Locals(now) /\ v.attempts = user.attempts
  BY Call1 DEF Locals, SharedOK, UserRows
<1>3. /\ callAt[c] = "idle" /\ local' = [local EXCEPT ![c] = v]
      /\ UNCHANGED <<user, standing, now, misses, crossed, since, outs, ending, rows,
                     cached, issued>>
  BY DEF FindUser
<1> HIDE DEF v
<1>4. c \notin misses /\ c \notin ending
  BY <1>3, Call1 DEF Carried
<1>5. Carried(c, at, v)
  BY <1>1, <1>2, <1>4 DEF Carried
<1> QED BY <1>1, <1>2, <1>3, <1>5, ReadOnly DEF Labels

\* The password is right or wrong.
LEMMA CompareSInv == ASSUME SInv, NEW c \in Calls, Compare(c) PROVE SInv'
<1>1. PICK at \in {"reset", "count"} : callAt' = [callAt EXCEPT ![c] = at]
  BY DEF Compare
<1>2. /\ callAt[c] = "compare" /\ local' = [local EXCEPT ![c] = local[c]]
      /\ UNCHANGED <<user, standing, now, misses, crossed, since, outs, ending, rows,
                     cached, issued>>
  BY Call1 DEF Compare
<1>3. Carried(c, at, local[c]) /\ local[c] \in Locals(now)
  BY <1>1, <1>2, Call1 DEF Carried
<1> QED BY <1>1, <1>2, <1>3, ReadOnly DEF Labels

\* The password was wrong: the attempts as read, plus one, are those of the account
\* unless another login wrote, and the call has not been counted before.
LEMMA CountAttemptSInv == ASSUME SInv, NEW c \in Calls, CountAttempt(c) PROVE SInv'
<1> DEFINE n == local[c].attempts + 1
<1>0. PICK v \in Locals(now) : v = local[c]
  BY Call1
<1>1. /\ callAt[c] = "count" /\ callAt' = [callAt EXCEPT ![c] = "failed"]
      /\ local' = [local EXCEPT ![c] = v]
      /\ user' = [user EXCEPT !.attempts = n, !.locked = user.locked \/ n >= MaxAttempts]
      /\ since' = IF user'.locked /\ ~user.locked
                  THEN {d \in Calls : callAt[d] \in Underway} ELSE since
      /\ misses' = misses \cup {c}
      /\ crossed' = (crossed \/ \E d \in Calls \ {c} : callAt[d] \in {"compare", "count"})
      /\ UNCHANGED <<rows, cached, standing, now, issued, outs, ending>>
  BY <1>0, Call1 DEF CountAttempt, Cross
<1>2. n \in Nat /\ user \in UserRows /\ (crossed \/ n = user.attempts + 1)
  BY <1>1, Call1 DEF Locals, SharedOK, Carried
<1> HIDE DEF n
<1>3. /\ user' \in UserRows /\ user'.attempts = n /\ user'.refresh = user.refresh
      /\ user.locked => user'.locked
  BY <1>1, <1>2 DEF UserRows
<1>4. since' \subseteq Calls /\ crossed' \in BOOLEAN
  BY <1>1, Call1 DEF SharedOK
<1>5. SharedOK'
  BY <1>1, <1>3, <1>4, Call1 DEF SharedOK
<1>6. c \notin misses /\ c \notin ending
  BY <1>1, Call1 DEF Carried
<1>7. Carried(c, "failed", v)'
  BY DEF Carried
<1>8. ASSUME NEW d \in Calls \ {c}, callAt'[d] = callAt[d], local'[d] = local[d]
      PROVE  Carried(d, callAt[d], local[d])'
  <2>1. Carried(d, callAt[d], local[d])
    BY Call1
  <2>2. callAt[d] \in {"compare", "count"} => crossed'
    BY <1>1
  <2>3. callAt[d] \in {"compare", "count", "reset"} => ~user'.locked \/ d \in since'
    BY <1>1, <1>3, <2>1 DEF Carried
  <2> QED BY <1>1, <1>3, <1>8, <2>1, <2>2, <2>3 DEF Carried
<1>9. IsFiniteSet(misses)' /\ Cardinality(misses') = Cardinality(misses) + 1
  BY <1>1, <1>6, FS_AddElement DEF SInv
<1>10. AttemptsCounted'
  BY <1>1, <1>2, <1>3, <1>9 DEF SInv, AttemptsCounted
<1>11. "failed" \in Labels
  BY DEF Labels
<1> QED BY <1>1, <1>2, <1>5, <1>7, <1>8, <1>9, <1>10, <1>11, Moved

\* The password was right: nothing is counted, and logins that read before have
\* crossed this one.
LEMMA ResetAttemptsSInv == ASSUME SInv, NEW c \in Calls, ResetAttempts(c) PROVE SInv'
<1>0. PICK v \in Locals(now) : v = [local[c] EXCEPT !.iat = now]
  BY Call1, Clock DEF Locals
<1>1. /\ callAt[c] = "reset" /\ callAt' = [callAt EXCEPT ![c] = "save"]
      /\ local' = [local EXCEPT ![c] = v]
      /\ user' = [user EXCEPT !.attempts = 0, !.locked = FALSE]
      /\ misses' = {}
      /\ crossed' = (crossed \/ \E d \in Calls \ {c} : callAt[d] \in {"compare", "count"})
      /\ UNCHANGED <<rows, cached, standing, now, issued, since, outs, ending>>
  BY <1>0 DEF ResetAttempts, Cross
<1>2. user' \in UserRows /\ user'.attempts = 0 /\ ~user'.locked /\ user'.refresh = user.refresh
  BY <1>1, Call1 DEF UserRows, SharedOK
<1>4. SharedOK'
  <2>1. crossed' \in BOOLEAN
    BY <1>1, Call1 DEF SharedOK
  <2> QED BY <1>1, <1>2, <2>1, Call1 DEF SharedOK
<1>5. c \notin ending
  BY <1>1, Call1 DEF Carried
<1>6. Carried(c, "save", v)'
  BY <1>1, <1>5 DEF Carried
<1>7. ASSUME NEW d \in Calls \ {c}, callAt'[d] = callAt[d], local'[d] = local[d]
      PROVE  Carried(d, callAt[d], local[d])'
  <2>1. Carried(d, callAt[d], local[d])
    BY Call1
  <2>2. callAt[d] \in {"compare", "count"} => crossed'
    BY <1>1
  <2> QED BY <1>1, <1>2, <1>7, <2>1, <2>2 DEF Carried
<1>8. IsFiniteSet(misses)' /\ Cardinality(misses') = 0
  BY <1>1, FS_EmptySet
<1>9. AttemptsCounted'
  BY <1>2, <1>8 DEF AttemptsCounted
<1>11. "save" \in Labels
  BY DEF Labels
<1> QED BY <1>1, <1>4, <1>6, <1>7, <1>8, <1>9, <1>11, Moved

\* A token is saved: only the refresh token of the account changes.
LEMMA SaveRefreshTokenSInv ==
    ASSUME SInv, NEW c \in Calls, SaveRefreshToken(c) PROVE SInv'
<1>0. PICK v \in Locals(now) : v = local[c]
  BY Call1
<1>1. PICK at \in {"row", "done"} : callAt' = [callAt EXCEPT ![c] = at]
  BY DEF SaveRefreshToken
<1>2. /\ callAt[c] \in {"save", "rsave"} /\ local' = [local EXCEPT ![c] = v]
      /\ user' = [user EXCEPT !.refresh = TRUE]
      /\ issued' \in {issued, issued \cup {v.iat}}
      /\ UNCHANGED <<rows, cached, standing, now, misses, crossed, since, outs, ending>>
  BY <1>0, Call1 DEF SaveRefreshToken
<1>3. /\ user' \in UserRows /\ user'.attempts = user.attempts /\ user'.locked = user.locked
      /\ user'.refresh
  BY <1>2, Call1 DEF UserRows, SharedOK
<1>4. v.iat \in 0 .. now
  BY DEF Locals
<1>5. SharedOK'
  BY <1>2, <1>3, <1>4, Call1 DEF SharedOK
<1>6. c \notin misses /\ c \notin ending
  BY <1>2, Call1 DEF Carried
<1>7. Carried(c, at, v)'
  BY <1>2, <1>6 DEF Carried
<1>8. ASSUME NEW d \in Calls \ {c}, callAt'[d] = callAt[d], local'[d] = local[d]
      PROVE  Carried(d, callAt[d], local[d])'
  <2>1. Carried(d, callAt[d], local[d])
    BY Call1
  <2> QED BY <1>2, <1>3, <1>8, <2>1 DEF Carried
<1>9. IsFiniteSet(misses)' /\ AttemptsCounted'
  BY <1>2, <1>3 DEF SInv, AttemptsCounted
<1>11. at \in Labels
  BY DEF Labels
<1> QED BY <1>1, <1>2, <1>4, <1>5, <1>7, <1>8, <1>9, <1>11, Moved

\* A token gets a row once; a second row for the same string is refused.
LEMMA CreateSessionSInv == ASSUME SInv, NEW c \in Calls, CreateSession(c) PROVE SInv'
<1>0. PICK v \in Locals(now) : v = local[c]
  BY Call1
<1>1. PICK at \in {"cache", "clash"} : callAt' = [callAt EXCEPT ![c] = at]
  BY DEF CreateSession
<1>2. /\ callAt[c] = "row" /\ local' = [local EXCEPT ![c] = v] /\ v.iat \in Seconds
      /\ \/ rows' = rows
         \/ rows[v.iat] = "none" /\ rows' = [rows EXCEPT ![v.iat] = "active"]
      /\ UNCHANGED <<user, cached, standing, now, issued, misses, crossed, since, outs, ending>>
  BY <1>0, Call1, Clock DEF CreateSession, Locals
<1>3. rows \in [Seconds -> {"none", "active", "ended"}]
  BY Call1 DEF SharedOK
<1>4. /\ rows' \in [Seconds -> {"none", "active", "ended"}]
      /\ \A t \in Seconds : rows[t] # "none" => rows'[t] # "none"
      /\ \A t \in Seconds : rows[t] = "ended" => rows'[t] = "ended"
  BY <1>2, <1>3
<1>5. c \notin misses /\ c \notin ending
  BY <1>2, Call1 DEF Carried
<1>6. Carried(c, at, v)'
  BY <1>2, <1>5 DEF Carried
<1>7. at \in Labels /\ cached' \subseteq Seconds /\ issued' \subseteq 0 .. now
  BY <1>2, Call1 DEF Labels, SharedOK
<1> QED BY <1>1, <1>2, <1>4, <1>6, <1>7, Quiet

\* The session is cached and the tokens are given out.
LEMMA CacheSessionSInv == ASSUME SInv, NEW c \in Calls, CacheSession(c) PROVE SInv'
<1>0. PICK v \in Locals(now) : v = local[c]
  BY Call1
<1>1. /\ callAt[c] = "cache" /\ callAt' = [callAt EXCEPT ![c] = "done"]
      /\ local' = [local EXCEPT ![c] = v]
      /\ cached' = cached \cup {v.iat} /\ issued' = issued \cup {v.iat}
      /\ UNCHANGED <<user, rows, standing, now, misses, crossed, since, outs, ending>>
  BY <1>0, Call1 DEF CacheSession
<1>2. v.iat \in 0 .. now /\ v.iat \in Seconds
  BY Call1, Clock DEF Locals
<1>3. /\ rows' \in [Seconds -> {"none", "active", "ended"}]
      /\ cached' \subseteq Seconds /\ issued' \subseteq 0 .. now /\ "done" \in Labels
  BY <1>1, <1>2, Call1 DEF SharedOK, Labels
<1>4. c \notin misses /\ c \notin ending
  BY <1>1, Call1 DEF Carried
<1>5. Carried(c, "done", v)'
  BY <1>1, <1>4 DEF Carried
<1> QED BY <1>1, <1>3, <1>5, Quiet

\* A statement fails or the process dies.
LEMMA FailSInv == ASSUME SInv, NEW c \in Calls, Fail(c) PROVE SInv'
<1>1. /\ callAt[c] \in LoginSteps \cup {"rsave"} /\ callAt' = [callAt EXCEPT ![c] = "failed"]
      /\ local' = [local EXCEPT ![c] = local[c]]
      /\ UNCHANGED <<user, standing, now, misses, crossed, since, outs, ending, rows,
                     cached, issued>>
  BY Call1 DEF Fail
<1>2. c \notin ending /\ local[c] \in Locals(now) /\ "failed" \in Labels
  BY <1>1, Call1 DEF Carried, Labels
<1>3. Carried(c, "failed", local[c])
  BY <1>2 DEF Carried
<1> QED BY <1>1, <1>2, <1>3, ReadOnly

-------------------------------------------------------------------------------
\* The steps of a refresh and of a logout.

\* A refresh goes on while the account has a refresh token.
LEMMA RefreshSInv == ASSUME SInv, NEW c \in Calls, Refresh(c) PROVE SInv'
<1> DEFINE v == [local[c] EXCEPT !.iat = now]
<1>1. PICK at \in {"rsave", "failed"} :
          /\ callAt' = [callAt EXCEPT ![c] = at]
          /\ at = "rsave" => user.refresh
  BY DEF Refresh
<1>2. /\ v \in Locals(now) /\ at \in Labels
  BY Call1, Clock DEF Locals, Labels
<1>3. /\ callAt[c] = "idle" /\ local' = [local EXCEPT ![c] = v]
      /\ UNCHANGED <<user, standing, now, misses, crossed, since, outs, ending, rows,
                     cached, issued>>
  BY DEF Refresh
<1> HIDE DEF v
<1>4. c \notin misses /\ c \notin ending
  BY <1>3, Call1 DEF Carried
<1>5. Carried(c, at, v)
  BY <1>1, <1>4 DEF Carried
<1> QED BY <1>1, <1>2, <1>3, <1>5, ReadOnly

\* A logout whose token has an active row is remembered with it.
LEMMA LogoutSInv ==
    ASSUME SInv, NEW c \in Calls, NEW t \in Seconds, Logout(c, t) PROVE SInv'
<1>0. t \in 0 .. now
  BY Call1 DEF Logout, SharedOK
<1>1. PICK v \in Locals(now) : v = [local[c] EXCEPT !.iat = t, !.todo = Statements]
  BY <1>0, Call1 DEF Locals
<1>2. /\ callAt[c] = "idle" /\ callAt' = [callAt EXCEPT ![c] = "out"]
      /\ local' = [local EXCEPT ![c] = v]
      /\ ending' = ending \cup {d \in {c} : rows[t] = "active"}
      /\ UNCHANGED <<user, rows, cached, standing, now, issued, misses, crossed, since, outs>>
  BY <1>1 DEF Logout
<1>3. c \notin ending /\ c \notin misses
  BY <1>2, Call1 DEF Carried
<1>4. v.iat = t /\ v.todo = Statements
  BY <1>1, Call1 DEF Locals
<1>5. SharedOK' /\ "out" \in Labels
  BY <1>2, Call1 DEF SharedOK, Labels
<1>6. Carried(c, "out", v)'
  BY <1>2, <1>3, <1>4 DEF Carried
<1>7. ASSUME NEW d \in Calls \ {c}, callAt'[d] = callAt[d], local'[d] = local[d]
      PROVE  Carried(d, callAt[d], local[d])'
  <2>1. Carried(d, callAt[d], local[d]) /\ (d \in ending' <=> d \in ending)
    BY <1>2, Call1
  <2> QED BY <1>2, <1>7, <2>1 DEF Carried
<1>8. IsFiniteSet(misses)' /\ AttemptsCounted'
  BY <1>2 DEF SInv, AttemptsCounted
<1> QED BY <1>2, <1>5, <1>6, <1>7, <1>8, Moved

\* A statement of a logout is over: one fewer is left, and the answer says all is
\* well only when none failed.
LEMMA SettledFacts ==
    ASSUME SInv, NEW c \in Calls, NEW s \in Statements, NEW fails \in BOOLEAN,
           Settled(c, s, fails)
    PROVE  \E at \in {"out", "out-done", "failed"}, v \in Locals(now) :
              /\ callAt' = [callAt EXCEPT ![c] = at] /\ local' = [local EXCEPT ![c] = v]
              /\ v.iat = local[c].iat /\ v.todo = local[c].todo \ {s}
              /\ fails \/ local[c].broken => v.broken
              /\ at = "out-done" => v.todo = {} /\ ~v.broken
<1> DEFINE left == local[c].todo \ {s}
           broken == fails \/ local[c].broken
           v == [local[c] EXCEPT !.todo = left, !.broken = broken]
           at == IF left # {} THEN "out" ELSE IF broken THEN "failed" ELSE "out-done"
<1>1. callAt' = [callAt EXCEPT ![c] = at] /\ local' = [local EXCEPT ![c] = v]
  BY DEF Settled
<1>2. left \subseteq Statements /\ broken \in BOOLEAN
  BY Call1 DEF Locals
<1>3. /\ at \in {"out", "out-done", "failed"}
      /\ at = "out-done" => left = {} /\ ~broken
  OBVIOUS
<1>4. fails \/ local[c].broken => broken
  OBVIOUS
<1> HIDE DEF at, broken, left
<1>5. /\ v \in Locals(now) /\ v.iat = local[c].iat /\ v.todo = left /\ v.broken = broken
  BY <1>2, Call1 DEF Locals
<1> HIDE DEF v
<1> QED BY <1>1, <1>3, <1>4, <1>5 DEF left

\* A statement that leaves the row alone: it is another one, or it has failed.
LEMMA OtherStatement ==
    ASSUME SInv, NEW c \in Calls, NEW s \in Statements, NEW fails \in BOOLEAN,
           Settled(c, s, fails), s # "row" \/ fails,
           user' = user, outs' = outs, rows' = rows, cached' \subseteq cached
    PROVE  SInv'
<1>1. PICK at \in {"out", "out-done", "failed"}, v \in Locals(now) :
              /\ callAt' = [callAt EXCEPT ![c] = at] /\ local' = [local EXCEPT ![c] = v]
              /\ v.iat = local[c].iat /\ v.todo = local[c].todo \ {s}
              /\ fails \/ local[c].broken => v.broken
              /\ at = "out-done" => v.todo = {} /\ ~v.broken
  BY SettledFacts
<1>2. /\ callAt[c] = "out" /\ UNCHANGED <<standing, now, issued, misses, crossed, since, ending>>
  BY DEF Settled
<1>3. Carried(c, "out", local[c])
  BY <1>2, Call1
<1>4. Carried(c, at, v)'
  BY <1>1, <1>2, <1>3 DEF Carried
<1>5. /\ rows' \in [Seconds -> {"none", "active", "ended"}] /\ at \in Labels
      /\ cached' \subseteq Seconds /\ issued' \subseteq 0 .. now
  BY <1>2, Call1 DEF SharedOK, Labels
<1> QED BY <1>1, <1>2, <1>4, <1>5, Quiet

\* The refresh token is taken: every call in flight has it in its history.
LEMMA ClearRefreshSInv == ASSUME SInv, NEW c \in Calls, ClearRefresh(c) PROVE SInv'
<1>1. PICK at \in {"out", "out-done", "failed"}, v \in Locals(now) :
              /\ callAt' = [callAt EXCEPT ![c] = at] /\ local' = [local EXCEPT ![c] = v]
              /\ v.iat = local[c].iat /\ v.todo = local[c].todo \ {"user"}
              /\ FALSE \/ local[c].broken => v.broken
              /\ at = "out-done" => v.todo = {} /\ ~v.broken
  BY SettledFacts DEF ClearRefresh
<1>2. /\ callAt[c] = "out" /\ user' = [user EXCEPT !.refresh = FALSE]
      /\ outs' = [d \in Calls |-> IF callAt[d] \in Underway THEN outs[d] \cup {c} ELSE outs[d]]
      /\ UNCHANGED <<standing, now, issued, misses, crossed, since, ending, rows, cached>>
  BY DEF ClearRefresh, Settled
<1>3. /\ user' \in UserRows /\ user'.attempts = user.attempts /\ user'.locked = user.locked
  BY <1>2, Call1 DEF UserRows, SharedOK
<1>4. outs' \in [Calls -> SUBSET Calls] /\ at \in Labels
  BY <1>2, Call1 DEF SharedOK, Labels
<1>5. SharedOK'
  BY <1>2, <1>3, <1>4, Call1 DEF SharedOK
<1>6. Carried(c, "out", local[c])
  BY <1>2, Call1
<1>7. Carried(c, at, v)'
  BY <1>1, <1>2, <1>6 DEF Carried
<1>8. ASSUME NEW d \in Calls \ {c}, callAt'[d] = callAt[d], local'[d] = local[d]
      PROVE  Carried(d, callAt[d], local[d])'
  <2>1. Carried(d, callAt[d], local[d])
    BY Call1
  <2>2. callAt[d] = "rsave" => outs'[d] # {}
    BY <1>2
  <2> QED BY <1>2, <1>3, <1>8, <2>1, <2>2 DEF Carried
<1>9. IsFiniteSet(misses)' /\ AttemptsCounted'
  BY <1>2, <1>3 DEF SInv, AttemptsCounted
<1> QED BY <1>1, <1>2, <1>4, <1>5, <1>7, <1>8, <1>9, Moved

\* The row of the token, if it has one, is ended.
LEMMA EndSessionSInv == ASSUME SInv, NEW c \in Calls, EndSession(c) PROVE SInv'
<1>1. PICK at \in {"out", "out-done", "failed"}, v \in Locals(now) :
              /\ callAt' = [callAt EXCEPT ![c] = at] /\ local' = [local EXCEPT ![c] = v]
              /\ v.iat = local[c].iat /\ v.todo = local[c].todo \ {"row"}
              /\ FALSE \/ local[c].broken => v.broken
              /\ at = "out-done" => v.todo = {} /\ ~v.broken
  BY SettledFacts DEF EndSession
<1>2. /\ callAt[c] = "out" /\ v.iat \in Seconds
      /\ rows' = [rows EXCEPT ![v.iat] = IF rows[v.iat] = "active" THEN "ended" ELSE rows[v.iat]]
      /\ UNCHANGED <<user, outs, cached, standing, now, issued, misses, crossed, since, ending>>
  BY <1>1, Call1, Clock DEF EndSession, Settled, Locals
<1>3. rows \in [Seconds -> {"none", "active", "ended"}]
  BY Call1 DEF SharedOK
<1>4. /\ rows' \in [Seconds -> {"none", "active", "ended"}]
      /\ \A t \in Seconds : rows[t] # "none" => rows'[t] # "none"
      /\ \A t \in Seconds : rows[t] = "ended" => rows'[t] = "ended"
      /\ rows[v.iat] # "none" => rows'[v.iat] = "ended"
  BY <1>2, <1>3
<1>5. Carried(c, "out", local[c])
  BY <1>2, Call1
<1>6. Carried(c, at, v)'
  BY <1>1, <1>2, <1>4, <1>5 DEF Carried
<1>7. at \in Labels /\ cached' \subseteq Seconds /\ issued' \subseteq 0 .. now
  BY <1>2, Call1 DEF SharedOK, Labels
<1> QED BY <1>1, <1>2, <1>4, <1>6, <1>7, Quiet

\* The session key is deleted, or a statement fails.
LEMMA DropSessionSInv ==
    ASSUME SInv, NEW c \in Calls, DropSession(c) \/ StatementFails(c) PROVE SInv'
<1>1. CASE DropSession(c)
  BY <1>1, OtherStatement DEF DropSession
<1>2. CASE StatementFails(c)
  BY <1>2, OtherStatement DEF StatementFails
<1> QED BY <1>1, <1>2

-------------------------------------------------------------------------------
\* The environment, and every step.

\* Time, Redis and administrators move no call; they lock nobody.
LEMMA Elsewhere ==
    ASSUME SInv, UNCHANGED <<callAt, local, rows, misses, crossed, since, outs, ending>>,
           user' \in UserRows, user'.attempts = user.attempts, user'.refresh = user.refresh,
           user'.locked => user.locked,
           SharedOK', now' \in Nat, now <= now'
    PROVE  SInv'
<1>1. Locals(now) \subseteq Locals(now')
  <2>1. now \in Nat
    BY Types, Clock DEF SInv
  <2>2. 0 .. now \subseteq 0 .. now'
    BY <2>1
  <2> QED BY <2>2 DEF Locals
<1>2. callAt \in [Calls -> Labels] /\ local \in [Calls -> Locals(now)]
  BY Types DEF SInv
<1>3. callAt' \in [Calls -> Labels] /\ local' \in [Calls -> Locals(now')]
  BY <1>1, <1>2
<1>4. STypeOK'
  BY <1>3 DEF STypeOK, SharedOK, UserRows, Labels, Locals
<1>5. ASSUME NEW d \in Calls PROVE Carried(d, callAt[d], local[d])'
  <2>1. Carried(d, callAt[d], local[d])
    BY Call1
  <2> QED BY <2>1 DEF Carried
<1>6. CallsOK' /\ IsFiniteSet(misses)' /\ AttemptsCounted'
  BY <1>5 DEF CallsOK, SInv, AttemptsCounted
<1> QED BY <1>4, <1>6 DEF SInv

\* So the steps of the environment keep the invariant, and steps that change nothing.
LEMMA EnvironmentSInv ==
    ASSUME SInv, \/ UnlockByTime \/ ToggleActive \/ SelfExclude \/ Tick
                 \/ \E t \in Seconds : ExpireSession(t)
                 \/ UNCHANGED sVars
    PROVE  SInv'
<1>1. SharedOK /\ now \in Nat
  BY Types, Clock DEF SInv
<1>2. CASE UnlockByTime
  <2>1. /\ user' \in UserRows /\ user'.attempts = user.attempts /\ user'.refresh = user.refresh
        /\ ~user'.locked
    BY <1>1, <1>2 DEF UnlockByTime, SharedOK, UserRows
  <2>2. SharedOK' /\ now' = now
    BY <1>1, <1>2, <2>1 DEF UnlockByTime, SharedOK
  <2> QED BY <1>1, <1>2, <2>1, <2>2, Elsewhere DEF UnlockByTime
<1>3. CASE ToggleActive \/ SelfExclude
  <2>1. standing' \in [active : BOOLEAN, excluded : BOOLEAN]
    BY <1>1, <1>3 DEF ToggleActive, SelfExclude, SharedOK
  <2>2. UNCHANGED <<user, rows, cached, now, issued, callAt, local, misses, crossed, since, outs,
                    ending>>
    BY <1>3 DEF ToggleActive, SelfExclude
  <2>3. SharedOK' /\ user \in UserRows
    BY <1>1, <2>1, <2>2 DEF SharedOK
  <2> QED BY <1>1, <2>2, <2>3, Elsewhere
<1>4. CASE Tick
  <2>1. now' \in Seconds /\ now' \in Nat /\ now <= now' /\ 0 .. now \subseteq 0 .. now'
    BY <1>1, <1>4, BoundAssumption DEF Tick, Seconds
  <2>2. SharedOK' /\ user \in UserRows
    BY <1>1, <1>4, <2>1 DEF Tick, SharedOK
  <2> QED BY <1>4, <2>1, <2>2, Elsewhere DEF Tick
<1>5. CASE \/ \E t \in Seconds : ExpireSession(t)
           \/ UNCHANGED sVars
  <2>1. /\ UNCHANGED <<user, rows, standing, now, issued, callAt, local, misses, crossed, since,
                       outs, ending>>
        /\ cached' \subseteq cached
    BY <1>5 DEF ExpireSession, sVars
  <2>2. SharedOK' /\ user \in UserRows
    BY <1>1, <2>1 DEF SharedOK
  <2> QED BY <1>1, <2>1, <2>2, Elsewhere
<1> QED BY <1>2, <1>3, <1>4, <1>5

\* Every step keeps the invariant.
LEMMA NextSInv == ASSUME SInv, [SNext]_sVars PROVE SInv'
<1>1. ASSUME NEW c \in Calls, Advance(c) PROVE SInv'
  BY <1>1, CompareSInv, CountAttemptSInv, ResetAttemptsSInv, SaveRefreshTokenSInv,
     CreateSessionSInv, CacheSessionSInv, ClearRefreshSInv, EndSessionSInv, DropSessionSInv,
     FailSInv DEF Advance
<1>2. ASSUME NEW c \in Calls, FindUser(c) \/ Refresh(c) \/ \E t \in Seconds : Logout(c, t)
      PROVE  SInv'
  BY <1>2, FindUserSInv, RefreshSInv, LogoutSInv
<1>3. CASE \/ UnlockByTime \/ ToggleActive \/ SelfExclude \/ Tick
           \/ \E t \in Seconds : ExpireSession(t)
           \/ UNCHANGED sVars
  BY <1>3, EnvironmentSInv
<1> QED BY <1>1, <1>2, <1>3 DEF SNext

\* The inductive invariant holds in every state: what each login, refresh and logout
\* has between its awaits, and the count of the wrong passwords.
THEOREM SessionInvariance == SSpec => []SInv
BY InitSInv, NextSInv, PTL DEF SSpec

\* The account, its sessions and the calls keep their types.
THEOREM SessionTypeCorrect == SSpec => []STypeOK
<1>1. SInv => STypeOK
  BY DEF SInv
<1> QED BY <1>1, SessionInvariance, PTL

\* An answered logout has ended the session its token had, and no later login of
\* the same second brings it back.
THEOREM LogoutEnds == SSpec => []SessionEnded
<1>1. ASSUME SInv, NEW c \in ending, callAt[c] = "out-done" PROVE rows[local[c].iat] = "ended"
  <2>1. c \in Calls
    BY <1>1, Types DEF SInv, SharedOK
  <2> QED BY <1>1, <2>1, Call1 DEF Carried
<1>2. SInv => SessionEnded
  BY <1>1 DEF SessionEnded
<1> QED BY <1>2, SessionInvariance, PTL

\* The account's attempts are the wrong passwords since the last right one, until
\* two logins cross.
THEOREM AttemptsAreMisses == SSpec => []AttemptsCounted
<1>1. SInv => AttemptsCounted
  BY DEF SInv
<1> QED BY <1>1, SessionInvariance, PTL

\* A lock goes by time or through a login that had passed it before.
THEOREM LockOpensRightly == SSpec => LockHolds
<1>1. ASSUME SInv, [SNext]_sVars, user.locked, ~user'.locked
      PROVE  UnlockByTime \/ \E c \in since : callAt[c] = "reset"
  <2>1. CASE \E c \in Calls : ResetAttempts(c)
    BY <1>1, <2>1, Call1 DEF ResetAttempts, Carried
  <2>2. ASSUME NEW c \in Calls, CountAttempt(c) PROVE FALSE
    <3>1. user \in UserRows /\ user' = [user EXCEPT !.attempts = local[c].attempts + 1,
                 !.locked = user.locked \/ local[c].attempts + 1 >= MaxAttempts]
      BY <1>1, <2>2, Call1 DEF CountAttempt, SharedOK
    <3>2. user'.locked = (user.locked \/ local[c].attempts + 1 >= MaxAttempts)
      BY <3>1 DEF UserRows
    <3> QED BY <1>1, <3>2
  <2>3. ASSUME NEW c \in Calls, SaveRefreshToken(c) \/ ClearRefresh(c) PROVE FALSE
    BY <1>1, <2>3, Call1 DEF SaveRefreshToken, ClearRefresh, SharedOK, UserRows
  <2>4. CASE UnlockByTime
    BY <2>4
  <2>5. ASSUME user' = user PROVE FALSE
    BY <1>1, <2>5
  <2>6. ASSUME NEW c \in Calls, Advance(c)
        PROVE  ResetAttempts(c) \/ CountAttempt(c) \/ SaveRefreshToken(c) \/ ClearRefresh(c)
                 \/ user' = user
    BY <2>6 DEF Advance, Compare, CreateSession, CacheSession, EndSession, DropSession,
                StatementFails, Fail
  <2>7. ASSUME NEW c \in Calls, FindUser(c) \/ Refresh(c) \/ \E t \in Seconds : Logout(c, t)
        PROVE  user' = user
    BY <2>7 DEF FindUser, Refresh, Logout
  <2>8. CASE ToggleActive \/ SelfExclude \/ Tick \/ (\E t \in Seconds : ExpireSession(t))
             \/ UNCHANGED sVars
    BY <2>5, <2>8 DEF ToggleActive, SelfExclude, Tick, ExpireSession, sVars
  <2> QED BY <1>1, <2>1, <2>2, <2>3, <2>4, <2>5, <2>6, <2>7, <2>8 DEF SNext
<1>2. SInv /\ [SNext]_sVars => [user.locked /\ ~user'.locked =>
          UnlockByTime \/ \E c \in since : callAt[c] = "reset"]_sVars
  BY <1>1
<1> QED BY <1>2, SessionInvariance, PTL DEF SSpec, LockHolds

\* A refresh token that a logout took comes back only through a login, or a refresh
\* that was in flight at the time.
THEOREM SignedOutRightly == SSpec => SignedOutStays
<1>1. ASSUME SInv, [SNext]_sVars, ~user.refresh, user'.refresh
      PROVE  \E c \in Calls : callAt[c] = "save" \/ (callAt[c] = "rsave" /\ outs[c] # {})
  <2>1. ASSUME NEW c \in Calls, SaveRefreshToken(c)
        PROVE  callAt[c] = "save" \/ (callAt[c] = "rsave" /\ outs[c] # {})
    <3>1. callAt[c] \in {"save", "rsave"}
      BY <2>1 DEF SaveRefreshToken
    <3>2. Carried(c, callAt[c], local[c])
      BY <1>1, Call1
    <3>3. callAt[c] = "rsave" => user.refresh \/ outs[c] # {}
      BY <3>2 DEF Carried
    <3> QED BY <1>1, <3>1, <3>3
  <2>2. ASSUME NEW c \in Calls, CountAttempt(c) \/ ResetAttempts(c) \/ ClearRefresh(c)
        PROVE  FALSE
    BY <1>1, <2>2, Call1 DEF CountAttempt, ResetAttempts, ClearRefresh, SharedOK, UserRows
  <2>3. CASE UnlockByTime
    BY <1>1, <2>3, Types DEF UnlockByTime, SInv, SharedOK, UserRows
  <2>4. ASSUME user' = user PROVE FALSE
    BY <1>1, <2>4
  <2>5. ASSUME NEW c \in Calls, Advance(c)
        PROVE  ResetAttempts(c) \/ CountAttempt(c) \/ SaveRefreshToken(c) \/ ClearRefresh(c)
                 \/ user' = user
    BY <2>5 DEF Advance, Compare, CreateSession, CacheSession, EndSession, DropSession,
                StatementFails, Fail
  <2>6. ASSUME NEW c \in Calls, FindUser(c) \/ Refresh(c) \/ \E t \in Seconds : Logout(c, t)
        PROVE  user' = user
    BY <2>6 DEF FindUser, Refresh, Logout
  <2>7. CASE ToggleActive \/ SelfExclude \/ Tick \/ (\E t \in Seconds : ExpireSession(t))
             \/ UNCHANGED sVars
    BY <2>4, <2>7 DEF ToggleActive, SelfExclude, Tick, ExpireSession, sVars
  <2> QED BY <1>1, <2>1, <2>2, <2>3, <2>4, <2>5, <2>6, <2>7 DEF SNext
<1>2. SInv /\ [SNext]_sVars => [~user.refresh /\ user'.refresh =>
          \E c \in Calls : \/ callAt[c] = "save"
                           \/ callAt[c] = "rsave" /\ outs[c] # {}]_sVars
  BY <1>1
<1> QED BY <1>2, SessionInvariance, PTL DEF SSpec, SignedOutStays

===============================================================================
