------------------------------ MODULE TotalsProofs ------------------------------
(***************************************************************************)
(* What sums and products of a function over a finite set do: the facts    *)
(* the proofs about wallets, bets and reports share.                       *)
(***************************************************************************)
EXTENDS Totals, FiniteSetTheorems, WellFoundedInduction, TLAPS

-------------------------------------------------------------------------------
\* Sums.  The induction theorems of the library cannot be applied here, so each
\* lemma looks at a smallest set for which it would be false.

\* The element that the fold takes from a set first.
Pick(s) == CHOOSE x \in s : TRUE

\* g gives the sums of f over the subsets of S, the way the fold computes them.
Sums(f, S, g) ==
    g = [s \in SUBSET S |-> IF s = {} THEN 0 ELSE f[Pick(s)] + g[s \ {Pick(s)}]]

\* Total is the value at S of such a function.
LEMMA TotalDef ==
    ASSUME NEW f, NEW S
    PROVE  Total(f, S) = (CHOOSE g : Sums(f, S, g))[S]
BY DEF Total, MapThenSumSet, MapThenFoldSet, Pick, Sums

\* A nonempty set of finite sets has a smallest one: what the proofs below use in
\* the place of induction.
LEMMA Least ==
    ASSUME NEW T, T # {}, \A s \in T : IsFiniteSet(s)
    PROVE  \E s \in T : \A r \in T : ~(Cardinality(r) < Cardinality(s))
<1> DEFINE N == {Cardinality(s) : s \in T}
<1>1. N \subseteq Nat /\ N # {}
  BY FS_CardinalityType
<1>2. PICK n \in N : \A m \in N : ~(<<m, n>> \in OpToRel(<, Nat))
  <2> HIDE DEF N
  <2> QED BY <1>1, WFMin, NatLessThanWellFounded
<1>3. \A m \in N : ~(m < n)
  BY <1>1, <1>2 DEF OpToRel
<1> QED BY <1>3

\* A finite set without one of its elements is smaller.
LEMMA Smaller ==
    ASSUME NEW s, IsFiniteSet(s), NEW x \in s
    PROVE  /\ IsFiniteSet(s \ {x})
           /\ Cardinality(s \ {x}) < Cardinality(s)
<1>1. IsFiniteSet(s \ {x}) /\ Cardinality(s \ {x}) = Cardinality(s) - 1
  BY FS_RemoveElement
<1>2. Cardinality(s) \in Nat
  BY FS_CardinalityType
<1> QED BY <1>1, <1>2

\* The fold takes an element of the set.
\* A set of subsets has one that is in it while none with an element less is.
LEMMA Minimal ==
    ASSUME NEW S, IsFiniteSet(S), NEW B \in SUBSET (SUBSET S), B # {}
    PROVE  \E s \in B : s \subseteq S /\ IsFiniteSet(s) /\ \A x \in s : s \ {x} \notin B
<1>1. \A r \in B : IsFiniteSet(r)
  BY FS_Subset
<1>2. PICK s \in B : \A q \in B : ~(Cardinality(q) < Cardinality(s))
  BY <1>1, Least
<1>3. \A x \in s : s \ {x} \notin B
  BY <1>1, <1>2, Smaller
<1> QED BY <1>1, <1>3

LEMMA PickIn == ASSUME NEW s, s # {} PROVE Pick(s) \in s
BY DEF Pick

\* Two such functions agree on the subsets both are defined for.
LEMMA SumsAgree ==
    ASSUME NEW f, NEW S, NEW T, IsFiniteSet(S), NEW g, NEW h, Sums(f, S, g), Sums(f, T, h),
           NEW s \in SUBSET S, s \in SUBSET T
    PROVE  g[s] = h[s]
<1> DEFINE B == {r \in SUBSET S : r \in SUBSET T /\ g[r] # h[r]}
<1> SUFFICES ASSUME B # {} PROVE FALSE
  OBVIOUS
<1>1. \A r \in B : IsFiniteSet(r)
  BY FS_Subset
<1> HIDE DEF B
<1>2. PICK r \in B : \A q \in B : ~(Cardinality(q) < Cardinality(r))
  BY <1>1, Least
<1> USE DEF B
<1>3. g[r] = IF r = {} THEN 0 ELSE f[Pick(r)] + g[r \ {Pick(r)}]
  BY DEF Sums
<1>4. h[r] = IF r = {} THEN 0 ELSE f[Pick(r)] + h[r \ {Pick(r)}]
  BY DEF Sums
<1>5. r # {}
  BY <1>3, <1>4
<1>6. r \ {Pick(r)} \notin B
  BY <1>1, <1>2, <1>5, PickIn, Smaller
<1>7. g[r \ {Pick(r)}] = h[r \ {Pick(r)}]
  BY <1>6
<1> QED BY <1>3, <1>4, <1>7

\* What the fold computes in one step.
TotalStep(f, S) == IF S = {} THEN 0 ELSE f[Pick(S)] + Total(f, S \ {Pick(S)})

\* Such a function for S gives the sum over every subset of S.
LEMMA TotalOf ==
    ASSUME NEW f, NEW S, IsFiniteSet(S), NEW g, Sums(f, S, g), NEW s \in SUBSET S
    PROVE  Total(f, s) = g[s]
<1> DEFINE h == CHOOSE k : Sums(f, s, k)
<1> DEFINE r == [t \in SUBSET s |-> g[t]]
<1>1. Sums(f, s, r)
  <2>1. \A t \in SUBSET s : g[t] = IF t = {} THEN 0 ELSE f[Pick(t)] + g[t \ {Pick(t)}]
    BY DEF Sums
  <2>2. \A t \in SUBSET s : r[t] = IF t = {} THEN 0 ELSE f[Pick(t)] + r[t \ {Pick(t)}]
    BY <2>1
  <2>3. r = [t \in SUBSET s |-> r[t]]
    OBVIOUS
  <2> HIDE DEF r
  <2>4. r = [t \in SUBSET s |-> IF t = {} THEN 0 ELSE f[Pick(t)] + r[t \ {Pick(t)}]]
    BY <2>2, <2>3
  <2> QED BY <2>4 DEF Sums
<1> HIDE DEF r
<1>2. Sums(f, s, h)
  BY <1>1
<1> HIDE DEF h
<1>3. IsFiniteSet(s)
  BY FS_Subset
<1>4. h[s] = g[s]
  BY <1>2, <1>3, SumsAgree
<1>5. Total(f, s) = h[s]
  BY TotalDef DEF h
<1> QED BY <1>4, <1>5

\* There is such a function for every finite set.
LEMMA SumsExist ==
    ASSUME NEW f, NEW S, IsFiniteSet(S)
    PROVE  \E g : Sums(f, S, g)
<1> DEFINE B == {s \in SUBSET S : ~\E g : Sums(f, s, g)}
<1> SUFFICES ASSUME B # {} PROVE FALSE
  OBVIOUS
<1>1. \A r \in B : IsFiniteSet(r)
  BY FS_Subset
<1> HIDE DEF B
<1>2. PICK s \in B : \A q \in B : ~(Cardinality(q) < Cardinality(s))
  BY <1>1, Least
<1> USE DEF B
<1>3. \A r \in SUBSET s : r # s => \E h : Sums(f, r, h)
  <2> TAKE r \in SUBSET s
  <2> HAVE r # s
  <2>1. PICK x \in s : x \notin r
    OBVIOUS
  <2>2. r \in SUBSET (s \ {x})
    BY <2>1
  <2>3. IsFiniteSet(s \ {x}) /\ Cardinality(s \ {x}) < Cardinality(s)
    BY <1>1, Smaller
  <2>4. s \ {x} \notin B
    BY <1>2, <2>3
  <2>5. PICK h : Sums(f, s \ {x}, h)
    BY <2>4
  <2>6. \A t \in SUBSET r : Total(f, t) = h[t]
    BY <2>2, <2>3, <2>5, TotalOf
  <2> DEFINE k == [t \in SUBSET r |-> h[t]]
  <2>7. \A t \in SUBSET r : h[t] = IF t = {} THEN 0 ELSE f[Pick(t)] + h[t \ {Pick(t)}]
    BY <2>2, <2>5 DEF Sums
  <2>8. \A t \in SUBSET r : k[t] = IF t = {} THEN 0 ELSE f[Pick(t)] + k[t \ {Pick(t)}]
    BY <2>7
  <2>9. k = [t \in SUBSET r |-> k[t]]
    OBVIOUS
  <2> HIDE DEF k
  <2>10. k = [t \in SUBSET r |-> IF t = {} THEN 0 ELSE f[Pick(t)] + k[t \ {Pick(t)}]]
    BY <2>8, <2>9
  <2>11. Sums(f, r, k)
    BY <2>10 DEF Sums
  <2> QED BY <2>11
<1>4. \A r \in SUBSET s : r # s => Total(f, r) = TotalStep(f, r)
  <2> TAKE r \in SUBSET s
  <2> HAVE r # s
  <2>1. PICK h : Sums(f, r, h)
    BY <1>3
  <2>2. IsFiniteSet(r)
    BY <1>1, FS_Subset
  <2>3. \A t \in SUBSET r : Total(f, t) = h[t]
    BY <2>1, <2>2, TotalOf
  <2>4. h[r] = IF r = {} THEN 0 ELSE f[Pick(r)] + h[r \ {Pick(r)}]
    BY <2>1 DEF Sums
  <2> QED BY <2>3, <2>4 DEF TotalStep
<1> DEFINE g == [r \in SUBSET s |-> TotalStep(f, r)]
<1>5. \A r \in SUBSET s : r # {} => g[r \ {Pick(r)}] = Total(f, r \ {Pick(r)})
  <2> TAKE r \in SUBSET s
  <2> HAVE r # {}
  <2>1. r \ {Pick(r)} # s
    BY PickIn
  <2> QED BY <1>4, <2>1
<1>6. \A r \in SUBSET s : g[r] = IF r = {} THEN 0 ELSE f[Pick(r)] + g[r \ {Pick(r)}]
  BY <1>5 DEF TotalStep
<1>7. g = [r \in SUBSET s |-> g[r]]
  OBVIOUS
<1> HIDE DEF g
<1>8. g = [r \in SUBSET s |-> IF r = {} THEN 0 ELSE f[Pick(r)] + g[r \ {Pick(r)}]]
  BY <1>6, <1>7
<1>9. Sums(f, s, g)
  BY <1>8 DEF Sums
<1> QED BY <1>9

\* Hence a sum is what one step of the fold makes of a smaller one.
LEMMA TotalPick ==
    ASSUME NEW f, NEW S, IsFiniteSet(S)
    PROVE  Total(f, S) = TotalStep(f, S)
<1>1. PICK g : Sums(f, S, g)
  BY SumsExist
<1>2. \A s \in SUBSET S : Total(f, s) = g[s]
  BY <1>1, TotalOf
<1>3. g[S] = IF S = {} THEN 0 ELSE f[Pick(S)] + g[S \ {Pick(S)}]
  BY <1>1 DEF Sums
<1> QED BY <1>2, <1>3 DEF TotalStep

\* Nothing sums up to zero.
LEMMA TotalEmpty == ASSUME NEW f PROVE Total(f, {}) = 0
BY TotalPick, FS_EmptySet DEF TotalStep

\* A sum of integers is an integer.
LEMMA TotalInt ==
    ASSUME NEW f, NEW S, IsFiniteSet(S), \A x \in S : f[x] \in Int
    PROVE  Total(f, S) \in Int
<1> DEFINE B == {s \in SUBSET S : Total(f, s) \notin Int}
<1> SUFFICES ASSUME B # {} PROVE FALSE
  OBVIOUS
<1>1. \A r \in B : IsFiniteSet(r)
  BY FS_Subset
<1> HIDE DEF B
<1>2. PICK s \in B : \A q \in B : ~(Cardinality(q) < Cardinality(s))
  BY <1>1, Least
<1> USE DEF B
<1>3. Total(f, s) = TotalStep(f, s)
  BY <1>1, TotalPick
<1>4. s # {}
  BY <1>3 DEF TotalStep
<1>5. Pick(s) \in s /\ s \ {Pick(s)} \notin B
  BY <1>1, <1>2, <1>4, PickIn, Smaller
<1>6. f[Pick(s)] \in Int /\ Total(f, s \ {Pick(s)}) \in Int
  BY <1>5
<1> QED BY <1>3, <1>4, <1>6 DEF TotalStep

\* Whatever the order: every element can be taken out of a sum.
LEMMA TotalSplit ==
    ASSUME NEW f, NEW S, IsFiniteSet(S), \A x \in S : f[x] \in Int, NEW x \in S
    PROVE  Total(f, S) = f[x] + Total(f, S \ {x})
<1> DEFINE B == {s \in SUBSET S : \E y \in s : Total(f, s) # f[y] + Total(f, s \ {y})}
<1> SUFFICES ASSUME B # {} PROVE FALSE
  OBVIOUS
<1>1. \A r \in B : IsFiniteSet(r)
  BY FS_Subset
<1> HIDE DEF B
<1>2. PICK s \in B : \A q \in B : ~(Cardinality(q) < Cardinality(s))
  BY <1>1, Least
<1> USE DEF B
<1>3. PICK y \in s : Total(f, s) # f[y] + Total(f, s \ {y})
  OBVIOUS
<1> DEFINE z == Pick(s)
<1>4. z \in s
  BY <1>3, PickIn
<1>5. Total(f, s) = f[z] + Total(f, s \ {z})
  BY <1>1, <1>3, TotalPick DEF TotalStep
<1>6. z # y
  BY <1>3, <1>5
<1>7. s \ {z} \notin B /\ s \ {y} \notin B
  BY <1>1, <1>2, <1>4, Smaller
<1> HIDE DEF z
<1>8. Total(f, s \ {z}) = f[y] + Total(f, (s \ {z}) \ {y})
  BY <1>4, <1>6, <1>7
<1>9. Total(f, s \ {y}) = f[z] + Total(f, (s \ {y}) \ {z})
  BY <1>4, <1>6, <1>7
<1>10. (s \ {z}) \ {y} = (s \ {y}) \ {z}
  OBVIOUS
<1>11. IsFiniteSet((s \ {y}) \ {z}) /\ f[y] \in Int /\ f[z] \in Int
  BY <1>1, <1>4, FS_RemoveElement
<1> HIDE DEF B
<1> DEFINE rest == Total(f, (s \ {y}) \ {z})
<1>12. rest \in Int
  <2>1. \A w \in (s \ {y}) \ {z} : f[w] \in Int
    BY DEF B
  <2> HIDE DEF rest
  <2>2. Total(f, (s \ {y}) \ {z}) \in Int
    BY <1>11, <2>1, TotalInt
  <2> QED BY <2>2 DEF rest
<1>13. Total(f, s \ {z}) = f[y] + rest /\ Total(f, s \ {y}) = f[z] + rest
  BY <1>8, <1>9, <1>10
<1> HIDE DEF rest
<1> QED BY <1>3, <1>5, <1>11, <1>12, <1>13

\* A sum depends on f only where it is summed.
LEMMA TotalSame ==
    ASSUME NEW f, NEW g, NEW S, IsFiniteSet(S), \A x \in S : f[x] = g[x]
    PROVE  Total(f, S) = Total(g, S)
<1> DEFINE B == {s \in SUBSET S : Total(f, s) # Total(g, s)}
<1> SUFFICES ASSUME B # {} PROVE FALSE
  OBVIOUS
<1>1. \A r \in B : IsFiniteSet(r)
  BY FS_Subset
<1> HIDE DEF B
<1>2. PICK s \in B : \A q \in B : ~(Cardinality(q) < Cardinality(s))
  BY <1>1, Least
<1> USE DEF B
<1>3. Total(f, s) = TotalStep(f, s) /\ Total(g, s) = TotalStep(g, s)
  BY <1>1, TotalPick
<1>4. s # {}
  BY <1>3 DEF TotalStep
<1>5. Pick(s) \in s /\ s \ {Pick(s)} \notin B
  BY <1>1, <1>2, <1>4, PickIn, Smaller
<1> QED BY <1>3, <1>4, <1>5 DEF TotalStep

\* The sum of a smaller function over a smaller set is not greater.
LEMMA TotalMonotone ==
    ASSUME NEW f, NEW g, NEW S, IsFiniteSet(S), NEW T \in SUBSET S,
           \A x \in S : g[x] \in Nat, \A x \in T : f[x] \in Nat /\ f[x] <= g[x]
    PROVE  Total(f, T) \in Nat /\ Total(g, S) \in Nat /\ Total(f, T) <= Total(g, S)
<1> DEFINE Fails(s) == ~(/\ Total(f, s \cap T) \in Nat /\ Total(g, s) \in Nat
                         /\ Total(f, s \cap T) <= Total(g, s))
           B == {s \in SUBSET S : Fails(s)}
<1> SUFFICES ASSUME B # {} PROVE FALSE
  <2>1. S \notin B => ~Fails(S)
    OBVIOUS
  <2>2. S \cap T = T
    OBVIOUS
  <2> QED BY <2>1, <2>2
<1>1. \A r \in B : IsFiniteSet(r)
  BY FS_Subset
<1> HIDE DEF B
<1>2. PICK s \in B : \A q \in B : ~(Cardinality(q) < Cardinality(s))
  BY <1>1, Least
<1> USE DEF B
<1>3. s # {}
  <2>1. {} \cap T = {}
    OBVIOUS
  <2>2. Total(f, {}) = 0 /\ Total(g, {}) = 0
    BY TotalEmpty
  <2>3. Total(f, {} \cap T) = 0
    BY <2>1, <2>2
  <2> QED BY <2>2, <2>3
<1>4. PICK x \in s : TRUE
  BY <1>3
<1> DEFINE r == s \ {x}
<1>5. ~Fails(r)
  <2>1. r \notin B
    BY <1>1, <1>2, <1>4, Smaller
  <2> QED BY <2>1
<1>6. Total(g, s) = g[x] + Total(g, r)
  BY <1>1, <1>4, TotalSplit
<1>7. g[x] \in Nat
  OBVIOUS
<1>8. Fails(s)
  OBVIOUS
<1>9. CASE x \in T
  <2>1. IsFiniteSet(s \cap T) /\ (s \cap T) \ {x} = r \cap T
    BY <1>1, <1>4, FS_Subset
  <2>2. Total(f, s \cap T) = f[x] + Total(f, r \cap T)
    BY <1>4, <1>9, <2>1, TotalSplit
  <2>3. f[x] \in Nat /\ f[x] <= g[x]
    BY <1>9
  <2> HIDE DEF B, r
  <2> QED BY <1>5, <1>6, <1>7, <1>8, <2>2, <2>3
<1>10. CASE x \notin T
  <2>1. s \cap T = r \cap T
    BY <1>10
  <2>2. Total(f, s \cap T) = Total(f, r \cap T)
    BY <2>1
  <2> HIDE DEF B, r
  <2> QED BY <1>5, <1>6, <1>7, <1>8, <2>2
<1> QED BY <1>9, <1>10

\* A sum of natural numbers is one.
LEMMA TotalNat ==
    ASSUME NEW f, NEW S, IsFiniteSet(S), \A x \in S : f[x] \in Nat
    PROVE  Total(f, S) \in Nat
<1>1. S \in SUBSET S /\ \A x \in S : f[x] <= f[x]
  OBVIOUS
<1> QED BY <1>1, TotalMonotone

\* A sum of positive numbers over a nonempty set is positive.
LEMMA TotalPositive ==
    ASSUME NEW f, NEW S, IsFiniteSet(S), S # {}, \A x \in S : f[x] \in Nat \ {0}
    PROVE  Total(f, S) \in Nat \ {0}
<1>1. PICK x \in S : TRUE
  OBVIOUS
<1>2. Total(f, S) = f[x] + Total(f, S \ {x})
  <2>1. \A y \in S : f[y] \in Int
    OBVIOUS
  <2> QED BY <2>1, TotalSplit
<1>3. Total(f, S \ {x}) \in Nat
  <2>1. IsFiniteSet(S \ {x}) /\ \A y \in S \ {x} : f[y] \in Nat
    BY Smaller
  <2> QED BY <2>1, TotalNat
<1> QED BY <1>2, <1>3

\* The sum of sums is the sum of both.
LEMMA TotalAdd ==
    ASSUME NEW f, NEW g, NEW h, NEW S, IsFiniteSet(S),
           \A x \in S : f[x] \in Int /\ g[x] \in Int /\ h[x] = f[x] + g[x]
    PROVE  Total(h, S) = Total(f, S) + Total(g, S)
<1> DEFINE B == {s \in SUBSET S : Total(h, s) # Total(f, s) + Total(g, s)}
<1> SUFFICES ASSUME B # {} PROVE FALSE
  OBVIOUS
<1>1. \A r \in B : IsFiniteSet(r)
  BY FS_Subset
<1> HIDE DEF B
<1>2. PICK s \in B : \A q \in B : ~(Cardinality(q) < Cardinality(s))
  BY <1>1, Least
<1> USE DEF B
<1>3. s # {}
  <2>1. Total(f, {}) = 0 /\ Total(g, {}) = 0 /\ Total(h, {}) = 0
    BY TotalEmpty
  <2>2. Total(h, {}) = Total(f, {}) + Total(g, {})
    BY <2>1
  <2> QED BY <2>2
<1>4. PICK x \in s : TRUE
  BY <1>3
<1> DEFINE r == s \ {x}
<1>5. Total(h, r) = Total(f, r) + Total(g, r)
  <2>1. r \notin B
    BY <1>1, <1>2, <1>4, Smaller
  <2> QED BY <2>1
<1>6. \A y \in s : h[y] \in Int
  OBVIOUS
<1>7. /\ Total(f, s) = f[x] + Total(f, r)
      /\ Total(g, s) = g[x] + Total(g, r)
      /\ Total(h, s) = h[x] + Total(h, r)
  BY <1>1, <1>4, <1>6, TotalSplit
<1>8. IsFiniteSet(r) /\ Total(f, r) \in Int /\ Total(g, r) \in Int
  <2>1. IsFiniteSet(r)
    BY <1>1, <1>4, Smaller
  <2> QED BY <2>1, TotalInt
<1>9. f[x] \in Int /\ g[x] \in Int /\ h[x] = f[x] + g[x]
  BY <1>4
<1>10. Total(h, s) # Total(f, s) + Total(g, s)
  OBVIOUS
<1> HIDE DEF B, r
<1> QED BY <1>5, <1>7, <1>8, <1>9, <1>10

\* A sum over a part is the sum of what is zero elsewhere.
LEMMA TotalFilter ==
    ASSUME NEW f, NEW g, NEW S, IsFiniteSet(S), NEW T \in SUBSET S,
           \A x \in S : f[x] \in Int /\ g[x] = IF x \in T THEN f[x] ELSE 0
    PROVE  Total(g, S) = Total(f, T)
<1> DEFINE B == {s \in SUBSET S : Total(g, s) # Total(f, s \cap T)}
<1> SUFFICES ASSUME B # {} PROVE FALSE
  <2>1. S \cap T = T
    OBVIOUS
  <2> QED BY <2>1
<1>1. \A r \in B : IsFiniteSet(r)
  BY FS_Subset
<1> HIDE DEF B
<1>2. PICK s \in B : \A q \in B : ~(Cardinality(q) < Cardinality(s))
  BY <1>1, Least
<1> USE DEF B
<1>3. s # {}
  <2>1. {} \cap T = {}
    OBVIOUS
  <2>2. Total(f, {}) = 0 /\ Total(g, {}) = 0
    BY TotalEmpty
  <2>3. Total(f, {} \cap T) = 0
    BY <2>1, <2>2
  <2> QED BY <2>2, <2>3
<1>4. PICK x \in s : TRUE
  BY <1>3
<1> DEFINE r == s \ {x}
<1>5. Total(g, r) = Total(f, r \cap T)
  <2>1. r \notin B
    BY <1>1, <1>2, <1>4, Smaller
  <2> QED BY <2>1
<1>6. IsFiniteSet(r) /\ IsFiniteSet(s \cap T) /\ IsFiniteSet(r \cap T)
  BY <1>1, <1>4, FS_Subset, Smaller
<1>7. Total(g, s) = g[x] + Total(g, r)
  <2>1. \A y \in s : g[y] \in Int
    OBVIOUS
  <2> QED BY <1>1, <1>4, <2>1, TotalSplit
<1>8. Total(f, s \cap T) = g[x] + Total(f, r \cap T)
  <2>1. CASE x \in T
    <3>1. (s \cap T) \ {x} = r \cap T /\ x \in s \cap T /\ g[x] = f[x]
      BY <1>4, <2>1
    <3> QED BY <1>6, <3>1, TotalSplit
  <2>2. CASE x \notin T
    <3>1. s \cap T = r \cap T /\ g[x] = 0
      BY <1>4, <2>2
    <3>2. Total(f, r \cap T) \in Int
      BY <1>6, TotalInt
    <3>3. Total(f, s \cap T) = Total(f, r \cap T)
      BY <3>1
    <3> HIDE DEF B, r
    <3> QED BY <3>1, <3>2, <3>3
  <2> QED BY <2>1, <2>2
<1>9. Total(g, s) # Total(f, s \cap T)
  OBVIOUS
<1> QED BY <1>5, <1>7, <1>8, <1>9

\* The sum over two sets that have nothing in common.
LEMMA TotalUnion ==
    ASSUME NEW f, NEW S, NEW T, IsFiniteSet(S), IsFiniteSet(T), S \cap T = {},
           \A x \in S \cup T : f[x] \in Int
    PROVE  Total(f, S \cup T) = Total(f, S) + Total(f, T)
<1> DEFINE B == {s \in SUBSET T : Total(f, S \cup s) # Total(f, S) + Total(f, s)}
<1> SUFFICES ASSUME B # {} PROVE FALSE
  OBVIOUS
<1> HIDE DEF B
<1>1. PICK s \in B : s \subseteq T /\ IsFiniteSet(s) /\ \A x \in s : s \ {x} \notin B
  <2>1. B \in SUBSET (SUBSET T)
    BY DEF B
  <2> QED BY <2>1, Minimal
<1>2. Total(f, S \cup s) # Total(f, S) + Total(f, s)
  BY DEF B
<1>3. Total(f, S) \in Int
  BY TotalInt
<1>4. PICK x \in s : TRUE
  <2> SUFFICES ASSUME s = {} PROVE FALSE
    OBVIOUS
  <2>1. S \cup s = S /\ Total(f, s) = 0
    BY TotalEmpty
  <2> QED BY <1>2, <1>3, <2>1
<1> DEFINE r == s \ {x}
<1>5. Total(f, S \cup r) = Total(f, S) + Total(f, r)
  <2>1. r \in SUBSET T /\ r \notin B
    BY <1>1, <1>4
  <2> QED BY <2>1 DEF B
<1>6. IsFiniteSet(S \cup s) /\ (S \cup s) \ {x} = S \cup r
  BY <1>1, <1>4, FS_Union
<1>7. Total(f, S \cup s) = f[x] + Total(f, S \cup r)
  <2>1. x \in S \cup s /\ \A y \in S \cup s : f[y] \in Int
    BY <1>1, <1>4
  <2>2. Total(f, S \cup s) = f[x] + Total(f, (S \cup s) \ {x})
    BY <1>6, <2>1, TotalSplit
  <2> QED BY <1>6, <2>2
<1>8. Total(f, s) = f[x] + Total(f, r)
  BY <1>1, <1>4, TotalSplit
<1>9. f[x] \in Int /\ Total(f, r) \in Int
  <2>1. IsFiniteSet(r)
    BY <1>1, <1>4, Smaller
  <2> QED BY <1>1, <1>4, <2>1, TotalInt
<1> HIDE DEF r
<1> QED BY <1>2, <1>3, <1>5, <1>7, <1>8, <1>9

\* A sum over the values of an injective h is a sum over its arguments.
LEMMA TotalShift ==
    ASSUME NEW f, NEW g, NEW h, NEW S, IsFiniteSet(S), \A x \in S : f[x] \in Int,
           \A x \in S : g[h[x]] = f[x], \A x, y \in S : h[x] = h[y] => x = y
    PROVE  /\ IsFiniteSet({h[x] : x \in S})
           /\ Total(g, {h[x] : x \in S}) = Total(f, S)
<1> DEFINE Image(s) == {h[x] : x \in s}
           B == {s \in SUBSET S : ~(IsFiniteSet(Image(s)) /\ Total(g, Image(s)) = Total(f, s))}
<1> SUFFICES ASSUME B # {} PROVE FALSE
  OBVIOUS
<1> HIDE DEF B
<1>1. PICK s \in B : s \subseteq S /\ IsFiniteSet(s) /\ \A x \in s : s \ {x} \notin B
  <2>1. B \in SUBSET (SUBSET S)
    BY DEF B
  <2> QED BY <2>1, Minimal
<1>2. ~(IsFiniteSet(Image(s)) /\ Total(g, Image(s)) = Total(f, s))
  BY DEF B
<1>3. PICK x \in s : TRUE
  <2> SUFFICES ASSUME s = {} PROVE FALSE
    OBVIOUS
  <2>1. Image(s) = {}
    OBVIOUS
  <2> HIDE DEF Image
  <2> QED BY <1>2, <2>1, TotalEmpty, FS_EmptySet
<1> DEFINE r == s \ {x}
<1>4. IsFiniteSet(Image(r)) /\ Total(g, Image(r)) = Total(f, r)
  <2>1. r \in SUBSET S /\ r \notin B
    BY <1>1, <1>3
  <2> HIDE DEF Image, r
  <2> QED BY <2>1 DEF B
<1>5. Image(s) \ {h[x]} = Image(r) /\ h[x] \in Image(s) /\ Image(s) = Image(r) \cup {h[x]}
  BY <1>1, <1>3
<1>6. IsFiniteSet(Image(s))
  <2> HIDE DEF Image, r
  <2>1. IsFiniteSet(Image(r) \cup {h[x]})
    BY <1>4, FS_AddElement
  <2> QED BY <1>5, <2>1
<1>7. \A y \in Image(s) : g[y] \in Int
  BY <1>1
<1>8. Total(g, Image(s)) = g[h[x]] + Total(g, Image(r))
  <2> HIDE DEF Image, r
  <2>1. Total(g, Image(s)) = g[h[x]] + Total(g, Image(s) \ {h[x]})
    BY <1>5, <1>6, <1>7, TotalSplit
  <2> QED BY <1>5, <2>1
<1>9. Total(f, s) = f[x] + Total(f, r)
  BY <1>1, <1>3, TotalSplit
<1>10. g[h[x]] = f[x]
  BY <1>1, <1>3
<1> HIDE DEF Image, r
<1> QED BY <1>2, <1>4, <1>6, <1>8, <1>9, <1>10

\* A factor can be taken out of a sum.
LEMMA TotalScale ==
    ASSUME NEW f, NEW g, NEW k \in Int, NEW S, IsFiniteSet(S),
           \A x \in S : f[x] \in Int /\ g[x] = k * f[x]
    PROVE  Total(g, S) = k * Total(f, S)
<1> DEFINE B == {s \in SUBSET S : Total(g, s) # k * Total(f, s)}
<1> SUFFICES ASSUME B # {} PROVE FALSE
  OBVIOUS
<1> HIDE DEF B
<1>1. PICK s \in B : s \subseteq S /\ IsFiniteSet(s) /\ \A x \in s : s \ {x} \notin B
  <2>1. B \in SUBSET (SUBSET S)
    BY DEF B
  <2> QED BY <2>1, Minimal
<1>2. Total(g, s) # k * Total(f, s)
  BY DEF B
<1>3. PICK x \in s : TRUE
  <2> SUFFICES ASSUME s = {} PROVE FALSE
    OBVIOUS
  <2>1. Total(f, s) = 0 /\ Total(g, s) = 0
    BY TotalEmpty
  <2> QED BY <1>2, <2>1
<1> DEFINE r == s \ {x}
<1>4. Total(g, r) = k * Total(f, r)
  <2>1. r \in SUBSET S /\ r \notin B
    BY <1>1, <1>3
  <2> QED BY <2>1 DEF B
<1>5. Total(f, s) = f[x] + Total(f, r)
  BY <1>1, <1>3, TotalSplit
<1>6. Total(g, s) = g[x] + Total(g, r)
  <2>1. \A y \in s : g[y] \in Int
    BY <1>1
  <2> QED BY <1>1, <1>3, <2>1, TotalSplit
<1>7. f[x] \in Int /\ g[x] = k * f[x] /\ Total(f, r) \in Int
  <2>1. IsFiniteSet(r)
    BY <1>1, <1>3, Smaller
  <2> QED BY <1>1, <1>3, <2>1, TotalInt
<1> HIDE DEF r
<1>8. k * (f[x] + Total(f, r)) = k * f[x] + k * Total(f, r)
  BY <1>7
<1> QED BY <1>2, <1>4, <1>5, <1>6, <1>7, <1>8

\* A sum of equal numbers.
LEMMA TotalConstant ==
    ASSUME NEW f, NEW k \in Int, NEW S, IsFiniteSet(S), \A x \in S : f[x] = k
    PROVE  Total(f, S) = Cardinality(S) * k
<1> DEFINE B == {s \in SUBSET S : Total(f, s) # Cardinality(s) * k}
<1> SUFFICES ASSUME B # {} PROVE FALSE
  OBVIOUS
<1> HIDE DEF B
<1>1. PICK s \in B : s \subseteq S /\ IsFiniteSet(s) /\ \A x \in s : s \ {x} \notin B
  <2>1. B \in SUBSET (SUBSET S)
    BY DEF B
  <2> QED BY <2>1, Minimal
<1>2. Total(f, s) # Cardinality(s) * k
  BY DEF B
<1>3. PICK x \in s : TRUE
  <2> SUFFICES ASSUME s = {} PROVE FALSE
    OBVIOUS
  <2>1. Total(f, s) = 0 /\ Cardinality(s) = 0
    BY TotalEmpty, FS_EmptySet
  <2> QED BY <1>2, <2>1
<1> DEFINE r == s \ {x}
<1>4. Total(f, r) = Cardinality(r) * k
  <2>1. r \in SUBSET S /\ r \notin B
    BY <1>1, <1>3
  <2> QED BY <2>1 DEF B
<1>5. Total(f, s) = k + Total(f, r)
  <2>1. (\A y \in s : f[y] \in Int) /\ f[x] = k
    BY <1>1, <1>3
  <2> QED BY <1>1, <1>3, <2>1, TotalSplit
<1>6. Cardinality(r) = Cardinality(s) - 1 /\ Cardinality(s) \in Nat
  BY <1>1, <1>3, FS_RemoveElement, FS_CardinalityType
<1> HIDE DEF r
<1>7. k + (Cardinality(s) - 1) * k = Cardinality(s) * k
  BY <1>6
<1> QED BY <1>2, <1>4, <1>5, <1>6, <1>7

-------------------------------------------------------------------------------
\* Products, by the same argument.

\* g gives the products of f over the subsets of S.
Products(f, S, g) ==
    g = [s \in SUBSET S |-> IF s = {} THEN 1 ELSE f[Pick(s)] * g[s \ {Pick(s)}]]

ProductStep(f, S) == IF S = {} THEN 1 ELSE f[Pick(S)] * Product(f, S \ {Pick(S)})

\* Product is the value at S of such a function.
LEMMA ProductDef ==
    ASSUME NEW f, NEW S
    PROVE  Product(f, S) = (CHOOSE g : Products(f, S, g))[S]
BY DEF Product, FoldFunctionOnSet, MapThenFoldSet, Pick, Products

\* Two such functions agree on the subsets both are defined for.
LEMMA ProductsAgree ==
    ASSUME NEW f, NEW S, NEW T, IsFiniteSet(S), NEW g, NEW h, Products(f, S, g), Products(f, T, h),
           NEW s \in SUBSET S, s \in SUBSET T
    PROVE  g[s] = h[s]
<1> DEFINE B == {r \in SUBSET S : r \in SUBSET T /\ g[r] # h[r]}
<1> SUFFICES ASSUME B # {} PROVE FALSE
  OBVIOUS
<1>1. \A r \in B : IsFiniteSet(r)
  BY FS_Subset
<1> HIDE DEF B
<1>2. PICK r \in B : \A q \in B : ~(Cardinality(q) < Cardinality(r))
  BY <1>1, Least
<1> USE DEF B
<1>3. g[r] = IF r = {} THEN 1 ELSE f[Pick(r)] * g[r \ {Pick(r)}]
  BY DEF Products
<1>4. h[r] = IF r = {} THEN 1 ELSE f[Pick(r)] * h[r \ {Pick(r)}]
  BY DEF Products
<1>5. r # {}
  BY <1>3, <1>4
<1>6. r \ {Pick(r)} \notin B
  BY <1>1, <1>2, <1>5, PickIn, Smaller
<1>7. g[r \ {Pick(r)}] = h[r \ {Pick(r)}]
  BY <1>6
<1> QED BY <1>3, <1>4, <1>7

\* Such a function for S gives the product over every subset of S.
LEMMA ProductOf ==
    ASSUME NEW f, NEW S, IsFiniteSet(S), NEW g, Products(f, S, g), NEW s \in SUBSET S
    PROVE  Product(f, s) = g[s]
<1> DEFINE h == CHOOSE k : Products(f, s, k)
<1> DEFINE r == [t \in SUBSET s |-> g[t]]
<1>1. Products(f, s, r)
  <2>1. \A t \in SUBSET s : g[t] = IF t = {} THEN 1 ELSE f[Pick(t)] * g[t \ {Pick(t)}]
    BY DEF Products
  <2>2. \A t \in SUBSET s : r[t] = IF t = {} THEN 1 ELSE f[Pick(t)] * r[t \ {Pick(t)}]
    BY <2>1
  <2>3. r = [t \in SUBSET s |-> r[t]]
    OBVIOUS
  <2> HIDE DEF r
  <2>4. r = [t \in SUBSET s |-> IF t = {} THEN 1 ELSE f[Pick(t)] * r[t \ {Pick(t)}]]
    BY <2>2, <2>3
  <2> QED BY <2>4 DEF Products
<1> HIDE DEF r
<1>2. Products(f, s, h)
  BY <1>1
<1> HIDE DEF h
<1>3. IsFiniteSet(s)
  BY FS_Subset
<1>4. h[s] = g[s]
  BY <1>2, <1>3, ProductsAgree
<1>5. Product(f, s) = h[s]
  BY ProductDef DEF h
<1> QED BY <1>4, <1>5

\* There is such a function for every finite set.
LEMMA ProductsExist ==
    ASSUME NEW f, NEW S, IsFiniteSet(S)
    PROVE  \E g : Products(f, S, g)
<1> DEFINE B == {s \in SUBSET S : ~\E g : Products(f, s, g)}
<1> SUFFICES ASSUME B # {} PROVE FALSE
  OBVIOUS
<1>1. \A r \in B : IsFiniteSet(r)
  BY FS_Subset
<1> HIDE DEF B
<1>2. PICK s \in B : \A q \in B : ~(Cardinality(q) < Cardinality(s))
  BY <1>1, Least
<1> USE DEF B
<1>3. \A r \in SUBSET s : r # s => \E h : Products(f, r, h)
  <2> TAKE r \in SUBSET s
  <2> HAVE r # s
  <2>1. PICK x \in s : x \notin r
    OBVIOUS
  <2>2. r \in SUBSET (s \ {x})
    BY <2>1
  <2>3. IsFiniteSet(s \ {x}) /\ Cardinality(s \ {x}) < Cardinality(s)
    BY <1>1, Smaller
  <2>4. s \ {x} \notin B
    BY <1>2, <2>3
  <2>5. PICK h : Products(f, s \ {x}, h)
    BY <2>4
  <2>6. \A t \in SUBSET r : Product(f, t) = h[t]
    BY <2>2, <2>3, <2>5, ProductOf
  <2> DEFINE k == [t \in SUBSET r |-> h[t]]
  <2>7. \A t \in SUBSET r : h[t] = IF t = {} THEN 1 ELSE f[Pick(t)] * h[t \ {Pick(t)}]
    BY <2>2, <2>5 DEF Products
  <2>8. \A t \in SUBSET r : k[t] = IF t = {} THEN 1 ELSE f[Pick(t)] * k[t \ {Pick(t)}]
    BY <2>7
  <2>9. k = [t \in SUBSET r |-> k[t]]
    OBVIOUS
  <2> HIDE DEF k
  <2>10. k = [t \in SUBSET r |-> IF t = {} THEN 1 ELSE f[Pick(t)] * k[t \ {Pick(t)}]]
    BY <2>8, <2>9
  <2>11. Products(f, r, k)
    BY <2>10 DEF Products
  <2> QED BY <2>11
<1>4. \A r \in SUBSET s : r # s => Product(f, r) = ProductStep(f, r)
  <2> TAKE r \in SUBSET s
  <2> HAVE r # s
  <2>1. PICK h : Products(f, r, h)
    BY <1>3
  <2>2. IsFiniteSet(r)
    BY <1>1, FS_Subset
  <2>3. \A t \in SUBSET r : Product(f, t) = h[t]
    BY <2>1, <2>2, ProductOf
  <2>4. h[r] = IF r = {} THEN 1 ELSE f[Pick(r)] * h[r \ {Pick(r)}]
    BY <2>1 DEF Products
  <2> QED BY <2>3, <2>4 DEF ProductStep
<1> DEFINE g == [r \in SUBSET s |-> ProductStep(f, r)]
<1>5. \A r \in SUBSET s : r # {} => g[r \ {Pick(r)}] = Product(f, r \ {Pick(r)})
  <2> TAKE r \in SUBSET s
  <2> HAVE r # {}
  <2>1. r \ {Pick(r)} # s
    BY PickIn
  <2> QED BY <1>4, <2>1
<1>6. \A r \in SUBSET s : g[r] = IF r = {} THEN 1 ELSE f[Pick(r)] * g[r \ {Pick(r)}]
  BY <1>5 DEF ProductStep
<1>7. g = [r \in SUBSET s |-> g[r]]
  OBVIOUS
<1> HIDE DEF g
<1>8. g = [r \in SUBSET s |-> IF r = {} THEN 1 ELSE f[Pick(r)] * g[r \ {Pick(r)}]]
  BY <1>6, <1>7
<1>9. Products(f, s, g)
  BY <1>8 DEF Products
<1> QED BY <1>9

\* Hence a product is what one step of the fold makes of a smaller one.
LEMMA ProductPick ==
    ASSUME NEW f, NEW S, IsFiniteSet(S)
    PROVE  Product(f, S) = ProductStep(f, S)
<1>1. PICK g : Products(f, S, g)
  BY ProductsExist
<1>2. \A s \in SUBSET S : Product(f, s) = g[s]
  BY <1>1, ProductOf
<1>3. g[S] = IF S = {} THEN 1 ELSE f[Pick(S)] * g[S \ {Pick(S)}]
  BY <1>1 DEF Products
<1> QED BY <1>2, <1>3 DEF ProductStep

\* A product of positive numbers is a positive number.
LEMMA ProductType ==
    ASSUME NEW f, NEW S, IsFiniteSet(S), \A x \in S : f[x] \in Nat \ {0}
    PROVE  Product(f, S) \in Nat \ {0}
<1> DEFINE B == {s \in SUBSET S : Product(f, s) \notin Nat \ {0}}
<1> SUFFICES ASSUME B # {} PROVE FALSE
  OBVIOUS
<1>1. \A r \in B : IsFiniteSet(r)
  BY FS_Subset
<1> HIDE DEF B
<1>2. PICK s \in B : \A q \in B : ~(Cardinality(q) < Cardinality(s))
  BY <1>1, Least
<1> USE DEF B
<1>3. Product(f, s) = ProductStep(f, s)
  BY <1>1, ProductPick
<1>4. s # {}
  BY <1>3 DEF ProductStep
<1>5. Pick(s) \in s /\ s \ {Pick(s)} \notin B
  BY <1>1, <1>2, <1>4, PickIn, Smaller
<1> DEFINE x == f[Pick(s)]
           y == Product(f, s \ {Pick(s)})
<1>6. x \in Nat \ {0} /\ y \in Nat \ {0}
  BY <1>5
<1>7. Product(f, s) = x * y
  BY <1>3, <1>4 DEF ProductStep
<1>8. \A i, j \in Nat \ {0} : i * j \in Nat \ {0}
  OBVIOUS
<1>9. x * y \in Nat \ {0}
  <2> HIDE DEF x, y
  <2> QED BY <1>6, <1>8
<1> QED BY <1>7, <1>9

\* Nothing multiplies to one.
LEMMA ProductEmpty == ASSUME NEW f PROVE Product(f, {}) = 1
BY ProductPick, FS_EmptySet DEF ProductStep

\* Every factor can be taken out of a product.
LEMMA ProductSplit ==
    ASSUME NEW f, NEW S, IsFiniteSet(S), \A x \in S : f[x] \in Nat \ {0}, NEW x \in S
    PROVE  Product(f, S) = f[x] * Product(f, S \ {x})
<1> DEFINE B == {s \in SUBSET S : \E y \in s : Product(f, s) # f[y] * Product(f, s \ {y})}
<1> SUFFICES ASSUME B # {} PROVE FALSE
  OBVIOUS
<1> HIDE DEF B
<1>1. PICK s \in B : s \subseteq S /\ IsFiniteSet(s) /\ \A y \in s : s \ {y} \notin B
  <2>1. B \in SUBSET (SUBSET S)
    BY DEF B
  <2> QED BY <2>1, Minimal
<1>2. PICK y \in s : Product(f, s) # f[y] * Product(f, s \ {y})
  BY DEF B
<1> DEFINE z == Pick(s)
<1>3. z \in s
  BY <1>2, PickIn
<1>4. Product(f, s) = f[z] * Product(f, s \ {z})
  BY <1>1, <1>2, ProductPick DEF ProductStep
<1>5. z # y
  BY <1>2, <1>4
<1> HIDE DEF z
<1>6. /\ Product(f, s \ {z}) = f[y] * Product(f, (s \ {z}) \ {y})
      /\ Product(f, s \ {y}) = f[z] * Product(f, (s \ {y}) \ {z})
  <2>1. /\ s \ {z} \in SUBSET S /\ s \ {z} \notin B /\ y \in s \ {z}
        /\ s \ {y} \in SUBSET S /\ s \ {y} \notin B /\ z \in s \ {y}
    BY <1>1, <1>2, <1>3, <1>5
  <2> QED BY <2>1 DEF B
<1> DEFINE rest == Product(f, (s \ {y}) \ {z})
<1>7. (s \ {z}) \ {y} = (s \ {y}) \ {z}
  OBVIOUS
<1>8. f[y] \in Nat /\ f[z] \in Nat /\ rest \in Nat
  <2>1. IsFiniteSet((s \ {y}) \ {z})
    BY <1>1, FS_Difference
  <2>2. \A w \in (s \ {y}) \ {z} : f[w] \in Nat \ {0}
    BY <1>1
  <2> QED BY <1>1, <1>2, <1>3, <2>1, <2>2, ProductType
<1>9. Product(f, s \ {z}) = f[y] * rest /\ Product(f, s \ {y}) = f[z] * rest
  BY <1>6, <1>7
<1> HIDE DEF rest
<1>10. f[z] * (f[y] * rest) = f[y] * (f[z] * rest)
  BY <1>8
<1> QED BY <1>2, <1>4, <1>9, <1>10

\* Products of one number depend on how many factors there are.
LEMMA ProductConstant ==
    ASSUME NEW f, NEW g, NEW k \in Nat \ {0}, NEW S, NEW T, IsFiniteSet(S), IsFiniteSet(T),
           \A x \in S : f[x] = k, \A x \in T : g[x] = k, Cardinality(S) = Cardinality(T)
    PROVE  Product(f, S) = Product(g, T)
<1> DEFINE Alike(s, t) == Cardinality(s) = Cardinality(t) => Product(f, s) = Product(g, t)
           B == {s \in SUBSET S : \E t \in SUBSET T : ~Alike(s, t)}
<1> SUFFICES ASSUME B # {} PROVE FALSE
  <2>1. S \in SUBSET S /\ T \in SUBSET T
    OBVIOUS
  <2>2. Alike(S, T)
    <3> HIDE DEF Alike
    <3> QED BY <2>1
  <2> QED BY <2>2
<1> HIDE DEF B
<1>1. PICK s \in B : s \subseteq S /\ IsFiniteSet(s) /\ \A x \in s : s \ {x} \notin B
  <2>1. B \in SUBSET (SUBSET S)
    BY DEF B
  <2> QED BY <2>1, Minimal
<1>2. PICK t \in SUBSET T : ~Alike(s, t)
  BY DEF B
<1>3. IsFiniteSet(t)
  BY FS_Subset
<1>4. PICK x \in s : TRUE
  <2> SUFFICES ASSUME s = {} PROVE FALSE
    OBVIOUS
  <2>1. t = {}
    BY <1>2, <1>3, FS_EmptySet
  <2> QED BY <1>2, <2>1, ProductEmpty
<1>5. PICK y \in t : TRUE
  <2> SUFFICES ASSUME t = {} PROVE FALSE
    OBVIOUS
  <2> QED BY <1>1, <1>2, <1>4, FS_EmptySet
<1>6. Product(f, s \ {x}) = Product(g, t \ {y})
  <2>1. s \ {x} \in SUBSET S /\ s \ {x} \notin B /\ t \ {y} \in SUBSET T
    BY <1>1, <1>4
  <2>2. Alike(s \ {x}, t \ {y})
    <3> HIDE DEF Alike
    <3> QED BY <2>1 DEF B
  <2>3. Cardinality(s \ {x}) = Cardinality(t \ {y})
    <3>1. Cardinality(s \ {x}) = Cardinality(s) - 1
      BY <1>1, <1>4, FS_RemoveElement
    <3>2. Cardinality(t \ {y}) = Cardinality(t) - 1
      BY <1>3, <1>5, FS_RemoveElement
    <3> QED BY <1>2, <3>1, <3>2
  <2> QED BY <2>2, <2>3
<1>7. f[x] = k /\ g[y] = k
  BY <1>1, <1>4, <1>5
<1>8. Product(f, s) = f[x] * Product(f, s \ {x})
  BY <1>1, <1>4, ProductSplit
<1>9. Product(g, t) = g[y] * Product(g, t \ {y})
  BY <1>3, <1>5, ProductSplit
<1> QED BY <1>2, <1>6, <1>7, <1>8, <1>9

\* Where f is not less than g, the product of f grows at least as much as that of g
\* when factors are added.
LEMMA ProductGrows ==
    ASSUME NEW f, NEW g, NEW S, IsFiniteSet(S), NEW T \in SUBSET S,
           \A x \in S : f[x] \in Nat \ {0} /\ g[x] \in Nat \ {0} /\ g[x] <= f[x]
    PROVE  Product(f, T) * Product(g, S) <= Product(f, S) * Product(g, T)
<1> DEFINE Grows(s) == Product(f, T) * Product(g, T \cup s) <= Product(f, T \cup s) * Product(g, T)
           B == {s \in SUBSET (S \ T) : ~Grows(s)}
<1>1. IsFiniteSet(T) /\ IsFiniteSet(S \ T)
  BY FS_Subset, FS_Difference
<1>2. /\ Product(f, T) \in Nat \ {0} /\ Product(g, T) \in Nat \ {0}
      /\ \A s \in SUBSET S : /\ IsFiniteSet(s)
                             /\ Product(f, s) \in Nat \ {0} /\ Product(g, s) \in Nat \ {0}
  <2>1. \A s \in SUBSET S : /\ IsFiniteSet(s)
                            /\ Product(f, s) \in Nat \ {0} /\ Product(g, s) \in Nat \ {0}
    <3> TAKE s \in SUBSET S
    <3>1. IsFiniteSet(s)
      BY FS_Subset
    <3> QED BY <3>1, ProductType
  <2> QED BY <2>1
<1> SUFFICES ASSUME B # {} PROVE FALSE
  <2>1. T \cup (S \ T) = S /\ S \ T \in SUBSET (S \ T)
    OBVIOUS
  <2>2. Grows(S \ T)
    <3> HIDE DEF Grows
    <3> QED BY <2>1
  <2> QED BY <2>1, <2>2
<1> HIDE DEF B
<1>3. PICK s \in B : s \subseteq S \ T /\ IsFiniteSet(s) /\ \A x \in s : s \ {x} \notin B
  <2>1. B \in SUBSET (SUBSET (S \ T))
    BY DEF B
  <2> QED BY <1>1, <2>1, Minimal
<1>4. ~Grows(s)
  BY DEF B
<1>5. PICK x \in s : TRUE
  <2> SUFFICES ASSUME s = {} PROVE FALSE
    OBVIOUS
  <2>1. T \cup s = T
    OBVIOUS
  <2>2. Product(f, T) * Product(g, T) <= Product(f, T) * Product(g, T)
    BY <1>2
  <2> QED BY <1>4, <2>1, <2>2
<1> DEFINE r == T \cup (s \ {x})
           pf == Product(f, r)
           pg == Product(g, r)
           tf == Product(f, T)
           tg == Product(g, T)
<1>6. tf * pg <= pf * tg
  <2>1. s \ {x} \in SUBSET (S \ T) /\ s \ {x} \notin B
    BY <1>3, <1>5
  <2>2. Grows(s \ {x})
    <3> HIDE DEF Grows
    <3> QED BY <2>1 DEF B
  <2> QED BY <2>2
<1>7. /\ x \in T \cup s /\ (T \cup s) \ {x} = r /\ T \cup s \in SUBSET S /\ r \in SUBSET S
  BY <1>3, <1>5
<1>8. Product(f, T \cup s) = f[x] * pf /\ Product(g, T \cup s) = g[x] * pg
  <2> HIDE DEF r
  <2>1. IsFiniteSet(T \cup s) /\ \A y \in T \cup s : f[y] \in Nat \ {0} /\ g[y] \in Nat \ {0}
    BY <1>2, <1>7
  <2> QED BY <1>7, <2>1, ProductSplit
<1>9. f[x] \in Nat /\ g[x] \in Nat /\ g[x] <= f[x]
  BY <1>7
<1>10. pf \in Nat /\ pg \in Nat /\ tf \in Nat /\ tg \in Nat
  BY <1>2, <1>7
<1> HIDE DEF r, pf, pg
<1>11. tf * (g[x] * pg) <= (f[x] * pf) * tg
  <2> HIDE DEF tf, tg
  <2> DEFINE a == tf * pg
             b == pf * tg
             i == g[x]
             j == f[x]
  <2>1. a \in Nat /\ b \in Nat /\ a <= b /\ i \in Nat /\ j \in Nat /\ i <= j
    BY <1>6, <1>9, <1>10
  <2>2. tf * (i * pg) = i * a /\ (j * pf) * tg = j * b
    BY <1>9, <1>10
  <2> HIDE DEF a, b, i, j
  <2>3. i * a <= i * b /\ i * b <= j * b
    BY <2>1
  <2>4. i * a \in Nat /\ i * b \in Nat /\ j * b \in Nat
    BY <2>1
  <2>5. i * a <= j * b
    BY <2>3, <2>4
  <2> QED BY <2>2, <2>5 DEF i, j
<1> QED BY <1>4, <1>8, <1>11

-------------------------------------------------------------------------------
\* Rounding.

\* What rounding to the nearest unit, halves up, does.
LEMMA RoundedBounds ==
    ASSUME NEW n \in Nat, NEW d \in Nat \ {0}
    PROVE  /\ Rounded(Frac(n, d)) \in Nat
           /\ 2 * d * Rounded(Frac(n, d)) <= 2 * n + d
           /\ 2 * n + d < 2 * d * (Rounded(Frac(n, d)) + 1)
<1>1. Rounded(Frac(n, d)) = (2 * n + d) \div (2 * d)
  BY DEF Rounded, Frac
<1> QED BY <1>1

\* No two numbers are both the rounding of a fraction.
LEMMA RoundedIs ==
    ASSUME NEW n \in Nat, NEW d \in Nat \ {0}, NEW k \in Nat,
           2 * d * k <= 2 * n + d, 2 * n + d < 2 * d * (k + 1)
    PROVE  Rounded(Frac(n, d)) = k
<1>1. Rounded(Frac(n, d)) = (2 * n + d) \div (2 * d)
  BY DEF Rounded, Frac
<1> QED BY <1>1

\* Integers keep their order when both are multiplied by a number.
LEMMA Times ==
    ASSUME NEW i \in Int, NEW j \in Int, NEW k \in Nat, i <= j
    PROVE  k * i <= k * j
OBVIOUS

\* A common factor can be left out.
LEMMA Cancel ==
    ASSUME NEW i \in Int, NEW j \in Int, NEW k \in Nat \ {0}, k * i <= k * j
    PROVE  i <= j
OBVIOUS

\* Two shares that make up the whole, each rounded: none is more than there was,
\* and together they are what there was or a unit more.
LEMMA Shares ==
    ASSUME NEW s \in Nat, NEW w \in Nat \ {0}, NEW p \in 0 .. w
    PROVE  /\ Rounded(Frac(s * p, w)) \in Nat
           /\ Rounded(Frac(s * p, w)) <= s
           /\ Rounded(Frac(s * (w - p), w)) \in Nat
           /\ Rounded(Frac(s * (w - p), w)) <= s
           /\ Rounded(Frac(s * p, w)) + Rounded(Frac(s * (w - p), w)) - s \in 0 .. 1
<1> DEFINE n == s * (w - p)
           m == s * p
           y == Rounded(Frac(n, w))
           z == Rounded(Frac(m, w))
<1>1. n \in Nat /\ m \in Nat /\ n + m = s * w
  OBVIOUS
<1> HIDE DEF n, m
<1>2. /\ y \in Nat /\ 2 * w * y <= 2 * n + w /\ 2 * n + w < 2 * w * (y + 1)
      /\ z \in Nat /\ 2 * w * z <= 2 * m + w /\ 2 * m + w < 2 * w * (z + 1)
  BY <1>1, RoundedBounds
<1> HIDE DEF y, z
<1>3. 2 * w * (y + z) <= 2 * w * (s + 1)
  BY <1>1, <1>2
<1>4. 2 * w * s < 2 * w * (y + z + 1)
  BY <1>1, <1>2
<1>5. y + z <= s + 1
  BY <1>2, <1>3
<1>6. s < y + z + 1
  BY <1>2, <1>4
<1>7. z + y - s \in 0 .. 1
  BY <1>2, <1>5, <1>6
<1>8. 2 * w * y <= 2 * (s * w) + w /\ 2 * w * z <= 2 * (s * w) + w
  BY <1>1, <1>2
<1>9. y <= s /\ z <= s
  BY <1>2, <1>8
<1> QED BY <1>2, <1>7, <1>9 DEF y, z, n, m
===============================================================================
