--------------------------- MODULE CountingTheorems ---------------------------
(***************************************************************************)
(* Finite sets counted and summed: what the first n of an ordered set are, *)
(* and what SumFunctionOnSet of the community modules computes, whatever   *)
(* the order it takes the elements in. Inductions are over the strictly    *)
(* smaller subsets of a finite set, as minimal counterexamples.            *)
(***************************************************************************)
EXTENDS Integers, FiniteSets, Functions, FiniteSetTheorems, WellFoundedInduction, TLAPS

(***************************************************************************)
(* The first of a finite set: a limit, a window of rows and the surplus of *)
(* a cell are all taken by how many come before.                           *)
(***************************************************************************)
LEMMA SmallestOf ==
  ASSUME NEW S \in SUBSET Nat, S # {}
  PROVE  \E i \in S : \A j \in S : i <= j
<1>1. PICK i \in S : \A j \in S : ~(<<j, i>> \in OpToRel(<, Nat))
  BY NatLessThanWellFounded, WFMin
<1>2. \A j \in S : ~(j < i)
  BY <1>1 DEF OpToRel
<1> QED BY <1>2

LEMMA GreatestOf ==
  ASSUME NEW n \in Nat, NEW S \in SUBSET (0..n), S # {}
  PROVE  \E i \in S : \A j \in S : j <= i
<1> DEFINE T == {n - i : i \in S}
<1>1. \A i \in S : n - i \in Nat /\ i \in Nat
  OBVIOUS
<1>2. T \in SUBSET Nat /\ T # {}
  BY <1>1
<1>3. PICK x \in T : \A y \in T : x <= y
  <2> HIDE DEF T
  <2> QED BY <1>2, SmallestOf
<1>4. PICK i \in S : x = n - i
  OBVIOUS
<1>5. ASSUME NEW j \in S PROVE j <= i
  <2>1. n - i <= n - j
    BY <1>3, <1>4
  <2> QED BY <1>1, <2>1
<1> QED BY <1>5

\* before[p] is what comes before p, in an order where of two one comes first.
Orders(before, R) ==
  /\ before \in [R -> SUBSET R]
  /\ \A p \in R : p \notin before[p]
  /\ \A p, q \in R : p \in before[q] => before[p] \subseteq before[q]
  /\ \A p, q \in R : p = q \/ p \in before[q] \/ q \in before[p]

LEMMA RankGrows ==
  ASSUME NEW R, IsFiniteSet(R), NEW before, Orders(before, R)
  PROVE  \A p \in R :
           /\ IsFiniteSet(before[p]) /\ Cardinality(before[p]) \in 0..Cardinality(R)
           /\ \A q \in R : p \in before[q] => Cardinality(before[p]) < Cardinality(before[q])
<1>1. ASSUME NEW p \in R
      PROVE  IsFiniteSet(before[p]) /\ Cardinality(before[p]) \in 0..Cardinality(R)
  <2>1. before[p] \in SUBSET R
    BY DEF Orders
  <2>2. IsFiniteSet(before[p]) /\ Cardinality(before[p]) <= Cardinality(R)
    BY <2>1, FS_Subset
  <2> QED BY <2>2, FS_CardinalityType
<1>2. ASSUME NEW p \in R, NEW q \in R, p \in before[q]
      PROVE  Cardinality(before[p]) < Cardinality(before[q])
  <2>1. before[p] \union {p} \in SUBSET before[q] /\ p \notin before[p]
    BY <1>2 DEF Orders
  <2>2. Cardinality(before[p] \union {p}) = Cardinality(before[p]) + 1
    BY <1>1, <2>1, FS_AddElement
  <2>3. Cardinality(before[p] \union {p}) <= Cardinality(before[q])
    BY <1>1, <2>1, FS_Subset
  <2> QED BY <1>1, <2>2, <2>3
<1> QED BY <1>1, <1>2

\* Some element of a set comes first of it, and some last.
LEMMA FirstAndLast ==
  ASSUME NEW R, IsFiniteSet(R), NEW before, Orders(before, R), NEW T \in SUBSET R, T # {}
  PROVE  /\ \E m \in T : \A p \in T : p \notin before[m]
         /\ \E m \in T : \A p \in T : p = m \/ p \in before[m]
<1> DEFINE S == {Cardinality(before[p]) : p \in T}
           n == Cardinality(R)
<1>1. n \in Nat
  BY FS_CardinalityType
<1>2. S \in SUBSET (0..n) /\ S # {}
  BY RankGrows
<1>3. S \in SUBSET Nat
  BY <1>2
<1>4. PICK least \in S : \A j \in S : least <= j
  <2> HIDE DEF S
  <2> QED BY <1>2, <1>3, SmallestOf
<1>5. PICK most \in S : \A j \in S : j <= most
  <2> HIDE DEF S, n
  <2> QED BY <1>1, <1>2, GreatestOf
<1>6. PICK first \in T, last \in T :
        least = Cardinality(before[first]) /\ most = Cardinality(before[last])
  OBVIOUS
<1>7. ASSUME NEW p \in T
      PROVE  p \notin before[first] /\ (p = last \/ p \in before[last])
  <2>1. Cardinality(before[first]) <= Cardinality(before[p])
    BY <1>4, <1>6
  <2>2. Cardinality(before[p]) <= Cardinality(before[last])
    BY <1>5, <1>6
  <2>3. /\ Cardinality(before[first]) \in Nat /\ Cardinality(before[p]) \in Nat
        /\ Cardinality(before[last]) \in Nat
    BY <1>1, RankGrows
  <2>4. p \in before[first] => Cardinality(before[p]) < Cardinality(before[first])
    BY RankGrows
  <2>5. last \in before[p] => Cardinality(before[last]) < Cardinality(before[p])
    BY RankGrows
  <2>6. p \notin before[first]
    BY <2>1, <2>3, <2>4
  <2>7. last \notin before[p]
    BY <2>2, <2>3, <2>5
  <2> QED BY <2>6, <2>7 DEF Orders
<1> QED BY <1>7

\* Those with fewer than n before them are n, or all of them.
LEMMA FirstAreFew ==
  ASSUME NEW R, IsFiniteSet(R), NEW before, Orders(before, R), NEW n \in Nat
  PROVE  LET T == {p \in R : Cardinality(before[p]) < n}
         IN  /\ IsFiniteSet(T) /\ Cardinality(T) \in Nat /\ Cardinality(T) <= n
             /\ n <= Cardinality(R) => Cardinality(T) = n
<1> DEFINE T == {p \in R : Cardinality(before[p]) < n}
           Rest == R \ T
<1>1. T \in SUBSET R /\ Rest \in SUBSET R
  OBVIOUS
<1>2. /\ IsFiniteSet(T) /\ Cardinality(T) \in Nat /\ IsFiniteSet(Rest) /\ Cardinality(Rest) \in Nat
      /\ Cardinality(R) \in Nat
  BY <1>1, FS_Subset, FS_CardinalityType
<1>3. Cardinality(T) <= n
  <2>1. CASE T = {}
    BY <2>1, FS_EmptySet
  <2>2. CASE T # {}
    <3>1. PICK m \in T : \A p \in T : p = m \/ p \in before[m]
      <4> HIDE DEF T
      <4> QED BY <1>1, <2>2, FirstAndLast
    <3>2. IsFiniteSet(before[m]) /\ Cardinality(before[m]) \in Nat /\ Cardinality(before[m]) < n
      BY <1>2, RankGrows
    <3>3. T \in SUBSET (before[m] \union {m})
      BY <3>1
    <3>4. m \in R /\ m \notin before[m]
      BY DEF Orders
    <3>5. /\ IsFiniteSet(before[m] \union {m})
          /\ Cardinality(before[m] \union {m}) = Cardinality(before[m]) + 1
      BY <3>2, <3>4, FS_AddElement
    <3>6. Cardinality(T) <= Cardinality(before[m] \union {m})
      <4> HIDE DEF T
      <4> QED BY <3>3, <3>5, FS_Subset
    <3> QED BY <1>2, <3>2, <3>5, <3>6
  <2> QED BY <2>1, <2>2
<1>4. ASSUME n <= Cardinality(R) PROVE Cardinality(T) >= n
  <2>1. Cardinality(T) = Cardinality(R) - Cardinality(Rest)
    <3>1. T = R \ Rest /\ R \cap Rest = Rest
      OBVIOUS
    <3>2. Cardinality(R \ Rest) = Cardinality(R) - Cardinality(R \cap Rest)
      BY FS_Difference
    <3> QED BY <3>1, <3>2
  <2>2. CASE Rest = {}
    BY <1>2, <1>4, <2>1, <2>2, FS_EmptySet
  <2>3. CASE Rest # {}
    <3>1. PICK m \in Rest : \A p \in Rest : p \notin before[m]
      <4> HIDE DEF Rest
      <4> QED BY <1>1, <2>3, FirstAndLast
    <3>2. m \in R /\ before[m] \in SUBSET R /\ ~(Cardinality(before[m]) < n)
      BY DEF Orders
    <3>3. Cardinality(before[m]) \in Nat /\ Cardinality(before[m]) >= n
      BY <1>2, <3>2, RankGrows
    <3>4. before[m] \in SUBSET T
      BY <3>1, <3>2
    <3>5. Cardinality(before[m]) <= Cardinality(T)
      <4> HIDE DEF T
      <4> QED BY <1>2, <3>4, FS_Subset
    <3> QED BY <1>2, <3>3, <3>5
  <2> QED BY <2>2, <2>3
<1> QED BY <1>2, <1>3, <1>4

(***************************************************************************)
(* The recursive function that the sum over S is defined by exists.        *)
(***************************************************************************)
Pick(s) == CHOOSE x \in s : TRUE

\* g is the function the fold over S iterates.
Sums(f, S, g) == g = [s \in SUBSET S |-> IF s = {} THEN 0 ELSE f[Pick(s)] + g[s \ {Pick(s)}]]

LEMMA SumUnfolded ==
  ASSUME NEW f, NEW S
  PROVE  SumFunctionOnSet(f, S) = (CHOOSE g : Sums(f, S, g))[S]
BY DEF SumFunctionOnSet, FoldFunctionOnSet, MapThenFoldSet, Sums, Pick

\* Of some subsets of a finite set, one has none of the others in it.
LEMMA MinimalSubset ==
  ASSUME NEW S, IsFiniteSet(S), NEW B \in SUBSET SUBSET S, B # {}
  PROVE  \E T \in B : \A U \in B : U \subseteq T => U = T
<1>1. IsWellFoundedOn(StrictSubsetOrdering(S), SUBSET S)
  BY FS_StrictSubsetOrderingWellFounded, FS_FiniteSubsetsOfFinite
<1>2. PICK T \in B : \A U \in B : ~(<<U, T>> \in StrictSubsetOrdering(S))
  BY <1>1, WFMin
<1>3. ASSUME NEW U \in B, U \subseteq T, U # T PROVE FALSE
  <2>1. <<U, T>> \in (SUBSET S) \X (SUBSET S)
    OBVIOUS
  <2>2. <<U, T>> \in StrictSubsetOrdering(S)
    BY <1>3, <2>1 DEF StrictSubsetOrdering
  <2> QED BY <1>2, <2>2
<1> QED BY <1>3

LEMMA PickIsIn == ASSUME NEW s, s # {} PROVE Pick(s) \in s /\ s \ {Pick(s)} # s
BY DEF Pick

\* The functions of two sets agree on the subsets of both.
LEMMA SumsAgree ==
  ASSUME NEW f, NEW S, NEW T \in SUBSET S, IsFiniteSet(T), NEW g, NEW h, Sums(f, S, g), Sums(f, T, h)
  PROVE  \A s \in SUBSET T : g[s] = h[s]
<1> DEFINE B == {s \in SUBSET T : g[s] # h[s]}
<1> SUFFICES ASSUME B # {} PROVE FALSE
  OBVIOUS
<1>1. PICK s \in B : \A u \in B : u \subseteq s => u = s
  <2>1. B \in SUBSET SUBSET T
    OBVIOUS
  <2> HIDE DEF B
  <2> QED BY <2>1, MinimalSubset
<1>2. s \in SUBSET T /\ s \in SUBSET S /\ g[s] # h[s]
  OBVIOUS
<1>3. g[s] = (IF s = {} THEN 0 ELSE f[Pick(s)] + g[s \ {Pick(s)}])
  BY <1>2 DEF Sums
<1>4. h[s] = (IF s = {} THEN 0 ELSE f[Pick(s)] + h[s \ {Pick(s)}])
  BY <1>2 DEF Sums
<1>5. s # {} /\ g[s \ {Pick(s)}] # h[s \ {Pick(s)}]
  BY <1>2, <1>3, <1>4
<1>6. s \ {Pick(s)} \in B
  BY <1>2, <1>5
<1>7. s \ {Pick(s)} = s
  <2> HIDE DEF B
  <2> QED BY <1>1, <1>6
<1> QED BY <1>5, <1>7, PickIsIn

LEMMA SumsExist ==
  ASSUME NEW f, NEW S, IsFiniteSet(S)
  PROVE  \E g : Sums(f, S, g)
<1> DEFINE B == {T \in SUBSET S : ~\E g : Sums(f, T, g)}
<1> SUFFICES ASSUME B # {} PROVE FALSE
  OBVIOUS
<1>1. PICK T \in B : \A U \in B : U \subseteq T => U = T
  <2>1. B \in SUBSET SUBSET S
    OBVIOUS
  <2> HIDE DEF B
  <2> QED BY <2>1, MinimalSubset
<1>2. T \in SUBSET S /\ ~\E g : Sums(f, T, g)
  OBVIOUS
<1> DEFINE G(U) == CHOOSE g : Sums(f, U, g)
<1>3. ASSUME NEW U \in SUBSET T, U # T PROVE Sums(f, U, G(U)) /\ IsFiniteSet(U)
  <2>1. U \in SUBSET S /\ U \notin B
    BY <1>1, <1>3
  <2>2. \E g : Sums(f, U, g)
    BY <2>1
  <2>3. IsFiniteSet(U)
    BY <2>1, FS_Subset
  <2> QED BY <2>2, <2>3
<1> HIDE DEF G
<1> DEFINE v(s) == IF s = {} THEN 0 ELSE f[Pick(s)] + G(s \ {Pick(s)})[s \ {Pick(s)}]
           g == [s \in SUBSET T |-> v(s)]
<1>4. ASSUME NEW s \in SUBSET T, s # T PROVE g[s] = G(s)[s]
  <2>1. G(s)[s] = IF s = {} THEN 0 ELSE f[Pick(s)] + G(s)[s \ {Pick(s)}]
    BY <1>3, <1>4 DEF Sums
  <2>2. ASSUME s # {} PROVE G(s)[s \ {Pick(s)}] = G(s \ {Pick(s)})[s \ {Pick(s)}]
    <3> DEFINE u == s \ {Pick(s)}
    <3>1. u \in SUBSET T /\ u # T /\ u \in SUBSET s
      BY <1>4
    <3> HIDE DEF u
    <3>2. IsFiniteSet(u) /\ Sums(f, s, G(s)) /\ Sums(f, u, G(u)) /\ u \in SUBSET u
      BY <1>3, <1>4, <3>1
    <3>3. G(s)[u] = G(u)[u]
      BY <3>1, <3>2, SumsAgree
    <3> QED BY <3>3 DEF u
  <2> QED BY <2>1, <2>2
<1>5. ASSUME NEW s \in SUBSET T, s # {} PROVE g[s] = f[Pick(s)] + g[s \ {Pick(s)}]
  <2>1. s \ {Pick(s)} \in SUBSET T /\ s \ {Pick(s)} # T
    BY <1>5, PickIsIn
  <2>2. g[s \ {Pick(s)}] = G(s \ {Pick(s)})[s \ {Pick(s)}]
    BY <1>4, <2>1
  <2> QED BY <1>5, <2>2
<1>6. g = [s \in SUBSET T |-> IF s = {} THEN 0 ELSE f[Pick(s)] + g[s \ {Pick(s)}]]
  <2>1. \A s \in SUBSET T : g[s] = IF s = {} THEN 0 ELSE f[Pick(s)] + g[s \ {Pick(s)}]
    BY <1>5
  <2>2. g = [s \in SUBSET T |-> g[s]]
    OBVIOUS
  <2> HIDE DEF g
  <2> QED BY <2>1, <2>2
<1> QED BY <1>2, <1>6 DEF Sums
(***************************************************************************)
(* The sum over a finite set, one element at a time.                       *)
(***************************************************************************)
LEMMA SumOfNone == ASSUME NEW f PROVE SumFunctionOnSet(f, {}) = 0
<1>1. \E g : Sums(f, {}, g)
  BY SumsExist, FS_EmptySet
<1>2. Sums(f, {}, CHOOSE g : Sums(f, {}, g))
  BY <1>1
<1> QED BY <1>2, SumUnfolded DEF Sums

LEMMA SumOfPicked ==
  ASSUME NEW f, NEW S, IsFiniteSet(S), S # {}
  PROVE  SumFunctionOnSet(f, S) = f[Pick(S)] + SumFunctionOnSet(f, S \ {Pick(S)})
<1> DEFINE T == S \ {Pick(S)}
           g == CHOOSE g : Sums(f, S, g)
           h == CHOOSE h : Sums(f, T, h)
<1>1. T \in SUBSET S /\ IsFiniteSet(T)
  BY FS_Subset
<1>2. Sums(f, S, g)
  BY SumsExist
<1>3. Sums(f, T, h)
  <2> HIDE DEF T
  <2> QED BY <1>1, SumsExist
<1>4. SumFunctionOnSet(f, S) = g[S] /\ SumFunctionOnSet(f, T) = h[T]
  BY SumUnfolded
<1> HIDE DEF g, h
<1>5. g[S] = f[Pick(S)] + g[T]
  BY <1>2 DEF Sums
<1>6. g[T] = h[T]
  <2> HIDE DEF T
  <2>1. T \in SUBSET T
    OBVIOUS
  <2> QED BY <1>1, <1>2, <1>3, <2>1, SumsAgree
<1> QED BY <1>4, <1>5, <1>6

LEMMA SumType ==
  ASSUME NEW f, NEW S, IsFiniteSet(S), \A x \in S : f[x] \in Int
  PROVE  SumFunctionOnSet(f, S) \in Int
<1> DEFINE B == {T \in SUBSET S : SumFunctionOnSet(f, T) \notin Int}
<1> SUFFICES ASSUME B # {} PROVE FALSE
  OBVIOUS
<1>1. PICK T \in B : \A U \in B : U \subseteq T => U = T
  <2>1. B \in SUBSET SUBSET S
    OBVIOUS
  <2> HIDE DEF B
  <2> QED BY <2>1, MinimalSubset
<1>2. T \in SUBSET S /\ SumFunctionOnSet(f, T) \notin Int
  OBVIOUS
<1>3. IsFiniteSet(T)
  BY <1>2, FS_Subset
<1>4. T # {}
  BY <1>2, SumOfNone
<1>5. T \ {Pick(T)} \notin B
  <2>1. T \ {Pick(T)} # T /\ T \ {Pick(T)} \subseteq T
    BY <1>4, PickIsIn
  <2> HIDE DEF B
  <2> QED BY <1>1, <2>1
<1>6. SumFunctionOnSet(f, T \ {Pick(T)}) \in Int
  BY <1>2, <1>5
<1>7. f[Pick(T)] \in Int
  BY <1>2, <1>4, PickIsIn
<1> QED BY <1>2, <1>3, <1>4, <1>6, <1>7, SumOfPicked

\* Any element may be taken first.
LEMMA SumOfAny ==
  ASSUME NEW f, NEW S, IsFiniteSet(S), \A x \in S : f[x] \in Int
  PROVE  \A x \in S : SumFunctionOnSet(f, S) = f[x] + SumFunctionOnSet(f, S \ {x})
<1> DEFINE Any(T) == \A x \in T : SumFunctionOnSet(f, T) = f[x] + SumFunctionOnSet(f, T \ {x})
           B == {T \in SUBSET S : ~Any(T)}
<1> SUFFICES ASSUME B # {} PROVE FALSE
  OBVIOUS
<1>1. PICK T \in B : \A U \in B : U \subseteq T => U = T
  <2>1. B \in SUBSET SUBSET S
    OBVIOUS
  <2> HIDE DEF B
  <2> QED BY <2>1, MinimalSubset
<1>2. T \in SUBSET S /\ ~Any(T)
  OBVIOUS
<1>3. PICK x \in T : SumFunctionOnSet(f, T) # f[x] + SumFunctionOnSet(f, T \ {x})
  BY <1>2
<1> DEFINE p == Pick(T)
<1>4. IsFiniteSet(T) /\ p \in T /\ T # {}
  <2>1. T # {}
    BY <1>3
  <2> QED BY <1>2, <2>1, FS_Subset, PickIsIn
<1> HIDE DEF p
<1>5. SumFunctionOnSet(f, T) = f[p] + SumFunctionOnSet(f, T \ {p})
  BY <1>4, SumOfPicked DEF p
<1>6. p # x
  BY <1>3, <1>5
<1>7. ASSUME NEW y \in T PROVE Any(T \ {y})
  <2>1. T \ {y} # T /\ T \ {y} \subseteq T /\ T \ {y} \in SUBSET S
    BY <1>2
  <2>2. T \ {y} \notin B
    <3> HIDE DEF B
    <3> QED BY <1>1, <2>1
  <2> HIDE DEF Any
  <2> QED BY <2>1, <2>2
<1>8. SumFunctionOnSet(f, T \ {p}) = f[x] + SumFunctionOnSet(f, (T \ {p}) \ {x})
  BY <1>4, <1>6, <1>7
<1>9. SumFunctionOnSet(f, T \ {x}) = f[p] + SumFunctionOnSet(f, (T \ {x}) \ {p})
  BY <1>4, <1>6, <1>7
<1>10. (T \ {x}) \ {p} = (T \ {p}) \ {x}
  OBVIOUS
<1>11. f[x] \in Int /\ f[p] \in Int /\ SumFunctionOnSet(f, (T \ {p}) \ {x}) \in Int
  <2>1. (T \ {p}) \ {x} \in SUBSET S
    BY <1>2
  <2>2. IsFiniteSet((T \ {p}) \ {x})
    BY <2>1, FS_Subset
  <2>3. SumFunctionOnSet(f, (T \ {p}) \ {x}) \in Int
    BY <2>1, <2>2, SumType
  <2> QED BY <1>2, <1>4, <2>3
<1>12. SumFunctionOnSet(f, T) = f[x] + SumFunctionOnSet(f, T \ {x})
  <2> DEFINE rest == SumFunctionOnSet(f, (T \ {p}) \ {x})
  <2>1. SumFunctionOnSet(f, T) = f[p] + (f[x] + rest)
    BY <1>5, <1>8
  <2>2. SumFunctionOnSet(f, T \ {x}) = f[p] + rest
    BY <1>9, <1>10
  <2>3. rest \in Int /\ f[x] \in Int /\ f[p] \in Int
    BY <1>11
  <2> HIDE DEF rest
  <2>4. f[p] + (f[x] + rest) = f[x] + (f[p] + rest)
    BY <2>3
  <2> QED BY <2>1, <2>2, <2>4
<1> QED BY <1>3, <1>12

\* Adding an element.
LEMMA SumOfMore ==
  ASSUME NEW f, NEW S, IsFiniteSet(S), NEW x, x \notin S, \A y \in S \union {x} : f[y] \in Int
  PROVE  SumFunctionOnSet(f, S \union {x}) = f[x] + SumFunctionOnSet(f, S)
<1>1. IsFiniteSet(S \union {x})
  BY FS_AddElement
<1>2. (S \union {x}) \ {x} = S
  OBVIOUS
<1> QED BY <1>1, <1>2, SumOfAny

\* Sums compare as their terms do.
LEMMA SumMonotone ==
  ASSUME NEW f, NEW g, NEW S, IsFiniteSet(S), \A x \in S : f[x] \in Int /\ g[x] \in Int /\ f[x] <= g[x]
  PROVE  SumFunctionOnSet(f, S) <= SumFunctionOnSet(g, S)
<1> DEFINE B == {T \in SUBSET S : ~(SumFunctionOnSet(f, T) <= SumFunctionOnSet(g, T))}
<1> SUFFICES ASSUME B # {} PROVE FALSE
  OBVIOUS
<1>1. PICK T \in B : \A U \in B : U \subseteq T => U = T
  <2>1. B \in SUBSET SUBSET S
    OBVIOUS
  <2> HIDE DEF B
  <2> QED BY <2>1, MinimalSubset
<1>2. T \in SUBSET S /\ ~(SumFunctionOnSet(f, T) <= SumFunctionOnSet(g, T))
  OBVIOUS
<1>3. IsFiniteSet(T) /\ T # {}
  <2>1. IsFiniteSet(T)
    BY <1>2, FS_Subset
  <2>2. SumFunctionOnSet(f, {}) = 0 /\ SumFunctionOnSet(g, {}) = 0
    BY SumOfNone
  <2> HIDE DEF B
  <2> QED BY <1>2, <2>1, <2>2
<1> DEFINE U == T \ {Pick(T)}
<1>4. Pick(T) \in T /\ U # T /\ U \subseteq T /\ U \in SUBSET S
  BY <1>2, <1>3, PickIsIn
<1>5. IsFiniteSet(U)
  BY <1>4, FS_Subset
<1>6. U \notin B
  <2> HIDE DEF B, U
  <2> QED BY <1>1, <1>4
<1>7. SumFunctionOnSet(f, U) <= SumFunctionOnSet(g, U)
  BY <1>4, <1>6
<1>8. SumFunctionOnSet(f, U) \in Int /\ SumFunctionOnSet(g, U) \in Int
  <2> HIDE DEF U
  <2> QED BY <1>4, <1>5, SumType
<1>9. /\ SumFunctionOnSet(f, T) = f[Pick(T)] + SumFunctionOnSet(f, U)
      /\ SumFunctionOnSet(g, T) = g[Pick(T)] + SumFunctionOnSet(g, U)
  BY <1>3, SumOfPicked
<1>10. f[Pick(T)] \in Int /\ g[Pick(T)] \in Int /\ f[Pick(T)] <= g[Pick(T)]
  BY <1>2, <1>4
<1> HIDE DEF U, B
<1> QED BY <1>2, <1>7, <1>8, <1>9, <1>10

\* Only the terms matter.
LEMMA SumOfSame ==
  ASSUME NEW f, NEW g, NEW S, IsFiniteSet(S), \A x \in S : f[x] \in Int /\ f[x] = g[x]
  PROVE  SumFunctionOnSet(f, S) = SumFunctionOnSet(g, S)
<1>1. SumFunctionOnSet(f, S) <= SumFunctionOnSet(g, S) /\ SumFunctionOnSet(g, S) <= SumFunctionOnSet(f, S)
  BY SumMonotone
<1>2. SumFunctionOnSet(f, S) \in Int /\ SumFunctionOnSet(g, S) \in Int
  BY SumType
<1> QED BY <1>1, <1>2

\* A sum of one term for each element.
LEMMA SumOfConstant ==
  ASSUME NEW n \in Int, NEW S, IsFiniteSet(S), NEW f, \A x \in S : f[x] = n
  PROVE  SumFunctionOnSet(f, S) = n * Cardinality(S)
<1> DEFINE B == {T \in SUBSET S : SumFunctionOnSet(f, T) # n * Cardinality(T)}
<1> SUFFICES ASSUME B # {} PROVE FALSE
  OBVIOUS
<1>1. PICK T \in B : \A U \in B : U \subseteq T => U = T
  <2>1. B \in SUBSET SUBSET S
    OBVIOUS
  <2> HIDE DEF B
  <2> QED BY <2>1, MinimalSubset
<1>2. T \in SUBSET S /\ SumFunctionOnSet(f, T) # n * Cardinality(T)
  OBVIOUS
<1>3. IsFiniteSet(T) /\ T # {}
  <2>1. IsFiniteSet(T)
    BY <1>2, FS_Subset
  <2>2. SumFunctionOnSet(f, {}) = n * Cardinality({})
    BY SumOfNone, FS_EmptySet
  <2> HIDE DEF B
  <2> QED BY <1>2, <2>1, <2>2
<1> DEFINE U == T \ {Pick(T)}
<1>4. Pick(T) \in T /\ U # T /\ U \subseteq T /\ U \in SUBSET S
  BY <1>2, <1>3, PickIsIn
<1>5. IsFiniteSet(U) /\ Cardinality(U) \in Nat /\ Cardinality(T) = Cardinality(U) + 1
  <2>1. IsFiniteSet(U) /\ Cardinality(U) = Cardinality(T) - 1
    BY <1>3, <1>4, FS_RemoveElement
  <2>2. Cardinality(T) \in Nat /\ Cardinality(U) \in Nat
    BY <1>3, <2>1, FS_CardinalityType
  <2> QED BY <2>1, <2>2
<1>6. U \notin B
  <2> HIDE DEF B, U
  <2> QED BY <1>1, <1>4
<1>7. SumFunctionOnSet(f, U) = n * Cardinality(U)
  BY <1>4, <1>6
<1>8. SumFunctionOnSet(f, T) = n + SumFunctionOnSet(f, U)
  <2>1. f[Pick(T)] = n
    BY <1>2, <1>4
  <2> QED BY <1>3, <2>1, SumOfPicked
<1> HIDE DEF U, B
<1>9. n * (Cardinality(U) + 1) = n + n * Cardinality(U)
  BY <1>5
<1> QED BY <1>2, <1>5, <1>7, <1>8, <1>9

\* A sum of naturals is one, and no more than its greatest term for each element.
LEMMA SumBounds ==
  ASSUME NEW n \in Nat, NEW S, IsFiniteSet(S), NEW f, \A x \in S : f[x] \in 0..n
  PROVE  SumFunctionOnSet(f, S) \in Nat /\ SumFunctionOnSet(f, S) <= n * Cardinality(S)
<1> DEFINE low == [x \in S |-> 0]
           high == [x \in S |-> n]
<1>1. \A x \in S : /\ low[x] \in Int /\ f[x] \in Int /\ high[x] \in Int
                   /\ low[x] <= f[x] /\ f[x] <= high[x]
  OBVIOUS
<1>2. SumFunctionOnSet(low, S) = 0 * Cardinality(S) /\ SumFunctionOnSet(high, S) = n * Cardinality(S)
  <2>1. (\A x \in S : low[x] = 0) /\ \A x \in S : high[x] = n
    OBVIOUS
  <2> HIDE DEF low, high
  <2> QED BY <2>1, SumOfConstant
<1>3. Cardinality(S) \in Nat
  BY FS_CardinalityType
<1> HIDE DEF low, high
<1>4. /\ SumFunctionOnSet(low, S) <= SumFunctionOnSet(f, S)
      /\ SumFunctionOnSet(f, S) <= SumFunctionOnSet(high, S)
      /\ SumFunctionOnSet(f, S) \in Int
  BY <1>1, SumMonotone, SumType
<1> QED BY <1>2, <1>3, <1>4

\* Of two functions that differ in one element.
LEMMA SumOfChanged ==
  ASSUME NEW f, NEW g, NEW S, IsFiniteSet(S), NEW x \in S, \A y \in S : f[y] \in Int /\ g[y] \in Int,
         \A y \in S \ {x} : f[y] = g[y]
  PROVE  SumFunctionOnSet(g, S) = SumFunctionOnSet(f, S) - f[x] + g[x]
<1>1. IsFiniteSet(S \ {x})
  BY FS_Subset
<1>2. SumFunctionOnSet(f, S \ {x}) = SumFunctionOnSet(g, S \ {x}) /\ SumFunctionOnSet(f, S \ {x}) \in Int
  BY <1>1, SumOfSame, SumType
<1>3. /\ SumFunctionOnSet(f, S) = f[x] + SumFunctionOnSet(f, S \ {x})
      /\ SumFunctionOnSet(g, S) = g[x] + SumFunctionOnSet(g, S \ {x})
  BY SumOfAny
<1> QED BY <1>2, <1>3

\* Of two functions where one counts the elements of a set on top of the other.
LEMMA SumOfCounted ==
  ASSUME NEW f, NEW g, NEW S, IsFiniteSet(S), NEW C \in SUBSET S, \A y \in S : f[y] \in Int,
         \A y \in S : g[y] = f[y] + (IF y \in C THEN 1 ELSE 0)
  PROVE  SumFunctionOnSet(g, S) = SumFunctionOnSet(f, S) + Cardinality(C)
<1> DEFINE h == [y \in S |-> IF y \in C THEN 1 ELSE 0]
           B == {T \in SUBSET S : SumFunctionOnSet(g, T) # SumFunctionOnSet(f, T) + Cardinality(T \intersect C)}
<1>1. B = {}
  <2> SUFFICES ASSUME B # {} PROVE FALSE
    OBVIOUS
  <2>1. PICK T \in B : \A U \in B : U \subseteq T => U = T
    <3>1. B \in SUBSET SUBSET S
      OBVIOUS
    <3> HIDE DEF B
    <3> QED BY <3>1, MinimalSubset
  <2>2. T \in SUBSET S /\ SumFunctionOnSet(g, T) # SumFunctionOnSet(f, T) + Cardinality(T \intersect C)
    OBVIOUS
  <2>3. IsFiniteSet(T)
    BY <2>2, FS_Subset
  <2>4. T # {}
    <3>1. {} \intersect C = {} /\ Cardinality({}) = 0
      BY FS_EmptySet
    <3> QED BY <2>2, <3>1, SumOfNone
  <2> DEFINE p == Pick(T)
             U == T \ {p}
  <2>5. p \in T /\ U # T /\ U \subseteq T
    BY <2>4, PickIsIn
  <2>6. U \notin B
    <3> HIDE DEF B, U
    <3> QED BY <2>1, <2>5
  <2>7. SumFunctionOnSet(g, U) = SumFunctionOnSet(f, U) + Cardinality(U \intersect C)
    BY <2>2, <2>5, <2>6
  <2>8. /\ SumFunctionOnSet(f, T) = f[p] + SumFunctionOnSet(f, U)
        /\ SumFunctionOnSet(g, T) = g[p] + SumFunctionOnSet(g, U)
    BY <2>3, <2>4, SumOfPicked
  <2>9. f[p] \in Int /\ g[p] = f[p] + (IF p \in C THEN 1 ELSE 0)
    BY <2>2, <2>5
  <2>10. SumFunctionOnSet(f, U) \in Int
    <3>1. IsFiniteSet(U) /\ \A y \in U : f[y] \in Int
      BY <2>2, <2>3, FS_Subset
    <3> HIDE DEF U
    <3> QED BY <3>1, SumType
  <2>11. IsFiniteSet(U \intersect C) /\ Cardinality(U \intersect C) \in Nat
    BY <2>3, FS_Subset, FS_CardinalityType
  <2>12. Cardinality(T \intersect C) = Cardinality(U \intersect C) + (IF p \in C THEN 1 ELSE 0)
    <3>1. CASE p \in C
      <4>1. T \intersect C = (U \intersect C) \union {p} /\ p \notin U \intersect C
        BY <2>5, <3>1
      <4> HIDE DEF U, p
      <4> QED BY <2>11, <3>1, <4>1, FS_AddElement
    <3>2. CASE p \notin C
      <4>1. T \intersect C = U \intersect C
        BY <3>2
      <4> HIDE DEF U, p
      <4> QED BY <2>11, <3>2, <4>1
    <3> QED BY <3>1, <3>2
  <2> HIDE DEF U, p
  <2> QED BY <2>2, <2>7, <2>8, <2>9, <2>10, <2>11, <2>12
<1>2. S \notin B /\ S \intersect C = C
  BY <1>1
<1> HIDE DEF B
<1> QED BY <1>2 DEF B

\* What holds of the empty set, and of a set when it holds of it without the
\* element picked first, holds of a finite set.
LEMMA PickedOneByOne ==
  ASSUME NEW S, IsFiniteSet(S), NEW G, {} \in G,
         \A T \in SUBSET S : T # {} /\ T \ {Pick(T)} \in G => T \in G
  PROVE  S \in G
<1> DEFINE B == {T \in SUBSET S : T \notin G}
<1> SUFFICES ASSUME B # {} PROVE FALSE
  OBVIOUS
<1>1. PICK T \in B : \A U \in B : U \subseteq T => U = T
  <2>1. B \in SUBSET SUBSET S
    OBVIOUS
  <2> HIDE DEF B
  <2> QED BY <2>1, MinimalSubset
<1>2. T \in SUBSET S /\ T \notin G /\ T # {}
  OBVIOUS
<1>3. T \ {Pick(T)} \in SUBSET S /\ T \ {Pick(T)} # T
  BY <1>2, PickIsIn
<1>4. T \ {Pick(T)} \in G
  BY <1>1, <1>3
<1> QED BY <1>2, <1>4

\* Terms added up, terms multiplied, and some of them one more.
Adds(S, f, g, h) == \A x \in S : f[x] \in Int /\ g[x] \in Int /\ h[x] = f[x] + g[x]
Multiplies(S, n, f, h) == \A x \in S : f[x] \in Int /\ h[x] = n * f[x]
CountsOnTop(S, C, f, h) == \A x \in S : f[x] \in Int /\ h[x] = f[x] + (IF x \in C THEN 1 ELSE 0)

LEMMA SumOfSomeMore ==
  ASSUME NEW f, NEW h, NEW S, IsFiniteSet(S), NEW C, C \in SUBSET S, CountsOnTop(S, C, f, h)
  PROVE  SumFunctionOnSet(h, S) = SumFunctionOnSet(f, S) + Cardinality(C)
BY SumOfCounted DEF CountsOnTop

LEMMA SumOfAdded ==
  ASSUME NEW f, NEW g, NEW h, NEW S, IsFiniteSet(S), Adds(S, f, g, h)
  PROVE  SumFunctionOnSet(h, S) = SumFunctionOnSet(f, S) + SumFunctionOnSet(g, S)
<1> DEFINE G == {T \in SUBSET S : SumFunctionOnSet(h, T) = SumFunctionOnSet(f, T) + SumFunctionOnSet(g, T)}
<1>1. {} \in G
  BY SumOfNone
<1>2. ASSUME NEW T \in SUBSET S, T # {}, T \ {Pick(T)} \in G PROVE T \in G
  <2> DEFINE U == T \ {Pick(T)}
  <2>1. Pick(T) \in S /\ IsFiniteSet(T) /\ U \in SUBSET S /\ IsFiniteSet(U)
    BY <1>2, PickIsIn, FS_Subset
  <2>2. /\ SumFunctionOnSet(f, T) = f[Pick(T)] + SumFunctionOnSet(f, U)
        /\ SumFunctionOnSet(g, T) = g[Pick(T)] + SumFunctionOnSet(g, U)
        /\ SumFunctionOnSet(h, T) = h[Pick(T)] + SumFunctionOnSet(h, U)
    BY <1>2, <2>1, SumOfPicked
  <2>3. SumFunctionOnSet(h, U) = SumFunctionOnSet(f, U) + SumFunctionOnSet(g, U)
    BY <1>2
  <2> HIDE DEF U
  <2>4. SumFunctionOnSet(f, U) \in Int /\ SumFunctionOnSet(g, U) \in Int
    BY <2>1, SumType DEF Adds
  <2>5. /\ f[Pick(T)] \in Int /\ g[Pick(T)] \in Int
        /\ h[Pick(T)] = f[Pick(T)] + g[Pick(T)]
    BY <2>1 DEF Adds
  <2>6. SumFunctionOnSet(h, T) = SumFunctionOnSet(f, T) + SumFunctionOnSet(g, T)
    BY <2>2, <2>3, <2>4, <2>5
  <2> QED BY <2>6
<1> HIDE DEF G
<1>3. S \in G
  BY <1>1, <1>2, PickedOneByOne
<1> QED BY <1>3 DEF G

LEMMA SumOfMultiples ==
  ASSUME NEW f, NEW h, NEW n \in Int, NEW S, IsFiniteSet(S), Multiplies(S, n, f, h)
  PROVE  SumFunctionOnSet(h, S) = n * SumFunctionOnSet(f, S)
<1> DEFINE G == {T \in SUBSET S : SumFunctionOnSet(h, T) = n * SumFunctionOnSet(f, T)}
<1>1. {} \in G
  BY SumOfNone
<1>2. ASSUME NEW T \in SUBSET S, T # {}, T \ {Pick(T)} \in G PROVE T \in G
  <2> DEFINE U == T \ {Pick(T)}
  <2>1. Pick(T) \in S /\ IsFiniteSet(T) /\ U \in SUBSET S /\ IsFiniteSet(U)
    BY <1>2, PickIsIn, FS_Subset
  <2>2. /\ SumFunctionOnSet(f, T) = f[Pick(T)] + SumFunctionOnSet(f, U)
        /\ SumFunctionOnSet(h, T) = h[Pick(T)] + SumFunctionOnSet(h, U)
    BY <1>2, <2>1, SumOfPicked
  <2>3. SumFunctionOnSet(h, U) = n * SumFunctionOnSet(f, U)
    BY <1>2
  <2> HIDE DEF U
  <2>4. SumFunctionOnSet(f, U) \in Int
    BY <2>1, SumType DEF Multiplies
  <2>5. f[Pick(T)] \in Int /\ h[Pick(T)] = n * f[Pick(T)]
    BY <2>1 DEF Multiplies
  <2>6. n * (f[Pick(T)] + SumFunctionOnSet(f, U)) = n * f[Pick(T)] + n * SumFunctionOnSet(f, U)
    BY <2>4, <2>5
  <2>7. SumFunctionOnSet(h, T) = n * SumFunctionOnSet(f, T)
    BY <2>2, <2>3, <2>5, <2>6
  <2> QED BY <2>7
<1> HIDE DEF G
<1>3. S \in G
  BY <1>1, <1>2, PickedOneByOne
<1> QED BY <1>3 DEF G

\* A set taken apart.
LEMMA SumOfTwoParts ==
  ASSUME NEW f, NEW R, NEW S, IsFiniteSet(R), IsFiniteSet(S), R \intersect S = {},
         \A x \in R \union S : f[x] \in Int
  PROVE  SumFunctionOnSet(f, R \union S) = SumFunctionOnSet(f, R) + SumFunctionOnSet(f, S)
<1> DEFINE G == {T \in SUBSET S : SumFunctionOnSet(f, R \union T) = SumFunctionOnSet(f, R) + SumFunctionOnSet(f, T)}
<1>1. {} \in G
  <2>1. R \union {} = R /\ SumFunctionOnSet(f, R) \in Int
    BY SumType
  <2> QED BY <2>1, SumOfNone
<1>2. ASSUME NEW T \in SUBSET S, T # {}, T \ {Pick(T)} \in G PROVE T \in G
  <2> DEFINE U == T \ {Pick(T)}
             p == Pick(T)
  <2>1. p \in S /\ p \in T /\ IsFiniteSet(T) /\ U \in SUBSET S /\ IsFiniteSet(U)
    BY <1>2, PickIsIn, FS_Subset
  <2>2. IsFiniteSet(R \union U) /\ p \notin R \union U
    BY <2>1, FS_Union
  <2>3. SumFunctionOnSet(f, T) = f[p] + SumFunctionOnSet(f, U)
    BY <1>2, <2>1, SumOfPicked
  <2>4. R \union T = (R \union U) \union {p}
    BY <2>1
  <2>5. SumFunctionOnSet(f, R \union U) = SumFunctionOnSet(f, R) + SumFunctionOnSet(f, U)
    BY <1>2
  <2> HIDE DEF U, p
  <2>6. SumFunctionOnSet(f, R \union T) = f[p] + SumFunctionOnSet(f, R \union U)
    BY <2>1, <2>2, <2>4, SumOfMore
  <2>7. SumFunctionOnSet(f, R) \in Int /\ SumFunctionOnSet(f, U) \in Int /\ f[p] \in Int
    BY <2>1, SumType
  <2>8. SumFunctionOnSet(f, R \union T) = SumFunctionOnSet(f, R) + SumFunctionOnSet(f, T)
    BY <2>3, <2>5, <2>6, <2>7
  <2> QED BY <2>8
<1> HIDE DEF G
<1>3. S \in G
  BY <1>1, <1>2, PickedOneByOne
<1> QED BY <1>3 DEF G

LEMMA SumOfNaturals ==
  ASSUME NEW f, NEW S, IsFiniteSet(S), \A x \in S : f[x] \in Nat
  PROVE  SumFunctionOnSet(f, S) \in Nat
<1> DEFINE zero == [x \in S |-> 0]
<1>1. \A x \in S : zero[x] = 0 /\ zero[x] \in Int /\ f[x] \in Int /\ zero[x] <= f[x]
  OBVIOUS
<1> HIDE DEF zero
<1>2. SumFunctionOnSet(zero, S) = 0 * Cardinality(S) /\ Cardinality(S) \in Nat
  BY <1>1, SumOfConstant, FS_CardinalityType
<1>3. SumFunctionOnSet(zero, S) <= SumFunctionOnSet(f, S) /\ SumFunctionOnSet(f, S) \in Int
  BY <1>1, SumMonotone, SumType
<1> QED BY <1>2, <1>3

\* Up to three terms, one of them given.
LEMMA SumOfFew ==
  ASSUME NEW f, NEW S, IsFiniteSet(S), \A x \in S : f[x] \in Int, NEW k \in S
  PROVE  /\ Cardinality(S) = 1 => SumFunctionOnSet(f, S) = f[k]
         /\ Cardinality(S) = 2 => \E j \in S : SumFunctionOnSet(f, S) = f[k] + f[j]
         /\ Cardinality(S) = 3 => \E i, j \in S : SumFunctionOnSet(f, S) = f[k] + (f[i] + f[j])
<1>1. ASSUME NEW T \in SUBSET S, T # {}
      PROVE  /\ IsFiniteSet(T) /\ Cardinality(T) \in Nat
             /\ \A x \in T : /\ T \ {x} \in SUBSET S /\ Cardinality(T \ {x}) = Cardinality(T) - 1
                             /\ SumFunctionOnSet(f, T) = f[x] + SumFunctionOnSet(f, T \ {x})
  <2>1. IsFiniteSet(T) /\ Cardinality(T) \in Nat
    BY FS_Subset, FS_CardinalityType
  <2>2. \A x \in T : Cardinality(T \ {x}) = Cardinality(T) - 1
    BY <2>1, FS_RemoveElement
  <2>3. \A x \in T : SumFunctionOnSet(f, T) = f[x] + SumFunctionOnSet(f, T \ {x})
    BY <2>1, SumOfAny
  <2> QED BY <2>1, <2>2, <2>3
<1>2. \A T \in SUBSET S : T = {} <=> Cardinality(T) = 0
  BY FS_Subset, FS_EmptySet
<1>3. ASSUME NEW T \in SUBSET S, NEW x \in T, Cardinality(T) = 1
      PROVE  SumFunctionOnSet(f, T) = f[x]
  <2>1. T \ {x} \in SUBSET S /\ Cardinality(T \ {x}) = 0
    BY <1>1, <1>3
  <2>2. T \ {x} = {}
    BY <1>2, <2>1
  <2>3. SumFunctionOnSet(f, T) = f[x] + 0 /\ f[x] \in Int
    BY <1>1, <2>2, SumOfNone
  <2> QED BY <2>3
<1>4. ASSUME NEW T \in SUBSET S, NEW x \in T, Cardinality(T) = 2
      PROVE  \E j \in S : SumFunctionOnSet(f, T) = f[x] + f[j]
  <2>1. T \ {x} \in SUBSET S /\ Cardinality(T \ {x}) = 1
    BY <1>1, <1>4
  <2>2. PICK j \in T \ {x} : TRUE
    BY <1>2, <2>1
  <2>3. SumFunctionOnSet(f, T \ {x}) = f[j]
    BY <1>3, <2>1, <2>2
  <2> QED BY <1>1, <2>2, <2>3
<1>5. ASSUME Cardinality(S) = 3
      PROVE  \E i, j \in S : SumFunctionOnSet(f, S) = f[k] + (f[i] + f[j])
  <2>1. S \in SUBSET S /\ S \ {k} \in SUBSET S /\ Cardinality(S \ {k}) = 2
    BY <1>1, <1>5
  <2>2. PICK i \in S \ {k} : TRUE
    BY <1>2, <2>1
  <2>3. PICK j \in S : SumFunctionOnSet(f, S \ {k}) = f[i] + f[j]
    BY <1>4, <2>1, <2>2
  <2>4. SumFunctionOnSet(f, S) = f[k] + SumFunctionOnSet(f, S \ {k})
    BY <1>1, <2>1
  <2>5. SumFunctionOnSet(f, S) = f[k] + (f[i] + f[j])
    BY <2>3, <2>4
  <2> QED BY <2>2, <2>5
<1> QED BY <1>3, <1>4, <1>5

(***************************************************************************)
(* Families of finite sets: their sizes added up, and how many of them     *)
(* hold an element.                                                        *)
(***************************************************************************)
Total(w) == SumFunctionOnSet([b \in DOMAIN w |-> Cardinality(w[b])], DOMAIN w)
Times(w, q) == Cardinality({b \in DOMAIN w : q \in w[b]})

\* A family over D of sets of elements of Q; one that differs from it at x.
Family(Q, D, w) == IsFiniteSet(Q) /\ IsFiniteSet(D) /\ w \in [D -> SUBSET Q]
DifferAt(x, D, w, v) == x \in D /\ \A b \in D \ {x} : v[b] = w[b]

LEMMA FamilyType ==
  ASSUME NEW Q, NEW D, NEW w, Family(Q, D, w)
  PROVE  /\ Total(w) \in Nat /\ \A q : Times(w, q) \in Nat
         /\ \A b \in D : IsFiniteSet(w[b]) /\ Cardinality(w[b]) \in Nat
<1> USE DEF Family
<1> DEFINE f == [b \in D |-> Cardinality(w[b])]
<1>1. \A b \in D : IsFiniteSet(w[b]) /\ Cardinality(w[b]) \in 0..Cardinality(Q) /\ Cardinality(w[b]) \in Nat
  <2>1. ASSUME NEW b \in D
        PROVE  IsFiniteSet(w[b]) /\ Cardinality(w[b]) \in Nat /\ Cardinality(w[b]) <= Cardinality(Q)
    <3>1. w[b] \in SUBSET Q
      OBVIOUS
    <3> QED BY <3>1, FS_Subset, FS_CardinalityType
  <2>2. Cardinality(Q) \in Nat
    BY FS_CardinalityType
  <2> QED BY <2>1, <2>2
<1>2. Total(w) = SumFunctionOnSet(f, D)
  BY DEF Total
<1>3. \A b \in D : f[b] \in 0..Cardinality(Q)
  BY <1>1
<1> HIDE DEF f
<1>4. Total(w) \in Nat
  BY <1>2, <1>3, SumBounds, FS_CardinalityType
<1>5. ASSUME NEW q PROVE Times(w, q) \in Nat
  <2>1. {b \in D : q \in w[b]} \in SUBSET D
    OBVIOUS
  <2>2. IsFiniteSet({b \in D : q \in w[b]})
    BY <2>1, FS_Subset
  <2> QED BY <2>2, FS_CardinalityType DEF Times
<1> QED BY <1>1, <1>4, <1>5

LEMMA FamilyOfNone ==
  ASSUME NEW D, IsFiniteSet(D), NEW w, DOMAIN w = D, \A b \in D : w[b] = {}
  PROVE  Total(w) = 0 /\ \A q : Times(w, q) = 0
<1> DEFINE f == [b \in D |-> Cardinality(w[b])]
<1>1. \A b \in D : f[b] = 0
  BY FS_EmptySet
<1>2. Total(w) = SumFunctionOnSet(f, D)
  BY DEF Total
<1> HIDE DEF f
<1>3. 0 * Cardinality(D) = 0 /\ SumFunctionOnSet(f, D) = 0 * Cardinality(D)
  BY <1>1, SumOfConstant, FS_CardinalityType
<1>4. \A q : Times(w, q) = 0
  <2>1. \A q : {b \in D : q \in w[b]} = {}
    OBVIOUS
  <2> QED BY <2>1, FS_EmptySet DEF Times
<1> QED BY <1>2, <1>3, <1>4

\* One set of the family takes the place of another.
LEMMA FamilyChanged ==
  ASSUME NEW Q, NEW D, NEW w, NEW v, Family(Q, D, w), Family(Q, D, v), NEW x, DifferAt(x, D, w, v)
  PROVE  /\ Total(v) = Total(w) - Cardinality(w[x]) + Cardinality(v[x])
         /\ \A q : Times(v, q) = Times(w, q) - (IF q \in w[x] THEN 1 ELSE 0) + (IF q \in v[x] THEN 1 ELSE 0)
<1> DEFINE f == [b \in D |-> Cardinality(w[b])]
           g == [b \in D |-> Cardinality(v[b])]
<1>0. /\ IsFiniteSet(D) /\ x \in D /\ w \in [D -> SUBSET Q] /\ v \in [D -> SUBSET Q]
      /\ \A b \in D \ {x} : v[b] = w[b]
  BY DEF Family, DifferAt
<1>1. /\ \A b \in D : f[b] \in Int /\ g[b] \in Int
      /\ f[x] = Cardinality(w[x]) /\ g[x] = Cardinality(v[x]) /\ \A b \in D \ {x} : f[b] = g[b]
  BY <1>0, FamilyType
<1>2. Total(w) = SumFunctionOnSet(f, D) /\ Total(v) = SumFunctionOnSet(g, D)
  BY <1>0 DEF Total
<1> HIDE DEF f, g
<1>3. Total(v) = Total(w) - Cardinality(w[x]) + Cardinality(v[x])
  BY <1>0, <1>1, <1>2, SumOfChanged
<1>4. ASSUME NEW q
      PROVE  Times(v, q) = Times(w, q) - (IF q \in w[x] THEN 1 ELSE 0) + (IF q \in v[x] THEN 1 ELSE 0)
  <2> DEFINE In(u) == {b \in D : q \in u[b]}
             Rest == In(w) \ {x}
  <2>1. Times(w, q) = Cardinality(In(w)) /\ Times(v, q) = Cardinality(In(v))
    BY <1>0 DEF Times
  <2>2. /\ Rest \in SUBSET D /\ x \notin Rest
        /\ In(w) = (IF q \in w[x] THEN Rest \union {x} ELSE Rest)
        /\ In(v) = (IF q \in v[x] THEN Rest \union {x} ELSE Rest)
    BY <1>0
  <2> HIDE DEF In, Rest
  <2>3. IsFiniteSet(Rest) /\ Cardinality(Rest) \in Nat
    BY <1>0, <2>2, FS_Subset, FS_CardinalityType
  <2>4. Cardinality(Rest \union {x}) = Cardinality(Rest) + 1
    BY <2>2, <2>3, FS_AddElement
  <2> QED BY <2>1, <2>2, <2>3, <2>4
<1> QED BY <1>3, <1>4

\* One more set joins the family.
LEMMA FamilyGrown ==
  ASSUME NEW Q, NEW D, NEW E, NEW w, NEW v, Family(Q, D, w), Family(Q, E, v),
         NEW x, x \notin D, E = D \union {x}, \A b \in D : v[b] = w[b]
  PROVE  /\ Total(v) = Total(w) + Cardinality(v[x])
         /\ \A q : Times(v, q) = Times(w, q) + (IF q \in v[x] THEN 1 ELSE 0)
<1> DEFINE u == [b \in E |-> IF b = x THEN {} ELSE w[b]]
           f == [b \in D |-> Cardinality(w[b])]
           g == [b \in E |-> Cardinality(u[b])]
<1>1. /\ IsFiniteSet(Q) /\ IsFiniteSet(D) /\ IsFiniteSet(E)
      /\ w \in [D -> SUBSET Q] /\ v \in [E -> SUBSET Q]
  BY DEF Family
<1>2. Family(Q, E, u) /\ DifferAt(x, E, u, v) /\ u[x] = {} /\ Cardinality({}) = 0
  BY <1>1, FS_EmptySet DEF Family, DifferAt
<1>3. /\ Total(v) = Total(u) - Cardinality(u[x]) + Cardinality(v[x])
      /\ \A q : Times(v, q) = Times(u, q) - (IF q \in u[x] THEN 1 ELSE 0) + (IF q \in v[x] THEN 1 ELSE 0)
  <2> HIDE DEF u
  <2> QED BY <1>2, FamilyChanged
<1>4. Total(u) = Total(w)
  <2>1. Total(u) = SumFunctionOnSet(g, E) /\ Total(w) = SumFunctionOnSet(f, D)
    BY <1>1 DEF Total
  <2>2. \A b \in D : g[b] = f[b] /\ f[b] \in Int
    BY <1>1, FamilyType
  <2>3. g[x] = 0
    BY <1>2
  <2> HIDE DEF f, g, u
  <2>4. SumFunctionOnSet(g, E) = g[x] + SumFunctionOnSet(g, D)
    BY <1>1, <2>2, <2>3, SumOfMore
  <2>5. SumFunctionOnSet(g, D) = SumFunctionOnSet(f, D) /\ SumFunctionOnSet(f, D) \in Int
    BY <1>1, <2>2, SumOfSame, SumType
  <2> QED BY <2>1, <2>3, <2>4, <2>5
<1>5. ASSUME NEW q PROVE Times(u, q) = Times(w, q)
  <2>1. {b \in E : q \in u[b]} = {b \in D : q \in w[b]}
    BY <1>1
  <2> QED BY <1>1, <2>1 DEF Times
<1>6. Total(w) \in Nat /\ \A q : Times(w, q) \in Nat
  BY FamilyType
<1>7. Cardinality(v[x]) \in Nat
  BY <1>1, FamilyType
<1> HIDE DEF u, f, g
<1> QED BY <1>2, <1>3, <1>4, <1>5, <1>6, <1>7
==============================================================================
