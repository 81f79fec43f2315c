---------------------------- MODULE IntegerLemmas ----------------------------
(***************************************************************************)
(* What several of the proofs need of integers, and the library has no     *)
(* induction to give: least and greatest elements, sums over finite sets,  *)
(* division and clamps.                                                    *)
(***************************************************************************)
EXTENDS Integers, FiniteSets, FiniteSetsExt, FiniteSetTheorems, WellFoundedInduction, TLAPS

-----------------------------------------------------------------------------
(* Least elements: what takes the place of induction.                      *)

\* A set of natural numbers has a least element.
LEMMA LeastNatural ==
  ASSUME NEW T \in SUBSET Nat, T # {}
  PROVE  \E n \in T : \A m \in T : n <= m
<1>1. PICK top \in T : TRUE
  OBVIOUS
<1> DEFINE Down == {0..n : n \in {m \in T : m <= top}}
<1>2. Down \subseteq FiniteSubsetsOf(0..top) /\ 0..top \in Down
  <2>1. \A n \in T : IsFiniteSet(0..n) /\ (n <= top => 0..n \subseteq 0..top)
    BY FS_Interval
  <2> QED
    BY <2>1 DEF FiniteSubsetsOf
<1>3. Down # {}
  BY <1>2
<1> HIDE DEF Down
<1>4. PICK U \in Down : \A W \in Down : ~(<<W, U>> \in StrictSubsetOrdering(0..top))
  BY <1>2, <1>3, FS_StrictSubsetOrderingWellFounded, WFMin
<1>5. PICK n \in T : n <= top /\ U = 0..n
  BY <1>4 DEF Down
<1>6. ASSUME NEW m \in T, m < n PROVE FALSE
  <2>1. 0..m \in Down /\ U \in Down /\ 0..m \subseteq U /\ n \in U /\ n \notin 0..m
    BY <1>4, <1>5, <1>6 DEF Down
  <2>2. <<0..m, U>> \in StrictSubsetOrdering(0..top)
    BY <2>1, <1>2 DEF StrictSubsetOrdering, FiniteSubsetsOf
  <2> QED
    BY <2>1, <2>2, <1>4
<1> QED
  BY <1>6

\* A finite set of integers has a greatest element.
LEMMA GreatestInteger ==
  ASSUME NEW T \in SUBSET Int, IsFiniteSet(T), T # {}
  PROVE  Max(T) \in T /\ \A y \in T : y <= Max(T)
<1> DEFINE Has(U) == \E x \in U : \A y \in U : x >= y
           Bad == {U \in SUBSET T : U # {} /\ ~Has(U)}
<1>1. ASSUME Bad # {} PROVE FALSE
  <2>1. Bad \subseteq FiniteSubsetsOf(T)
    BY FS_Subset DEF FiniteSubsetsOf
  <2> HIDE DEF Bad
  <2>2. PICK U \in Bad : \A W \in Bad : ~(<<W, U>> \in StrictSubsetOrdering(T))
    BY <1>1, <2>1, FS_StrictSubsetOrderingWellFounded, WFMin
  <2> USE DEF Bad
  <2>3. PICK e : e \in U
    BY <2>2
  <2>4. CASE U = {e}
    BY <2>2, <2>4
  <2>5. CASE U # {e}
    <3> DEFINE W == U \ {e}
    <3>1. W \subseteq T /\ W # {} /\ W \subseteq U /\ W # U
      BY <2>2, <2>3, <2>5
    <3>2. W \notin Bad
      BY <2>2, <3>1 DEF StrictSubsetOrdering
    <3>3. PICK x \in W : \A y \in W : x >= y
      BY <3>1, <3>2
    <3>4. x \in Int /\ e \in Int /\ x \in U /\ \A y \in U : y \in Int /\ (y = e \/ y \in W)
      BY <2>2, <2>3, <3>1, <3>3
    <3>5. (\A y \in U : x >= y) \/ (\A y \in U : e >= y)
      BY <3>3, <3>4
    <3> QED
      BY <2>2, <2>3, <3>4, <3>5
  <2> QED
    BY <2>4, <2>5
<1>2. \E x \in T : \A y \in T : x >= y
  BY <1>1
<1>3. Max(T) \in T /\ \A y \in T : Max(T) >= y
  BY <1>2 DEF Max
<1> QED
  BY <1>3

LEMMA LeastInteger ==
  ASSUME NEW T \in SUBSET Int, IsFiniteSet(T), T # {}
  PROVE  Min(T) \in T /\ \A y \in T : Min(T) <= y
<1> DEFINE N == {-x : x \in T}
           f == [x \in T |-> -x]
<1>1. N \in SUBSET Int /\ N # {}
  <2>1. \A x \in T : x \in Int /\ -x \in Int
    OBVIOUS
  <2>2. \A y \in N : y \in Int
    BY <2>1
  <2> QED
    BY <2>2
<1>2. IsFiniteSet(N)
  <2>1. f \in Surjection(T, N)
    BY DEF Surjection
  <2> QED
    BY <2>1, FS_Surjection
<1> HIDE DEF N
<1>3. PICK z \in N : \A y \in N : y <= z
  BY <1>1, <1>2, GreatestInteger
<1>4. PICK x \in T : z = -x
  BY <1>3 DEF N
<1>5. \A y \in T : -y \in N
  BY DEF N
<1>6. \A y \in T : x <= y
  <2> TAKE y \in T
  <2>1. -y <= -x /\ x \in Int /\ y \in Int
    BY <1>3, <1>4, <1>5
  <2> QED
    BY <2>1
<1> QED
  BY <1>6 DEF Min

\* A finite set has a subset of every smaller size.
LEMMA SubsetOfSize ==
  ASSUME NEW S, IsFiniteSet(S), NEW n \in Nat, n <= Cardinality(S)
  PROVE  \E T \in SUBSET S : Cardinality(T) = n
<1> DEFINE Sizes == {k \in Nat : k >= n /\ \E T \in SUBSET S : Cardinality(T) = k}
<1>1. Sizes \in SUBSET Nat /\ Sizes # {}
  <2>1. Cardinality(S) \in Nat
    BY FS_CardinalityType
  <2>2. Cardinality(S) \in Sizes
    BY <2>1
  <2> QED
    BY <2>2
<1> HIDE DEF Sizes
<1>2. PICK k \in Sizes : \A j \in Sizes : k <= j
  BY <1>1, LeastNatural
<1>3. PICK T \in SUBSET S : Cardinality(T) = k /\ k \in Nat /\ k >= n
  BY <1>2 DEF Sizes
<1>4. ASSUME k # n PROVE FALSE
  <2>1. IsFiniteSet(T) /\ T # {}
    <3>1. IsFiniteSet(T)
      BY FS_Subset
    <3>2. k # 0
      BY <1>3, <1>4
    <3> QED
      BY <3>1, <3>2, <1>3, FS_EmptySet
  <2>2. PICK e \in T : TRUE
    BY <2>1
  <2>3. Cardinality(T \ {e}) = k - 1 /\ T \ {e} \in SUBSET S
    BY <1>3, <2>1, <2>2, FS_RemoveElement
  <2>4. k - 1 \in Sizes /\ ~(k <= k - 1)
    BY <1>3, <1>4, <2>3 DEF Sizes
  <2> QED
    BY <1>2, <2>4
<1> QED
  BY <1>3, <1>4

-----------------------------------------------------------------------------
(* Sums over finite sets.                                                   *)

\* What adding up a finite set visits one element after the other.
Adds(F, S, g) ==
    g = [s \in SUBSET S |-> IF s = {} THEN 0
                            ELSE F[CHOOSE x \in s : TRUE] + g[s \ {CHOOSE x \in s : TRUE}]]

\* There is such a sum, by layers of subsets of at most n elements.
LEMMA AddsExists ==
  ASSUME NEW S, IsFiniteSet(S), NEW F
  PROVE  \E g : Adds(F, S, g)
<1> DEFINE pick(s) == CHOOSE x \in s : TRUE
           Next1(g, s) == IF s = {} THEN 0 ELSE F[pick(s)] + g[s \ {pick(s)}]
           Layer(n) == {s \in SUBSET S : Cardinality(s) <= n}
           P(n) == \E g : g = [s \in Layer(n) |-> Next1(g, s)]
           Bad == {n \in Nat : ~P(n)}
<1>1. \A s \in SUBSET S : s # {} =>
        /\ pick(s) \in s /\ s \ {pick(s)} \in SUBSET S
        /\ Cardinality(s) \in Nat /\ Cardinality(s \ {pick(s)}) = Cardinality(s) - 1
  <2> SUFFICES ASSUME NEW s \in SUBSET S, s # {}
               PROVE  /\ pick(s) \in s /\ s \ {pick(s)} \in SUBSET S
                      /\ Cardinality(s) \in Nat /\ Cardinality(s \ {pick(s)}) = Cardinality(s) - 1
    OBVIOUS
  <2>1. pick(s) \in s
    OBVIOUS
  <2>2. IsFiniteSet(s) /\ Cardinality(s) \in Nat
    BY FS_Subset, FS_CardinalityType
  <2>3. Cardinality(s \ {pick(s)}) = Cardinality(s) - 1
    BY <2>1, <2>2, FS_RemoveElement
  <2> QED
    BY <2>1, <2>2, <2>3
<1> HIDE DEF pick
<1>2. ASSUME Bad # {} PROVE FALSE
  <2>1. PICK n \in Bad : \A m \in Bad : n <= m
    BY <1>2, LeastNatural
  <2>2. n \in Nat /\ ~P(n)
    BY <2>1
  <2>3. CASE n = 0
    <3>1. \A s \in Layer(n) : s = {}
      <4> SUFFICES ASSUME NEW s \in Layer(n), s # {} PROVE FALSE
        OBVIOUS
      <4>1. Cardinality(s) <= 0 /\ Cardinality(s) \in Nat /\ Cardinality(s \ {pick(s)}) = Cardinality(s) - 1
        BY <1>1, <2>3
      <4>2. Cardinality(s \ {pick(s)}) \in Nat
        BY FS_Subset, FS_CardinalityType
      <4> QED
        BY <4>1, <4>2
    <3>2. [s \in Layer(n) |-> 0] = [s \in Layer(n) |-> Next1([t \in Layer(n) |-> 0], s)]
      BY <3>1
    <3> QED
      BY <2>2, <3>2
  <2>4. CASE n # 0
    <3>1. n - 1 \in Nat /\ n - 1 \notin Bad
      <4>1. n - 1 \in Nat /\ ~(n <= n - 1)
        BY <2>2, <2>4
      <4> HIDE DEF Bad
      <4> QED
        BY <2>1, <4>1
    <3>2. PICK g : g = [s \in Layer(n - 1) |-> Next1(g, s)]
      BY <3>1
    <3> DEFINE h == [s \in Layer(n) |-> Next1(g, s)]
    <3>3. \A s \in Layer(n) : s # {} => s \ {pick(s)} \in Layer(n - 1)
      BY <1>1, <2>2
    <3>4. \A s \in Layer(n - 1) : s \in Layer(n) /\ h[s] = g[s]
      <4>1. \A s \in Layer(n - 1) : s \in Layer(n)
        <5> TAKE s \in Layer(n - 1)
        <5>1. IsFiniteSet(s)
          BY FS_Subset
        <5>2. Cardinality(s) \in Nat
          BY <5>1, FS_CardinalityType
        <5> QED
          BY <5>2, <2>2
      <4>2. \A s \in Layer(n - 1) : g[s] = Next1(g, s)
        BY <3>2
      <4> QED
        BY <4>1, <4>2
    <3>5. \A s \in Layer(n) : h[s] = Next1(h, s)
      BY <3>3, <3>4
    <3>6. h = [s \in Layer(n) |-> Next1(h, s)]
      BY <3>5
    <3> QED
      BY <2>2, <3>6
  <2> QED
    BY <2>3, <2>4
<1>3. P(Cardinality(S))
  <2>1. Cardinality(S) \in Nat
    BY FS_CardinalityType
  <2> HIDE DEF P
  <2> QED
    BY <1>2, <2>1
<1>4. Layer(Cardinality(S)) = SUBSET S
  BY FS_Subset
<1>5. PICK g : g = [s \in SUBSET S |-> Next1(g, s)]
  BY <1>3, <1>4
<1>6. Adds(F, S, g)
  BY <1>5 DEF Adds, pick
<1> QED
  BY <1>6

\* And every such sum of integers is an integer.
LEMMA AddsInteger ==
  ASSUME NEW S, IsFiniteSet(S), NEW F, \A x \in S : F[x] \in Int,
         NEW g, Adds(F, S, g)
  PROVE  g[S] \in Int
<1> DEFINE pick(s) == CHOOSE x \in s : TRUE
           Bad == {s \in SUBSET S : ~(g[s] \in Int)}
<1>1. ASSUME Bad # {} PROVE FALSE
  <2>1. Bad \subseteq FiniteSubsetsOf(S)
    BY FS_Subset DEF FiniteSubsetsOf
  <2>2. PICK U \in Bad : \A W \in Bad : ~(<<W, U>> \in StrictSubsetOrdering(S))
    BY <1>1, <2>1, FS_StrictSubsetOrderingWellFounded, WFMin
  <2>3. \/ U # {} /\ g[U] = F[pick(U)] + g[U \ {pick(U)}]
        \/ U = {} /\ g[U] = 0
    BY <2>2 DEF Adds
  <2>4. U # {} /\ pick(U) \in U
    BY <2>2, <2>3
  <2>5. /\ U \ {pick(U)} \in SUBSET S /\ U \ {pick(U)} \subseteq U
        /\ U \ {pick(U)} # U /\ pick(U) \in S
    BY <2>2, <2>4
  <2>6. g[U \ {pick(U)}] \in Int
    BY <2>2, <2>5 DEF StrictSubsetOrdering
  <2> QED
    BY <2>2, <2>3, <2>4, <2>5, <2>6
<1> QED
  BY <1>1

\* What F adds up to over S.
Sum(F, S) == (CHOOSE g : Adds(F, S, g))[S]

\* Two sums of equal terms are equal, over whatever set they were set up.
LEMMA AddsAgree ==
  ASSUME NEW S, IsFiniteSet(S), NEW T \in SUBSET S, NEW F, NEW G, \A x \in T : F[x] = G[x],
         NEW g, Adds(F, S, g), NEW h, Adds(G, T, h)
  PROVE  g[T] = h[T]
<1> DEFINE pick(s) == CHOOSE x \in s : TRUE
           Bad == {s \in SUBSET T : g[s] # h[s]}
<1>1. ASSUME Bad # {} PROVE FALSE
  <2>1. Bad \subseteq FiniteSubsetsOf(T)
    BY FS_Subset DEF FiniteSubsetsOf
  <2> HIDE DEF Bad
  <2>2. PICK U \in Bad : \A W \in Bad : ~(<<W, U>> \in StrictSubsetOrdering(T))
    BY <1>1, <2>1, FS_StrictSubsetOrderingWellFounded, WFMin
  <2> USE DEF Bad
  <2>3. U \in SUBSET T /\ U \in SUBSET S /\ g[U] # h[U]
    BY <2>2
  <2>4. /\ g[U] = IF U = {} THEN 0 ELSE F[pick(U)] + g[U \ {pick(U)}]
        /\ h[U] = IF U = {} THEN 0 ELSE G[pick(U)] + h[U \ {pick(U)}]
    BY <2>3 DEF Adds
  <2>5. U # {}
    BY <2>3, <2>4
  <2>6. pick(U) \in U
    BY <2>5
  <2> DEFINE W == U \ {pick(U)}
  <2>7. W \in SUBSET T /\ W \subseteq U /\ W # U /\ pick(U) \in T
    BY <2>3, <2>6
  <2>8. g[W] = h[W]
    <3>1. W \notin Bad
      BY <2>2, <2>3, <2>7, <2>1 DEF StrictSubsetOrdering
    <3> QED
      BY <3>1, <2>7
  <2> QED
    BY <2>3, <2>4, <2>5, <2>7, <2>8
<1> QED
  BY <1>1

LEMMA SumIs ==
  ASSUME NEW S, IsFiniteSet(S), NEW F, NEW T \in SUBSET S, NEW g, Adds(F, S, g)
  PROVE  Sum(F, T) = g[T]
<1>1. IsFiniteSet(T)
  BY FS_Subset
<1> DEFINE h == CHOOSE k : Adds(F, T, k)
<1>2. Adds(F, T, h)
  BY <1>1, AddsExists
<1> HIDE DEF h
<1>3. g[T] = h[T]
  BY <1>2, AddsAgree
<1> QED
  BY <1>3 DEF Sum, h

LEMMA SumSame ==
  ASSUME NEW S, IsFiniteSet(S), NEW F, NEW G, \A x \in S : F[x] = G[x]
  PROVE  Sum(F, S) = Sum(G, S)
<1>1. PICK g : Adds(F, S, g)
  BY AddsExists
<1>2. PICK h : Adds(G, S, h)
  BY AddsExists
<1>3. g[S] = h[S]
  BY <1>1, <1>2, AddsAgree
<1>4. Sum(F, S) = g[S] /\ Sum(G, S) = h[S]
  BY <1>1, <1>2, SumIs
<1> QED
  BY <1>3, <1>4

LEMMA SumInteger ==
  ASSUME NEW S, IsFiniteSet(S), NEW F, \A x \in S : F[x] \in Int
  PROVE  Sum(F, S) \in Int
<1>1. PICK g : Adds(F, S, g)
  BY AddsExists
<1>2. Sum(F, S) = g[S] /\ g[S] \in Int
  BY <1>1, SumIs, AddsInteger
<1> QED
  BY <1>2

LEMMA SumPicks ==
  ASSUME NEW S, IsFiniteSet(S), NEW F
  PROVE  /\ S = {} => Sum(F, S) = 0
         /\ S # {} => \E x \in S : Sum(F, S) = F[x] + Sum(F, S \ {x})
<1> DEFINE pick(s) == CHOOSE x \in s : TRUE
<1>1. PICK g : Adds(F, S, g)
  BY AddsExists
<1>2. g[S] = IF S = {} THEN 0 ELSE F[pick(S)] + g[S \ {pick(S)}]
  BY <1>1 DEF Adds
<1>3. Sum(F, S) = g[S] /\ Sum(F, S \ {pick(S)}) = g[S \ {pick(S)}]
  BY <1>1, SumIs
<1>4. S # {} => pick(S) \in S
  OBVIOUS
<1> HIDE DEF pick
<1> QED
  BY <1>2, <1>3, <1>4

\* The order of adding does not matter: any element may come last.
LEMMA SumRemove ==
  ASSUME NEW S, IsFiniteSet(S), NEW F, \A x \in S : F[x] \in Int, NEW e \in S
  PROVE  Sum(F, S) = F[e] + Sum(F, S \ {e})
<1> DEFINE Good(s) == \A x \in s : Sum(F, s) = F[x] + Sum(F, s \ {x})
           Bad == {s \in SUBSET S : ~Good(s)}
<1>1. ASSUME Bad # {} PROVE FALSE
  <2>1. Bad \subseteq FiniteSubsetsOf(S)
    BY FS_Subset DEF FiniteSubsetsOf
  <2> HIDE DEF Bad
  <2>2. PICK U \in Bad : \A W \in Bad : ~(<<W, U>> \in StrictSubsetOrdering(S))
    BY <1>1, <2>1, FS_StrictSubsetOrderingWellFounded, WFMin
  <2> USE DEF Bad
  <2>3. U \in SUBSET S /\ ~Good(U) /\ IsFiniteSet(U)
    BY <2>2, FS_Subset
  <2>4. PICK x \in U : Sum(F, U) # F[x] + Sum(F, U \ {x})
    BY <2>3
  <2>5. PICK y \in U : Sum(F, U) = F[y] + Sum(F, U \ {y})
    BY <2>3, SumPicks
  <2>6. x # y
    BY <2>4, <2>5
  <2>7. ASSUME NEW z \in U PROVE Good(U \ {z})
    <3>1. U \ {z} \in SUBSET S /\ U \ {z} \subseteq U /\ U \ {z} # U
      BY <2>3
    <3>2. U \ {z} \notin Bad
      <4> HIDE DEF Bad
      <4> QED
        BY <2>1, <2>2, <2>3, <3>1 DEF StrictSubsetOrdering, FiniteSubsetsOf
    <3> QED
      BY <3>1, <3>2
  <2>8. Sum(F, U \ {y}) = F[x] + Sum(F, (U \ {y}) \ {x})
    BY <2>6, <2>7
  <2>9. Sum(F, U \ {x}) = F[y] + Sum(F, (U \ {x}) \ {y})
    BY <2>6, <2>7
  <2>10. (U \ {y}) \ {x} = (U \ {x}) \ {y}
    OBVIOUS
  <2>11. PICK rest \in Int : rest = Sum(F, (U \ {x}) \ {y})
    <3>1. IsFiniteSet((U \ {x}) \ {y}) /\ \A z \in (U \ {x}) \ {y} : F[z] \in Int
      BY <2>3, FS_Subset
    <3> QED
      BY <3>1, SumInteger
  <2>12. PICK fx \in Int, fy \in Int : fx = F[x] /\ fy = F[y]
    BY <2>3
  <2>13. Sum(F, U) = fy + (fx + rest)
    BY <2>5, <2>8, <2>10, <2>11, <2>12
  <2>14. F[x] + Sum(F, U \ {x}) = fx + (fy + rest)
    BY <2>9, <2>11, <2>12
  <2> HIDE DEF Bad
  <2> QED
    BY <2>4, <2>12, <2>13, <2>14
<1>2. Good(S)
  BY <1>1
<1> QED
  BY <1>2

LEMMA SumAtMost ==
  ASSUME NEW S, IsFiniteSet(S), NEW F, NEW b \in Int, \A x \in S : F[x] \in Int /\ F[x] <= b
  PROVE  Sum(F, S) <= Cardinality(S) * b
<1> DEFINE Bad == {s \in SUBSET S : ~(Sum(F, s) <= Cardinality(s) * b)}
<1>1. ASSUME Bad # {} PROVE FALSE
  <2>1. Bad \subseteq FiniteSubsetsOf(S)
    BY FS_Subset DEF FiniteSubsetsOf
  <2> HIDE DEF Bad
  <2>2. PICK U \in Bad : \A W \in Bad : ~(<<W, U>> \in StrictSubsetOrdering(S))
    BY <1>1, <2>1, FS_StrictSubsetOrderingWellFounded, WFMin
  <2> USE DEF Bad
  <2>3. U \in SUBSET S /\ IsFiniteSet(U) /\ ~(Sum(F, U) <= Cardinality(U) * b)
    BY <2>2, FS_Subset
  <2>4. U # {}
    BY <2>3, SumPicks, FS_EmptySet
  <2>5. PICK y \in U : Sum(F, U) = F[y] + Sum(F, U \ {y})
    BY <2>3, <2>4, SumPicks
  <2> DEFINE W == U \ {y}
  <2>6. W \in SUBSET S /\ W \subseteq U /\ W # U /\ IsFiniteSet(W)
    BY <2>3, FS_Subset
  <2>7. W \notin Bad
    <3> HIDE DEF Bad
    <3> QED
      BY <2>1, <2>2, <2>3, <2>6 DEF StrictSubsetOrdering, FiniteSubsetsOf
  <2>8. Sum(F, W) <= Cardinality(W) * b
    BY <2>6, <2>7
  <2>9. Cardinality(W) = Cardinality(U) - 1 /\ Cardinality(U) \in Nat
    BY <2>3, FS_RemoveElement, FS_CardinalityType
  <2>10. PICK w \in Int : w = Sum(F, W)
    BY <2>6, SumInteger
  <2>11. PICK n \in Nat : n = Cardinality(U)
    BY <2>9
  <2>12. F[y] \in Int /\ F[y] <= b
    BY <2>3
  <2>13. (n - 1) * b = n * b - b
    BY <2>11
  <2>14. n * b \in Int /\ (n - 1) * b \in Int
    BY <2>11
  <2> HIDE DEF W, Bad
  <2>15. w <= (n - 1) * b
    BY <2>8, <2>9, <2>10, <2>11
  <2>16. Sum(F, U) = F[y] + w
    BY <2>5, <2>10 DEF W
  <2>17. F[y] + w <= n * b
    BY <2>12, <2>13, <2>14, <2>15
  <2> QED
    BY <2>3, <2>11, <2>16, <2>17
<1> QED
  BY <1>1

\* Adding one more.
LEMMA SumAdd ==
  ASSUME NEW S, IsFiniteSet(S), NEW F, NEW e, e \notin S, \A x \in S \cup {e} : F[x] \in Int
  PROVE  Sum(F, S \cup {e}) = Sum(F, S) + F[e]
<1>1. IsFiniteSet(S \cup {e})
  BY FS_AddElement
<1>2. Sum(F, S \cup {e}) = F[e] + Sum(F, (S \cup {e}) \ {e})
  BY <1>1, SumRemove
<1>3. (S \cup {e}) \ {e} = S
  OBVIOUS
<1>4. PICK x \in Int, y \in Int : x = Sum(F, S) /\ y = F[e]
  BY SumInteger
<1>5. Sum(F, S \cup {e}) = y + x
  BY <1>2, <1>3, <1>4
<1> QED
  BY <1>4, <1>5

LEMMA SumNatural ==
  ASSUME NEW S, IsFiniteSet(S), NEW F, \A x \in S : F[x] \in Nat
  PROVE  Sum(F, S) \in Nat
<1> DEFINE Bad == {s \in SUBSET S : ~(Sum(F, s) \in Nat)}
<1>1. ASSUME Bad # {} PROVE FALSE
  <2>1. Bad \subseteq FiniteSubsetsOf(S)
    BY FS_Subset DEF FiniteSubsetsOf
  <2> HIDE DEF Bad
  <2>2. PICK U \in Bad : \A W \in Bad : ~(<<W, U>> \in StrictSubsetOrdering(S))
    BY <1>1, <2>1, FS_StrictSubsetOrderingWellFounded, WFMin
  <2> USE DEF Bad
  <2>3. U \in SUBSET S /\ IsFiniteSet(U) /\ ~(Sum(F, U) \in Nat)
    BY <2>2, FS_Subset
  <2>4. U # {}
    BY <2>3, SumPicks
  <2>5. PICK y \in U : Sum(F, U) = F[y] + Sum(F, U \ {y})
    BY <2>3, <2>4, SumPicks
  <2>6. U \ {y} \in SUBSET S /\ U \ {y} \subseteq U /\ U \ {y} # U
    BY <2>3
  <2>7. U \ {y} \notin Bad
    <3> HIDE DEF Bad
    <3> QED
      BY <2>1, <2>2, <2>3, <2>6 DEF StrictSubsetOrdering, FiniteSubsetsOf
  <2> QED
    BY <2>3, <2>5, <2>6, <2>7
<1> QED
  BY <1>1

\* An element more, or less, of what is otherwise the same.
LEMMA SumWithout ==
  ASSUME NEW S, IsFiniteSet(S), NEW F, \A x \in S : F[x] \in Int, NEW e \in S,
         NEW G, \A x \in S \ {e} : G[x] = F[x]
  PROVE  Sum(F, S) \in Int /\ Sum(G, S \ {e}) = Sum(F, S) - F[e]
<1>1. PICK T : T = S \ {e}
  OBVIOUS
<1>2. IsFiniteSet(T) /\ \A x \in T : G[x] = F[x]
  BY <1>1, FS_Subset
<1>3. Sum(G, T) = Sum(F, T)
  BY <1>2, SumSame
<1>4. Sum(F, S) = F[e] + Sum(F, T)
  BY <1>1, SumRemove
<1>5. Sum(F, S) \in Int /\ Sum(F, T) \in Int /\ F[e] \in Int
  BY <1>1, <1>2, SumInteger
<1> QED
  BY <1>1, <1>3, <1>4, <1>5

LEMMA SumWith ==
  ASSUME NEW S, IsFiniteSet(S), NEW F, \A x \in S : F[x] \in Int, NEW e, e \notin S,
         NEW G, \A x \in S : G[x] = F[x], G[e] \in Int
  PROVE  Sum(F, S) \in Int /\ Sum(G, S \cup {e}) = Sum(F, S) + G[e]
<1>1. Sum(G, S \cup {e}) = Sum(G, S) + G[e]
  BY SumAdd
<1>2. Sum(G, S) = Sum(F, S) /\ Sum(F, S) \in Int
  BY SumSame, SumInteger
<1> QED
  BY <1>1, <1>2

LEMMA SumZero ==
  ASSUME NEW S, IsFiniteSet(S), NEW F, \A x \in S : F[x] = 0
  PROVE  Sum(F, S) = 0
<1>1. PICK zero \in Int : zero = 0
  OBVIOUS
<1>2. Sum(F, S) \in Nat
  BY SumNatural
<1>3. Sum(F, S) <= Cardinality(S) * zero
  BY <1>1, SumAtMost
<1>4. Cardinality(S) * zero = 0
  BY <1>1, FS_CardinalityType
<1> QED
  BY <1>2, <1>3, <1>4

LEMMA SumAtLeast ==
  ASSUME NEW S, IsFiniteSet(S), NEW F, NEW b \in Int, \A x \in S : F[x] \in Int /\ F[x] >= b
  PROVE  Sum(F, S) >= Cardinality(S) * b
<1> DEFINE Bad == {s \in SUBSET S : ~(Sum(F, s) >= Cardinality(s) * b)}
<1>1. ASSUME Bad # {} PROVE FALSE
  <2>1. Bad \subseteq FiniteSubsetsOf(S)
    BY FS_Subset DEF FiniteSubsetsOf
  <2> HIDE DEF Bad
  <2>2. PICK U \in Bad : \A W \in Bad : ~(<<W, U>> \in StrictSubsetOrdering(S))
    BY <1>1, <2>1, FS_StrictSubsetOrderingWellFounded, WFMin
  <2> USE DEF Bad
  <2>3. U \in SUBSET S /\ IsFiniteSet(U) /\ ~(Sum(F, U) >= Cardinality(U) * b)
    BY <2>2, FS_Subset
  <2>4. U # {}
    BY <2>3, SumPicks, FS_EmptySet
  <2>5. PICK y \in U : Sum(F, U) = F[y] + Sum(F, U \ {y})
    BY <2>3, <2>4, SumPicks
  <2> DEFINE W == U \ {y}
  <2>6. W \in SUBSET S /\ W \subseteq U /\ W # U /\ IsFiniteSet(W)
    BY <2>3, FS_Subset
  <2>7. W \notin Bad
    <3> HIDE DEF Bad
    <3> QED
      BY <2>1, <2>2, <2>3, <2>6 DEF StrictSubsetOrdering, FiniteSubsetsOf
  <2>8. Sum(F, W) >= Cardinality(W) * b
    BY <2>6, <2>7
  <2>9. Cardinality(W) = Cardinality(U) - 1 /\ Cardinality(U) \in Nat
    BY <2>3, FS_RemoveElement, FS_CardinalityType
  <2>10. PICK w \in Int : w = Sum(F, W)
    BY <2>6, SumInteger
  <2>11. PICK n \in Nat : n = Cardinality(U)
    BY <2>9
  <2>12. F[y] \in Int /\ F[y] >= b
    BY <2>3
  <2>13. (n - 1) * b = n * b - b
    BY <2>11
  <2>14. n * b \in Int /\ (n - 1) * b \in Int
    BY <2>11
  <2> HIDE DEF W, Bad
  <2>15. w >= (n - 1) * b
    BY <2>8, <2>9, <2>10, <2>11
  <2>16. Sum(F, U) = F[y] + w
    BY <2>5, <2>10 DEF W
  <2>17. F[y] + w >= n * b
    BY <2>12, <2>13, <2>14, <2>15
  <2> QED
    BY <2>3, <2>11, <2>16, <2>17
<1> QED
  BY <1>1

\* Counting is adding ones.
LEMMA SumOnes ==
  ASSUME NEW S, IsFiniteSet(S), NEW F, \A x \in S : F[x] = 1
  PROVE  Sum(F, S) = Cardinality(S)
<1>1. PICK one \in Int, n \in Nat : one = 1 /\ n = Cardinality(S)
  BY FS_CardinalityType
<1>2. \A x \in S : F[x] \in Int /\ F[x] <= one /\ F[x] >= one
  BY <1>1
<1>3. Sum(F, S) <= Cardinality(S) * one /\ Sum(F, S) >= Cardinality(S) * one
  BY <1>2, SumAtMost, SumAtLeast
<1>4. Sum(F, S) \in Int
  BY <1>2, SumInteger
<1>5. Cardinality(S) * one = n
  BY <1>1
<1> QED
  BY <1>1, <1>3, <1>4, <1>5

\* The sum of a union of two sets that share nothing.
LEMMA SumUnion ==
  ASSUME NEW S, IsFiniteSet(S), NEW T, IsFiniteSet(T), S \cap T = {},
         NEW F, \A x \in S \cup T : F[x] \in Int
  PROVE  Sum(F, S \cup T) = Sum(F, S) + Sum(F, T)
<1> DEFINE Bad == {s \in SUBSET T : Sum(F, S \cup s) # Sum(F, S) + Sum(F, s)}
<1>1. ASSUME Bad # {} PROVE FALSE
  <2>1. Bad \subseteq FiniteSubsetsOf(T)
    BY FS_Subset DEF FiniteSubsetsOf
  <2> HIDE DEF Bad
  <2>2. PICK U \in Bad : \A W \in Bad : ~(<<W, U>> \in StrictSubsetOrdering(T))
    BY <1>1, <2>1, FS_StrictSubsetOrderingWellFounded, WFMin
  <2> USE DEF Bad
  <2>3. U \in SUBSET T /\ IsFiniteSet(U) /\ Sum(F, S \cup U) # Sum(F, S) + Sum(F, U)
    BY <2>2, FS_Subset
  <2>4. PICK all \in Int : all = Sum(F, S)
    BY SumInteger
  <2>5. U # {}
    <3>1. Sum(F, {}) = 0 /\ S \cup {} = S
      BY SumPicks, FS_EmptySet
    <3> QED
      BY <2>3, <2>4, <3>1
  <2>6. PICK e \in U : TRUE
    BY <2>5
  <2>7. PICK W : W = U \ {e}
    OBVIOUS
  <2>8. W \in SUBSET T /\ W \subseteq U /\ W # U /\ IsFiniteSet(W)
    BY <2>3, <2>7, FS_Subset
  <2>9. W \notin Bad
    <3> HIDE DEF Bad
    <3> QED
      BY <2>1, <2>2, <2>3, <2>8 DEF StrictSubsetOrdering, FiniteSubsetsOf
  <2>10. Sum(F, S \cup W) = Sum(F, S) + Sum(F, W)
    BY <2>8, <2>9
  <2>11. Sum(F, U) = F[e] + Sum(F, W)
    BY <2>3, <2>7, SumRemove
  <2>12. PICK V : V = S \cup U
    OBVIOUS
  <2>13. IsFiniteSet(V) /\ e \in V /\ (\A x \in V : F[x] \in Int) /\ V \ {e} = S \cup W
    BY <2>3, <2>7, <2>12, FS_Union
  <2>14. Sum(F, V) = F[e] + Sum(F, S \cup W)
    BY <2>13, SumRemove
  <2>15. PICK rest \in Int, last \in Int : rest = Sum(F, W) /\ last = F[e]
    BY <2>3, <2>8, SumInteger
  <2> HIDE DEF Bad
  <2> QED
    BY <2>3, <2>4, <2>10, <2>11, <2>12, <2>14, <2>15
<1>2. T \notin Bad
  BY <1>1
<1> QED
  BY <1>2

\* The values of a function over a finite set are finitely many.
LEMMA ValuesFinite ==
  ASSUME NEW f, NEW S, IsFiniteSet(S)
  PROVE  /\ IsFiniteSet({f[x] : x \in S})
         /\ (\A x, y \in S : f[x] = f[y] => x = y) => Cardinality({f[x] : x \in S}) = Cardinality(S)
<1> DEFINE T == {f[x] : x \in S}
           h == [x \in S |-> f[x]]
<1>1. h \in Surjection(S, T)
  BY DEF Surjection
<1>2. IsFiniteSet(T) /\ (Cardinality(T) = Cardinality(S) <=> h \in Injection(S, T))
  BY <1>1, FS_Surjection
<1>3. (\A x, y \in S : f[x] = f[y] => x = y) => h \in Injection(S, T)
  BY DEF Injection, IsInjective
<1> QED
  BY <1>2, <1>3

\* Terms that are zero may be left out.
LEMMA SumRestrict ==
  ASSUME NEW S, IsFiniteSet(S), NEW F, \A x \in S : F[x] \in Int,
         NEW T, T \subseteq S, \A x \in S \ T : F[x] = 0, NEW G, \A x \in T : G[x] = F[x]
  PROVE  Sum(F, S) = Sum(G, T)
<1>1. PICK R : R = S \ T
  OBVIOUS
<1>2. IsFiniteSet(T) /\ IsFiniteSet(R) /\ T \cap R = {} /\ T \cup R = S
  BY <1>1, FS_Subset
<1>3. Sum(F, T \cup R) = Sum(F, T) + Sum(F, R)
  BY <1>2, SumUnion
<1>4. Sum(F, R) = 0
  BY <1>1, <1>2, SumZero
<1>5. Sum(G, T) = Sum(F, T)
  BY <1>2, SumSame
<1>6. PICK x \in Int : x = Sum(F, T)
  BY <1>2, SumInteger
<1>7. PICK V : V = T \cup R
  OBVIOUS
<1>8. V = S
  BY <1>2, <1>7
<1>9. Sum(F, V) = x + 0
  BY ONLY <1>3, <1>4, <1>6, <1>7
<1> QED
  BY ONLY <1>5, <1>6, <1>8, <1>9

\* Adding up class by class, for any classification of the terms.
Classes(S, b) == {b[x] : x \in S}
Class(S, b, y) == {x \in S : b[x] = y}

LEMMA SumPartition ==
  ASSUME NEW S, IsFiniteSet(S), NEW F, \A x \in S : F[x] \in Int, NEW b,
         NEW K, K = Classes(S, b), NEW G, \A y \in K : G[y] = Sum(F, Class(S, b, y))
  PROVE  Sum(G, K) = Sum(F, S)
<1> DEFINE Of(L) == {x \in S : b[x] \in L}
           Bad == {L \in SUBSET K : Sum(G, L) # Sum(F, Of(L))}
<1>0. K = {b[x] : x \in S}
  BY DEF Classes
<1>a. IsFiniteSet(K)
  <2> DEFINE h == [x \in S |-> b[x]]
  <2>1. h \in Surjection(S, K)
    BY <1>0 DEF Surjection
  <2> QED
    BY <2>1, FS_Surjection
<1>b. \A y \in K : G[y] \in Int
  <2> TAKE y \in K
  <2>1. IsFiniteSet(Class(S, b, y)) /\ \A z \in Class(S, b, y) : F[z] \in Int
    BY FS_Subset DEF Class
  <2>2. Sum(F, Class(S, b, y)) \in Int
    BY <2>1, SumInteger
  <2> QED
    BY <2>2
<1>1. ASSUME Bad # {} PROVE FALSE
  <2>1. Bad \subseteq FiniteSubsetsOf(K)
    BY <1>a, FS_Subset DEF FiniteSubsetsOf
  <2> HIDE DEF Bad
  <2>2. PICK U \in Bad : \A W \in Bad : ~(<<W, U>> \in StrictSubsetOrdering(K))
    BY <1>1, <1>a, <2>1, FS_StrictSubsetOrderingWellFounded, WFMin
  <2>3. U \in SUBSET K /\ IsFiniteSet(U) /\ Sum(G, U) # Sum(F, Of(U))
    BY <1>a, <2>2, FS_Subset DEF Bad
  <2>5. U # {}
    <3>1. Sum(F, {}) = 0 /\ Sum(G, {}) = 0
      BY SumPicks, FS_EmptySet
    <3>2. U = {} => Of(U) = {}
      OBVIOUS
    <3> QED
      BY <2>3, <3>1, <3>2
  <2>6. PICK e \in U : TRUE
    BY <2>5
  <2>7. PICK W : W = U \ {e}
    OBVIOUS
  <2>8. W \in SUBSET K /\ W \subseteq U /\ W # U /\ IsFiniteSet(W)
    BY <2>3, <2>7, FS_Subset
  <2>9. W \notin Bad
    BY <2>1, <2>2, <2>3, <2>8 DEF StrictSubsetOrdering, FiniteSubsetsOf
  <2>10. Sum(G, W) = Sum(F, Of(W))
    BY <2>8, <2>9 DEF Bad
  <2>11. Sum(G, U) = G[e] + Sum(G, W)
    BY <1>b, <2>3, <2>7, SumRemove
  <2>12. PICK A, B : A = Of(W) /\ B = Class(S, b, e)
    OBVIOUS
  <2>13. /\ IsFiniteSet(A) /\ IsFiniteSet(B) /\ A \cap B = {} /\ A \cup B = Of(U)
         /\ \A x \in A \cup B : F[x] \in Int
    <3>1. A \subseteq S /\ B \subseteq S
      BY <2>12 DEF Class
    <3>2. IsFiniteSet(A) /\ IsFiniteSet(B)
      BY <3>1, FS_Subset
    <3>3. A \cap B = {} /\ A \cup B = Of(U)
      BY <1>0, <2>7, <2>12, <2>6 DEF Class
    <3> QED
      BY <3>1, <3>2, <3>3
  <2>14. Sum(F, A \cup B) = Sum(F, A) + Sum(F, B)
    BY <2>13, SumUnion
  <2>15. G[e] = Sum(F, B)
    BY <2>3, <2>12
  <2>16. PICK x \in Int, y \in Int : x = Sum(F, A) /\ y = Sum(F, B)
    BY <2>13, SumInteger
  <2>17. Sum(G, U) = y + x
    BY ONLY <2>10, <2>11, <2>12, <2>15, <2>16
  <2>18. Sum(F, Of(U)) = x + y
    <3>1. A \cup B = Of(U)
      BY <2>13
    <3> HIDE DEF Of
    <3> QED
      BY ONLY <3>1, <2>14, <2>16
  <2>19. Sum(G, U) # Sum(F, Of(U))
    BY <2>3
  <2> HIDE DEF Of
  <2> QED
    BY ONLY <2>17, <2>18, <2>19, x \in Int, y \in Int
<1>2. Sum(G, K) = Sum(F, Of(K)) /\ Of(K) = S
  BY <1>0, <1>1
<1> QED
  BY <1>2

\* A fold over a sequence adds the last element last.
FromLast(F, S, g) ==
    g = [s \in SUBSET S |-> IF s = {} THEN 0 ELSE g[s \ {Max(s)}] + F[Max(s)]]

LEMMA FromLastIsSum ==
  ASSUME NEW S \in SUBSET Int, IsFiniteSet(S), NEW F, \A x \in S : F[x] \in Int
  PROVE  (CHOOSE g : FromLast(F, S, g))[S] = Sum(F, S)
<1> DEFINE h == [s \in SUBSET S |-> Sum(F, s)]
<1>1. \A s \in SUBSET S : /\ IsFiniteSet(s) /\ Sum(F, s) \in Int
                          /\ s # {} => Max(s) \in s
                          /\ s # {} => Sum(F, s) = Sum(F, s \ {Max(s)}) + F[Max(s)]
                          /\ s = {} => Sum(F, s) = 0
  <2> SUFFICES ASSUME NEW s \in SUBSET S
               PROVE  /\ IsFiniteSet(s) /\ Sum(F, s) \in Int
                      /\ s # {} => Max(s) \in s
                      /\ s # {} => Sum(F, s) = Sum(F, s \ {Max(s)}) + F[Max(s)]
                      /\ s = {} => Sum(F, s) = 0
    OBVIOUS
  <2>1. IsFiniteSet(s) /\ \A x \in s : F[x] \in Int
    BY FS_Subset
  <2>2. Sum(F, s) \in Int /\ (s = {} => Sum(F, s) = 0)
    BY <2>1, SumInteger, SumPicks
  <2>3. ASSUME s # {} PROVE Max(s) \in s /\ Sum(F, s) = Sum(F, s \ {Max(s)}) + F[Max(s)]
    <3>1. s \in SUBSET Int
      OBVIOUS
    <3>2. PICK m \in s : m = Max(s)
      BY <2>1, <2>3, <3>1, GreatestInteger
    <3>3. Sum(F, s) = F[m] + Sum(F, s \ {m})
      BY <2>1, SumRemove
    <3>4. IsFiniteSet(s \ {m}) /\ \A x \in s \ {m} : F[x] \in Int
      BY <2>1, FS_Subset
    <3>5. Sum(F, s \ {m}) \in Int /\ F[m] \in Int
      BY <3>4, SumInteger, <2>1
    <3> QED
      BY <3>2, <3>3, <3>5
  <2> QED
    BY <2>1, <2>2, <2>3
<1>2. FromLast(F, S, h)
  <2>1. \A s \in SUBSET S : h[s] = IF s = {} THEN 0 ELSE h[s \ {Max(s)}] + F[Max(s)]
    <3> SUFFICES ASSUME NEW s \in SUBSET S
                 PROVE  h[s] = IF s = {} THEN 0 ELSE h[s \ {Max(s)}] + F[Max(s)]
      OBVIOUS
    <3>1. s \ {Max(s)} \in SUBSET S
      OBVIOUS
    <3>2. h[s] = Sum(F, s) /\ h[s \ {Max(s)}] = Sum(F, s \ {Max(s)})
      BY <3>1
    <3> QED
      BY <1>1, <3>2
  <2> QED
    BY <2>1 DEF FromLast
<1> DEFINE g == CHOOSE k : FromLast(F, S, k)
<1>3. FromLast(F, S, g)
  BY <1>2
<1> HIDE DEF g, h
<1> DEFINE Bad == {s \in SUBSET S : g[s] # Sum(F, s)}
<1>4. ASSUME Bad # {} PROVE FALSE
  <2>1. Bad \subseteq FiniteSubsetsOf(S)
    BY FS_Subset DEF FiniteSubsetsOf
  <2> HIDE DEF Bad
  <2>2. PICK U \in Bad : \A W \in Bad : ~(<<W, U>> \in StrictSubsetOrdering(S))
    BY <1>4, <2>1, FS_StrictSubsetOrderingWellFounded, WFMin
  <2> USE DEF Bad
  <2>3. U \in SUBSET S /\ g[U] # Sum(F, U)
    BY <2>2
  <2>4. g[U] = IF U = {} THEN 0 ELSE g[U \ {Max(U)}] + F[Max(U)]
    BY <2>3, <1>3 DEF FromLast
  <2>5. U # {} /\ Max(U) \in U
    BY <2>3, <2>4, <1>1
  <2>6. U \ {Max(U)} \in SUBSET S /\ U \ {Max(U)} \subseteq U /\ U \ {Max(U)} # U
    BY <2>3, <2>5
  <2>7. g[U \ {Max(U)}] = Sum(F, U \ {Max(U)})
    <3>1. U \ {Max(U)} \notin Bad
      <4> HIDE DEF Bad
      <4> QED
        BY <2>1, <2>2, <2>6 DEF StrictSubsetOrdering, FiniteSubsetsOf
    <3> QED
      BY <3>1, <2>6
  <2> QED
    BY <2>3, <2>4, <2>5, <2>7, <1>1
<1> QED
  BY <1>4 DEF g

-----------------------------------------------------------------------------
(* Division and the clamps.                                                *)

LEMMA Division ==
  ASSUME NEW x \in Int, NEW n \in Nat \ {0}
  PROVE  /\ x \div n \in Int
         /\ n * (x \div n) <= x /\ x < n * (x \div n) + n
  BY SMTT(30)

LEMMA DivisionBetween ==
  ASSUME NEW x \in Int, NEW n \in Nat \ {0}, NEW lo \in Int, NEW hi \in Int,
         lo * n <= x, x <= hi * n
  PROVE  x \div n \in Int /\ lo <= x \div n /\ x \div n <= hi
<1> DEFINE q == x \div n
<1>1. q \in Int /\ n * q <= x /\ x < n * q + n
  BY Division
<1> HIDE DEF q
<1>2. ASSUME q < lo PROVE FALSE
  <2>1. n * (lo - q - 1) >= 0
    BY <1>1, <1>2
  <2>2. n * (lo - q - 1) = lo * n - n * q - n
    BY <1>1
  <2> QED
    BY <2>1, <2>2, <1>1
<1>3. ASSUME q > hi PROVE FALSE
  <2>1. n * (q - hi - 1) >= 0
    BY <1>1, <1>3
  <2>2. n * (q - hi - 1) = n * q - hi * n - n
    BY <1>1
  <2> QED
    BY <2>1, <2>2, <1>1
<1> QED
  BY <1>1, <1>2, <1>3 DEF q

LEMMA PairClamps ==
  ASSUME NEW a \in Int, NEW b \in Int
  PROVE  /\ Max({a, b}) = IF a >= b THEN a ELSE b
         /\ Min({a, b}) = IF a <= b THEN a ELSE b
<1>1. \E x \in {a, b} : \A y \in {a, b} : x >= y
  <2>1. CASE a >= b BY <2>1
  <2>2. CASE a < b BY <2>2
  <2> QED BY <2>1, <2>2
<1>2. Max({a, b}) \in {a, b} /\ \A y \in {a, b} : Max({a, b}) >= y
  BY <1>1 DEF Max
<1>3. \E x \in {a, b} : \A y \in {a, b} : x <= y
  <2>1. CASE a <= b BY <2>1
  <2>2. CASE a > b BY <2>2
  <2> QED BY <2>1, <2>2
<1>4. Min({a, b}) \in {a, b} /\ \A y \in {a, b} : Min({a, b}) <= y
  BY <1>3 DEF Min
<1> QED
  BY <1>2, <1>4

LEMMA LeastOfThree ==
  ASSUME NEW a \in Int, NEW b \in Int, NEW c \in Int
  PROVE  /\ Min({a, b, c}) \in Int
         /\ Min({a, b, c}) <= a /\ Min({a, b, c}) <= b /\ Min({a, b, c}) <= c
<1>1. \E x \in {a, b, c} : \A y \in {a, b, c} : x <= y
  <2>1. CASE a <= b /\ a <= c BY <2>1
  <2>2. CASE b <= a /\ b <= c BY <2>2
  <2>3. CASE c <= a /\ c <= b BY <2>3
  <2> QED BY <2>1, <2>2, <2>3
<1>2. Min({a, b, c}) \in {a, b, c} /\ \A y \in {a, b, c} : Min({a, b, c}) <= y
  BY <1>1 DEF Min
<1> QED
  BY <1>2

\* A value clamped between two bounds lies between them.
LEMMA Clamped ==
  ASSUME NEW low \in Int, NEW high \in Int, low <= high, NEW x \in Int
  PROVE  Max({low, Min({x, high})}) \in low .. high
<1>1. PICK m \in Int : m = Min({x, high}) /\ m <= high
  <2>1. Min({x, high}) = IF x <= high THEN x ELSE high
    BY PairClamps
  <2> QED
    BY <2>1
<1>2. Max({low, m}) = IF low >= m THEN low ELSE m
  BY PairClamps
<1> QED
  BY <1>1, <1>2

\* Division keeps the order.
LEMMA DivisionMonotone ==
  ASSUME NEW x \in Int, NEW y \in Int, x <= y, NEW n \in Nat \ {0}
  PROVE  x \div n \in Int /\ y \div n \in Int /\ x \div n <= y \div n
<1>1. /\ x \div n \in Int /\ n * (x \div n) <= x
      /\ y \div n \in Int /\ y < n * (y \div n) + n
  BY Division
<1>2. PICK p \in Int, q \in Int : p = x \div n /\ q = y \div n
  BY <1>1
<1>3. ASSUME p > q PROVE FALSE
  <2>1. n * (p - q - 1) >= 0
    BY <1>3
  <2>2. n * (p - q - 1) = n * p - n * q - n
    OBVIOUS
  <2> QED
    BY <2>1, <2>2, <1>1, <1>2
<1> QED
  BY <1>1, <1>2, <1>3

\* What moves from one value to 1000 in proportion is natural if it starts so.
LEMMA ScaleIsNatural ==
  ASSUME NEW low \in Nat, NEW first \in Nat, low < 1000, NEW k \in Nat, k <= 1000 - low
  PROVE  first + ((1000 - first) * k) \div (1000 - low) \in Nat
<1>1. PICK n \in Nat \ {0}, a \in Int, zero \in Int :
        n = 1000 - low /\ a = 1000 - first /\ zero = 0
  OBVIOUS
<1>2. k <= n
  BY <1>1
<1>3. a * k \in Int /\ n - k \in Nat
  BY <1>2
<1>4. a * (n - k) = a * n - a * k
  BY <1>2
<1>5. PICK q \in Int : q = (a * k) \div n /\ (0 <= q \/ a <= q)
  <2>1. CASE a >= 0
    <3>1. a * k >= 0
      BY <1>2, <2>1
    <3>2. zero * n <= a * k /\ a * k <= (a * k) * n
      <4>1. PICK p \in Nat : p = a * k
        BY <1>3, <3>1
      <4>2. p * (n - 1) >= 0 /\ p * (n - 1) = p * n - p
        OBVIOUS
      <4> QED
        BY <1>1, <4>1, <4>2
    <3>3. PICK p \in Int : p = a * k
      BY <1>3
    <3>4. p \div n \in Int /\ zero <= p \div n
      <4>1. zero * n <= p /\ p <= p * n
        BY <3>2, <3>3
      <4> QED
        BY <4>1, DivisionBetween
    <3> QED
      BY <1>1, <3>3, <3>4
  <2>2. CASE a < 0
    <3>1. a * k <= 0 /\ a * (n - k) <= 0
      BY <1>2, <1>3, <2>2
    <3>2. a * n <= a * k /\ a * k <= zero * n
      BY <3>1, <1>4, <1>1, <1>3
    <3>3. PICK p \in Int : p = a * k
      BY <1>3
    <3>4. p \div n \in Int /\ a <= p \div n
      <4>1. a * n <= p /\ p <= zero * n
        BY <3>2, <3>3
      <4> QED
        BY <4>1, DivisionBetween
    <3> QED
      BY <1>1, <3>3, <3>4
  <2> QED
    BY <2>1, <2>2
<1>6. first + q \in Nat
  BY <1>1, <1>5
<1>7. first + ((1000 - first) * k) \div (1000 - low) = first + q
  BY <1>1, <1>5
<1> QED
  BY <1>6, <1>7


\* A sum does not depend on what its terms are named by.
LEMMA SumRenamed ==
  ASSUME NEW S, IsFiniteSet(S), NEW F, NEW G, NEW b, \A x \in S : F[x] \in Int /\ F[x] = G[b[x]],
         \A x, y \in S : b[x] = b[y] => x = y
  PROVE  Sum(F, S) = Sum(G, {b[x] : x \in S})
<1> DEFINE Bad == {s \in SUBSET S : Sum(F, s) # Sum(G, {b[x] : x \in s})}
<1>1. ASSUME Bad # {} PROVE FALSE
  <2>1. Bad \subseteq FiniteSubsetsOf(S)
    BY FS_Subset DEF FiniteSubsetsOf
  <2> HIDE DEF Bad
  <2>2. PICK U \in Bad : \A W \in Bad : ~(<<W, U>> \in StrictSubsetOrdering(S))
    BY <1>1, <2>1, FS_StrictSubsetOrderingWellFounded, WFMin
  <2> USE DEF Bad
  <2>3. U \in SUBSET S /\ IsFiniteSet(U) /\ Sum(F, U) # Sum(G, {b[x] : x \in U})
    BY <2>2, FS_Subset
  <2>4. U # {}
    <3>1. ASSUME U = {} PROVE {b[x] : x \in U} = {}
      BY <3>1
    <3>2. Sum(F, {}) = 0 /\ Sum(G, {}) = 0
      BY SumPicks, FS_EmptySet
    <3> QED
      BY <2>3, <3>1, <3>2
  <2>5. PICK e \in U : TRUE
    BY <2>4
  <2> DEFINE W == U \ {e}
             T == {b[x] : x \in U}
  <2>6. W \in SUBSET S /\ W \subseteq U /\ W # U
    BY <2>3
  <2>7. W \notin Bad
    <3> HIDE DEF Bad
    <3> QED
      BY <2>1, <2>2, <2>3, <2>6 DEF StrictSubsetOrdering, FiniteSubsetsOf
  <2>8. Sum(F, W) = Sum(G, {b[x] : x \in W})
    BY <2>6, <2>7
  <2>9. {b[x] : x \in W} = T \ {b[e]} /\ b[e] \in T
    BY <2>3
  <2>10. Sum(F, U) = F[e] + Sum(F, W)
    BY <2>3, SumRemove
  <2>11. IsFiniteSet(T) /\ \A y \in T : G[y] \in Int
    <3>1. IsFiniteSet(T)
      <4> DEFINE h == [x \in U |-> b[x]]
      <4>1. h \in Surjection(U, T)
        BY DEF Surjection
      <4> QED
        BY <4>1, <2>3, FS_Surjection
    <3>2. ASSUME NEW x \in U PROVE G[b[x]] \in Int
      BY <2>3
    <3> QED
      BY <3>1, <3>2
  <2> HIDE DEF T
  <2>12. Sum(G, T) = G[b[e]] + Sum(G, T \ {b[e]})
    BY <2>9, <2>11, SumRemove
  <2>13. F[e] = G[b[e]]
    BY <2>3
  <2> QED
    BY <2>3, <2>8, <2>9, <2>10, <2>12, <2>13 DEF T
<1> QED
  BY <1>1

-----------------------------------------------------------------------------
(* Events.  The walk over a set of times counts as many events as can be   *)
(* chosen pairwise further apart than a window.                            *)

\* Instants of times at or after t.
From(times, t) == {u \in times : u >= t}
Spread(w, T) == \A t, u \in T : u < t => t - u > w

\* What the walk counts from t on, given what it counts from later instants on.
Counted(w, times, f, t) ==
    IF From(times, t) = {} THEN 0 ELSE 1 + f[Min(From(times, t)) + w + 1]
Walks(w, times, f) == f = [t \in Nat |-> Counted(w, times, f, t)]

LEMMA FirstOf ==
  ASSUME NEW times \in SUBSET Nat, NEW t \in Nat, From(times, t) # {}
  PROVE  /\ Min(From(times, t)) \in times /\ Min(From(times, t)) >= t
         /\ Min(From(times, t)) \in Nat
         /\ \A u \in From(times, t) : Min(From(times, t)) <= u
<1> DEFINE S == From(times, t)
<1>1. S \in SUBSET Nat /\ S # {}
  BY DEF From
<1> HIDE DEF S
<1>2. \E x \in S : \A y \in S : x <= y
  BY <1>1, LeastNatural
<1>3. Min(S) \in S /\ \A y \in S : Min(S) <= y
  BY <1>2 DEF Min
<1> QED
  BY <1>1, <1>3 DEF S, From

LEMMA NoneAfter ==
  ASSUME NEW last \in Nat, NEW times \in SUBSET (0 .. last), NEW t \in Nat, t > last
  PROVE  From(times, t) = {}
<1>1. ASSUME NEW u \in From(times, t) PROVE FALSE
  <2>1. u \in times /\ u >= t
    BY <1>1 DEF From
  <2>2. u \in 0 .. last
    BY <2>1
  <2> QED
    BY <2>1, <2>2
<1> QED
  BY <1>1

LEMMA AllFromZero ==
  ASSUME NEW times \in SUBSET Nat
  PROVE  From(times, 0) = times
<1>1. \A u \in times : u >= 0
  <2>1. \A u \in times : u \in Nat
    OBVIOUS
  <2> QED
    BY <2>1
<1> QED
  BY <1>1 DEF From

\* There is such a walk, by layers of the last n instants.
LEMMA WalkExists ==
  ASSUME NEW w \in Nat, NEW last \in Nat, NEW times \in SUBSET (0 .. last)
  PROVE  \E f : Walks(w, times, f)
<1> DEFINE P(n) == \E f : f = [t \in Nat |-> IF t + n > last THEN Counted(w, times, f, t) ELSE 0]
           Bad == {n \in Nat : ~P(n)}
<1>1. ASSUME NEW t \in Nat, From(times, t) # {}
      PROVE  LET next == Min(From(times, t)) + w + 1
             IN  next \in Nat /\ next > t
  <2>1. times \in SUBSET Nat
    OBVIOUS
  <2>2. PICK m \in Nat : m = Min(From(times, t)) /\ m >= t
    BY <1>1, <2>1, FirstOf
  <2> QED
    BY <2>2
<1>2. \A t \in Nat : t > last => From(times, t) = {}
  BY NoneAfter
<1>3. ASSUME Bad # {} PROVE FALSE
  <2>1. PICK n \in Bad : \A m \in Bad : n <= m
    BY <1>3, LeastNatural
  <2>2. n \in Nat /\ ~P(n)
    BY <2>1
  <2>3. CASE n = 0
    <3> DEFINE f == [t \in Nat |-> 0]
    <3>1. \A t \in Nat : t + n > last => Counted(w, times, f, t) = 0
      BY <1>2, <2>3 DEF Counted
    <3>2. f = [t \in Nat |-> IF t + n > last THEN Counted(w, times, f, t) ELSE 0]
      BY <3>1
    <3> QED
      BY <2>2, <3>2
  <2>4. CASE n # 0
    <3>1. n - 1 \in Nat /\ n - 1 \notin Bad
      <4>1. n - 1 \in Nat /\ ~(n <= n - 1)
        BY <2>2, <2>4
      <4> HIDE DEF Bad
      <4> QED
        BY <2>1, <4>1
    <3>2. PICK g : g = [t \in Nat |-> IF t + (n - 1) > last THEN Counted(w, times, g, t) ELSE 0]
      BY <3>1
    <3> DEFINE h == [t \in Nat |-> IF t + n > last THEN Counted(w, times, g, t) ELSE 0]
    <3>3. \A t \in Nat : t + (n - 1) > last => h[t] = g[t]
      <4> TAKE t \in Nat
      <4> HAVE t + (n - 1) > last
      <4>1. t + n > last
        BY <2>2
      <4> QED
        BY <3>2, <4>1
    <3>4. \A t \in Nat : t + n > last => Counted(w, times, h, t) = Counted(w, times, g, t)
      <4> SUFFICES ASSUME NEW t \in Nat, t + n > last, From(times, t) # {}
                   PROVE  Counted(w, times, h, t) = Counted(w, times, g, t)
        BY DEF Counted
      <4>1. PICK s \in Nat : s = Min(From(times, t)) + w + 1 /\ s > t
        BY <1>1
      <4>2. s + (n - 1) > last
        BY <2>2, <4>1
      <4>3. h[s] = g[s]
        BY <3>3, <4>2
      <4> HIDE DEF h
      <4> QED
        BY <4>1, <4>3 DEF Counted
    <3>5. h = [t \in Nat |-> IF t + n > last THEN Counted(w, times, h, t) ELSE 0]
      BY <3>4
    <3> QED
      BY <2>2, <3>5
  <2> QED
    BY <2>3, <2>4
<1>4. P(last + 1)
  <2>1. last + 1 \in Nat
    OBVIOUS
  <2> HIDE DEF P
  <2> QED
    BY <1>3, <2>1
<1>5. PICK f : f = [t \in Nat |-> IF t + (last + 1) > last THEN Counted(w, times, f, t) ELSE 0]
  BY <1>4
<1>6. \A t \in Nat : t + (last + 1) > last
  OBVIOUS
<1>7. f = [t \in Nat |-> Counted(w, times, f, t)]
  BY <1>5, <1>6
<1> QED
  BY <1>7 DEF Walks

\* What a walk counts from t on: so many events can be chosen, and no more.
Exact(w, times, t, n) ==
    /\ n \in Nat
    /\ \E T \in SUBSET From(times, t) : Spread(w, T) /\ Cardinality(T) = n
    /\ \A T \in SUBSET From(times, t) : Spread(w, T) => Cardinality(T) <= n

LEMMA WalkStep ==
  ASSUME NEW w \in Nat, NEW times \in SUBSET Nat, IsFiniteSet(times), NEW t \in Nat, From(times, t) # {},
         NEW n, Exact(w, times, Min(From(times, t)) + w + 1, n)
  PROVE  Exact(w, times, t, 1 + n)
<1>1. PICK m \in times : /\ m = Min(From(times, t)) /\ m \in Nat /\ m >= t
                         /\ \A u \in From(times, t) : m <= u
  BY FirstOf
<1>2. PICK s \in Nat : s = m + w + 1
  BY <1>1
<1>3. Exact(w, times, s, n)
  BY <1>1, <1>2
<1>4. From(times, s) \subseteq times /\ From(times, t) \subseteq times
  BY DEF From
<1>5. \E T \in SUBSET From(times, t) : Spread(w, T) /\ Cardinality(T) = 1 + n
  <2>1. PICK T \in SUBSET From(times, s) : Spread(w, T) /\ Cardinality(T) = n
    BY <1>3 DEF Exact
  <2>2. IsFiniteSet(T) /\ \A u \in T : u \in Nat /\ u >= s
    BY <1>4, <2>1, FS_Subset DEF From
  <2>3. m \notin T
    BY <1>1, <1>2, <2>2
  <2>4. T \cup {m} \in SUBSET From(times, t)
    <3>1. m \in From(times, t)
      BY <1>1 DEF From
    <3>2. ASSUME NEW u \in T PROVE u \in From(times, t)
      <4>1. u \in times /\ u \in Nat /\ u >= s
        BY <1>4, <2>1, <2>2
      <4>2. u >= t
        BY <4>1, <1>1, <1>2
      <4> QED
        BY <4>1, <4>2 DEF From
    <3> QED
      BY <3>1, <3>2
  <2>5. Spread(w, T \cup {m})
    BY <1>1, <1>2, <2>1, <2>2 DEF Spread
  <2>6. Cardinality(T \cup {m}) = 1 + n
    <3>1. Cardinality(T \cup {m}) = Cardinality(T) + 1
      BY <2>2, <2>3, FS_AddElement
    <3> QED
      BY <3>1, <2>1, <1>3 DEF Exact
  <2> QED
    BY <2>4, <2>5, <2>6
<1>6. ASSUME NEW T \in SUBSET From(times, t), Spread(w, T)
      PROVE  Cardinality(T) <= 1 + n
  <2>1. IsFiniteSet(T) /\ T \in SUBSET Nat
    BY <1>4, FS_Subset
  <2>2. CASE T = {}
    BY <2>2, FS_EmptySet, <1>3 DEF Exact
  <2>3. CASE T # {}
    <3>1. PICK a \in T : \A u \in T : a <= u
      BY <2>1, <2>3, LeastNatural
    <3>2. T \ {a} \in SUBSET From(times, s)
      <4> SUFFICES ASSUME NEW u \in T, u # a PROVE u \in From(times, s)
        OBVIOUS
      <4>1. u \in Nat /\ a \in Nat /\ a < u /\ m <= a /\ u \in times
        BY <1>1, <1>4, <2>1, <3>1
      <4>2. u - a > w
        BY <4>1, <1>6 DEF Spread
      <4> QED
        BY <1>1, <1>2, <4>1, <4>2 DEF From
    <3>3. Spread(w, T \ {a})
      BY <1>6 DEF Spread
    <3>4. Cardinality(T \ {a}) <= n
      BY <1>3, <3>2, <3>3 DEF Exact
    <3>5. Cardinality(T \ {a}) = Cardinality(T) - 1 /\ Cardinality(T) \in Nat
      BY <2>1, FS_RemoveElement, FS_CardinalityType
    <3> QED
      BY <3>4, <3>5, <1>3 DEF Exact
  <2> QED
    BY <2>2, <2>3
<1> QED
  BY <1>3, <1>5, <1>6 DEF Exact

LEMMA WalkCounts ==
  ASSUME NEW w \in Nat, NEW last \in Nat, NEW times \in SUBSET (0 .. last), NEW f, Walks(w, times, f),
         NEW t \in Nat
  PROVE  Exact(w, times, t, f[t])
<1> DEFINE Bad == {u \in 0 .. last : ~Exact(w, times, u, f[u])}
<1>0. times \in SUBSET Nat /\ IsFiniteSet(times) /\ IsFiniteSet(Bad) /\ Bad \in SUBSET Int
  <2>1. PICK all : all = 0 .. last /\ IsFiniteSet(all) /\ all \subseteq Nat
    <3>1. IsFiniteSet(0 .. last)
      BY FS_Interval
    <3>2. 0 .. last \subseteq Nat
      OBVIOUS
    <3> QED
      BY <3>1, <3>2
  <2>2. times \in SUBSET all /\ Bad \in SUBSET all
    BY <2>1
  <2> HIDE DEF Bad
  <2>3. IsFiniteSet(times) /\ IsFiniteSet(Bad)
    BY <2>1, <2>2, FS_Subset
  <2>4. times \in SUBSET Nat /\ Bad \in SUBSET Nat
    BY <2>1, <2>2
  <2>5. Bad \in SUBSET Int
    BY <2>4
  <2> QED
    BY <2>3, <2>4, <2>5
<1>1. ASSUME NEW u \in Nat PROVE f[u] = Counted(w, times, f, u)
  <2>1. f = [v \in Nat |-> Counted(w, times, f, v)]
    BY DEF Walks
  <2> QED
    BY <2>1
<1>2. ASSUME NEW u \in Nat, From(times, u) = {} PROVE Exact(w, times, u, f[u])
  <2>1. f[u] = 0
    BY <1>1, <1>2 DEF Counted
  <2>2. Spread(w, {}) /\ Cardinality({}) = 0
    BY FS_EmptySet DEF Spread
  <2>3. \A T \in SUBSET From(times, u) : T = {}
    BY <1>2
  <2>4. {} \in SUBSET From(times, u)
    OBVIOUS
  <2>5. Exact(w, times, u, 0)
    BY <2>2, <2>3, <2>4 DEF Exact
  <2> QED
    BY <2>1, <2>5
<1>3. ASSUME NEW u \in Nat, u > last PROVE Exact(w, times, u, f[u])
  <2>1. From(times, u) = {}
    BY <1>3, NoneAfter
  <2> QED
    BY <2>1, <1>2
<1>4. ASSUME Bad # {} PROVE FALSE
  <2>1. PICK b \in Bad : \A u \in Bad : u <= b
    BY <1>0, <1>4, GreatestInteger
  <2>2. b \in Nat /\ ~Exact(w, times, b, f[b])
    BY <2>1
  <2>3. From(times, b) # {}
    BY <2>2, <1>2
  <2>4. PICK m \in Nat : m = Min(From(times, b)) /\ m >= b
    BY <1>0, <2>2, <2>3, FirstOf
  <2>5. PICK s \in Nat : s = m + w + 1 /\ s > b
    BY <2>2, <2>4
  <2>6. Exact(w, times, s, f[s])
    <3>1. CASE s > last
      BY <3>1, <1>3
    <3>2. CASE s <= last
      <4>1. s \in 0 .. last /\ ~(s <= b)
        BY <3>2, <2>2, <2>5
      <4>2. s \notin Bad
        <5> HIDE DEF Bad
        <5> QED
          BY <4>1, <2>1
      <4> QED
        BY <4>1, <4>2
    <3> QED
      BY <3>1, <3>2
  <2>7. Exact(w, times, b, 1 + f[s])
    BY <1>0, <2>2, <2>3, <2>4, <2>5, <2>6, WalkStep
  <2>8. f[b] = 1 + f[s]
    BY <1>1, <2>2, <2>3, <2>4, <2>5 DEF Counted
  <2> QED
    BY <2>2, <2>7, <2>8
<1>5. CASE t > last
  BY <1>5, <1>3
<1>6. CASE t <= last
  BY <1>6, <1>4
<1> QED
  BY <1>5, <1>6
=============================================================================
