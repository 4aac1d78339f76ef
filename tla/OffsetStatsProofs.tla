--------------------------- MODULE OffsetStatsProofs ---------------------------
(***************************************************************************)
(* What StatsOf returns, for every list of samples. A sum is a fold over   *)
(* the places of the list, that is, a recursive function over their        *)
(* subsets; the proofs argue by a smallest counterexample, which exists    *)
(* since strict inclusion of finite sets is well-founded.                  *)
(***************************************************************************)
EXTENDS OffsetStats, FiniteSetTheorems, TLAPS

\* Of any family of subsets of a finite set, one has no smaller one in it.
LEMMA SmallestSubset ==
  ASSUME NEW S, IsFiniteSet(S), NEW F, F \subseteq SUBSET S, F # {}
  PROVE  \E T \in F : \A U \in SUBSET T : U # T => U \notin F
<1>1. IsWellFoundedOn(StrictSubsetOrdering(S), SUBSET S)
  BY FS_FiniteSubsetsOfFinite, FS_StrictSubsetOrderingWellFounded
<1>2. PICK T \in F : \A U \in F : <<U, T>> \notin StrictSubsetOrdering(S)
  BY <1>1, WFMin
<1>3. ASSUME NEW U \in SUBSET T, U # T, U \in F PROVE FALSE
  <2>1. <<U, T>> \in StrictSubsetOrdering(S)
    BY <1>3 DEF StrictSubsetOrdering
  <2> QED BY <1>2, <1>3, <2>1
<1> QED BY <1>3

-----------------------------------------------------------------------------
(* Sums *)

Chosen(s) == CHOOSE x \in s : TRUE

\* What the sum over s is, if g gives those over smaller sets.
SumStep(f, s, g) == IF s = {} THEN 0 ELSE f[Chosen(s)] + g[s \ {Chosen(s)}]

\* The functions that give the sum of f over each subset of S.
Sums(f, S) == {g \in [SUBSET S -> Int] : \A s \in SUBSET S : g[s] = SumStep(f, s, g)}

LEMMA ChosenIsIn == ASSUME NEW s, s # {} PROVE Chosen(s) \in s
BY DEF Chosen

LEMMA SumsAgree ==
  ASSUME NEW S, IsFiniteSet(S), NEW f, NEW g \in Sums(f, S), NEW h \in Sums(f, S)
  PROVE  g = h
<1> DEFINE F == {s \in SUBSET S : g[s] # h[s]}
<1>1. /\ g \in [SUBSET S -> Int] /\ \A s \in SUBSET S : g[s] = SumStep(f, s, g)
      /\ h \in [SUBSET S -> Int] /\ \A s \in SUBSET S : h[s] = SumStep(f, s, h)
  BY DEF Sums
<1>2. CASE F = {}
  BY <1>1, <1>2
<1>3. CASE F # {}
  <2>0. F \subseteq SUBSET S
    OBVIOUS
  <2>1. PICK s \in F : \A U \in SUBSET s : U # s => U \notin F
    <3> HIDE DEF F
    <3> QED BY <1>3, <2>0, SmallestSubset
  <2>2. s # {} => Chosen(s) \in s
    BY ChosenIsIn
  <2>3. s # {} => g[s \ {Chosen(s)}] = h[s \ {Chosen(s)}]
    BY <2>1, <2>2
  <2>4. SumStep(f, s, g) = SumStep(f, s, h)
    BY <2>3 DEF SumStep
  <2> QED BY <1>1, <2>1, <2>4
<1> QED BY <1>2, <1>3

LEMMA SumsWithin ==
  ASSUME NEW S, NEW f, NEW g \in Sums(f, S), NEW T \in SUBSET S
  PROVE  [s \in SUBSET T |-> g[s]] \in Sums(f, T)
<1> DEFINE h == [s \in SUBSET T |-> g[s]]
<1>1. g \in [SUBSET S -> Int] /\ \A s \in SUBSET S : g[s] = SumStep(f, s, g)
  BY DEF Sums
<1>2. h \in [SUBSET T -> Int]
  BY <1>1
<1>3. ASSUME NEW s \in SUBSET T PROVE h[s] = SumStep(f, s, h)
  <2>1. h[s] = SumStep(f, s, g)
    BY <1>1
  <2>2. h[s \ {Chosen(s)}] = g[s \ {Chosen(s)}]
    OBVIOUS
  <2> QED BY <2>1, <2>2 DEF SumStep
<1> QED BY <1>2, <1>3 DEF Sums

LEMMA SumsExist ==
  ASSUME NEW S, IsFiniteSet(S), NEW f, \A x \in S : f[x] \in Int
  PROVE  Sums(f, S) # {}
<1> DEFINE F == {T \in SUBSET S : Sums(f, T) = {}}
<1> SUFFICES ASSUME F # {} PROVE FALSE
  OBVIOUS
<1>0. F \subseteq SUBSET S
  OBVIOUS
<1>1. PICK T \in F : \A U \in SUBSET T : U # T => U \notin F
  <2> HIDE DEF F
  <2> QED BY <1>0, SmallestSubset
<1>2. T \in SUBSET S /\ Sums(f, T) = {} /\ IsFiniteSet(T)
  BY FS_Subset
<1> DEFINE G == [U \in SUBSET T |-> CHOOSE g : g \in Sums(f, U)]
           top == IF T = {} THEN 0
                  ELSE f[Chosen(T)] + G[T \ {Chosen(T)}][T \ {Chosen(T)}]
           h == [s \in SUBSET T |-> IF s = T THEN top ELSE G[s][s]]
<1>3. ASSUME NEW U \in SUBSET T, U # T PROVE G[U] \in Sums(f, U)
  <2>1. Sums(f, U) # {}
    BY <1>1, <1>2, <1>3
  <2> QED BY <2>1
<1>4. ASSUME NEW U \in SUBSET T, U # T PROVE G[U] \in [SUBSET U -> Int] /\ G[U][U] \in Int
  BY <1>3, <1>4 DEF Sums
<1>5. top \in Int
  <2>1. CASE T = {}
    BY <2>1
  <2>2. CASE T # {}
    <3>1. Chosen(T) \in T /\ f[Chosen(T)] \in Int
      BY <1>2, <2>2, ChosenIsIn
    <3>2. T \ {Chosen(T)} \in SUBSET T /\ T \ {Chosen(T)} # T
      BY <3>1
    <3>3. G[T \ {Chosen(T)}][T \ {Chosen(T)}] \in Int
      BY <1>4, <3>2
    <3> HIDE DEF G
    <3> QED BY <2>2, <3>1, <3>3
  <2> QED BY <2>1, <2>2
<1>6. h \in [SUBSET T -> Int]
  BY <1>4, <1>5
<1>7. ASSUME NEW s \in SUBSET T PROVE h[s] = SumStep(f, s, h)
  <2>1. s # {} => Chosen(s) \in s
    BY ChosenIsIn
  <2>2. CASE s = T
    BY <2>1, <2>2 DEF SumStep
  <2>3. CASE s # T
    <3> DEFINE r == s \ {Chosen(s)}
    <3>1. h[s] = SumStep(f, s, G[s])
      BY <1>3, <2>3 DEF Sums
    <3>2. ASSUME s # {} PROVE G[s][r] = h[r]
      <4>1. r \in SUBSET s /\ r \in SUBSET T /\ r # T /\ IsFiniteSet(r)
        BY <1>2, <2>1, <3>2, FS_Subset
      <4>2. [u \in SUBSET r |-> G[s][u]] \in Sums(f, r)
        BY <1>3, <2>3, <4>1, SumsWithin
      <4>3. [u \in SUBSET r |-> G[s][u]] = G[r]
        BY <1>3, <4>1, <4>2, SumsAgree
      <4>4. [u \in SUBSET r |-> G[s][u]][r] = G[s][r]
        OBVIOUS
      <4>5. h[r] = G[r][r]
        BY <4>1
      <4> QED BY <4>3, <4>4, <4>5
    <3> QED BY <3>1, <3>2 DEF SumStep
  <2> QED BY <2>2, <2>3
<1>8. h \in Sums(f, T)
  BY <1>6, <1>7 DEF Sums
<1> QED BY <1>2, <1>8

\* What the fold in SumFunctionOnSet is.
LEMMA SumIs ==
  ASSUME NEW S, IsFiniteSet(S), NEW f, \A x \in S : f[x] \in Int, NEW g \in Sums(f, S)
  PROVE  SumFunctionOnSet(f, S) = g[S]
<1> DEFINE Rec(h) == h = [s \in SUBSET S |-> SumStep(f, s, h)]
<1>1. SumFunctionOnSet(f, S) = (CHOOSE h : Rec(h))[S]
  BY DEF SumFunctionOnSet, FoldFunctionOnSet, MapThenFoldSet, SumStep, Chosen
<1>2. Rec(g)
  BY DEF Sums
<1>3. ASSUME NEW h, Rec(h) PROVE h \in Sums(f, S)
  <2> DEFINE F == {s \in SUBSET S : h[s] \notin Int}
  <2>1. \A s \in SUBSET S : h[s] = SumStep(f, s, h)
    BY <1>3
  <2>2. F = {}
    <3> SUFFICES ASSUME F # {} PROVE FALSE
      OBVIOUS
    <3>0. F \subseteq SUBSET S
      OBVIOUS
    <3>1. PICK s \in F : \A U \in SUBSET s : U # s => U \notin F
      <4> HIDE DEF F
      <4> QED BY <3>0, SmallestSubset
    <3>2. s # {} => Chosen(s) \in s /\ f[Chosen(s)] \in Int
      BY ChosenIsIn
    <3>3. s # {} => h[s \ {Chosen(s)}] \in Int
      BY <3>1, <3>2
    <3> QED BY <2>1, <3>2, <3>3 DEF SumStep
  <2> HIDE DEF F
  <2>3. \A s \in SUBSET S : h[s] \in Int
    BY <2>2 DEF F
  <2>4. h \in [SUBSET S -> Int]
    BY <1>3, <2>3
  <2> QED BY <2>1, <2>4 DEF Sums
<1> DEFINE c == CHOOSE h : Rec(h)
<1>4. Rec(c)
  BY <1>2
<1> HIDE DEF Rec
<1>5. c \in Sums(f, S)
  BY <1>3, <1>4
<1>6. c = g
  BY <1>5, SumsAgree
<1> QED BY <1>1, <1>6

LEMMA SumDef ==
  ASSUME NEW S, IsFiniteSet(S), NEW f, \A x \in S : f[x] \in Int
  PROVE  /\ SumFunctionOnSet(f, S) \in Int
         /\ S = {} => SumFunctionOnSet(f, S) = 0
         /\ S # {} => SumFunctionOnSet(f, S) =
                        f[Chosen(S)] + SumFunctionOnSet(f, S \ {Chosen(S)})
<1>1. PICK g : g \in Sums(f, S)
  BY SumsExist
<1>2. SumFunctionOnSet(f, S) = g[S] /\ g[S] \in Int /\ g[S] = SumStep(f, S, g)
  BY <1>1, SumIs DEF Sums
<1>3. ASSUME S # {}
      PROVE  SumFunctionOnSet(f, S \ {Chosen(S)}) = g[S \ {Chosen(S)}]
  <2> DEFINE R == S \ {Chosen(S)}
  <2>1. IsFiniteSet(R) /\ R \in SUBSET S /\ \A x \in R : f[x] \in Int
    BY FS_Subset
  <2>2. [s \in SUBSET R |-> g[s]] \in Sums(f, R)
    BY <1>1, <2>1, SumsWithin
  <2>3. SumFunctionOnSet(f, R) = [s \in SUBSET R |-> g[s]][R]
    BY <2>1, <2>2, SumIs
  <2> QED BY <2>3
<1> QED BY <1>2, <1>3 DEF SumStep

LEMMA OneMore ==
  ASSUME NEW c \in Nat, NEW m \in Int
  PROVE  c * m \in Int /\ (c + 1) * m = c * m + m
OBVIOUS

\* A sum lies between as many times the least and the greatest it adds.
LEMMA SumBounds ==
  ASSUME NEW S, IsFiniteSet(S), NEW f, NEW low \in Int, NEW high \in Int,
         \A x \in S : f[x] \in Int /\ low <= f[x] /\ f[x] <= high
  PROVE  /\ SumFunctionOnSet(f, S) \in Int
         /\ Cardinality(S) * low <= SumFunctionOnSet(f, S)
         /\ SumFunctionOnSet(f, S) <= Cardinality(S) * high
<1> DEFINE Bounded(T) == /\ Cardinality(T) * low <= SumFunctionOnSet(f, T)
                         /\ SumFunctionOnSet(f, T) <= Cardinality(T) * high
           F == {T \in SUBSET S : ~Bounded(T)}
<1>1. SumFunctionOnSet(f, S) \in Int
  BY SumDef
<1>2. F = {}
  <2> SUFFICES ASSUME F # {} PROVE FALSE
    OBVIOUS
  <2>1. F \subseteq SUBSET S
    OBVIOUS
  <2>2. PICK T \in F : \A U \in SUBSET T : U # T => U \notin F
    <3> HIDE DEF F
    <3> QED BY <2>1, SmallestSubset
  <2>3. T \in SUBSET S /\ IsFiniteSet(T) /\ ~Bounded(T) /\ \A x \in T : f[x] \in Int
    BY FS_Subset
  <2>4. CASE T = {}
    <3>1. Cardinality(T) = 0 /\ SumFunctionOnSet(f, T) = 0
      BY <2>3, <2>4, SumDef, FS_EmptySet
    <3> QED BY <2>3, <3>1
  <2>5. CASE T # {}
    <3> DEFINE x == Chosen(T)
               R == T \ {x}
    <3>1. x \in T
      BY <2>5, ChosenIsIn
    <3>2. R \in SUBSET T /\ R # T /\ R \in SUBSET S
      BY <2>3, <3>1
    <3>3. Bounded(R)
      BY <2>2, <3>2
    <3>4. /\ IsFiniteSet(R) /\ Cardinality(R) \in Nat
          /\ Cardinality(T) = Cardinality(R) + 1
      <4>1. IsFiniteSet(R) /\ Cardinality(R) = Cardinality(T) - 1
        BY <2>3, <3>1, FS_RemoveElement
      <4>2. Cardinality(R) \in Nat /\ Cardinality(T) \in Nat
        BY <2>3, <4>1, FS_CardinalityType
      <4> QED BY <4>1, <4>2
    <3>5. SumFunctionOnSet(f, R) \in Int
      BY <2>3, <3>2, <3>4, SumDef
    <3>6. SumFunctionOnSet(f, T) = f[x] + SumFunctionOnSet(f, R)
      BY <2>3, <2>5, SumDef
    <3>7. f[x] \in Int /\ low <= f[x] /\ f[x] <= high
      BY <2>3, <3>1
    <3> HIDE DEF x, R
    <3>8. /\ (Cardinality(R) + 1) * low = Cardinality(R) * low + low
          /\ (Cardinality(R) + 1) * high = Cardinality(R) * high + high
          /\ Cardinality(R) * low \in Int /\ Cardinality(R) * high \in Int
      BY <3>4, OneMore
    <3>9. Bounded(T)
      BY <3>3, <3>4, <3>5, <3>6, <3>7, <3>8
    <3> QED BY <2>3, <3>9
  <2> QED BY <2>4, <2>5
<1> QED BY <1>1, <1>2

-----------------------------------------------------------------------------
(* Extremes *)

LEMMA MaxIs ==
  ASSUME NEW S \in SUBSET Int, IsFiniteSet(S), S # {}
  PROVE  Max(S) \in S /\ \A y \in S : y <= Max(S)
<1> DEFINE Top(T) == \E x \in T : \A y \in T : x >= y
           F == {T \in SUBSET S : T # {} /\ ~Top(T)}
<1>1. F = {}
  <2> SUFFICES ASSUME F # {} PROVE FALSE
    OBVIOUS
  <2>1. F \subseteq SUBSET S
    OBVIOUS
  <2>2. PICK T \in F : \A U \in SUBSET T : U # T => U \notin F
    <3> HIDE DEF F
    <3> QED BY <2>1, SmallestSubset
  <2>3. PICK x \in T : TRUE
    OBVIOUS
  <2> DEFINE R == T \ {x}
  <2>4. R \in SUBSET T /\ R # T /\ R \in SUBSET S /\ x \in Int /\ T = R \cup {x}
    BY <2>3
  <2>5. CASE R = {}
    <3>1. T = {x} /\ x >= x
      BY <2>4, <2>5
    <3>2. Top(T)
      BY <3>1
    <3> QED BY <3>2
  <2>6. CASE R # {}
    <3>1. PICK m \in R : \A y \in R : m >= y
      BY <2>2, <2>4, <2>6
    <3>2. m \in Int /\ m \in T /\ \A y \in R : y \in Int
      BY <2>4, <3>1
    <3>3. CASE m >= x
      <4>1. \A y \in T : m >= y
        BY <2>4, <3>1, <3>3
      <4> QED BY <3>2, <4>1
    <3>4. CASE x >= m
      <4>1. \A y \in T : x >= y
        BY <2>4, <3>1, <3>2, <3>4
      <4> QED BY <2>3, <4>1
    <3> QED BY <2>4, <3>2, <3>3, <3>4
  <2> QED BY <2>5, <2>6
<1>2. \E x \in S : \A y \in S : x >= y
  BY <1>1
<1>3. Max(S) \in S /\ \A y \in S : Max(S) >= y
  BY <1>2 DEF Max
<1> QED BY <1>3

LEMMA MinIs ==
  ASSUME NEW S \in SUBSET Int, IsFiniteSet(S), S # {}
  PROVE  Min(S) \in S /\ \A y \in S : Min(S) <= y
<1> DEFINE N == {-x : x \in S}
<1>1. N \in SUBSET Int /\ N # {}
  <2>1. \A x \in S : -x \in Int
    OBVIOUS
  <2> QED BY <2>1
<1>2. IsFiniteSet(N)
  <2> DEFINE f == [x \in S |-> -x]
  <2>1. f \in Surjection(S, N)
    BY DEF Surjection
  <2> QED BY <2>1, FS_Surjection
<1>3. PICK x \in S : Max(N) = -x
  BY <1>1, <1>2, MaxIs
<1>4. \A y \in S : -y <= Max(N)
  BY <1>1, <1>2, MaxIs
<1>5. \A y \in S : x =< y
  <2>1. \A y \in S : y \in Int
    OBVIOUS
  <2> HIDE DEF N
  <2> QED BY <1>3, <1>4, <2>1
<1>6. Min(S) \in S /\ \A y \in S : Min(S) =< y
  BY <1>5 DEF Min
<1> QED BY <1>6

-----------------------------------------------------------------------------
(* The figures *)

\* Division by a positive number rounds down, and stays between bounds that
\* hold for the dividend.
LEMMA QuotientBounds ==
  ASSUME NEW n \in Nat, n > 0, NEW total \in Int, NEW low \in Int, NEW high \in Int,
         n * low <= total, total <= n * high
  PROVE  /\ total \div n \in Int
         /\ low <= total \div n /\ total \div n <= high
<1> DEFINE q == total \div n
<1>1. q \in Int /\ n * q <= total /\ total < n * q + n
  OBVIOUS
<1> HIDE DEF q
<1>2. ASSUME q < low PROVE FALSE
  <2>1. n * (q + 1) <= n * low /\ n * (q + 1) = n * q + n
    BY <1>1, <1>2
  <2> QED BY <1>1, <2>1
<1>3. ASSUME q > high PROVE FALSE
  <2>1. n * (high + 1) <= n * q /\ n * (high + 1) = n * high + n
    BY <1>1, <1>3
  <2> QED BY <1>1, <2>1
<1>4. q \in Int /\ low <= q /\ q <= high
  BY <1>1, <1>2, <1>3
<1> QED BY <1>4 DEF q

\* For every non-empty list: the least sample, the floored average and the
\* greatest are in that order, and every sample is between the extremes.
THEOREM StatsAreBounds ==
  ASSUME NEW samples \in Seq(Int), samples # <<>>
  PROVE  /\ StatsOf(samples) \in [avg : Int, max : Int, min : Int]
         /\ StatsOf(samples).min <= StatsOf(samples).avg
         /\ StatsOf(samples).avg <= StatsOf(samples).max
         /\ \A i \in DOMAIN samples : /\ StatsOf(samples).min <= samples[i]
                                      /\ samples[i] <= StatsOf(samples).max
<1> DEFINE n == Len(samples)
           S == ToSet(samples)
<1>1. n \in Nat /\ n > 0 /\ DOMAIN samples = 1..n /\ \A i \in 1..n : samples[i] \in Int
  OBVIOUS
<1>2. S \in SUBSET Int /\ S # {} /\ \A i \in 1..n : samples[i] \in S
  BY <1>1 DEF ToSet
<1>3. IsFiniteSet(1..n) /\ Cardinality(1..n) = n
  BY <1>1, FS_Interval
<1>4. IsFiniteSet(S)
  <2>1. samples \in Surjection(1..n, S)
    BY <1>1 DEF Surjection, ToSet
  <2> QED BY <1>3, <2>1, FS_Surjection
<1>5. /\ Max(S) \in Int /\ Min(S) \in Int
      /\ \A i \in 1..n : Min(S) <= samples[i] /\ samples[i] <= Max(S)
  BY <1>2, <1>4, MaxIs, MinIs
<1> HIDE DEF S
<1>6. /\ SumFunctionOnSet(samples, 1..n) \in Int
      /\ n * Min(S) <= SumFunctionOnSet(samples, 1..n)
      /\ SumFunctionOnSet(samples, 1..n) <= n * Max(S)
  BY <1>1, <1>3, <1>5, SumBounds
<1>7. SumFunction(samples) = SumFunctionOnSet(samples, 1..n)
  BY <1>1 DEF SumFunction
<1>8. /\ SumFunction(samples) \div n \in Int
      /\ Min(S) <= SumFunction(samples) \div n
      /\ SumFunction(samples) \div n <= Max(S)
  BY <1>1, <1>5, <1>6, <1>7, QuotientBounds
<1>9. StatsOf(samples) = [avg |-> SumFunction(samples) \div n, max |-> Max(S), min |-> Min(S)]
  BY DEF StatsOf, S
<1> QED BY <1>1, <1>5, <1>8, <1>9
=============================================================================
