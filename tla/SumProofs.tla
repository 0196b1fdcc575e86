------------------------------- MODULE SumProofs -------------------------------
(***************************************************************************)
(* Facts about Min, Max and MapThenSumSet over finite sets. The induction  *)
(* is that over the finite sets, whose strict order is well founded: what  *)
(* is wrong for some set is wrong for a smallest one.                      *)
(***************************************************************************)
EXTENDS Integers, FiniteSetsExt, FiniteSetTheorems, TLAPS

\* The sum of the weights of S, as the specifications write it.
Sum(w, S) == MapThenSumSet(LAMBDA i : w[i], S)

\* A set of finite sets that is not empty has a smallest one.
LEMMA Smallest ==
  ASSUME NEW Bad, Bad # {}, \A T \in Bad : IsFiniteSet(T)
  PROVE  \E T \in Bad : \A U \in Bad : U \subseteq T => U = T
<1> DEFINE All == UNION Bad
<1>1. Bad \subseteq FiniteSubsetsOf(All)
  BY DEF FiniteSubsetsOf
<1>2. IsWellFoundedOn(StrictSubsetOrdering(All), FiniteSubsetsOf(All))
  BY FS_StrictSubsetOrderingWellFounded
<1>3. PICK T \in Bad : \A U \in Bad : ~ (<<U, T>> \in StrictSubsetOrdering(All))
  BY <1>1, <1>2, WFMin
<1> QED
  BY <1>3 DEF StrictSubsetOrdering

\* The least number of a set.
LEMMA MinIn ==
  ASSUME NEW S \in SUBSET Nat, S # {}
  PROVE  Min(S) \in S /\ \A y \in S : Min(S) <= y
<1> DEFINE Bad == {0 .. n : n \in S}
<1>1. ASSUME NEW T \in Bad
      PROVE  IsFiniteSet(T)
  <2>1. PICK n \in S : T = 0 .. n
    OBVIOUS
  <2>2. 0 \in Int /\ n \in Int
    OBVIOUS
  <2> QED
    BY <2>1, <2>2, FS_Interval
<1>2. Bad # {}
  <2>1. PICK m : m \in S
    OBVIOUS
  <2> QED
    BY <2>1
<1>3. \E T \in Bad : \A U \in Bad : U \subseteq T => U = T
  <2> HIDE DEF Bad
  <2> QED
    BY <1>1, <1>2, Smallest
<1>4. PICK T \in Bad : \A U \in Bad : U \subseteq T => U = T
  BY <1>3
<1>5. PICK n \in S : T = 0 .. n
  OBVIOUS
<1>6. \A y \in S : n <= y
  <2> SUFFICES ASSUME NEW y \in S, y < n
               PROVE  FALSE
    OBVIOUS
  <2>1. 0 .. y \in Bad /\ 0 .. y \subseteq T /\ n \in T /\ n \notin 0 .. y
    BY <1>5
  <2> QED
    BY <1>4, <2>1
<1> QED
  BY <1>6 DEF Min

\* The greatest number of a set with a bound.
LEMMA MaxIn ==
  ASSUME NEW n \in Nat, NEW S \in SUBSET (0 .. n), S # {}
  PROVE  Max(S) \in S /\ \A y \in S : Max(S) >= y
<1> DEFINE T == {n - x : x \in S}
<1>1. T \in SUBSET Nat /\ T # {}
  <2>1. \A x \in S : n - x \in Nat
    OBVIOUS
  <2>2. PICK x : x \in S
    OBVIOUS
  <2>3. n - x \in T
    BY <2>2
  <2> QED
    BY <2>1, <2>3
<1>2. Min(T) \in T /\ \A y \in T : Min(T) <= y
  <2> HIDE DEF T
  <2> QED
    BY <1>1, MinIn
<1>3. PICK x \in S : Min(T) = n - x
  BY <1>2
<1>4. ASSUME NEW y \in S
      PROVE  x >= y
  <2>1. n - x <= n - y
    BY <1>2, <1>3
  <2> QED
    BY <2>1
<1> QED
  BY <1>4, Zenon DEF Max

\* A number of a set that none exceeds is its greatest, one that exceeds none its least.
LEMMA MaxIsBound ==
  ASSUME NEW S \in SUBSET Int, NEW m \in S, \A y \in S : y <= m
  PROVE  Max(S) = m
<1>1. \E x \in S : \A y \in S : x >= y
  OBVIOUS
<1>2. Max(S) \in S /\ \A y \in S : Max(S) >= y
  BY <1>1, Zenon DEF Max
<1>3. \A x, y \in Int : x >= y /\ x <= y => x = y
  OBVIOUS
<1>4. Max(S) \in Int /\ m \in Int /\ Max(S) >= m /\ Max(S) <= m
  BY <1>2
<1> QED
  BY <1>3, <1>4

\* A member below all others is the least.
LEMMA MinIsBound ==
  ASSUME NEW S \in SUBSET Int, NEW m \in S, \A y \in S : m <= y
  PROVE  Min(S) = m
<1>1. \E x \in S : \A y \in S : x <= y
  OBVIOUS
<1>2. Min(S) \in S /\ \A y \in S : Min(S) <= y
  BY <1>1, Zenon DEF Min
<1>3. \A x, y \in Int : x >= y /\ x <= y => x = y
  OBVIOUS
<1>4. Min(S) \in Int /\ m \in Int /\ Min(S) >= m /\ Min(S) <= m
  BY <1>2
<1> QED
  BY <1>3, <1>4

-----------------------------------------------------------------------------
(* Sums                                                                    *)

\* What the fold of MapThenSumSet is.
Some(S) == CHOOSE x \in S : TRUE
IsFold(f, S, w) ==
  f = [T \in SUBSET S |-> IF T = {} THEN 0 ELSE w[Some(T)] + f[T \ {Some(T)}]]

\* The element that a fold takes first.
LEMMA SomeIn ==
  ASSUME NEW S, S # {}
  PROVE  Some(S) \in S /\ S \ {Some(S)} \subseteq S /\ S \ {Some(S)} # S
BY DEF Some

\* What a fold is at a set.
LEMMA FoldAt ==
  ASSUME NEW S, NEW w, NEW f, IsFold(f, S, w), NEW T \in SUBSET S
  PROVE  f[T] = IF T = {} THEN 0 ELSE w[Some(T)] + f[T \ {Some(T)}]
BY DEF IsFold

\* A fold depends on the weights only, and on those of its set.
LEMMA FoldUnique ==
  ASSUME NEW S, NEW R, NEW w, NEW v, NEW f, NEW g, IsFold(f, S, w), IsFold(g, R, v),
         NEW D, IsFiniteSet(D), D \subseteq S, D \subseteq R, \A x \in D : w[x] = v[x]
  PROVE  f[D] = g[D]
<1> DEFINE Bad == {T \in SUBSET D : f[T] # g[T]}
<1>1. SUFFICES ASSUME Bad # {} PROVE FALSE
  OBVIOUS
<1>2. \A T \in Bad : IsFiniteSet(T)
  BY FS_Subset
<1>3. \E T \in Bad : \A U \in Bad : U \subseteq T => U = T
  <2> HIDE DEF Bad
  <2> QED
    BY <1>1, <1>2, Smallest
<1>4. PICK T \in Bad : \A U \in Bad : U \subseteq T => U = T
  BY <1>3
<1>5. T \subseteq D /\ f[T] # g[T] /\ T \in SUBSET S /\ T \in SUBSET R
  OBVIOUS
<1>6. f[T] = IF T = {} THEN 0 ELSE w[Some(T)] + f[T \ {Some(T)}]
  BY <1>5, FoldAt
<1>7. g[T] = IF T = {} THEN 0 ELSE v[Some(T)] + g[T \ {Some(T)}]
  BY <1>5 DEF IsFold
<1>8. T # {}
  BY <1>5, <1>6, <1>7
<1>9. Some(T) \in T /\ T \ {Some(T)} \subseteq T /\ T \ {Some(T)} # T
  BY <1>8, SomeIn
<1>10. f[T \ {Some(T)}] = g[T \ {Some(T)}]
  BY <1>4, <1>5, <1>9
<1>11. w[Some(T)] = v[Some(T)]
  BY <1>5, <1>9
<1> QED
  BY <1>5, <1>6, <1>7, <1>8, <1>10, <1>11

\* Every finite set has a fold.
LEMMA FoldExists ==
  ASSUME NEW D, IsFiniteSet(D), NEW w
  PROVE  \E f : IsFold(f, D, w)
<1> DEFINE Bad == {T \in SUBSET D : ~ \E f : IsFold(f, T, w)}
<1>1. SUFFICES ASSUME Bad # {} PROVE FALSE
  OBVIOUS
<1>2. \A T \in Bad : IsFiniteSet(T)
  BY FS_Subset
<1>3. \E T \in Bad : \A U \in Bad : U \subseteq T => U = T
  <2> HIDE DEF Bad
  <2> QED
    BY <1>1, <1>2, Smallest
<1>4. PICK T \in Bad : \A U \in Bad : U \subseteq T => U = T
  BY <1>3
<1> DEFINE g(U) == CHOOSE f : IsFold(f, U, w)
           F == [U \in SUBSET T |->
                  IF U = {} THEN 0 ELSE w[Some(U)] + g(U \ {Some(U)})[U \ {Some(U)}]]
<1>5. ASSUME NEW U, U \subseteq T, U # T
      PROVE  IsFold(g(U), U, w)
  <2>1. \E f : IsFold(f, U, w)
    BY <1>4, <1>5
  <2> QED
    BY <2>1
<1> HIDE DEF g
<1>6. ASSUME NEW U, U \subseteq T, U # T
      PROVE  F[U] = g(U)[U]
  <2>1. F[U] = IF U = {} THEN 0 ELSE w[Some(U)] + g(U \ {Some(U)})[U \ {Some(U)}]
    BY <1>6
  <2>2. g(U)[U] = IF U = {} THEN 0 ELSE w[Some(U)] + g(U)[U \ {Some(U)}]
    BY <1>5, <1>6, FoldAt
  <2>3. CASE U = {}
    BY <2>1, <2>2, <2>3
  <2>4. CASE U # {}
    <3> DEFINE V == U \ {Some(U)}
    <3>1. V \subseteq U /\ V \subseteq T /\ V # T
      BY <1>6, <2>4, SomeIn
    <3>2. IsFold(g(V), V, w) /\ IsFold(g(U), U, w) /\ IsFiniteSet(V)
      BY <1>2, <1>5, <1>6, <3>1, FS_Subset
    <3>3. \A x \in V : w[x] = w[x]
      OBVIOUS
    <3> HIDE DEF V
    <3>4. g(V)[V] = g(U)[V]
      BY <3>1, <3>2, <3>3, FoldUnique
    <3> QED
      BY <2>1, <2>2, <2>4, <3>4 DEF V
  <2> QED
    BY <2>3, <2>4
<1>7. \A U \in SUBSET T : U # {} => F[U \ {Some(U)}] = g(U \ {Some(U)})[U \ {Some(U)}]
  <2> HIDE DEF F
  <2> TAKE U \in SUBSET T
  <2> HAVE U # {}
  <2>1. U \ {Some(U)} \subseteq T /\ U \ {Some(U)} # T
    BY SomeIn
  <2> QED
    BY <1>6, <2>1
<1>8. IsFold(F, T, w)
  <2>1. F = [U \in SUBSET T |-> IF U = {} THEN 0 ELSE w[Some(U)] + F[U \ {Some(U)}]]
    BY <1>7
  <2> QED
    BY <2>1 DEF IsFold
<1> QED
  BY <1>4, <1>8

\* The sum over a finite set is what its fold is for the set.
LEMMA SumIsFold ==
  ASSUME NEW D, IsFiniteSet(D), NEW w, NEW f, IsFold(f, D, w)
  PROVE  Sum(w, D) = f[D]
<1> DEFINE iter == CHOOSE g : IsFold(g, D, w)
<1>1. Sum(w, D) = iter[D]
  BY DEF Sum, MapThenSumSet, MapThenFoldSet, IsFold, Some
<1>2. IsFold(iter, D, w)
  OBVIOUS
<1>3. \A x \in D : w[x] = w[x]
  OBVIOUS
<1> HIDE DEF iter
<1>4. iter[D] = f[D]
  BY <1>2, <1>3, FoldUnique
<1> QED
  BY <1>1, <1>4


\* The sum over no element.
LEMMA SumEmpty ==
  ASSUME NEW w
  PROVE  Sum(w, {}) = 0
<1>1. IsFiniteSet({}) /\ {} \in SUBSET {}
  BY FS_EmptySet
<1>2. PICK f : IsFold(f, {}, w)
  BY <1>1, FoldExists
<1>3. f[{}] = 0
  BY <1>1, <1>2, FoldAt
<1> QED
  BY <1>1, <1>2, <1>3, SumIsFold

\* A sum depends on the weights of its elements only.
LEMMA SumSame ==
  ASSUME NEW D, IsFiniteSet(D), NEW w, NEW v, \A x \in D : w[x] = v[x]
  PROVE  Sum(w, D) = Sum(v, D)
<1>1. PICK f : IsFold(f, D, w)
  BY FoldExists
<1>2. PICK g : IsFold(g, D, v)
  BY FoldExists
<1>3. f[D] = g[D]
  BY <1>1, <1>2, FoldUnique
<1>4. Sum(w, D) = f[D]
  BY <1>1, SumIsFold
<1>5. Sum(v, D) = g[D]
  BY <1>2, SumIsFold
<1> QED
  BY <1>3, <1>4, <1>5

\* A sum begins with the first element ...
LEMMA SumFirst ==
  ASSUME NEW D, IsFiniteSet(D), D # {}, NEW w
  PROVE  Sum(w, D) = w[Some(D)] + Sum(w, D \ {Some(D)})
<1> DEFINE E == D \ {Some(D)}
<1>1. E \subseteq D /\ IsFiniteSet(E)
  BY FS_Subset
<1>2. PICK f : IsFold(f, D, w)
  BY FoldExists
<1>3. PICK g : IsFold(g, E, w)
  BY <1>1, FoldExists
<1>4. f[D] = w[Some(D)] + f[E]
  BY <1>2, FoldAt
<1> HIDE DEF E
<1>5. \A x \in E : w[x] = w[x]
  OBVIOUS
<1>6. f[E] = g[E]
  BY <1>1, <1>2, <1>3, <1>5, FoldUnique
<1>7. Sum(w, D) = f[D]
  BY <1>2, SumIsFold
<1>8. Sum(w, E) = g[E]
  BY <1>1, <1>3, SumIsFold
<1> QED
  BY <1>4, <1>6, <1>7, <1>8 DEF E

\* The sum of integers is an integer.
LEMMA SumInt ==
  ASSUME NEW D, IsFiniteSet(D), NEW w, \A x \in D : w[x] \in Int
  PROVE  Sum(w, D) \in Int
<1> DEFINE Bad == {T \in SUBSET D : Sum(w, T) \notin Int}
<1>1. SUFFICES ASSUME Bad # {} PROVE FALSE
  OBVIOUS
<1>2. \A T \in Bad : IsFiniteSet(T)
  BY FS_Subset
<1>3. \E T \in Bad : \A U \in Bad : U \subseteq T => U = T
  <2> HIDE DEF Bad
  <2> QED
    BY <1>1, <1>2, Smallest
<1>4. PICK T \in Bad : \A U \in Bad : U \subseteq T => U = T
  BY <1>3
<1>5. T \subseteq D /\ Sum(w, T) \notin Int /\ IsFiniteSet(T)
  BY <1>2
<1>6. T # {}
  BY <1>5, SumEmpty
<1>7. Some(T) \in T /\ T \ {Some(T)} \subseteq T /\ T \ {Some(T)} # T
  BY <1>6, SomeIn
<1>8. Sum(w, T \ {Some(T)}) \in Int
  BY <1>4, <1>5, <1>7
<1>9. Sum(w, T) = w[Some(T)] + Sum(w, T \ {Some(T)})
  BY <1>5, <1>6, SumFirst
<1> QED
  BY <1>5, <1>7, <1>8, <1>9

\* Any element may be taken first.
LEMMA SumAny ==
  ASSUME NEW D, IsFiniteSet(D), NEW w, \A x \in D : w[x] \in Int, NEW d \in D
  PROVE  Sum(w, D) = w[d] + Sum(w, D \ {d})
<1> DEFINE Bad == {T \in SUBSET D : \E x \in T : Sum(w, T) # w[x] + Sum(w, T \ {x})}
<1>1. SUFFICES ASSUME Bad # {} PROVE FALSE
  OBVIOUS
<1>2. \A T \in Bad : IsFiniteSet(T)
  BY FS_Subset
<1>3. \E T \in Bad : \A U \in Bad : U \subseteq T => U = T
  <2> HIDE DEF Bad
  <2> QED
    BY <1>1, <1>2, Smallest
<1>4. PICK T \in Bad : \A U \in Bad : U \subseteq T => U = T
  BY <1>3
<1>5. PICK x \in T : Sum(w, T) # w[x] + Sum(w, T \ {x})
  OBVIOUS
<1> DEFINE y == Some(T)
<1>6. T \subseteq D /\ IsFiniteSet(T) /\ y \in T
  BY <1>2, SomeIn
<1>7. Sum(w, T) = w[y] + Sum(w, T \ {y})
  BY <1>6, SumFirst
<1> HIDE DEF y
<1>8. x # y
  BY <1>5, <1>7
<1>9. \A U \in SUBSET T : U # T => \A z \in U : Sum(w, U) = w[z] + Sum(w, U \ {z})
  BY <1>4, <1>6
<1>10. Sum(w, T \ {y}) = w[x] + Sum(w, (T \ {y}) \ {x})
  BY <1>6, <1>8, <1>9
<1>11. Sum(w, T \ {x}) = w[y] + Sum(w, (T \ {x}) \ {y})
  BY <1>6, <1>8, <1>9
<1>12. Sum(w, (T \ {y}) \ {x}) = Sum(w, (T \ {x}) \ {y})
  <2>1. (T \ {y}) \ {x} = (T \ {x}) \ {y}
    OBVIOUS
  <2> QED
    BY <2>1
<1>13. Sum(w, (T \ {y}) \ {x}) \in Int /\ w[x] \in Int /\ w[y] \in Int
  <2>1. (T \ {y}) \ {x} \subseteq T /\ IsFiniteSet((T \ {y}) \ {x})
    BY <1>6, FS_Subset
  <2> QED
    BY <1>6, <2>1, SumInt
<1>14. w[x] + Sum(w, T \ {x}) = w[y] + Sum(w, T \ {y})
  BY <1>10, <1>11, <1>12, <1>13
<1> QED
  BY <1>5, <1>7, <1>14

\* One weight changes.
LEMMA SumChange ==
  ASSUME NEW D, IsFiniteSet(D), NEW w, NEW v, \A x \in D : w[x] \in Int /\ v[x] \in Int,
         NEW d \in D, \A x \in D : x # d => w[x] = v[x]
  PROVE  Sum(v, D) = Sum(w, D) + v[d] - w[d]
<1>1. IsFiniteSet(D \ {d}) /\ \A x \in D \ {d} : w[x] \in Int /\ w[x] = v[x]
  BY FS_Subset
<1>2. Sum(w, D) = w[d] + Sum(w, D \ {d})
  BY SumAny
<1>3. Sum(v, D) = v[d] + Sum(v, D \ {d})
  BY SumAny
<1>4. Sum(w, D \ {d}) = Sum(v, D \ {d})
  BY <1>1, SumSame
<1>5. Sum(w, D \ {d}) \in Int
  BY <1>1, SumInt
<1> QED
  BY <1>2, <1>3, <1>4, <1>5

\* Sums of larger weights are larger.
LEMMA SumLeq ==
  ASSUME NEW D, IsFiniteSet(D), NEW w, NEW v,
         \A x \in D : w[x] \in Int /\ v[x] \in Int /\ w[x] <= v[x]
  PROVE  Sum(w, D) <= Sum(v, D)
<1> DEFINE Bad == {T \in SUBSET D : ~(Sum(w, T) <= Sum(v, T))}
<1>1. SUFFICES ASSUME Bad # {} PROVE FALSE
  OBVIOUS
<1>2. \A T \in Bad : IsFiniteSet(T)
  BY FS_Subset
<1>3. \E T \in Bad : \A U \in Bad : U \subseteq T => U = T
  <2> HIDE DEF Bad
  <2> QED
    BY <1>1, <1>2, Smallest
<1>4. PICK T \in Bad : \A U \in Bad : U \subseteq T => U = T
  BY <1>3
<1>5. T \subseteq D /\ ~(Sum(w, T) <= Sum(v, T)) /\ IsFiniteSet(T)
  BY <1>2
<1>6. T # {}
  BY <1>5, SumEmpty
<1> DEFINE y == Some(T)
           R == T \ {y}
<1>7. y \in T /\ R \subseteq T /\ R # T /\ IsFiniteSet(R)
  BY <1>5, <1>6, SomeIn, FS_Subset
<1>8. Sum(w, T) = w[y] + Sum(w, R)
  BY <1>5, <1>6, SumFirst
<1>9. Sum(v, T) = v[y] + Sum(v, R)
  BY <1>5, <1>6, SumFirst
<1>10. Sum(w, R) <= Sum(v, R)
  BY <1>4, <1>5, <1>7
<1> HIDE DEF y, R
<1>11. Sum(w, R) \in Int /\ Sum(v, R) \in Int
  BY <1>5, <1>7, SumInt
<1> QED
  BY <1>5, <1>7, <1>8, <1>9, <1>10, <1>11

\* Elements of weight nothing count for nothing.
LEMMA SumZero ==
  ASSUME NEW D, IsFiniteSet(D), NEW R \in SUBSET D, NEW w, \A x \in D : w[x] \in Int,
         \A x \in D \ R : w[x] = 0
  PROVE  Sum(w, D) = Sum(w, R)
<1> DEFINE Bad == {T \in SUBSET D : R \subseteq T /\ Sum(w, T) # Sum(w, R)}
<1>1. SUFFICES ASSUME Bad # {} PROVE FALSE
  OBVIOUS
<1>2. \A T \in Bad : IsFiniteSet(T)
  BY FS_Subset
<1>3. \E T \in Bad : \A U \in Bad : U \subseteq T => U = T
  <2> HIDE DEF Bad
  <2> QED
    BY <1>1, <1>2, Smallest
<1>4. PICK T \in Bad : \A U \in Bad : U \subseteq T => U = T
  BY <1>3
<1>5. T \subseteq D /\ R \subseteq T /\ Sum(w, T) # Sum(w, R) /\ IsFiniteSet(T)
  BY <1>2
<1>6. PICK y \in T : y \notin R
  BY <1>5
<1>7. Sum(w, T \ {y}) = Sum(w, R)
  BY <1>4, <1>5, <1>6
<1>8. Sum(w, T) = w[y] + Sum(w, T \ {y})
  BY <1>5, <1>6, SumAny
<1>9. Sum(w, T \ {y}) \in Int /\ w[y] = 0
  <2>1. IsFiniteSet(T \ {y}) /\ \A x \in T \ {y} : w[x] \in Int
    BY <1>5, FS_Subset
  <2> QED
    BY <1>5, <1>6, <2>1, SumInt
<1> QED
  BY <1>5, <1>7, <1>8, <1>9

\* The sum of natural numbers is one.
LEMMA SumNat ==
  ASSUME NEW D, IsFiniteSet(D), NEW w, \A x \in D : w[x] \in Nat
  PROVE  Sum(w, D) \in Nat
<1> DEFINE z == [x \in D |-> 0]
<1>1. Sum(z, D) = Sum(z, {})
  <2>1. {} \in SUBSET D /\ (\A x \in D : z[x] \in Int) /\ (\A x \in D \ {} : z[x] = 0)
    OBVIOUS
  <2> HIDE DEF z
  <2> QED
    BY <2>1, SumZero
<1>2. \A x \in D : z[x] \in Int /\ w[x] \in Int /\ z[x] <= w[x]
  OBVIOUS
<1> HIDE DEF z
<1>3. Sum(z, D) <= Sum(w, D)
  BY <1>2, SumLeq
<1>4. Sum(z, D) = 0
  BY <1>1, SumEmpty
<1>5. Sum(w, D) \in Int
  BY <1>2, SumInt
<1> QED
  BY <1>3, <1>4, <1>5

\* A bound on every weight by three others is one on the sums.
LEMMA SumBound ==
  ASSUME NEW D, IsFiniteSet(D), NEW w, NEW a, NEW b, NEW c,
         \A x \in D : /\ w[x] \in Int /\ a[x] \in Int /\ b[x] \in Int /\ c[x] \in Int
                      /\ w[x] <= a[x] + b[x] - c[x]
  PROVE  Sum(w, D) <= Sum(a, D) + Sum(b, D) - Sum(c, D)
<1> DEFINE Bad == {T \in SUBSET D : ~(Sum(w, T) <= Sum(a, T) + Sum(b, T) - Sum(c, T))}
<1>1. SUFFICES ASSUME Bad # {} PROVE FALSE
  OBVIOUS
<1>2. \A T \in Bad : IsFiniteSet(T)
  BY FS_Subset
<1>3. \E T \in Bad : \A U \in Bad : U \subseteq T => U = T
  <2> HIDE DEF Bad
  <2> QED
    BY <1>1, <1>2, Smallest
<1>4. PICK T \in Bad : \A U \in Bad : U \subseteq T => U = T
  BY <1>3
<1>5. /\ T \subseteq D /\ IsFiniteSet(T)
      /\ ~(Sum(w, T) <= Sum(a, T) + Sum(b, T) - Sum(c, T))
  BY <1>2
<1>6. T # {}
  <2>1. \A v : Sum(v, {}) = 0
    BY SumEmpty
  <2>2. T = {} => Sum(w, T) = 0 /\ Sum(a, T) = 0 /\ Sum(b, T) = 0 /\ Sum(c, T) = 0
    BY <2>1
  <2> QED
    BY <1>5, <2>2
<1> DEFINE y == Some(T)
           R == T \ {y}
<1>7. y \in T /\ R \subseteq T /\ R # T /\ IsFiniteSet(R)
  BY <1>5, <1>6, SomeIn, FS_Subset
<1>8. /\ Sum(w, T) = w[y] + Sum(w, R) /\ Sum(a, T) = a[y] + Sum(a, R)
      /\ Sum(b, T) = b[y] + Sum(b, R) /\ Sum(c, T) = c[y] + Sum(c, R)
  BY <1>5, <1>6, SumFirst
<1>9. Sum(w, R) <= Sum(a, R) + Sum(b, R) - Sum(c, R)
  BY <1>4, <1>5, <1>7
<1> HIDE DEF y, R
<1>10. Sum(w, R) \in Int /\ Sum(a, R) \in Int /\ Sum(b, R) \in Int /\ Sum(c, R) \in Int
  BY <1>5, <1>7, SumInt
<1> QED
  BY <1>5, <1>7, <1>8, <1>9, <1>10

=============================================================================
