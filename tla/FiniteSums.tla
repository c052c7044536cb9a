----------------------------- MODULE FiniteSums -----------------------------
(***************************************************************************)
(* Induction over the natural numbers and over a finite set, stated with   *)
(* sets, and what follows for recursive functions and for the sums of      *)
(* Functions.tla: facts the proofs about counters and powers rest on.      *)
(***************************************************************************)
EXTENDS Functions, FiniteSets, FiniteSetTheorems, WellFoundedInduction, TLAPS

\* A set with 0 and with the successor of each of its numbers has them all.
LEMMA NatSetInduction ==
  ASSUME NEW C, 0 \in C, \A n \in Nat : n \in C => n + 1 \in C
  PROVE  Nat \subseteq C
<1> SUFFICES ASSUME Nat \ C # {} PROVE FALSE
  OBVIOUS
<1> DEFINE R == OpToRel(<, Nat)
<1>1. PICK m \in Nat \ C : \A n \in Nat \ C : ~ (<<n, m>> \in R)
  <2> HIDE DEF R
  <2>1. IsWellFoundedOn(R, Nat)
    BY NatLessThanWellFounded DEF R
  <2> QED
    BY <2>1, WFMin
<1>2. \A n \in Nat \ C : ~ (n < m)
  BY <1>1 DEF OpToRel
<1>3. m - 1 \in Nat /\ m - 1 < m
  BY <1>2
<1>4. m - 1 \in C
  BY <1>2, <1>3
<1> QED
  BY <1>3, <1>4

\* The first n steps of f[0] = base, f[k + 1] = step[f[k]].
Steps(f, base, step, n) ==
  f[0] = base /\ \A k \in Nat : k < n => f[k + 1] = step[f[k]]

\* A function can be defined by what it is at 0 and how it goes on.
LEMMA PrimitiveRecursion ==
  ASSUME NEW S, NEW base \in S, NEW step \in [S -> S]
  PROVE  \E f \in [Nat -> S] : f[0] = base /\ \A n \in Nat : f[n + 1] = step[f[n]]
<1> DEFINE Solves(f, n) == Steps(f, base, step, n)
           Solvable == {n \in Nat : \E f \in [Nat -> S] : Solves(f, n)}
           Agree == {k \in Nat : \A m, n \in Nat : \A g, h \in [Nat -> S] :
                       k <= m /\ k <= n /\ Solves(g, m) /\ Solves(h, n) => g[k] = h[k]}
<1>1. Nat \subseteq Solvable
  <2>1. 0 \in Solvable
    <3> DEFINE f == [k \in Nat |-> base]
    <3>1. f \in [Nat -> S] /\ Solves(f, 0)
      BY DEF Steps
    <3> QED
      BY <3>1
  <2>2. ASSUME NEW n \in Nat, n \in Solvable PROVE n + 1 \in Solvable
    <3>1. PICK g \in [Nat -> S] : Solves(g, n)
      BY <2>2
    <3> DEFINE h == [k \in Nat |-> IF k = n + 1 THEN step[g[n]] ELSE g[k]]
    <3>2. h \in [Nat -> S]
      OBVIOUS
    <3>3. h[n + 1] = step[g[n]] /\ \A k \in Nat : k # n + 1 => h[k] = g[k]
      OBVIOUS
    <3> HIDE DEF h
    <3>4. h[0] = base
      BY <3>1, <3>3 DEF Steps
    <3>5. ASSUME NEW k \in Nat, k < n + 1 PROVE h[k + 1] = step[h[k]]
      <4>1. h[k] = g[k]
        BY <3>3, <3>5
      <4>2. CASE k = n
        BY <3>3, <4>1, <4>2
      <4>3. CASE k < n
        BY <3>1, <3>3, <4>1, <4>3 DEF Steps
      <4> QED
        BY <3>5, <4>2, <4>3
    <3>6. Solves(h, n + 1)
      BY <3>4, <3>5 DEF Steps
    <3> HIDE DEF h, Solves
    <3> QED
      BY <3>2, <3>6
  <2> HIDE DEF Solvable
  <2> QED
    BY <2>1, <2>2, NatSetInduction
<1>2. Nat \subseteq Agree
  <2>1. 0 \in Agree
    BY DEF Steps
  <2>2. ASSUME NEW k \in Nat, k \in Agree PROVE k + 1 \in Agree
    <3> SUFFICES ASSUME NEW m \in Nat, NEW n \in Nat, NEW g \in [Nat -> S], NEW h \in [Nat -> S],
                        k + 1 <= m, k + 1 <= n, Solves(g, m), Solves(h, n)
                 PROVE  g[k + 1] = h[k + 1]
      OBVIOUS
    <3>1. g[k] = h[k]
      BY <2>2
    <3>2. g[k + 1] = step[g[k]] /\ h[k + 1] = step[h[k]]
      BY DEF Steps
    <3> QED
      BY <3>1, <3>2
  <2> HIDE DEF Agree
  <2> QED
    BY <2>1, <2>2, NatSetInduction
<1> DEFINE pick(n) == CHOOSE f \in [Nat -> S] : Solves(f, n)
           f == [n \in Nat |-> pick(n)[n]]
<1>3. ASSUME NEW n \in Nat PROVE pick(n) \in [Nat -> S] /\ Solves(pick(n), n)
  BY <1>1
<1> HIDE DEF pick
<1>4. f \in [Nat -> S]
  BY <1>3
<1>5. f[0] = base
  BY <1>3 DEF Steps
<1>6. ASSUME NEW n \in Nat PROVE f[n + 1] = step[f[n]]
  <2>1. /\ pick(n + 1) \in [Nat -> S] /\ Solves(pick(n + 1), n + 1)
        /\ pick(n) \in [Nat -> S] /\ Solves(pick(n), n)
    BY <1>3
  <2>2. pick(n + 1)[n] = pick(n)[n]
    <3> HIDE DEF Solves
    <3> QED
      BY <1>2, <2>1
  <2>3. pick(n + 1)[n + 1] = step[pick(n + 1)[n]]
    BY <2>1 DEF Steps
  <2> QED
    BY <2>2, <2>3
<1> QED
  BY <1>4, <1>5, <1>6

\* A family of subsets of a finite set that has the empty one, and with each of
\* them those with one element more, has them all.
LEMMA SubsetInduction ==
  ASSUME NEW S, IsFiniteSet(S), NEW C, {} \in C,
         \A T \in SUBSET S : \A x \in S \ T : T \in C => T \cup {x} \in C
  PROVE  SUBSET S \subseteq C
<1> DEFINE N == {n \in Nat : \A T \in SUBSET S : Cardinality(T) = n => T \in C}
<1>1. 0 \in N
  BY FS_EmptySet, FS_Subset
<1>2. ASSUME NEW n \in Nat, n \in N PROVE n + 1 \in N
  <2> SUFFICES ASSUME NEW T \in SUBSET S, Cardinality(T) = n + 1 PROVE T \in C
    OBVIOUS
  <2>1. IsFiniteSet(T)
    BY FS_Subset
  <2>2. PICK x \in T : TRUE
    BY <2>1, FS_EmptySet
  <2>3. T \ {x} \in SUBSET S /\ Cardinality(T \ {x}) = n
    <3>1. Cardinality(T \ {x}) = Cardinality(T) - 1
      BY <2>1, <2>2, FS_RemoveElement
    <3> QED
      BY <3>1
  <2>4. T \ {x} \in C
    BY <1>2, <2>3
  <2>5. T = (T \ {x}) \cup {x} /\ x \in S \ (T \ {x})
    BY <2>2
  <2> QED
    BY <2>3, <2>4, <2>5
<1>3. Nat \subseteq N
  <2> HIDE DEF N
  <2> QED
    BY <1>1, <1>2, NatSetInduction
<1>4. ASSUME NEW T \in SUBSET S PROVE Cardinality(T) \in Nat
  BY FS_Subset, FS_CardinalityType
<1> QED
  BY <1>3, <1>4

-----------------------------------------------------------------------------
(* Sums of integers over a finite set. *)

\* Is f a function that sums over S?
Sums(f, S) == IsFiniteSet(S) /\ \A x \in S : f[x] \in Int

\* What Folds.tla makes of the sum over a subset: one element and the rest.
SumStep(f, S, iter) ==
  [T \in SUBSET S |-> IF T = {} THEN 0
                      ELSE f[CHOOSE x \in T : TRUE] + iter[T \ {CHOOSE x \in T : TRUE}]]

\* The recursion of the fold has a solution, and all agree.
LEMMA SumStepSolvable ==
  ASSUME NEW f, NEW S, Sums(f, S)
  PROVE  \E iter \in [SUBSET S -> Int] : iter = SumStep(f, S, iter)
<1> DEFINE one(T) == CHOOSE x \in T : TRUE
           Small(n) == {T \in SUBSET S : Cardinality(T) <= n}
           Solves(iter, n) == \A T \in Small(n) :
             iter[T] = IF T = {} THEN 0 ELSE f[one(T)] + iter[T \ {one(T)}]
           Solvable == {n \in Nat : \E iter \in [SUBSET S -> Int] : Solves(iter, n)}
<1>1. ASSUME NEW T \in SUBSET S
      PROVE  IsFiniteSet(T) /\ Cardinality(T) \in Nat /\ (Cardinality(T) = 0 <=> T = {})
  BY FS_Subset, FS_CardinalityType, FS_EmptySet DEF Sums
<1>2. ASSUME NEW T \in SUBSET S, T # {}
      PROVE  /\ one(T) \in S /\ f[one(T)] \in Int /\ T \ {one(T)} \in SUBSET S
             /\ Cardinality(T \ {one(T)}) = Cardinality(T) - 1
  <2>1. one(T) \in T
    BY <1>2
  <2> HIDE DEF one
  <2>2. Cardinality(T \ {one(T)}) = Cardinality(T) - 1
    BY <1>1, <2>1, FS_RemoveElement
  <2> QED
    BY <2>1, <2>2 DEF Sums
<1> HIDE DEF one
<1>3. Nat \subseteq Solvable
  <2>1. 0 \in Solvable
    <3> DEFINE iter == [T \in SUBSET S |-> 0]
    <3>1. Solves(iter, 0)
      BY <1>1
    <3>2. iter \in [SUBSET S -> Int]
      OBVIOUS
    <3> QED
      BY <3>1, <3>2
  <2>2. ASSUME NEW n \in Nat, n \in Solvable PROVE n + 1 \in Solvable
    <3>1. PICK g \in [SUBSET S -> Int] : Solves(g, n)
      BY <2>2
    <3> DEFINE h == [T \in SUBSET S |-> IF T = {} THEN 0 ELSE f[one(T)] + g[T \ {one(T)}]]
    <3>2. h \in [SUBSET S -> Int]
      <4> SUFFICES ASSUME NEW T \in SUBSET S, T # {} PROVE f[one(T)] + g[T \ {one(T)}] \in Int
        OBVIOUS
      <4>1. f[one(T)] \in Int /\ T \ {one(T)} \in SUBSET S
        BY <1>2
      <4>2. g[T \ {one(T)}] \in Int
        BY <4>1
      <4> QED
        BY <4>1, <4>2
    <3>3. \A T \in Small(n) : h[T] = g[T]
      BY <3>1
    <3>4. ASSUME NEW T \in Small(n + 1), T # {}
          PROVE  h[T] = f[one(T)] + h[T \ {one(T)}]
      <4>1. T \ {one(T)} \in Small(n)
        BY <1>1, <1>2, <3>4
      <4>2. h[T \ {one(T)}] = g[T \ {one(T)}]
        <5> HIDE DEF Small, h
        <5> QED
          BY <3>3, <4>1
      <4> QED
        BY <3>4, <4>2
    <3>5. h[{}] = 0
      OBVIOUS
    <3>6. Solves(h, n + 1)
      <4> HIDE DEF h, Small
      <4> QED
        BY <3>4, <3>5
    <3> HIDE DEF h, Solves
    <3> QED
      BY <3>2, <3>6
  <2> HIDE DEF Solvable
  <2> QED
    BY <2>1, <2>2, NatSetInduction
<1>4. Cardinality(S) \in Nat
  BY <1>1
<1>5. PICK iter \in [SUBSET S -> Int] : Solves(iter, Cardinality(S))
  BY <1>3, <1>4
<1>6. \A T \in SUBSET S : Cardinality(T) <= Cardinality(S)
  BY FS_Subset DEF Sums
<1>7. iter = SumStep(f, S, iter)
  <2>1. iter = [T \in SUBSET S |-> iter[T]]
    OBVIOUS
  <2> QED
    BY <1>5, <1>6, <2>1 DEF SumStep, one
<1> QED
  BY <1>7

\* The sum, and the one over the rest, are values of solutions.
LEMMA SumUnfolds ==
  ASSUME NEW f, NEW S, Sums(f, S)
  PROVE  LET iter == CHOOSE iter : iter = SumStep(f, S, iter)
         IN  iter = SumStep(f, S, iter) /\ SumFunctionOnSet(f, S) = iter[S]
<1>1. \E iter : iter = SumStep(f, S, iter)
  BY SumStepSolvable
<1>2. SumFunctionOnSet(f, S) = (CHOOSE iter : iter = SumStep(f, S, iter))[S]
  BY DEF SumFunctionOnSet, FoldFunctionOnSet, MapThenFoldSet, SumStep
<1> QED
  BY <1>1, <1>2

\* Solutions agree on the subsets they both know.
LEMMA SumStepUnique ==
  ASSUME NEW f, NEW S, Sums(f, S), NEW R \in SUBSET S,
         NEW g, g = SumStep(f, S, g), NEW h, h = SumStep(f, R, h)
  PROVE  \A T \in SUBSET R : g[T] = h[T]
<1> DEFINE one(T) == CHOOSE x \in T : TRUE
           Agree == {n \in Nat : \A T \in SUBSET R : Cardinality(T) = n => g[T] = h[T]}
<1>1. /\ \A T \in SUBSET R : g[T] = IF T = {} THEN 0 ELSE f[one(T)] + g[T \ {one(T)}]
      /\ \A T \in SUBSET R : h[T] = IF T = {} THEN 0 ELSE f[one(T)] + h[T \ {one(T)}]
  <2>1. \A T \in SUBSET R : SumStep(f, S, g)[T] = IF T = {} THEN 0 ELSE f[one(T)] + g[T \ {one(T)}]
    BY DEF SumStep
  <2>2. \A T \in SUBSET R : SumStep(f, R, h)[T] = IF T = {} THEN 0 ELSE f[one(T)] + h[T \ {one(T)}]
    BY DEF SumStep
  <2> QED
    BY <2>1, <2>2
<1>2. \A T \in SUBSET R : IsFiniteSet(T) /\ Cardinality(T) \in Nat /\ (Cardinality(T) = 0 <=> T = {})
  BY FS_Subset, FS_CardinalityType, FS_EmptySet DEF Sums
<1>3. ASSUME NEW T \in SUBSET R, T # {}
      PROVE  T \ {one(T)} \in SUBSET R /\ Cardinality(T \ {one(T)}) = Cardinality(T) - 1
  <2>1. one(T) \in T
    BY <1>3
  <2> HIDE DEF one
  <2> QED
    BY <1>2, <2>1, FS_RemoveElement
<1> HIDE DEF one
<1>4. 0 \in Agree
  BY <1>1, <1>2
<1>5. ASSUME NEW n \in Nat, n \in Agree PROVE n + 1 \in Agree
  <2> SUFFICES ASSUME NEW T \in SUBSET R, Cardinality(T) = n + 1 PROVE g[T] = h[T]
    OBVIOUS
  <2>1. T # {}
    BY <1>2
  <2>2. g[T \ {one(T)}] = h[T \ {one(T)}]
    <3>1. T \ {one(T)} \in SUBSET R /\ Cardinality(T \ {one(T)}) = n
      BY <1>3, <2>1
    <3> QED
      BY <1>5, <3>1
  <2> QED
    BY <1>1, <2>1, <2>2
<1>6. Nat \subseteq Agree
  <2> HIDE DEF Agree
  <2> QED
    BY <1>4, <1>5, NatSetInduction
<1> QED
  BY <1>2, <1>6

\* A sum of integers is one.
LEMMA SumType ==
  ASSUME NEW f, NEW S, Sums(f, S)
  PROVE  SumFunctionOnSet(f, S) \in Int
<1> DEFINE g == CHOOSE iter : iter = SumStep(f, S, iter)
<1>1. PICK iter \in [SUBSET S -> Int] : iter = SumStep(f, S, iter)
  BY SumStepSolvable
<1>2. g = SumStep(f, S, g) /\ SumFunctionOnSet(f, S) = g[S]
  BY SumUnfolds
<1> HIDE DEF g
<1>3. g[S] = iter[S]
  BY <1>1, <1>2, SumStepUnique
<1> QED
  BY <1>2, <1>3

LEMMA SumEmpty == ASSUME NEW f PROVE SumFunctionOnSet(f, {}) = 0
<1>1. Sums(f, {})
  BY FS_EmptySet DEF Sums
<1> DEFINE g == CHOOSE iter : iter = SumStep(f, {}, iter)
<1>2. g = SumStep(f, {}, g) /\ SumFunctionOnSet(f, {}) = g[{}]
  BY <1>1, SumUnfolds
<1> HIDE DEF g
<1>3. SumStep(f, {}, g)[{}] = 0
  BY DEF SumStep
<1> QED
  BY <1>2, <1>3

\* The fold takes the element that CHOOSE gives it first.
LEMMA SumChosen ==
  ASSUME NEW f, NEW S, Sums(f, S), S # {}
  PROVE  LET x == CHOOSE x \in S : TRUE
         IN  SumFunctionOnSet(f, S) = f[x] + SumFunctionOnSet(f, S \ {x})
<1> DEFINE x == CHOOSE x \in S : TRUE
           g == CHOOSE iter : iter = SumStep(f, S, iter)
           h == CHOOSE iter : iter = SumStep(f, S \ {x}, iter)
<1>1. x \in S
  OBVIOUS
<1>2. Sums(f, S \ {x})
  BY FS_Subset DEF Sums
<1>3. g = SumStep(f, S, g) /\ SumFunctionOnSet(f, S) = g[S]
  BY SumUnfolds
<1>4. h = SumStep(f, S \ {x}, h) /\ SumFunctionOnSet(f, S \ {x}) = h[S \ {x}]
  BY <1>2, SumUnfolds
<1>5. SumStep(f, S, g)[S] = f[x] + g[S \ {x}]
  BY DEF SumStep
<1> HIDE DEF g, h, x
<1>6. g[S \ {x}] = h[S \ {x}]
  BY <1>3, <1>4, SumStepUnique
<1>7. SumFunctionOnSet(f, S) = f[x] + SumFunctionOnSet(f, S \ {x})
  BY <1>3, <1>4, <1>5, <1>6
<1> QED
  BY <1>7 DEF x

\* But it may take any.
LEMMA SumRemove ==
  ASSUME NEW f, NEW S, Sums(f, S), NEW x \in S
  PROVE  SumFunctionOnSet(f, S) = f[x] + SumFunctionOnSet(f, S \ {x})
<1> DEFINE Sum(T) == SumFunctionOnSet(f, T)
           Removes(T) == \A z \in T : Sum(T) = f[z] + Sum(T \ {z})
           N == {n \in Nat : \A T \in SUBSET S : Cardinality(T) = n => Removes(T)}
<1>1. \A T \in SUBSET S : Sums(f, T) /\ Cardinality(T) \in Nat /\ (Cardinality(T) = 0 <=> T = {})
  BY FS_Subset, FS_CardinalityType, FS_EmptySet DEF Sums
<1>2. \A T \in SUBSET S : Sum(T) \in Int
  BY <1>1, SumType
<1>3. \A T \in SUBSET S : \A z \in T : Cardinality(T \ {z}) = Cardinality(T) - 1
  BY <1>1, FS_RemoveElement DEF Sums
<1>4. ASSUME NEW T \in SUBSET S, T # {}
      PROVE  \E y \in T : Sum(T) = f[y] + Sum(T \ {y})
  BY <1>1, <1>4, SumChosen
<1>5. \A y \in S : f[y] \in Int
  BY DEF Sums
<1> HIDE DEF Sum
<1>6. 0 \in N
  BY <1>1
<1>7. ASSUME NEW n \in Nat, n \in N PROVE n + 1 \in N
  <2> SUFFICES ASSUME NEW T \in SUBSET S, Cardinality(T) = n + 1, NEW z \in T
               PROVE  Sum(T) = f[z] + Sum(T \ {z})
    OBVIOUS
  <2>1. PICK y \in T : Sum(T) = f[y] + Sum(T \ {y})
    BY <1>4
  <2>2. CASE y = z
    BY <2>1, <2>2
  <2>3. CASE y # z
    <3>1. /\ T \ {y} \in SUBSET S /\ Cardinality(T \ {y}) = n
          /\ T \ {z} \in SUBSET S /\ Cardinality(T \ {z}) = n
      BY <1>3
    <3>2. Removes(T \ {y}) /\ Removes(T \ {z})
      BY <1>7, <3>1
    <3>3. Sum(T \ {y}) = f[z] + Sum((T \ {y}) \ {z})
      BY <2>3, <3>2
    <3>4. Sum(T \ {z}) = f[y] + Sum((T \ {z}) \ {y})
      BY <2>3, <3>2
    <3>5. Sum((T \ {y}) \ {z}) = Sum((T \ {z}) \ {y}) /\ (T \ {z}) \ {y} \in SUBSET S
      <4>1. (T \ {y}) \ {z} = (T \ {z}) \ {y}
        OBVIOUS
      <4> QED
        BY <4>1
    <3>6. f[y] \in Int /\ f[z] \in Int /\ Sum((T \ {z}) \ {y}) \in Int
      BY <1>2, <1>5, <3>5
    <3> HIDE DEF N
    <3> QED
      BY <2>1, <3>3, <3>4, <3>5, <3>6
  <2> QED
    BY <2>2, <2>3
<1>8. Nat \subseteq N
  <2> HIDE DEF N
  <2> QED
    BY <1>6, <1>7, NatSetInduction
<1>9. Removes(S)
  BY <1>1, <1>8
<1> QED
  BY <1>9 DEF Sum

LEMMA SumAdd ==
  ASSUME NEW f, NEW S, NEW x, x \notin S, Sums(f, S \cup {x})
  PROVE  SumFunctionOnSet(f, S \cup {x}) = f[x] + SumFunctionOnSet(f, S)
<1>1. (S \cup {x}) \ {x} = S
  OBVIOUS
<1>2. SumFunctionOnSet(f, S \cup {x}) = f[x] + SumFunctionOnSet(f, (S \cup {x}) \ {x})
  BY SumRemove
<1> QED
  BY <1>1, <1>2

\* A sum depends on the values it adds, and grows with them.
LEMMA SumMonotonic ==
  ASSUME NEW f, NEW g, NEW S, Sums(f, S), Sums(g, S)
  PROVE  /\ (\A x \in S : f[x] <= g[x]) => SumFunctionOnSet(f, S) <= SumFunctionOnSet(g, S)
         /\ (\A x \in S : f[x] = g[x]) => SumFunctionOnSet(f, S) = SumFunctionOnSet(g, S)
<1> DEFINE C == {T \in SUBSET S :
                   /\ (\A x \in S : f[x] <= g[x]) =>
                        SumFunctionOnSet(f, T) <= SumFunctionOnSet(g, T)
                   /\ (\A x \in S : f[x] = g[x]) =>
                        SumFunctionOnSet(f, T) = SumFunctionOnSet(g, T)}
<1>1. {} \in C
  BY SumEmpty
<1>2. ASSUME NEW T \in SUBSET S, NEW x \in S \ T, T \in C PROVE T \cup {x} \in C
  <2>1. Sums(f, T) /\ Sums(g, T) /\ Sums(f, T \cup {x}) /\ Sums(g, T \cup {x})
    BY FS_Subset DEF Sums
  <2>2. /\ SumFunctionOnSet(f, T \cup {x}) = f[x] + SumFunctionOnSet(f, T)
        /\ SumFunctionOnSet(g, T \cup {x}) = g[x] + SumFunctionOnSet(g, T)
    BY <2>1, SumAdd
  <2>3. SumFunctionOnSet(f, T) \in Int /\ SumFunctionOnSet(g, T) \in Int
    BY <2>1, SumType
  <2>4. f[x] \in Int /\ g[x] \in Int
    BY DEF Sums
  <2> QED
    BY <1>2, <2>2, <2>3, <2>4
<1> HIDE DEF C
<1>3. S \in C
  BY <1>1, <1>2, SubsetInduction DEF Sums
<1> QED
  BY <1>3 DEF C

\* The sum of a function that is changed at one point.
LEMMA SumUpdate ==
  ASSUME NEW f, NEW g, NEW S, Sums(f, S), Sums(g, S), NEW x \in S,
         \A y \in S \ {x} : g[y] = f[y]
  PROVE  SumFunctionOnSet(g, S) = SumFunctionOnSet(f, S) - f[x] + g[x]
<1>1. Sums(f, S \ {x}) /\ Sums(g, S \ {x})
  BY FS_Subset DEF Sums
<1>2. SumFunctionOnSet(g, S \ {x}) = SumFunctionOnSet(f, S \ {x})
  BY <1>1, SumMonotonic
<1>3. /\ SumFunctionOnSet(f, S) = f[x] + SumFunctionOnSet(f, S \ {x})
      /\ SumFunctionOnSet(g, S) = g[x] + SumFunctionOnSet(g, S \ {x})
  BY SumRemove
<1>4. SumFunctionOnSet(f, S \ {x}) \in Int /\ f[x] \in Int /\ g[x] \in Int
  BY <1>1, SumType DEF Sums
<1> QED
  BY <1>2, <1>3, <1>4

\* Nothing adds up to nothing.
LEMMA SumOfZeros ==
  ASSUME NEW f, NEW S, IsFiniteSet(S), \A x \in S : f[x] = 0
  PROVE  SumFunctionOnSet(f, S) = 0
<1> DEFINE C == {T \in SUBSET S : SumFunctionOnSet(f, T) = 0}
<1>1. {} \in C
  BY SumEmpty
<1>2. ASSUME NEW T \in SUBSET S, NEW x \in S \ T, T \in C PROVE T \cup {x} \in C
  <2>1. Sums(f, T \cup {x})
    BY FS_Subset DEF Sums
  <2>2. SumFunctionOnSet(f, T \cup {x}) = f[x] + SumFunctionOnSet(f, T)
    BY <2>1, SumAdd
  <2> QED
    BY <1>2, <2>2
<1> HIDE DEF C
<1>3. S \in C
  BY <1>1, <1>2, SubsetInduction
<1> QED
  BY <1>3 DEF C

\* The sum over two sets that have no element in common.
LEMMA SumUnion ==
  ASSUME NEW f, NEW R, NEW S, R \cap S = {}, Sums(f, R \cup S)
  PROVE  SumFunctionOnSet(f, R \cup S) = SumFunctionOnSet(f, R) + SumFunctionOnSet(f, S)
<1> DEFINE Sum(T) == SumFunctionOnSet(f, T)
           C == {T \in SUBSET S : Sum(R \cup T) = Sum(R) + Sum(T)}
<1>1. \A T \in SUBSET (R \cup S) : Sums(f, T)
  BY FS_Subset DEF Sums
<1>2. \A T \in SUBSET (R \cup S) : Sum(T) \in Int
  BY <1>1, SumType
<1>3. {} \in C
  <2>1. R \cup {} = R
    OBVIOUS
  <2>2. Sum(R) \in Int
    BY <1>2
  <2> QED
    BY <2>1, <2>2, SumEmpty
<1>4. ASSUME NEW T \in SUBSET S, NEW x \in S \ T, T \in C PROVE T \cup {x} \in C
  <2>1. Sum(T \cup {x}) = f[x] + Sum(T)
    <3>1. x \notin T /\ Sums(f, T \cup {x})
      BY <1>1
    <3> QED
      BY <3>1, SumAdd
  <2>2. Sum(R \cup (T \cup {x})) = f[x] + Sum(R \cup T)
    <3>1. R \cup (T \cup {x}) = (R \cup T) \cup {x} /\ x \notin R \cup T
      OBVIOUS
    <3>2. Sum((R \cup T) \cup {x}) = f[x] + Sum(R \cup T)
      BY <1>1, <3>1, SumAdd
    <3> QED
      BY <3>1, <3>2
  <2>3. Sum(R) \in Int /\ Sum(T) \in Int /\ f[x] \in Int
    BY <1>2 DEF Sums
  <2>4. Sum(R \cup T) = Sum(R) + Sum(T)
    BY <1>4
  <2> HIDE DEF Sum
  <2> QED
    BY <2>1, <2>2, <2>3, <2>4
<1> HIDE DEF C
<1>5. IsFiniteSet(S)
  BY FS_Subset DEF Sums
<1>6. \A T \in SUBSET S : \A x \in S \ T : T \in C => T \cup {x} \in C
  BY <1>4
<1>7. SUBSET S \subseteq C
  <2> HIDE DEF Sum
  <2>1. {} \in C
    BY <1>3
  <2> QED
    BY ONLY <2>1, <1>5, <1>6, SubsetInduction
<1> QED
  BY <1>7 DEF C

\* The sum of two functions.
LEMMA SumOfSums ==
  ASSUME NEW f, NEW g, NEW h, NEW S, Sums(f, S), Sums(g, S),
         \A x \in S : h[x] = f[x] + g[x]
  PROVE  /\ Sums(h, S)
         /\ SumFunctionOnSet(h, S) = SumFunctionOnSet(f, S) + SumFunctionOnSet(g, S)
<1> DEFINE C == {T \in SUBSET S : SumFunctionOnSet(h, T)
                                    = SumFunctionOnSet(f, T) + SumFunctionOnSet(g, T)}
<1>1. Sums(h, S)
  BY DEF Sums
<1>2. {} \in C
  BY SumEmpty
<1>3. ASSUME NEW T \in SUBSET S, NEW x \in S \ T, T \in C PROVE T \cup {x} \in C
  <2>1. /\ Sums(f, T) /\ Sums(f, T \cup {x}) /\ Sums(g, T) /\ Sums(g, T \cup {x})
        /\ Sums(h, T) /\ Sums(h, T \cup {x})
    BY <1>1, FS_Subset DEF Sums
  <2>2. /\ SumFunctionOnSet(f, T \cup {x}) = f[x] + SumFunctionOnSet(f, T)
        /\ SumFunctionOnSet(g, T \cup {x}) = g[x] + SumFunctionOnSet(g, T)
        /\ SumFunctionOnSet(h, T \cup {x}) = h[x] + SumFunctionOnSet(h, T)
    BY <2>1, SumAdd
  <2>3. SumFunctionOnSet(f, T) \in Int /\ SumFunctionOnSet(g, T) \in Int
    BY <2>1, SumType
  <2>4. f[x] \in Int /\ g[x] \in Int /\ h[x] = f[x] + g[x]
    BY DEF Sums
  <2> QED
    BY <1>3, <2>2, <2>3, <2>4
<1> HIDE DEF C
<1>4. S \in C
  BY <1>2, <1>3, SubsetInduction DEF Sums
<1> QED
  BY <1>1, <1>4 DEF C

\* Leaving out an element that adds nothing negative.
LEMMA SumWithout ==
  ASSUME NEW f, NEW S, NEW x, Sums(f, S), \A y \in S : f[y] >= 0
  PROVE  SumFunctionOnSet(f, S \ {x}) <= SumFunctionOnSet(f, S)
<1>1. CASE x \in S
  <2>1. SumFunctionOnSet(f, S) = f[x] + SumFunctionOnSet(f, S \ {x})
    BY <1>1, SumRemove
  <2>2. SumFunctionOnSet(f, S \ {x}) \in Int /\ f[x] \in Int
    BY <1>1, FS_Subset, SumType DEF Sums
  <2> QED
    BY <1>1, <2>1, <2>2
<1>2. CASE x \notin S
  <2>1. S \ {x} = S
    BY <1>2
  <2> QED
    BY <2>1, SumType
<1> QED
  BY <1>1, <1>2
=============================================================================
