-------------------------- MODULE InductionLemmas --------------------------
(***************************************************************************)
(* Induction without operators as parameters, and sums.  What has no least *)
(* counterexample has none: a proof by induction over a number takes the   *)
(* set of the numbers for which the claim fails, picks the least of them,  *)
(* and refutes it by the claim for the number before.                      *)
(***************************************************************************)
EXTENDS Integers, Functions, FiniteSetTheorems, WellFoundedInduction, TLAPS

\* A set of natural numbers that is not empty has a least element.
LEMMA LeastNat ==
    ASSUME NEW T \in SUBSET Nat, T # {}
    PROVE  \E m \in T : \A k \in T : m <= k
  <1> DEFINE less == OpToRel(<, Nat)
  <1>1. IsWellFoundedOn(less, Nat)
    BY NatLessThanWellFounded
  <1>2. \E m \in T : \A k \in T : ~(<<k, m>> \in less)
    <2> HIDE DEF less
    <2> QED
      BY <1>1, WFMin
  <1>3. \A k, m \in Nat : <<k, m>> \in less <=> k < m
    BY DEF OpToRel
  <1>4. PICK m \in T : \A k \in T : ~(<<k, m>> \in less)
    BY <1>2
  <1> HIDE DEF less
  <1>5. \A k \in T : ~(k < m)
    BY <1>3, <1>4
  <1> QED
    BY <1>5

\* A recursive definition over the numbers up to n, as a relation.
Iterates(f, T, n, start, step) ==
    f \in [0..n -> T] /\ f[0] = start /\ \A i \in 1..n : f[i] = step[i][f[i - 1]]

\* What a recursive definition over the numbers up to n defines exists.
LEMMA IterationExists ==
    ASSUME NEW T, NEW n \in Nat, NEW start \in T, NEW step \in [1..n -> [T -> T]]
    PROVE  \E f : Iterates(f, T, n, start, step)
  <1> DEFINE Upto(k) == \E f : Iterates(f, T, k, start, step)
             Failing == {k \in 0..n : ~Upto(k)}
  <1> SUFFICES ASSUME Failing # {}
               PROVE  FALSE
    <2>1. n \in 0..n
      OBVIOUS
    <2> QED
      BY <2>1
  <1>1. PICK m \in Failing : \A k \in Failing : m <= k
    <2>1. Failing \subseteq Nat
      OBVIOUS
    <2> HIDE DEF Failing
    <2> QED
      BY <2>1, LeastNat
  <1>2. Upto(0)
    <2> DEFINE f == [i \in 0..0 |-> start]
    <2>1. f \in [0..0 -> T] /\ f[0] = start
      OBVIOUS
    <2>2. \A i \in 1..0 : f[i] = step[i][f[i - 1]]
      OBVIOUS
    <2> HIDE DEF f
    <2> QED
      BY <2>1, <2>2 DEF Iterates
  <1>3. m \in 1..n /\ m - 1 \in 0..n /\ m - 1 \notin Failing
    <2>1. m \in 0..n /\ m # 0
      BY <1>1, <1>2
    <2>2. m \in 1..n /\ m - 1 \in 0..n /\ m - 1 < m
      BY <2>1
    <2> HIDE DEF Failing
    <2> QED
      BY <1>1, <2>2
  <1>4. PICK g \in [0..m - 1 -> T] :
            g[0] = start /\ \A i \in 1..m - 1 : g[i] = step[i][g[i - 1]]
    BY <1>3 DEF Iterates
  <1> DEFINE f == [i \in 0..m |-> IF i = m THEN step[m][g[m - 1]] ELSE g[i]]
  <1>5. f \in [0..m -> T] /\ f[0] = start
    BY <1>3, <1>4
  <1>6. ASSUME NEW i \in 1..m
        PROVE  f[i] = step[i][f[i - 1]]
    <2>1. i = m \/ i \in 1..m - 1
      BY <1>3
    <2>2. i - 1 \in 0..m /\ i - 1 # m /\ i \in 0..m
      BY <1>3
    <2>3. f[i - 1] = g[i - 1]
      BY <2>2
    <2> QED
      BY <1>4, <2>1, <2>2, <2>3
  <1> HIDE DEF f
  <1>7. Upto(m)
    BY <1>5, <1>6 DEF Iterates
  <1> QED
    BY <1>1, <1>7

-----------------------------------------------------------------------------
(* Finite sets *)

\* What the empty set has, and a set has if it has one element less, all
\* finite sets have.
LEMMA SetInduction ==
    ASSUME NEW S, IsFiniteSet(S), NEW Good, {} \in Good,
           \A A \in SUBSET S : \A x \in S \ A : A \in Good => A \cup {x} \in Good
    PROVE  S \in Good
  <1> DEFINE Failing == {n \in 0..Cardinality(S) :
                            \E A \in SUBSET S : Cardinality(A) = n /\ A \notin Good}
  <1>0. Cardinality(S) \in Nat
    BY FS_CardinalityType
  <1> SUFFICES ASSUME Failing # {}
               PROVE  FALSE
    BY <1>0
  <1>1. PICK n \in Failing : \A k \in Failing : n <= k
    <2>1. Failing \subseteq Nat
      BY <1>0
    <2> HIDE DEF Failing
    <2> QED
      BY <2>1, LeastNat
  <1>2. PICK A \in SUBSET S : Cardinality(A) = n /\ A \notin Good
    BY <1>1
  <1>3. PICK x \in A : TRUE
    BY <1>2
  <1>4. IsFiniteSet(A) /\ IsFiniteSet(A \ {x}) /\ Cardinality(A \ {x}) = n - 1
    BY <1>2, <1>3, FS_Subset, FS_RemoveElement
  <1>5. A \ {x} \in Good
    <2>1. n - 1 \in Nat /\ n \in 0..Cardinality(S)
      BY <1>1, <1>4, FS_CardinalityType
    <2>2. n - 1 \notin Failing
      <3>1. n \in Nat /\ ~(n <= n - 1)
        BY <1>0, <2>1
      <3> HIDE DEF Failing
      <3> QED
        BY <1>1, <3>1
    <2>3. n - 1 \in 0..Cardinality(S)
      BY <1>0, <2>1
    <2> QED
      BY <1>4, <2>2, <2>3
  <1>6. (A \ {x}) \cup {x} = A
    BY <1>3
  <1> QED
    BY <1>2, <1>3, <1>5, <1>6

\* A recursive definition over the subsets of S, which takes the element
\* pick[s] out of s, as a relation.
Folds(it, S, T, base, pick, step) ==
    /\ it \in [SUBSET S -> T]
    /\ it[{}] = base
    /\ \A s \in (SUBSET S) \ {{}} : it[s] = step[pick[s]][it[s \ {pick[s]}]]

\* What such a definition defines exists if S is finite.
LEMMA FoldExists ==
    ASSUME NEW S, IsFiniteSet(S), NEW T, NEW base \in T,
           NEW pick, \A s \in (SUBSET S) \ {{}} : pick[s] \in s,
           NEW step \in [S -> [T -> T]]
    PROVE  \E it : Folds(it, S, T, base, pick, step)
  <1> DEFINE n == Cardinality(S)
             U == [SUBSET S -> T]
             start == [s \in SUBSET S |-> base]
             next(g) == [s \in SUBSET S |->
                            IF s = {} THEN base ELSE step[pick[s]][g[s \ {pick[s]}]]]
             steps == [i \in 1..n |-> [g \in U |-> next(g)]]
  <1>0. n \in Nat
    BY FS_CardinalityType
  <1>1. start \in U
    OBVIOUS
  <1>2. steps \in [1..n -> [U -> U]]
    <2>1. ASSUME NEW g \in U
          PROVE  next(g) \in U
      <3>1. \A s \in SUBSET S : s # {} => step[pick[s]][g[s \ {pick[s]}]] \in T
        OBVIOUS
      <3> QED
        BY <3>1
    <2> HIDE DEF U, next
    <2> QED
      BY <2>1
  <1>3. PICK h : Iterates(h, U, n, start, steps)
    <2> HIDE DEF U, start, steps, n
    <2> QED
      BY <1>0, <1>1, <1>2, IterationExists
  <1>4. \A i \in 0..n : h[i] \in U
    BY <1>3 DEF Iterates
  <1>5. \A i \in 1..n : h[i] = next(h[i - 1])
    <2> TAKE i \in 1..n
    <2>1. h[i] = steps[i][h[i - 1]]
      BY <1>3 DEF Iterates
    <2>2. h[i - 1] \in U
      <3>1. i - 1 \in 0..n
        BY <1>0
      <3> HIDE DEF U, n
      <3> QED
        BY <1>4, <3>1
    <2> HIDE DEF U, next
    <2> QED
      BY <2>1, <2>2
  <1>6. h[0] = start
    BY <1>3 DEF Iterates
  <1> DEFINE it == [s \in SUBSET S |-> h[Cardinality(s)][s]]
  <1>7. \A s \in SUBSET S : IsFiniteSet(s) /\ Cardinality(s) \in 0..n
    BY <1>0, FS_Subset, FS_CardinalityType
  <1>8. it \in U
    BY <1>4, <1>7
  <1>9. it[{}] = base
    <2>1. Cardinality({}) = 0
      BY FS_EmptySet
    <2>2. it[{}] = h[0][{}]
      BY <2>1
    <2> QED
      BY <1>6, <2>2
  <1>10. ASSUME NEW s \in (SUBSET S) \ {{}}
         PROVE  it[s] = step[pick[s]][it[s \ {pick[s]}]]
    <2> DEFINE c == Cardinality(s)
    <2>1. pick[s] \in s /\ IsFiniteSet(s)
      BY <1>7
    <2>2. Cardinality(s \ {pick[s]}) = c - 1
      <3>1. ASSUME NEW x \in s
            PROVE  Cardinality(s \ {x}) = c - 1
        BY <2>1, FS_RemoveElement
      <3> QED
        BY <2>1, <3>1
    <2>3. c \in 1..n
      <3>1. c \in 0..n /\ c - 1 \in 0..n
        BY <1>7, <2>2
      <3> QED
        BY <1>0, <3>1
    <2>4. h[c] = next(h[c - 1])
      BY <1>5, <2>3
    <2>5. it[s] = h[c][s]
      OBVIOUS
    <2>6. it[s \ {pick[s]}] = h[c - 1][s \ {pick[s]}]
      BY <2>2
    <2> QED
      BY <2>4, <2>5, <2>6
  <1> HIDE DEF it
  <1> QED
    BY <1>8, <1>9, <1>10 DEF Folds


-----------------------------------------------------------------------------
(* Sums *)

\* What a sum over S is computed by.
Summing(it, f, S) ==
    \A s \in SUBSET S :
        /\ it[s] \in Int
        /\ s = {} => it[s] = 0
        /\ s # {} => it[s] = f[CHOOSE x \in s : TRUE] + it[s \ {CHOOSE x \in s : TRUE}]

\* A sum is computed by adding up one element after the other.
LEMMA SumIsComputed ==
    ASSUME NEW S, IsFiniteSet(S), NEW f, \A x \in S : f[x] \in Int
    PROVE  \E it : Summing(it, f, S) /\ SumFunctionOnSet(f, S) = it[S]
  <1> DEFINE first(s) == CHOOSE x \in s : TRUE
             pick == [s \in SUBSET S |-> first(s)]
             step == [x \in S |-> [n \in Int |-> f[x] + n]]
             shape(it) == [s \in SUBSET S |->
                              IF s = {} THEN 0 ELSE f[first(s)] + it[s \ {first(s)}]]
             iter == CHOOSE it : it = shape(it)
  <1>1. \A s \in (SUBSET S) \ {{}} : pick[s] \in s /\ pick[s] = first(s)
    OBVIOUS
  <1>2. step \in [S -> [Int -> Int]]
    OBVIOUS
  <1>3. PICK it : Folds(it, S, Int, 0, pick, step)
    <2>1. \A s \in (SUBSET S) \ {{}} : pick[s] \in s
      BY <1>1
    <2>2. 0 \in Int
      OBVIOUS
    <2> HIDE DEF pick, step
    <2> QED
      BY <1>2, <2>1, <2>2, FoldExists
  <1>4. it \in [SUBSET S -> Int] /\ it[{}] = 0
    BY <1>3 DEF Folds
  <1>5. \A s \in (SUBSET S) \ {{}} : it[s] = f[first(s)] + it[s \ {first(s)}]
    <2> TAKE s \in (SUBSET S) \ {{}}
    <2>1. it[s] = step[pick[s]][it[s \ {pick[s]}]]
      BY <1>3 DEF Folds
    <2>2. first(s) \in S /\ it[s \ {first(s)}] \in Int
      BY <1>1, <1>4
    <2> HIDE DEF first
    <2> QED
      BY <1>1, <2>1, <2>2
  <1>6. it = shape(it)
    <2>1. \A s \in SUBSET S : it[s] = IF s = {} THEN 0 ELSE f[first(s)] + it[s \ {first(s)}]
      BY <1>4, <1>5
    <2> HIDE DEF first
    <2> QED
      BY <1>4, <2>1
  <1>7. iter = shape(iter)
    BY <1>6
  <1>8. SumFunctionOnSet(f, S) = iter[S]
    BY DEF SumFunctionOnSet, FoldFunctionOnSet, MapThenFoldSet
  <1> HIDE DEF iter
  <1>9. \A s \in SUBSET S : iter[s] = IF s = {} THEN 0 ELSE f[first(s)] + iter[s \ {first(s)}]
    <2> HIDE DEF first
    <2> QED
      BY <1>7
  <1>10. \A s \in SUBSET S : iter[s] = it[s]
    <2> DEFINE Failing == {n \in Nat : \E s \in SUBSET S :
                                Cardinality(s) = n /\ iter[s] # it[s]}
    <2> SUFFICES Failing = {}
      BY FS_Subset, FS_CardinalityType
    <2> SUFFICES ASSUME Failing # {}
                 PROVE  FALSE
      OBVIOUS
    <2>1. PICK n \in Failing : \A k \in Failing : n <= k
      <3>1. Failing \subseteq Nat
        OBVIOUS
      <3> HIDE DEF Failing
      <3> QED
        BY <3>1, LeastNat
    <2>2. PICK s \in SUBSET S : Cardinality(s) = n /\ iter[s] # it[s]
      BY <2>1
    <2>3. s # {}
      BY <1>4, <1>9, <2>2
    <2>4. first(s) \in s
      BY <1>1, <2>3
    <2> HIDE DEF first
    <2> DEFINE r == s \ {first(s)}
    <2>5. Cardinality(r) = n - 1 /\ n - 1 \in Nat
      <3>1. IsFiniteSet(s)
        BY FS_Subset
      <3>2. IsFiniteSet(r) /\ Cardinality(r) = Cardinality(s) - 1
        <4>1. ASSUME NEW x \in s
              PROVE  IsFiniteSet(s \ {x}) /\ Cardinality(s \ {x}) = Cardinality(s) - 1
          BY <3>1, FS_RemoveElement
        <4> QED
          BY <2>4, <4>1
      <3>3. Cardinality(r) \in Nat
        BY <3>2, FS_CardinalityType
      <3> QED
        BY <2>2, <3>2, <3>3
    <2>6. n - 1 \notin Failing
      <3>1. n \in Nat /\ ~(n <= n - 1)
        BY <2>1
      <3> HIDE DEF Failing
      <3> QED
        BY <2>1, <3>1
    <2>7. iter[r] = it[r]
      BY <2>5, <2>6
    <2> QED
      BY <1>5, <1>9, <2>2, <2>3, <2>7
  <1> QED
    BY <1>4, <1>8, <1>9, <1>10 DEF Summing

\* Functions that agree on a set have the same sum over it.
LEMMA SameSummed ==
    ASSUME NEW S, IsFiniteSet(S), NEW R \in SUBSET S, NEW f, NEW g,
           \A x \in R : f[x] = g[x],
           NEW a, Summing(a, f, S), NEW b, Summing(b, g, R)
    PROVE  a[R] = b[R]
  <1> DEFINE first(s) == CHOOSE x \in s : TRUE
             Failing == {n \in Nat : \E s \in SUBSET R : Cardinality(s) = n /\ a[s] # b[s]}
  <1>1. \A s \in SUBSET R : IsFiniteSet(s) /\ Cardinality(s) \in Nat
    BY FS_Subset, FS_CardinalityType
  <1> SUFFICES ASSUME Failing # {}
               PROVE  FALSE
    BY <1>1
  <1>2. PICK n \in Failing : \A k \in Failing : n <= k
    <2>1. Failing \subseteq Nat
      OBVIOUS
    <2> HIDE DEF Failing
    <2> QED
      BY <2>1, LeastNat
  <1>3. PICK s \in SUBSET R : Cardinality(s) = n /\ a[s] # b[s]
    BY <1>2
  <1>4. s # {}
    BY <1>3 DEF Summing
  <1>5. first(s) \in s
    BY <1>4
  <1>6. /\ a[s] = f[first(s)] + a[s \ {first(s)}]
        /\ b[s] = g[first(s)] + b[s \ {first(s)}]
    BY <1>4 DEF Summing
  <1> HIDE DEF first
  <1> DEFINE r == s \ {first(s)}
  <1>7. Cardinality(r) = n - 1
    <2>1. ASSUME NEW x \in s
          PROVE  Cardinality(s \ {x}) = Cardinality(s) - 1
      BY <1>1, FS_RemoveElement
    <2> QED
      BY <1>3, <1>5, <2>1
  <1>8. n - 1 \in Nat /\ n - 1 \notin Failing
    <2>1. n \in Nat /\ ~(n <= n - 1) /\ n - 1 \in Nat
      BY <1>1, <1>2, <1>7
    <2> HIDE DEF Failing
    <2> QED
      BY <1>2, <2>1
  <1>9. a[r] = b[r]
    BY <1>7, <1>8
  <1> QED
    BY <1>3, <1>5, <1>6, <1>9

\* A sum is a number, of natural numbers a natural one.
LEMMA SumType ==
    ASSUME NEW S, IsFiniteSet(S), NEW f, \A x \in S : f[x] \in Int
    PROVE  SumFunctionOnSet(f, S) \in Int
  <1>1. PICK it : Summing(it, f, S) /\ SumFunctionOnSet(f, S) = it[S]
    BY SumIsComputed
  <1> QED
    BY <1>1 DEF Summing

LEMMA SumSame ==
    ASSUME NEW S, IsFiniteSet(S), NEW f, NEW g,
           \A x \in S : f[x] \in Int /\ g[x] = f[x]
    PROVE  SumFunctionOnSet(g, S) = SumFunctionOnSet(f, S)
  <1>1. PICK a : Summing(a, f, S) /\ SumFunctionOnSet(f, S) = a[S]
    BY SumIsComputed
  <1>2. PICK b : Summing(b, g, S) /\ SumFunctionOnSet(g, S) = b[S]
    BY SumIsComputed
  <1>3. a[S] = b[S]
    BY <1>1, <1>2, SameSummed
  <1> QED
    BY <1>1, <1>2, <1>3

LEMMA SumOfNone == \A f : SumFunctionOnSet(f, {}) = 0
  <1> SUFFICES ASSUME NEW f
               PROVE  SumFunctionOnSet(f, {}) = 0
    OBVIOUS
  <1>1. IsFiniteSet({}) /\ \A x \in {} : f[x] \in Int
    BY FS_EmptySet
  <1>2. PICK it : Summing(it, f, {}) /\ SumFunctionOnSet(f, {}) = it[{}]
    BY <1>1, SumIsComputed
  <1> QED
    BY <1>2 DEF Summing

\* A sum is the first element and the sum of the rest.
LEMMA SumFirst ==
    ASSUME NEW S, IsFiniteSet(S), S # {}, NEW f, \A x \in S : f[x] \in Int
    PROVE  LET c == CHOOSE x \in S : TRUE
           IN  SumFunctionOnSet(f, S) = f[c] + SumFunctionOnSet(f, S \ {c})
  <1> DEFINE c == CHOOSE x \in S : TRUE
  <1>1. PICK a : Summing(a, f, S) /\ SumFunctionOnSet(f, S) = a[S]
    BY SumIsComputed
  <1>2. a[S] = f[c] + a[S \ {c}]
    BY <1>1 DEF Summing
  <1> HIDE DEF c
  <1>3. IsFiniteSet(S \ {c}) /\ \A x \in S \ {c} : f[x] \in Int
    BY FS_Subset
  <1>4. PICK b : Summing(b, f, S \ {c}) /\ SumFunctionOnSet(f, S \ {c}) = b[S \ {c}]
    BY <1>3, SumIsComputed
  <1>5. a[S \ {c}] = b[S \ {c}]
    <2>1. S \ {c} \in SUBSET S
      OBVIOUS
    <2> QED
      BY <1>1, <1>4, <2>1, SameSummed
  <1> USE DEF c
  <1> QED
    BY <1>1, <1>2, <1>4, <1>5

\* Any element may be taken out of a sum.
LEMMA SumAdd ==
    ASSUME NEW S, IsFiniteSet(S), NEW f, \A x \in S : f[x] \in Int, NEW x \in S
    PROVE  SumFunctionOnSet(f, S) = f[x] + SumFunctionOnSet(f, S \ {x})
  <1> DEFINE Sum(s) == SumFunctionOnSet(f, s)
             first(s) == CHOOSE y \in s : TRUE
             Failing == {n \in Nat : \E s \in SUBSET S : \E y \in s :
                            Cardinality(s) = n /\ Sum(s) # f[y] + Sum(s \ {y})}
  <1>1. \A s \in SUBSET S : /\ IsFiniteSet(s) /\ Cardinality(s) \in Nat
                            /\ \A y \in s : f[y] \in Int
    BY FS_Subset, FS_CardinalityType
  <1>2. \A s \in SUBSET S : Sum(s) \in Int
    BY <1>1, SumType
  <1>3. \A s \in (SUBSET S) \ {{}} :
            first(s) \in s /\ Sum(s) = f[first(s)] + Sum(s \ {first(s)})
    BY <1>1, SumFirst
  <1> HIDE DEF first, Sum
  <1> SUFFICES ASSUME Failing # {}
               PROVE  FALSE
    <2>1. S \in SUBSET S /\ Cardinality(S) \in Nat
      BY <1>1
    <2>2. Sum(S) # f[x] + Sum(S \ {x}) => Cardinality(S) \in Failing
      BY <2>1
    <2> HIDE DEF Failing
    <2> QED
      BY <2>2 DEF Sum
  <1>4. PICK n \in Failing : \A k \in Failing : n <= k
    <2>1. Failing \subseteq Nat
      OBVIOUS
    <2> HIDE DEF Failing
    <2> QED
      BY <2>1, LeastNat
  <1>5. PICK s \in SUBSET S :
            Cardinality(s) = n /\ \E y \in s : Sum(s) # f[y] + Sum(s \ {y})
    BY <1>4
  <1>6. PICK y \in s : Sum(s) # f[y] + Sum(s \ {y})
    BY <1>5
  <1> DEFINE c == first(s)
  <1>7. c \in s /\ Sum(s) = f[c] + Sum(s \ {c})
    BY <1>3, <1>5
  <1>8. y # c
    BY <1>6, <1>7
  <1>9. /\ Cardinality(s \ {c}) = n - 1 /\ Cardinality(s \ {y}) = n - 1
        /\ n - 1 \in Nat
    <2>1. ASSUME NEW z \in s
          PROVE  Cardinality(s \ {z}) = Cardinality(s) - 1
      BY <1>1, FS_RemoveElement
    <2>2. s \ {c} \in SUBSET S
      OBVIOUS
    <2> QED
      BY <1>1, <1>5, <1>7, <2>1, <2>2
  <1>10. n - 1 \notin Failing
    <2>1. n \in Nat /\ ~(n <= n - 1)
      BY <1>4
    <2> HIDE DEF Failing
    <2> QED
      BY <1>4, <2>1
  <1>11. \A r \in SUBSET S : \A z \in r :
            Cardinality(r) = n - 1 => Sum(r) = f[z] + Sum(r \ {z})
    BY <1>9, <1>10
  <1>12. Sum(s \ {c}) = f[y] + Sum((s \ {c}) \ {y})
    BY <1>6, <1>8, <1>9, <1>11
  <1>13. Sum(s \ {y}) = f[c] + Sum((s \ {y}) \ {c})
    BY <1>5, <1>7, <1>8, <1>9, <1>11
  <1>14. Sum((s \ {c}) \ {y}) = Sum((s \ {y}) \ {c})
    <2>1. (s \ {c}) \ {y} = (s \ {y}) \ {c}
      OBVIOUS
    <2> QED
      BY <2>1
  <1>15. f[c] \in Int /\ f[y] \in Int /\ Sum((s \ {c}) \ {y}) \in Int
    BY <1>1, <1>2, <1>5, <1>7
  <1> HIDE DEF Failing, c
  <1> QED
    BY <1>6, <1>7, <1>12, <1>13, <1>14, <1>15

\* What is added to a set is added to the sum over it.
LEMMA SumAdded ==
    ASSUME NEW S, IsFiniteSet(S), NEW x, x \notin S,
           NEW f, \A y \in S \cup {x} : f[y] \in Int
    PROVE  SumFunctionOnSet(f, S \cup {x}) = f[x] + SumFunctionOnSet(f, S)
  <1>1. IsFiniteSet(S \cup {x}) /\ (S \cup {x}) \ {x} = S
    BY FS_AddElement
  <1>2. x \in S \cup {x}
    OBVIOUS
  <1>3. SumFunctionOnSet(f, S \cup {x}) = f[x] + SumFunctionOnSet(f, (S \cup {x}) \ {x})
    BY <1>1, <1>2, SumAdd
  <1> QED
    BY <1>1, <1>3

\* A sum of natural numbers is one.
LEMMA SumNat ==
    ASSUME NEW S, IsFiniteSet(S), NEW f, \A x \in S : f[x] \in Nat
    PROVE  SumFunctionOnSet(f, S) \in Nat
  <1> DEFINE Good == {A \in SUBSET S : SumFunctionOnSet(f, A) \in Nat}
  <1>1. {} \in Good
    BY SumOfNone
  <1>2. ASSUME NEW A \in SUBSET S, NEW x \in S \ A, A \in Good
        PROVE  A \cup {x} \in Good
    <2>1. IsFiniteSet(A) /\ x \notin A /\ \A y \in A \cup {x} : f[y] \in Int
      BY FS_Subset
    <2>2. SumFunctionOnSet(f, A \cup {x}) = f[x] + SumFunctionOnSet(f, A)
      BY <2>1, SumAdded
    <2> QED
      BY <1>2, <2>2
  <1>3. S \in Good
    <2> HIDE DEF Good
    <2> QED
      BY <1>1, <1>2, SetInduction
  <1> QED
    BY <1>3

\* A sum of larger numbers is no smaller.
LEMMA SumMonotone ==
    ASSUME NEW S, IsFiniteSet(S), NEW f, NEW g,
           \A x \in S : f[x] \in Int /\ g[x] \in Int /\ f[x] <= g[x]
    PROVE  SumFunctionOnSet(f, S) <= SumFunctionOnSet(g, S)
  <1> DEFINE Good == {A \in SUBSET S : SumFunctionOnSet(f, A) <= SumFunctionOnSet(g, A)}
  <1>1. {} \in Good
    BY SumOfNone
  <1>2. ASSUME NEW A \in SUBSET S, NEW x \in S \ A, A \in Good
        PROVE  A \cup {x} \in Good
    <2>1. /\ IsFiniteSet(A) /\ x \notin A
          /\ \A y \in A \cup {x} : f[y] \in Int /\ g[y] \in Int
      BY FS_Subset
    <2>2. /\ SumFunctionOnSet(f, A \cup {x}) = f[x] + SumFunctionOnSet(f, A)
          /\ SumFunctionOnSet(g, A \cup {x}) = g[x] + SumFunctionOnSet(g, A)
      BY <2>1, SumAdded
    <2>3. SumFunctionOnSet(f, A) \in Int /\ SumFunctionOnSet(g, A) \in Int
      BY <2>1, SumType
    <2> QED
      BY <1>2, <2>1, <2>2, <2>3
  <1>3. S \in Good
    <2> HIDE DEF Good
    <2> QED
      BY <1>1, <1>2, SetInduction
  <1> QED
    BY <1>3

\* The sum of sums.
LEMMA SumOfSums ==
    ASSUME NEW S, IsFiniteSet(S), NEW f, NEW g, NEW h,
           \A x \in S : f[x] \in Int /\ g[x] \in Int /\ h[x] = f[x] + g[x]
    PROVE  SumFunctionOnSet(h, S) = SumFunctionOnSet(f, S) + SumFunctionOnSet(g, S)
  <1> DEFINE Good == {A \in SUBSET S :
                SumFunctionOnSet(h, A) = SumFunctionOnSet(f, A) + SumFunctionOnSet(g, A)}
  <1>1. {} \in Good
    BY SumOfNone
  <1>2. ASSUME NEW A \in SUBSET S, NEW x \in S \ A, A \in Good
        PROVE  A \cup {x} \in Good
    <2>1. /\ IsFiniteSet(A) /\ x \notin A
          /\ \A y \in A \cup {x} : f[y] \in Int /\ g[y] \in Int /\ h[y] \in Int
      BY FS_Subset
    <2>2. /\ SumFunctionOnSet(f, A \cup {x}) = f[x] + SumFunctionOnSet(f, A)
          /\ SumFunctionOnSet(g, A \cup {x}) = g[x] + SumFunctionOnSet(g, A)
          /\ SumFunctionOnSet(h, A \cup {x}) = h[x] + SumFunctionOnSet(h, A)
      BY <2>1, SumAdded
    <2>3. SumFunctionOnSet(f, A) \in Int /\ SumFunctionOnSet(g, A) \in Int
      BY <2>1, SumType
    <2> QED
      BY <1>2, <2>1, <2>2, <2>3
  <1>3. S \in Good
    <2> HIDE DEF Good
    <2> QED
      BY <1>1, <1>2, SetInduction
  <1> QED
    BY <1>3

\* The sum over a set is the sum over a part and the sum over what is left.
LEMMA SumSplit ==
    ASSUME NEW S, IsFiniteSet(S), NEW f, \A x \in S : f[x] \in Int, NEW R \in SUBSET S
    PROVE  SumFunctionOnSet(f, S) = SumFunctionOnSet(f, R) + SumFunctionOnSet(f, S \ R)
  <1> DEFINE T == S \ R
             Good == {A \in SUBSET T :
                SumFunctionOnSet(f, R \cup A) = SumFunctionOnSet(f, R) + SumFunctionOnSet(f, A)}
  <1>0. IsFiniteSet(T) /\ IsFiniteSet(R)
    BY FS_Subset
  <1>1. {} \in Good
    <2>1. R \cup {} = R
      OBVIOUS
    <2>2. SumFunctionOnSet(f, R) \in Int
      BY <1>0, SumType
    <2> QED
      BY <2>1, <2>2, SumOfNone
  <1>2. ASSUME NEW A \in SUBSET T, NEW x \in T \ A, A \in Good
        PROVE  A \cup {x} \in Good
    <2>1. /\ IsFiniteSet(A) /\ IsFiniteSet(R \cup A) /\ x \notin A /\ x \notin R \cup A
          /\ \A y \in (R \cup A) \cup {x} : f[y] \in Int
      <3>1. R \cup A \in SUBSET S
        OBVIOUS
      <3> QED
        BY <3>1, FS_Subset
    <2>2. /\ SumFunctionOnSet(f, A \cup {x}) = f[x] + SumFunctionOnSet(f, A)
          /\ SumFunctionOnSet(f, (R \cup A) \cup {x}) = f[x] + SumFunctionOnSet(f, R \cup A)
      BY <2>1, SumAdded
    <2>3. SumFunctionOnSet(f, A) \in Int /\ SumFunctionOnSet(f, R) \in Int /\ f[x] \in Int
      BY <1>0, <2>1, SumType
    <2>4. R \cup (A \cup {x}) = (R \cup A) \cup {x}
      OBVIOUS
    <2>5. SumFunctionOnSet(f, R \cup A) = SumFunctionOnSet(f, R) + SumFunctionOnSet(f, A)
      BY <1>2
    <2>6. SumFunctionOnSet(f, R \cup (A \cup {x}))
              = SumFunctionOnSet(f, R) + SumFunctionOnSet(f, A \cup {x})
      <3>1. SumFunctionOnSet(f, R \cup (A \cup {x}))
                = SumFunctionOnSet(f, (R \cup A) \cup {x})
        BY <2>4
      <3> HIDE DEF Good, T
      <3> QED
        BY <2>2, <2>3, <2>5, <3>1
    <2>7. A \cup {x} \in SUBSET T
      OBVIOUS
    <2> QED
      BY <2>6, <2>7
  <1>3. T \in Good
    <2> HIDE DEF Good, T
    <2> QED
      BY <1>0, <1>1, <1>2, SetInduction
  <1>4. R \cup T = S
    OBVIOUS
  <1> QED
    BY <1>3, <1>4

\* The sum of ones is the number of elements.
LEMMA SumOfOnes ==
    ASSUME NEW S, IsFiniteSet(S), NEW f, \A x \in S : f[x] = 1
    PROVE  SumFunctionOnSet(f, S) = Cardinality(S)
  <1> DEFINE Good == {A \in SUBSET S : SumFunctionOnSet(f, A) = Cardinality(A)}
  <1>1. {} \in Good
    BY SumOfNone, FS_EmptySet
  <1>2. ASSUME NEW A \in SUBSET S, NEW x \in S \ A, A \in Good
        PROVE  A \cup {x} \in Good
    <2>1. IsFiniteSet(A) /\ x \notin A /\ \A y \in A \cup {x} : f[y] \in Int
      BY FS_Subset
    <2>2. SumFunctionOnSet(f, A \cup {x}) = f[x] + SumFunctionOnSet(f, A)
      BY <2>1, SumAdded
    <2>3. Cardinality(A \cup {x}) = Cardinality(A) + 1 /\ Cardinality(A) \in Nat
      BY <2>1, FS_AddElement, FS_CardinalityType
    <2> QED
      BY <1>2, <2>2, <2>3
  <1>3. S \in Good
    <2> HIDE DEF Good
    <2> QED
      BY <1>1, <1>2, SetInduction
  <1> QED
    BY <1>3

\* A sum of zeros is zero.
LEMMA SumOfZeros ==
    ASSUME NEW S, IsFiniteSet(S), NEW f, \A x \in S : f[x] = 0
    PROVE  SumFunctionOnSet(f, S) = 0
  <1>1. \A x \in S : f[x] \in Int /\ f[x] = f[x] + f[x]
    OBVIOUS
  <1>2. SumFunctionOnSet(f, S) = SumFunctionOnSet(f, S) + SumFunctionOnSet(f, S)
    BY <1>1, SumOfSums
  <1>3. SumFunctionOnSet(f, S) \in Int
    BY <1>1, SumType
  <1>4. \A n \in Int : n = n + n => n = 0
    OBVIOUS
  <1> QED
    BY <1>2, <1>3, <1>4

=============================================================================
