------------------------- MODULE LanePartitionProofs -------------------------
(***************************************************************************)
(* Theorems about LanePartition and their proofs.                          *)
(*                                                                         *)
(* Generated lanes partition the tests: each lane but the last claims the  *)
(* tests on its own paths, no path of one lies below a path of another,    *)
(* and the last lane ignores all of them.                                  *)
(***************************************************************************)
EXTENDS LanePartition, InductionLemmas, SequenceTheorems

\* A function on 1..n is a sequence.
LEMMA FunctionIsSeq ==
    ASSUME NEW S, NEW n \in Nat, NEW f \in [1..n -> S]
    PROVE  f \in Seq(S) /\ Len(f) = n
  <1>1. f \in Seq(S)
    BY SeqDef
  <1> QED
    BY <1>1, LenProperties

-----------------------------------------------------------------------------
(* Paths *)

\* A prefix is a sequence that the other one begins with.
LEMMA PrefixDef ==
    ASSUME NEW a \in Path, NEW b \in Path
    PROVE  IsPrefix(a, b) <=> Len(a) <= Len(b) /\ \A i \in 1..Len(a) : a[i] = b[i]
  <1>1. Len(a) \in Nat /\ Len(b) \in Nat
    BY LenProperties DEF Path
  <1>2. SubSeq(a, 1, Len(a)) = a
    BY SubSeqFull DEF Path
  <1>3. ASSUME Len(a) <= Len(b)
        PROVE  /\ SubSeq(b, 1, Len(a)) \in Path
               /\ Len(SubSeq(b, 1, Len(a))) = Len(a)
               /\ \A i \in 1..Len(a) : SubSeq(b, 1, Len(a))[i] = b[i]
    <2>1. \A i \in 1..Len(a) : b[i] \in STRING
      <3> TAKE i \in 1..Len(a)
      <3>1. i \in 1..Len(b)
        BY <1>1, <1>3
      <3> QED
        BY <3>1, ElementOfSeq DEF Path
    <2>2. 1 \in Int /\ Len(a) \in Int
      BY <1>1
    <2>3. /\ SubSeq(b, 1, Len(a)) \in Seq(STRING)
          /\ Len(SubSeq(b, 1, Len(a))) = IF 1 <= Len(a) THEN Len(a) - 1 + 1 ELSE 0
          /\ \A i \in 1 .. Len(a) - 1 + 1 : SubSeq(b, 1, Len(a))[i] = b[1 + i - 1]
      BY <2>1, <2>2, SubSeqProperties
    <2> QED
      BY <1>1, <2>3 DEF Path
  <1>4. ASSUME Len(a) <= Len(b)
        PROVE  SubSeq(b, 1, Len(a)) = a <=> \A i \in 1..Len(a) : a[i] = b[i]
    <2>1. ASSUME \A i \in 1..Len(a) : a[i] = b[i]
          PROVE  SubSeq(b, 1, Len(a)) = a
      BY <1>3, <1>4, <2>1, SeqEqual DEF Path
    <2>2. ASSUME SubSeq(b, 1, Len(a)) = a
          PROVE  \A i \in 1..Len(a) : a[i] = b[i]
      BY <1>3, <1>4, <2>2
    <2> QED
      BY <2>1, <2>2
  <1> QED
    BY <1>2, <1>4 DEF IsPrefix

\* The first n elements are a prefix, and every prefix is that.
LEMMA PrefixTaken ==
    ASSUME NEW b \in Path
    PROVE  /\ \A n \in 0..Len(b) : /\ SubSeq(b, 1, n) \in Path /\ Len(SubSeq(b, 1, n)) = n
                                   /\ IsPrefix(SubSeq(b, 1, n), b)
           /\ \A a \in Path : IsPrefix(a, b) =>
                Len(a) \in 0..Len(b) /\ SubSeq(b, 1, Len(a)) = a
  <1>1. Len(b) \in Nat
    BY LenProperties DEF Path
  <1>2. ASSUME NEW n \in 0..Len(b)
        PROVE  /\ SubSeq(b, 1, n) \in Path /\ Len(SubSeq(b, 1, n)) = n
               /\ IsPrefix(SubSeq(b, 1, n), b)
    <2>1. \A i \in 1..n : b[i] \in STRING
      <3> TAKE i \in 1..n
      <3>1. i \in 1..Len(b)
        BY <1>1
      <3> QED
        BY <3>1, ElementOfSeq DEF Path
    <2>2. 1 \in Int /\ n \in Int
      BY <1>1
    <2>3. /\ SubSeq(b, 1, n) \in Seq(STRING)
          /\ Len(SubSeq(b, 1, n)) = IF 1 <= n THEN n - 1 + 1 ELSE 0
          /\ \A i \in 1 .. n - 1 + 1 : SubSeq(b, 1, n)[i] = b[1 + i - 1]
      BY <2>1, <2>2, SubSeqProperties
    <2>4. SubSeq(b, 1, n) \in Path /\ Len(SubSeq(b, 1, n)) = n
      BY <1>1, <2>3 DEF Path
    <2>5. \A i \in 1..n : SubSeq(b, 1, n)[i] = b[i]
      BY <1>1, <2>3
    <2> DEFINE a == SubSeq(b, 1, n)
    <2>6. /\ a \in Path /\ Len(a) = n /\ \A i \in 1..n : a[i] = b[i]
          /\ n \in Nat /\ n <= Len(b)
      BY <1>1, <2>4, <2>5
    <2> HIDE DEF a
    <2>7. IsPrefix(a, b)
      BY <2>6, PrefixDef
    <2> QED
      BY <2>4, <2>7 DEF a
  <1>3. ASSUME NEW a \in Path, IsPrefix(a, b)
        PROVE  Len(a) \in 0..Len(b) /\ SubSeq(b, 1, Len(a)) = a
    <2>1. Len(a) \in Nat /\ SubSeq(a, 1, Len(a)) = a
      BY LenProperties, SubSeqFull DEF Path
    <2> QED
      BY <1>1, <1>3, <2>1 DEF IsPrefix
  <1> QED
    BY <1>2, <1>3

\* Being a prefix is an order, in which the prefixes of one path are comparable.
LEMMA PrefixOrder ==
    ASSUME NEW a \in Path, NEW b \in Path, NEW c \in Path
    PROVE  /\ IsPrefix(a, a)
           /\ IsPrefix(a, b) /\ IsPrefix(b, c) => IsPrefix(a, c)
           /\ IsPrefix(a, c) /\ IsPrefix(b, c) => IsPrefix(a, b) \/ IsPrefix(b, a)
           /\ IsPrefix(a, b) /\ Len(a) = Len(b) => a = b
  <1>1. Len(a) \in Nat /\ Len(b) \in Nat /\ Len(c) \in Nat
    BY LenProperties DEF Path
  <1>2. IsPrefix(a, a)
    BY <1>1, PrefixDef
  <1>3. IsPrefix(a, b) /\ IsPrefix(b, c) => IsPrefix(a, c)
    BY <1>1, PrefixDef
  <1>4. IsPrefix(a, c) /\ IsPrefix(b, c) => IsPrefix(a, b) \/ IsPrefix(b, a)
    BY <1>1, PrefixDef
  <1>5. IsPrefix(a, b) /\ Len(a) = Len(b) => a = b
    BY <1>1, PrefixDef, SeqEqual DEF Path
  <1> QED
    BY <1>2, <1>3, <1>4, <1>5

\* The rootdir is a prefix of every path.
LEMMA EmptyPrefix ==
    ASSUME NEW b \in Path
    PROVE  /\ <<>> \in Path /\ Len(<<>>) = 0 /\ IsPrefix(<<>>, b)
           /\ b # <<>> => Len(b) \in Nat \ {0}
  <1>1. <<>> \in Path /\ Len(<<>>) = 0 /\ (b # <<>> => Len(b) \in Nat \ {0})
    BY EmptySeq DEF Path
  <1>2. Len(b) \in Nat
    BY LenProperties DEF Path
  <1> QED
    BY <1>1, <1>2, PrefixDef

\* The prefixes of a path with one more part.
LEMMA PrefixOfAppend ==
    ASSUME NEW a \in Path, NEW b \in Path, NEW e \in STRING
    PROVE  /\ Append(b, e) \in Path /\ Len(Append(b, e)) = Len(b) + 1
           /\ IsPrefix(a, b) => IsPrefix(a, Append(b, e))
           /\ IsPrefix(a, Append(b, e)) => a = Append(b, e) \/ IsPrefix(a, b)
  <1> DEFINE c == Append(b, e)
  <1>1. c \in Path /\ Len(c) = Len(b) + 1
    BY AppendProperties DEF Path
  <1>2. \A i \in 1..Len(b) : c[i] = b[i]
    BY AppendProperties DEF Path
  <1>3. Len(a) \in Nat /\ Len(b) \in Nat
    BY LenProperties DEF Path
  <1> HIDE DEF c
  <1>4. ASSUME IsPrefix(a, b)
        PROVE  IsPrefix(a, c)
    <2>1. Len(a) <= Len(b) /\ \A i \in 1..Len(a) : a[i] = b[i]
      BY <1>4, PrefixDef
    <2>2. \A i \in 1..Len(a) : i \in 1..Len(b)
      BY <1>3, <2>1
    <2>3. Len(a) <= Len(c) /\ \A i \in 1..Len(a) : a[i] = c[i]
      BY <1>1, <1>2, <1>3, <2>1, <2>2
    <2> QED
      BY <1>1, <2>3, PrefixDef
  <1>5. ASSUME IsPrefix(a, c)
        PROVE  a = c \/ IsPrefix(a, b)
    <2>1. CASE Len(a) = Len(b) + 1
      BY <1>1, <1>5, <2>1, PrefixOrder
    <2>2. CASE Len(a) # Len(b) + 1
      <3>1. Len(a) <= Len(c) /\ \A i \in 1..Len(a) : a[i] = c[i]
        BY <1>1, <1>5, PrefixDef
      <3>2. Len(a) <= Len(b)
        BY <1>1, <1>3, <2>2, <3>1
      <3>3. \A i \in 1..Len(a) : i \in 1..Len(b)
        BY <1>3, <3>2
      <3>4. \A i \in 1..Len(a) : a[i] = b[i]
        BY <1>2, <3>1, <3>3
      <3> QED
        BY <3>2, <3>4, PrefixDef
    <2> QED
      BY <2>1, <2>2
  <1> QED
    BY <1>1, <1>4, <1>5 DEF c

\* The directory of a path is the path but its last part.
LEMMA FrontOfPath ==
    ASSUME NEW b \in Path, b # <<>>
    PROVE  /\ Front(b) \in Path /\ Len(Front(b)) = Len(b) - 1
           /\ IsPrefix(Front(b), b)
           /\ \A a \in Path : IsPrefix(a, b) /\ a # b => IsPrefix(a, Front(b))
  <1>1. Len(b) \in Nat \ {0}
    BY EmptyPrefix
  <1>2. Len(b) - 1 \in 0..Len(b)
    BY <1>1
  <1>3. /\ Front(b) \in Path /\ Len(Front(b)) = Len(b) - 1
        /\ IsPrefix(Front(b), b)
    BY <1>2, PrefixTaken DEF Front
  <1>4. ASSUME NEW a \in Path, IsPrefix(a, b), a # b
        PROVE  IsPrefix(a, Front(b))
    <2>1. Len(a) \in Nat /\ Len(a) <= Len(b) /\ Len(a) # Len(b)
      BY <1>1, <1>4, PrefixDef, PrefixOrder, LenProperties DEF Path
    <2>2. \A i \in 1..Len(a) : a[i] = b[i]
      BY <1>4, PrefixDef
    <2>3. \A i \in 1..Len(Front(b)) : Front(b)[i] = b[i]
      BY <1>3, PrefixDef
    <2> QED
      BY <1>1, <1>3, <2>1, <2>2, <2>3, PrefixDef
  <1> QED
    BY <1>3, <1>4

-----------------------------------------------------------------------------
(* Sorting *)

\* The set of pairs before is a strict total order of S.
TotalOrder(before, S) ==
    /\ \A x, y \in S :
        /\ x # y => <<x, y>> \in before \/ <<y, x>> \in before
        /\ ~(<<x, y>> \in before /\ <<y, x>> \in before)
    /\ \A x, y, z \in S : <<x, y>> \in before /\ <<y, z>> \in before => <<x, z>> \in before

\* What is before x.
EarlierThan(before, S, x) == {y \in S : <<y, x>> \in before}

\* q lists the elements of S once each, in the order before.
Lists(q, S, before) ==
    /\ q \in Seq(S) /\ Len(q) = Cardinality(S) /\ Cardinality(S) \in Nat
    /\ \A k, m \in 1..Len(q) : k < m => <<q[k], q[m]>> \in before
    /\ \A k, m \in 1..Len(q) : k # m => q[k] # q[m]
    /\ \A x \in S : \E k \in 1..Len(q) : q[k] = x

\* What is earlier has the smaller rank, and every rank is taken.
LEMMA RankOf ==
    ASSUME NEW S, IsFiniteSet(S), NEW before, TotalOrder(before, S)
    PROVE  /\ \A x, y \in S : <<x, y>> \in before =>
                Cardinality(EarlierThan(before, S, x)) < Cardinality(EarlierThan(before, S, y))
           /\ \A x \in S : Cardinality(EarlierThan(before, S, x)) \in 0..(Cardinality(S) - 1)
           /\ \A k \in 1..Cardinality(S) :
                \E x \in S : Cardinality(EarlierThan(before, S, x)) = k - 1
  <1> DEFINE n == Cardinality(S)
             E(x) == EarlierThan(before, S, x)
             rank == [x \in S |-> Cardinality(E(x))]
  <1>1. n \in Nat
    BY FS_CardinalityType
  <1>2. \A x \in S : E(x) \in SUBSET S /\ x \notin E(x)
    BY DEF EarlierThan, TotalOrder
  <1>3. \A x \in S : IsFiniteSet(E(x)) /\ Cardinality(E(x)) \in Nat
    <2> HIDE DEF E
    <2> QED
      BY <1>2, FS_Subset, FS_CardinalityType
  <1>4. ASSUME NEW x \in S, NEW y \in S, <<x, y>> \in before
        PROVE  rank[x] < rank[y]
    <2>1. E(x) \in SUBSET E(y)
      BY <1>4 DEF EarlierThan, TotalOrder
    <2>2. x \in E(y) /\ x \notin E(x)
      BY <1>2, <1>4 DEF EarlierThan
    <2>3. IsFiniteSet(E(y)) /\ Cardinality(E(x)) \in Nat /\ Cardinality(E(y)) \in Nat
      BY <1>3
    <2>4. rank[x] = Cardinality(E(x)) /\ rank[y] = Cardinality(E(y))
      OBVIOUS
    <2> HIDE DEF E, rank
    <2>5. Cardinality(E(x)) <= Cardinality(E(y)) /\ Cardinality(E(x)) # Cardinality(E(y))
      BY <2>1, <2>2, <2>3, FS_Subset
    <2> QED
      BY <2>3, <2>4, <2>5
  <1>5. ASSUME NEW x \in S
        PROVE  rank[x] \in 0..(n - 1)
    <2>1. E(x) \in SUBSET S /\ E(x) # S
      BY <1>2
    <2>2. rank[x] = Cardinality(E(x)) /\ Cardinality(E(x)) \in Nat
      BY <1>3
    <2> HIDE DEF E, rank
    <2>3. Cardinality(E(x)) <= n /\ Cardinality(E(x)) # n
      BY <2>1, FS_Subset
    <2> QED
      BY <1>1, <2>2, <2>3
  <1>6. rank \in Injection(S, 0..(n - 1))
    <2>1. rank \in [S -> 0..(n - 1)]
      <3>1. rank = [x \in S |-> rank[x]]
        OBVIOUS
      <3> HIDE DEF rank
      <3> QED
        BY <1>5, <3>1
    <2>2. ASSUME NEW x \in S, NEW y \in S, rank[x] = rank[y]
          PROVE  x = y
      <3> SUFFICES ASSUME x # y
                   PROVE  FALSE
        OBVIOUS
      <3>1. <<x, y>> \in before \/ <<y, x>> \in before
        BY DEF TotalOrder
      <3>2. rank[x] \in Int
        BY <1>5
      <3> HIDE DEF rank
      <3>3. rank[x] < rank[y] \/ rank[y] < rank[x]
        BY <1>4, <3>1
      <3> QED
        BY <2>2, <3>2, <3>3
    <2>3. DOMAIN rank = S
      OBVIOUS
    <2> HIDE DEF rank
    <2> QED
      BY <2>1, <2>2, <2>3 DEF Injection, IsInjective
  <1>7. IsFiniteSet(0..(n - 1)) /\ Cardinality(0..(n - 1)) = n
    <2> DEFINE m == n - 1
    <2>1. 0 \in Int /\ m \in Int /\ n = m + 1 /\ m >= -1
      BY <1>1
    <2> HIDE DEF m
    <2>2. IsFiniteSet(0..m) /\ Cardinality(0..m) = IF 0 > m THEN 0 ELSE m - 0 + 1
      BY <2>1, FS_Interval
    <2>3. IsFiniteSet(0..m) /\ Cardinality(0..m) = n
      BY <2>1, <2>2
    <2> QED
      BY <2>3 DEF m
  <1>8. rank \in Surjection(S, 0..(n - 1))
    <2> HIDE DEF rank
    <2> QED
      BY <1>1, <1>6, <1>7, FS_Injection
  <1>9. ASSUME NEW k \in 1..n
        PROVE  \E x \in S : rank[x] = k - 1
    <2>1. k - 1 \in 0..(n - 1)
      BY <1>1
    <2> HIDE DEF rank
    <2> QED
      BY <1>8, <2>1 DEF Surjection
  <1> QED
    BY <1>4, <1>5, <1>9

\* Python's sorted lists every element once, in order.
LEMMA SortedLists ==
    ASSUME NEW S, IsFiniteSet(S), NEW before, TotalOrder(before, S)
    PROVE  Lists(sorted(S, before), S, before)
  <1> DEFINE n == Cardinality(S)
             E(x) == EarlierThan(before, S, x)
             q == [k \in 1..n |-> CHOOSE x \in S : Cardinality(E(x)) = k - 1]
  <1>0. n \in Nat
    BY FS_CardinalityType
  <1>1. sorted(S, before) = q
    BY DEF sorted, EarlierThan
  <1>2. /\ \A x, y \in S : <<x, y>> \in before => Cardinality(E(x)) < Cardinality(E(y))
        /\ \A x \in S : Cardinality(E(x)) \in 0..(n - 1)
        /\ \A k \in 1..n : \E x \in S : Cardinality(E(x)) = k - 1
    BY RankOf
  <1> HIDE DEF E
  <1>3. \A k \in 1..n : q[k] \in S /\ Cardinality(E(q[k])) = k - 1
    BY <1>2
  <1>4. q \in [1..n -> S]
    <2>1. q = [k \in 1..n |-> q[k]]
      OBVIOUS
    <2> HIDE DEF q
    <2> QED
      BY <1>3, <2>1
  <1> HIDE DEF q
  <1>5. q \in Seq(S) /\ Len(q) = n
    BY <1>0, <1>4, FunctionIsSeq
  <1> HIDE DEF n
  <1>6. ASSUME NEW k \in 1..n, NEW m \in 1..n, k # m
        PROVE  q[k] # q[m]
    <2>1. k - 1 # m - 1
      BY <1>0, <1>6
    <2> QED
      BY <1>3, <2>1
  <1>7. ASSUME NEW k \in 1..n, NEW m \in 1..n, k < m
        PROVE  <<q[k], q[m]>> \in before
    <2>1. q[k] # q[m]
      BY <1>0, <1>6, <1>7
    <2>2. ~(<<q[m], q[k]>> \in before)
      <3>1. ~(m - 1 < k - 1)
        BY <1>0, <1>7
      <3> QED
        BY <1>2, <1>3, <3>1
    <2> QED
      BY <1>3, <2>1, <2>2 DEF TotalOrder
  <1>8. ASSUME NEW x \in S
        PROVE  \E k \in 1..n : q[k] = x
    <2> DEFINE k == Cardinality(E(x)) + 1
    <2>1. k \in 1..n /\ k - 1 = Cardinality(E(x))
      BY <1>0, <1>2
    <2>2. q[k] \in S /\ Cardinality(E(q[k])) = Cardinality(E(x))
      BY <1>3, <2>1
    <2> HIDE DEF k
    <2>3. q[k] = x
      <3> SUFFICES ASSUME q[k] # x
                   PROVE  FALSE
        OBVIOUS
      <3>1. <<x, q[k]>> \in before \/ <<q[k], x>> \in before
        BY <2>2 DEF TotalOrder
      <3>2. \/ Cardinality(E(x)) < Cardinality(E(q[k]))
            \/ Cardinality(E(q[k])) < Cardinality(E(x))
        BY <1>2, <2>2, <3>1
      <3>3. Cardinality(E(x)) \in Int
        BY <1>2
      <3> QED
        BY <2>2, <3>2, <3>3
    <2> QED
      BY <2>1, <2>3
  <1> QED
    BY <1>0, <1>1, <1>5, <1>6, <1>7, <1>8 DEF Lists, n

\* Of numbers 1..n in ascending order nothing moves.
LEMMA SortedNumbers ==
    ASSUME NEW n \in Nat
    PROVE  /\ sorted(1..n, {p \in (1..n) \X (1..n) : p[1] < p[2]}) = [k \in 1..n |-> k]
           /\ Cardinality(1..n) = n
  <1> DEFINE N == 1..n
             before == {p \in N \X N : p[1] < p[2]}
  <1>1. IsFiniteSet(N) /\ Cardinality(N) = n
    <2>1. 1 \in Int /\ n \in Int
      OBVIOUS
    <2>2. IsFiniteSet(1..n) /\ Cardinality(1..n) = IF 1 > n THEN 0 ELSE n - 1 + 1
      BY <2>1, FS_Interval
    <2> QED
      BY <2>2
  <1>2. ASSUME NEW x \in N
        PROVE  Cardinality(EarlierThan(before, N, x)) = x - 1
    <2> DEFINE m == x - 1
    <2>1. EarlierThan(before, N, x) = 1..m
      BY DEF EarlierThan
    <2>2. 1 \in Int /\ m \in Int /\ m >= 0
      OBVIOUS
    <2> HIDE DEF m
    <2>3. Cardinality(1..m) = IF 1 > m THEN 0 ELSE m - 1 + 1
      BY <2>2, FS_Interval
    <2>4. Cardinality(1..m) = m
      BY <2>2, <2>3
    <2> QED
      BY <2>1, <2>4 DEF m
  <1>3. ASSUME NEW k \in N
        PROVE  (CHOOSE x \in N : Cardinality(EarlierThan(before, N, x)) = k - 1) = k
    <2> DEFINE P(x) == Cardinality(EarlierThan(before, N, x)) = k - 1
    <2>1. P(k) /\ \A x \in N : P(x) => x = k
      <3>1. P(k)
        BY <1>2
      <3>2. \A x \in N : x - 1 = k - 1 => x = k
        OBVIOUS
      <3> QED
        BY <1>2, <3>1, <3>2
    <2> HIDE DEF P
    <2>2. (CHOOSE x \in N : P(x)) = k
      BY <2>1
    <2> QED
      BY <2>2 DEF P
  <1>4. sorted(N, before) = [k \in 1..n |->
            CHOOSE x \in N : Cardinality(EarlierThan(before, N, x)) = k - 1]
    BY <1>1 DEF sorted, EarlierThan
  <1> QED
    BY <1>1, <1>3, <1>4

\* Heaviest first is a total order if different elements have different places.
LEMMA HeaviestFirstOrders ==
    ASSUME NEW S, NEW load \in [S -> Int], NEW place \in [S -> Int],
           \A x, y \in S : place[x] = place[y] => x = y
    PROVE  TotalOrder(HeaviestFirst(S, load, place), S)
  <1> DEFINE before == HeaviestFirst(S, load, place)
  <1>1. \A x, y \in S : <<x, y>> \in before <=>
            \/ load[x] > load[y]
            \/ load[x] = load[y] /\ place[x] < place[y]
    BY DEF HeaviestFirst
  <1>2. \A x \in S : load[x] \in Int /\ place[x] \in Int
    OBVIOUS
  <1> HIDE DEF before
  <1>3. ASSUME NEW x \in S, NEW y \in S
        PROVE  /\ x # y => <<x, y>> \in before \/ <<y, x>> \in before
               /\ ~(<<x, y>> \in before /\ <<y, x>> \in before)
    <2>1. x # y => place[x] # place[y]
      OBVIOUS
    <2> QED
      BY <1>1, <1>2, <2>1
  <1>4. ASSUME NEW x \in S, NEW y \in S, NEW z \in S,
               <<x, y>> \in before, <<y, z>> \in before
        PROVE  <<x, z>> \in before
    BY <1>1, <1>2, <1>4
  <1>5. TotalOrder(before, S)
    BY <1>3, <1>4 DEF TotalOrder
  <1> QED
    BY <1>5 DEF before

-----------------------------------------------------------------------------
(* Tests on disk *)

\* What the assumption on the disk says of one test.
LEMMA TestPaths ==
    ASSUME NEW t \in AllTests
    PROVE  /\ t.path \in Path /\ t.path # <<>> /\ Len(t.path) \in Nat \ {0}
           /\ t.path \in Range(Lexical) /\ t.name \in STRING /\ None \notin t.suffixes
           /\ \A u \in AllTests : IsPrefix(t.path, u.path) => t.path = u.path
  <1>1. OnDisk(t) /\ Lexical \in Seq(Path)
    BY PartitionAssumption
  <1>2. t.path \in Range(Lexical) /\ t.path # <<>>
    BY <1>1 DEF OnDisk
  <1>3. t.path \in Path
    BY <1>1, <1>2, ElementOfSeq, LenProperties DEF Range
  <1>4. Len(t.path) \in Nat \ {0}
    BY <1>2, <1>3, EmptyPrefix
  <1> QED
    BY <1>1, <1>2, <1>3, <1>4 DEF OnDisk

-----------------------------------------------------------------------------
(* Generated configurations *)

\* A lane that runs what its path rules claim, and no test by its node id.
Claimant(s) ==
    /\ s.classifier_class_base_names = {} /\ s.classifier_path_suffix = None
    /\ ~s.classifier_fallback
    /\ s.subprocess_nodeids = {} /\ s.subprocess_ignore = {}
    /\ ~s.subprocess_ignore_other_lanes
    /\ s.subprocess_paths = s.classifier_paths \cup s.classifier_path_prefixes
    /\ s.subprocess_paths \in SUBSET Path /\ s.subprocess_paths # {}
    /\ <<>> \notin s.subprocess_paths
    /\ \A t \in AllTests :
        /\ Append(t.path, t.name) \notin s.subprocess_paths
        /\ \A p \in s.classifier_paths : IsPrefix(p, t.path) => p = t.path

\* No path of one lies below a path of the other.
Apart(r, s) ==
    \A p \in r.subprocess_paths, q \in s.subprocess_paths : ~IsPrefix(p, q)

\* n lanes that claim different paths, and one that takes the rest.
Partition(config, n) ==
    /\ n \in Nat /\ DOMAIN config.lanes = 1..n + 1
    /\ \A i \in 1..n : Claimant(config.lanes[i])
    /\ \E name : config.lanes[n + 1] = _fallback_lane(name)
    /\ \A i, j \in 1..n + 1 : config.lanes[i].name = config.lanes[j].name => i = j
    /\ \A i, j \in 1..n : i # j => Apart(config.lanes[i], config.lanes[j])

\* The first m of them are run, in either mode.
InOrderOf(config, m) ==
    /\ config.order_full = <<>>
    /\ config.order_standard = [i \in 1..m |-> config.lanes[i].name]

\* A path of the lane is the test's file or a directory above it.
Covers(s, t) == \E p \in s.subprocess_paths : IsPrefix(p, t.path)

\* The fields of a lane that takes the rest.
LEMMA RestLane ==
    ASSUME NEW name
    PROVE  LET s == _fallback_lane(name)
           IN  /\ s.name = name /\ s.classifier_class_base_names = {}
               /\ s.classifier_path_suffix = None /\ s.classifier_fallback
               /\ s.classifier_paths = {} /\ s.classifier_path_prefixes = {}
               /\ s.subprocess_paths = {} /\ s.subprocess_nodeids = {}
               /\ s.subprocess_ignore = {} /\ s.subprocess_ignore_other_lanes
  BY DEF _fallback_lane, LaneNamed

\* A lane claims what lies on its paths.
LEMMA ClaimsByPath ==
    ASSUME NEW s, Claimant(s), NEW t \in AllTests
    PROVE  PathClaims(s, t) <=> Covers(s, t)
  <1>1. t.path \in Path /\ None \notin t.suffixes
    BY TestPaths
  <1>2. IsPrefix(t.path, t.path)
    BY <1>1, PrefixOrder
  <1>3. ASSUME Covers(s, t)
        PROVE  PathClaims(s, t)
    <2>1. PICK p \in s.subprocess_paths : IsPrefix(p, t.path)
      BY <1>3 DEF Covers
    <2>2. p \in s.classifier_paths => p = t.path
      BY <2>1 DEF Claimant
    <2> QED
      BY <2>1, <2>2 DEF Claimant, PathClaims
  <1>4. ASSUME PathClaims(s, t)
        PROVE  Covers(s, t)
    BY <1>1, <1>2, <1>4 DEF Claimant, PathClaims, Covers
  <1> QED
    BY <1>3, <1>4

\* Two lanes that are apart do not cover the same test.
LEMMA CoversOnce ==
    ASSUME NEW r, Claimant(r), NEW s, Claimant(s), Apart(r, s), Apart(s, r),
           NEW t \in AllTests, Covers(r, t)
    PROVE  ~Covers(s, t)
  <1> SUFFICES ASSUME Covers(s, t)
               PROVE  FALSE
    OBVIOUS
  <1>1. PICK p \in r.subprocess_paths : IsPrefix(p, t.path)
    BY DEF Covers
  <1>2. PICK q \in s.subprocess_paths : IsPrefix(q, t.path)
    BY DEF Covers
  <1>3. p \in Path /\ q \in Path /\ t.path \in Path
    BY TestPaths DEF Claimant
  <1>4. IsPrefix(p, q) \/ IsPrefix(q, p)
    BY <1>1, <1>2, <1>3, PrefixOrder
  <1> QED
    BY <1>4 DEF Apart

\* The least number of a singleton.
LEMMA MinOne == \A i \in Int : Min({i}) = i
  <1> TAKE i \in Int
  <1>1. \A x \in {i} : x = i
    OBVIOUS
  <1>2. \E x \in {i} : \A y \in {i} : x <= y
    OBVIOUS
  <1> QED
    BY <1>1, <1>2 DEF Min

\* The classification of a test: the lane that covers it, or the last one.
LEMMA ClassifiedOnce ==
    ASSUME NEW config, NEW n, Partition(config, n), NEW t \in AllTests
    PROVE  /\ \A i \in 1..n : Covers(config.lanes[i], t) =>
                lane_for_item(config, t) = config.lanes[i]
           /\ (\A i \in 1..n : ~Covers(config.lanes[i], t)) =>
                lane_for_item(config, t) = config.lanes[n + 1]
           /\ Fallbacks(config) # {}
           /\ \A i, j \in 1..n : Covers(config.lanes[i], t) /\ Covers(config.lanes[j], t) => i = j
  <1> DEFINE L == config.lanes
  <1>1. /\ n \in Nat /\ n + 1 \in 1..n + 1 /\ DOMAIN L = 1..n + 1
        /\ \A i \in 1..n + 1 : i # n + 1 => i \in 1..n
        /\ \A i \in 1..n : i \in 1..n + 1 /\ i # n + 1
    BY DEF Partition
  <1>2. \A i \in 1..n : Claimant(L[i])
    BY DEF Partition
  <1>3. PICK name : L[n + 1] = _fallback_lane(name)
    BY DEF Partition
  <1>4. \A i, j \in 1..n : i # j => Apart(L[i], L[j])
    BY DEF Partition
  <1>5. None \notin t.suffixes
    BY TestPaths
  <1> HIDE DEF L
  <1>6. ByClass(config, t) = {}
    <2>1. \A i \in 1..n + 1 : L[i].classifier_class_base_names = {}
      BY <1>1, <1>2, <1>3, RestLane DEF Claimant
    <2> QED
      BY <1>1, <2>1 DEF ByClass, Indices, L
  <1>7. ByPath(config, t) = {i \in 1..n : Covers(L[i], t)}
    <2>1. \A i \in 1..n : PathClaims(L[i], t) <=> Covers(L[i], t)
      BY <1>2, ClaimsByPath
    <2>2. ~PathClaims(L[n + 1], t)
      BY <1>3, <1>5, RestLane DEF PathClaims
    <2>3. ByPath(config, t) = {i \in 1..n + 1 : PathClaims(L[i], t)}
      BY <1>1 DEF ByPath, Indices, L
    <2> QED
      BY <1>1, <2>1, <2>2, <2>3
  <1>8. Fallbacks(config) = {n + 1}
    <2>1. \A i \in 1..n : ~L[i].classifier_fallback
      BY <1>2 DEF Claimant
    <2>2. L[n + 1].classifier_fallback
      BY <1>3, RestLane
    <2>3. Fallbacks(config) = {i \in 1..n + 1 : L[i].classifier_fallback}
      BY <1>1 DEF Fallbacks, Indices, L
    <2> QED
      BY <1>1, <2>1, <2>2, <2>3
  <1>9. ASSUME NEW i \in 1..n, Covers(L[i], t), NEW j \in 1..n, Covers(L[j], t)
        PROVE  i = j
    BY <1>2, <1>4, <1>9, CoversOnce
  <1>10. ASSUME NEW i \in 1..n, Covers(L[i], t)
         PROVE  lane_for_item(config, t) = L[i]
    <2>1. ByPath(config, t) = {i} /\ i \in Int
      BY <1>1, <1>7, <1>9, <1>10
    <2>2. Min(ByPath(config, t)) = i
      BY <2>1, MinOne
    <2>3. lane_for_item(config, t) = FirstOf(config, ByPath(config, t))
      BY <1>6, <2>1 DEF lane_for_item
    <2> QED
      BY <2>1, <2>2, <2>3 DEF FirstOf, L
  <1>11. ASSUME \A i \in 1..n : ~Covers(L[i], t)
         PROVE  lane_for_item(config, t) = L[n + 1]
    <2>1. ByPath(config, t) = {} /\ n + 1 \in Int
      BY <1>1, <1>7, <1>11
    <2>2. Min(Fallbacks(config)) = n + 1
      BY <1>8, <2>1, MinOne
    <2>3. lane_for_item(config, t) = FirstOf(config, Fallbacks(config))
      BY <1>6, <2>1 DEF lane_for_item
    <2> QED
      BY <1>8, <2>2, <2>3 DEF FirstOf, L
  <1> QED
    BY <1>8, <1>9, <1>10, <1>11 DEF L

-----------------------------------------------------------------------------
(* What a lane's session collects *)

\* pytest descends to the test on its own.
Plain(t) == \A k \in 1..Len(t.path) : k < Len(t.path) => t.path[k] \notin NoRecurse

\* What a session without arguments collects is plain.
LEMMA PlainCollected ==
    ASSUME NEW T \in SUBSET AllTests, NEW t \in Collected({}, {}, T)
    PROVE  t \in T /\ Plain(t)
  <1>1. t \in T /\ \E a \in {<<>>} : Reaches(a, {}, t)
    BY DEF Collected
  <1>2. Reaches(<<>>, {}, t) /\ Len(<<>>) + 1 = 1
    BY <1>1, EmptySeq
  <1> QED
    BY <1>1, <1>2 DEF Reaches, Plain

\* Below an argument a plain test is collected unless a directory is ignored.
LEMMA PlainReached ==
    ASSUME NEW t \in AllTests, Plain(t), NEW a \in Path, IsPrefix(a, Append(t.path, t.name)),
           NEW ignores, \A k \in Len(a) + 1 .. Len(t.path) : SubSeq(t.path, 1, k) \notin ignores
    PROVE  Reaches(a, ignores, t)
  <1>1. Len(a) \in Nat /\ Len(t.path) \in Nat
    BY TestPaths, LenProperties DEF Path
  <1>2. \A k \in Len(a) + 1 .. Len(t.path) : k \in 1..Len(t.path)
    BY <1>1
  <1> QED
    BY <1>2 DEF Reaches, Plain

\* A claiming lane collects only what it covers, and all of that which is plain.
LEMMA ClaimantCollects ==
    ASSUME NEW config, NEW s, Claimant(s), NEW T \in SUBSET AllTests, NEW t \in T
    PROVE  /\ t \in Collected(Arguments(s), Ignores(config, s), T) => Covers(s, t)
           /\ Covers(s, t) /\ Plain(t) => t \in Collected(Arguments(s), Ignores(config, s), T)
  <1>1. /\ Arguments(s) = s.subprocess_paths /\ s.subprocess_paths # {}
        /\ Ignores(config, s) = {} /\ s.subprocess_paths \in SUBSET Path
    BY DEF Claimant, Arguments, Ignores
  <1>2. t \in Collected(Arguments(s), Ignores(config, s), T)
            <=> \E a \in s.subprocess_paths : Reaches(a, {}, t)
    BY <1>1 DEF Collected
  <1>3. t \in AllTests /\ t.path \in Path /\ t.name \in STRING
    BY TestPaths
  <1>4. ASSUME NEW a \in s.subprocess_paths, Reaches(a, {}, t)
        PROVE  Covers(s, t)
    <2>1. IsPrefix(a, Append(t.path, t.name)) /\ a \in Path
      BY <1>1, <1>4 DEF Reaches
    <2>2. a # Append(t.path, t.name)
      BY <1>3 DEF Claimant
    <2> QED
      BY <1>3, <2>1, <2>2, PrefixOfAppend DEF Covers
  <1>5. ASSUME NEW a \in s.subprocess_paths, IsPrefix(a, t.path), Plain(t)
        PROVE  Reaches(a, {}, t)
    <2>1. a \in Path
      BY <1>1
    <2>2. IsPrefix(a, Append(t.path, t.name))
      BY <1>3, <1>5, <2>1, PrefixOfAppend
    <2> QED
      BY <1>3, <1>5, <2>1, <2>2, PlainReached
  <1> QED
    BY <1>2, <1>4, <1>5 DEF Covers

\* What the last lane ignores: the paths of the others.
LEMMA RestIgnores ==
    ASSUME NEW config, NEW n, Partition(config, n)
    PROVE  \A p : p \in Ignores(config, config.lanes[n + 1])
                    <=> \E i \in 1..n : p \in config.lanes[i].subprocess_paths
  <1> DEFINE L == config.lanes
             s == L[n + 1]
             given(r) == r.subprocess_paths \cup r.classifier_paths \cup r.classifier_path_prefixes
  <1>1. /\ n \in Nat /\ n + 1 \in 1..n + 1 /\ DOMAIN L = 1..n + 1
        /\ \A i \in 1..n + 1 : i # n + 1 => i \in 1..n
        /\ \A i \in 1..n : i \in 1..n + 1 /\ i # n + 1
    BY DEF Partition
  <1>2. \A i \in 1..n : given(L[i]) = L[i].subprocess_paths
    BY DEF Partition, Claimant
  <1>3. s.subprocess_ignore = {} /\ s.subprocess_ignore_other_lanes
    BY RestLane DEF Partition
  <1>4. \A i, j \in 1..n + 1 : L[i].name = L[j].name => i = j
    BY DEF Partition
  <1>5. Ignores(config, s) = UNION {given(r) : r \in {r \in Range(L) : r.name # s.name}}
    BY <1>3 DEF Ignores, other_lane_ignores
  <1> HIDE DEF L, given
  <1>6. {r \in Range(L) : r.name # s.name} = {L[i] : i \in 1..n}
    <2>1. Range(L) = {L[i] : i \in 1..n + 1}
      BY <1>1 DEF Range
    <2>2. \A i \in 1..n : L[i].name # s.name
      BY <1>1, <1>4
    <2> QED
      BY <1>1, <2>1, <2>2
  <1>7. \A p : p \in Ignores(config, s) <=> \E i \in 1..n : p \in L[i].subprocess_paths
    BY <1>2, <1>5, <1>6
  <1> QED
    BY <1>7 DEF L

\* The last lane collects only what no other covers, and all of that which is plain.
LEMMA RestCollects ==
    ASSUME NEW config, NEW n, Partition(config, n), NEW T \in SUBSET AllTests, NEW t \in T
    PROVE  LET s == config.lanes[n + 1]
               free == \A i \in 1..n : ~Covers(config.lanes[i], t)
           IN  /\ t \in Collected(Arguments(s), Ignores(config, s), T) => free
               /\ free /\ Plain(t) => t \in Collected(Arguments(s), Ignores(config, s), T)
  <1> DEFINE s == config.lanes[n + 1]
             free == \A i \in 1..n : ~Covers(config.lanes[i], t)
             I == Ignores(config, s)
  <1>1. Arguments(s) = {}
    BY RestLane DEF Partition, Arguments
  <1>2. \A p : p \in I <=> \E i \in 1..n : p \in config.lanes[i].subprocess_paths
    BY RestIgnores
  <1>3. t \in AllTests /\ t.path \in Path /\ t.name \in STRING
    BY TestPaths
  <1>4. \A i \in 1..n : /\ config.lanes[i].subprocess_paths \in SUBSET Path
                        /\ <<>> \notin config.lanes[i].subprocess_paths
    BY DEF Partition, Claimant
  <1>5. <<>> \in Path /\ Len(<<>>) + 1 = 1 /\ IsPrefix(<<>>, Append(t.path, t.name))
    <2>1. <<>> \in Path /\ Len(<<>>) = 0 /\ IsPrefix(<<>>, t.path)
      BY <1>3, EmptyPrefix
    <2>2. IsPrefix(<<>>, Append(t.path, t.name))
      BY <1>3, <2>1, PrefixOfAppend
    <2> QED
      BY <2>1, <2>2
  <1> HIDE DEF s, I
  <1>6. t \in Collected(Arguments(s), I, T) <=> Reaches(<<>>, I, t)
    BY <1>1 DEF Collected
  <1>7. free <=> \A k \in 1..Len(t.path) : SubSeq(t.path, 1, k) \notin I
    <2>1. ASSUME NEW i \in 1..n, NEW p \in config.lanes[i].subprocess_paths, IsPrefix(p, t.path)
          PROVE  \E k \in 1..Len(t.path) : SubSeq(t.path, 1, k) \in I
      <3>1. p \in Path /\ p # <<>>
        BY <1>4
      <3>2. Len(p) \in Nat \ {0} /\ Len(p) \in 0..Len(t.path) /\ SubSeq(t.path, 1, Len(p)) = p
        BY <1>3, <2>1, <3>1, EmptyPrefix, PrefixTaken
      <3>3. Len(p) \in 1..Len(t.path)
        BY <3>2
      <3> QED
        BY <1>2, <3>2, <3>3
    <2>2. ASSUME NEW k \in 1..Len(t.path), SubSeq(t.path, 1, k) \in I
          PROVE  ~free
      <3>1. PICK i \in 1..n : SubSeq(t.path, 1, k) \in config.lanes[i].subprocess_paths
        BY <1>2, <2>2
      <3>2. k \in 0..Len(t.path)
        OBVIOUS
      <3>3. IsPrefix(SubSeq(t.path, 1, k), t.path)
        BY <1>3, <3>2, PrefixTaken
      <3> QED
        BY <3>1, <3>3 DEF Covers
    <2> QED
      BY <2>1, <2>2 DEF Covers
  <1>8. Reaches(<<>>, I, t) => \A k \in 1..Len(t.path) : SubSeq(t.path, 1, k) \notin I
    BY <1>5 DEF Reaches
  <1>9. ASSUME Plain(t), \A k \in 1..Len(t.path) : SubSeq(t.path, 1, k) \notin I
        PROVE  Reaches(<<>>, I, t)
    BY <1>3, <1>5, <1>9, PlainReached
  <1> QED
    BY <1>6, <1>7, <1>8, <1>9 DEF s, I

\* What any lane collects is what is classified to it; of the plain tests, all.
LEMMA LaneCollects ==
    ASSUME NEW config, NEW n, Partition(config, n), NEW T \in SUBSET AllTests, NEW t \in T,
           NEW i \in 1..n + 1
    PROVE  LET s == config.lanes[i]
           IN  /\ t \in Collected(Arguments(s), Ignores(config, s), T)
                    => lane_for_item(config, t) = s
               /\ lane_for_item(config, t) = s /\ Plain(t)
                    => t \in Collected(Arguments(s), Ignores(config, s), T)
  <1>1. /\ n \in Nat /\ n + 1 \in 1..n + 1
        /\ \A j \in 1..n + 1 : j # n + 1 => j \in 1..n
        /\ \A j \in 1..n : j \in 1..n + 1 /\ j # n + 1
    BY DEF Partition
  <1>2. \A j, k \in 1..n + 1 : config.lanes[j] = config.lanes[k] => j = k
    BY DEF Partition
  <1>3. /\ \A j \in 1..n : Covers(config.lanes[j], t) =>
                lane_for_item(config, t) = config.lanes[j]
        /\ (\A j \in 1..n : ~Covers(config.lanes[j], t)) =>
                lane_for_item(config, t) = config.lanes[n + 1]
    BY ClassifiedOnce
  <1>4. CASE i = n + 1
    <2>1. (\A j \in 1..n : ~Covers(config.lanes[j], t))
            <=> lane_for_item(config, t) = config.lanes[n + 1]
      BY <1>1, <1>2, <1>3
    <2> QED
      BY <1>4, <2>1, RestCollects
  <1>5. CASE i # n + 1
    <2>1. i \in 1..n /\ Claimant(config.lanes[i])
      BY <1>1, <1>5 DEF Partition
    <2>2. Covers(config.lanes[i], t) <=> lane_for_item(config, t) = config.lanes[i]
      BY <1>1, <1>2, <1>3, <2>1
    <2> QED
      BY <2>1, <2>2, ClaimantCollects
  <1> QED
    BY <1>4, <1>5

-----------------------------------------------------------------------------
(* The sessions of a generated configuration *)

\* lane_by_name finds each lane by its name.
LEMMA FoundByName ==
    ASSUME NEW config, NEW n, Partition(config, n), NEW i \in 1..n + 1
    PROVE  lane_by_name(config, config.lanes[i].name) = config.lanes[i]
  <1> DEFINE L == config.lanes
  <1>1. DOMAIN L = 1..n + 1 /\ \A j \in 1..n + 1 : L[j].name = L[i].name => j = i
    BY DEF Partition
  <1> HIDE DEF L
  <1>2. {j \in 1..n + 1 : L[j].name = L[i].name} = {i}
    BY <1>1
  <1>3. Indices(config, LAMBDA s : s.name = L[i].name) = {i}
    BY <1>1, <1>2 DEF Indices, L
  <1>4. i \in Int /\ Min({i}) = i
    BY MinOne
  <1>5. FirstOf(config, {i}) = config.lanes[i]
    BY <1>4 DEF FirstOf
  <1> QED
    BY <1>3, <1>5 DEF lane_by_name, L

\* The lanes are run in their order.
LEMMA RunInOrder ==
    ASSUME NEW config, NEW n, Partition(config, n), NEW m \in 1..n + 1, InOrderOf(config, m), NEW mode
    PROVE  build_lane_commands(config, mode) =
                [k \in 1..m |-> [name |-> config.lanes[k].name,
                                 args |-> Arguments(config.lanes[k]),
                                 ignores |-> Ignores(config, config.lanes[k])]]
  <1> DEFINE L == config.lanes
             order == [k \in 1..m |-> L[k].name]
             known == {i \in DOMAIN order : order[i] \in Range(Names(L))}
             places == sorted(known, {p \in known \X known : p[1] < p[2]})
  <1>1. n \in Nat /\ m \in Nat /\ DOMAIN L = 1..n + 1 /\ \A k \in 1..m : k \in 1..n + 1
    BY DEF Partition
  <1>2. subprocess_lanes(config, mode) = _lanes_in_order(config, order)
    BY DEF InOrderOf, subprocess_lanes
  <1>3. known = 1..m
    <2>1. \A k \in 1..m : L[k].name \in Range(Names(L))
      BY <1>1 DEF Range, Names
    <2> HIDE DEF L
    <2> QED
      BY <2>1
  <1>4. places = [k \in 1..m |-> k]
    <2>1. places = sorted(1..m, {p \in (1..m) \X (1..m) : p[1] < p[2]})
      BY <1>3
    <2> QED
      BY <1>1, <2>1, SortedNumbers
  <1>5. _lanes_in_order(config, order) = [k \in DOMAIN places |-> lane_by_name(config, order[places[k]])]
    BY DEF _lanes_in_order
  <1>6. [k \in DOMAIN places |-> lane_by_name(config, order[places[k]])]
            = [k \in 1..m |-> lane_by_name(config, L[k].name)]
    <2> HIDE DEF known, places, L
    <2> QED
      BY <1>4
  <1>7. \A k \in 1..m : lane_by_name(config, L[k].name) = L[k]
    BY <1>1, FoundByName
  <1>8. subprocess_lanes(config, mode) = [k \in 1..m |-> L[k]]
    <2> HIDE DEF known, places, L, order
    <2> QED
      BY <1>2, <1>5, <1>6, <1>7
  <1> QED
    BY <1>8 DEF build_lane_commands

\* What a run of a generated configuration is.
SessionsRun(config, m, T, sessions) ==
    /\ DOMAIN sessions = 1..m
    /\ \A k \in 1..m :
        /\ sessions[k].lane = config.lanes[k].name
        /\ sessions[k].tests = Collected(Arguments(config.lanes[k]),
                                         Ignores(config, config.lanes[k]), T)

\* The sessions of a partition are those of its first m lanes.
LEMMA SessionsOfPartition ==
    ASSUME NEW config, NEW n, Partition(config, n), NEW m \in 1..n + 1, InOrderOf(config, m), NEW mode, NEW T
    PROVE  LET commands == build_lane_commands(config, mode)
           IN  SessionsRun(config, m, T, [i \in DOMAIN commands |->
                    [lane |-> commands[i].name, tests |-> SubprocessTests(commands[i], T)]])
  <1> DEFINE c == build_lane_commands(config, mode)
  <1>1. c = [k \in 1..m |-> [name |-> config.lanes[k].name,
                             args |-> Arguments(config.lanes[k]),
                             ignores |-> Ignores(config, config.lanes[k])]]
    BY RunInOrder
  <1> HIDE DEF c
  <1>2. SessionsRun(config, m, T, [i \in DOMAIN c |->
                    [lane |-> c[i].name, tests |-> SubprocessTests(c[i], T)]])
    BY <1>1 DEF SessionsRun, SubprocessTests
  <1> QED
    BY <1>2 DEF c

\* The lanes run take the test.
Taken(config, n, m, T, sessions, t) ==
    /\ Partition(config, n) /\ m \in 1..n + 1 /\ T \in SUBSET AllTests
    /\ SessionsRun(config, m, T, sessions) /\ t \in T /\ Plain(t)
    /\ m = n + 1 \/ \E i \in 1..m : Covers(config.lanes[i], t)

\* Each plain test that the lanes run take is run by exactly one of them.
LEMMA RunOnce ==
    ASSUME NEW config, NEW n, NEW m, NEW T, NEW sessions, NEW t,
           Taken(config, n, m, T, sessions, t)
    PROVE  \E i \in 1..m :
              /\ \A k \in 1..m : t \in sessions[k].tests <=> k = i
              /\ sessions[i].lane = lane_for_item(config, t).name
  <1> DEFINE L == config.lanes
  <1>0. /\ Partition(config, n) /\ m \in 1..n + 1 /\ T \in SUBSET AllTests
        /\ SessionsRun(config, m, T, sessions) /\ t \in T /\ Plain(t) /\ t \in AllTests
        /\ m = n + 1 \/ \E i \in 1..m : Covers(config.lanes[i], t)
    BY DEF Taken
  <1>1. n \in Nat /\ n + 1 \in 1..n + 1 /\ \A k \in 1..m : k \in 1..n + 1
    BY <1>0 DEF Partition
  <1>2. \A j, k \in 1..n + 1 : L[j] = L[k] => j = k
    BY <1>0 DEF Partition
  <1>3. \E i \in 1..m : lane_for_item(config, t) = L[i]
    <2>1. \A i \in 1..n : Covers(L[i], t) => lane_for_item(config, t) = L[i]
      BY <1>0, ClassifiedOnce
    <2>2. (\A i \in 1..n : ~Covers(L[i], t)) => lane_for_item(config, t) = L[n + 1]
      BY <1>0, ClassifiedOnce
    <2>3. ~Covers(L[n + 1], t)
      BY <1>0, RestLane DEF Partition, Covers
    <2>4. \A k \in 1..m : k # n + 1 => k \in 1..n
      BY <1>1
    <2>5. CASE \E i \in 1..m : Covers(L[i], t)
      BY <2>1, <2>3, <2>4, <2>5
    <2>6. CASE m = n + 1 /\ ~ \E i \in 1..m : Covers(L[i], t)
      <3>1. \A i \in 1..n : i \in 1..m
        BY <1>1, <2>6
      <3> QED
        BY <1>1, <2>2, <2>6, <3>1
    <2> QED
      BY <1>0, <2>5, <2>6
  <1>4. PICK i \in 1..m : lane_for_item(config, t) = L[i]
    BY <1>3
  <1>5. \A k \in 1..m : t \in sessions[k].tests
            <=> t \in Collected(Arguments(L[k]), Ignores(config, L[k]), T)
    BY <1>0 DEF SessionsRun
  <1>6. \A k \in 1..n + 1 : t \in Collected(Arguments(L[k]), Ignores(config, L[k]), T)
            <=> lane_for_item(config, t) = L[k]
    BY <1>0, LaneCollects
  <1>7. \A k \in 1..m : t \in sessions[k].tests <=> k = i
    BY <1>1, <1>2, <1>4, <1>5, <1>6
  <1>8. sessions[i].lane = lane_for_item(config, t).name
    BY <1>0, <1>4 DEF SessionsRun
  <1> QED
    BY <1>7, <1>8

\* One lane selected is the lane's session.
LEMMA SelectedOnce ==
    ASSUME NEW config, NEW n, Partition(config, n), NEW i \in 1..n + 1, NEW T \in SUBSET AllTests
    PROVE  SelectedTests(config, {config.lanes[i].name}, T)
                = Collected(Arguments(config.lanes[i]), Ignores(config, config.lanes[i]), T)
  <1> DEFINE s == config.lanes[i]
             items == Collected(Arguments(s), Ignores(config, s), T)
             asked == collection_args_for_lanes(config, {s.name})
  <1>1. lane_by_name(config, s.name) = s
    BY FoundByName
  <1> HIDE DEF s
  <1>2. {lane_by_name(config, name) : name \in {s.name}} = {s}
    BY <1>1
  <1>3. asked = [args |-> Arguments(s), ignores |-> Ignores(config, s)]
    <2>1. UNION {Arguments(r) : r \in {s}} = Arguments(s)
      OBVIOUS
    <2>2. UNION {Ignores(config, r) : r \in {s}} = Ignores(config, s)
      OBVIOUS
    <2> QED
      BY <1>2, <2>1, <2>2 DEF collection_args_for_lanes
  <1>4. asked.args = Arguments(s) /\ asked.ignores = Ignores(config, s)
    BY <1>3
  <1>5. items \in SUBSET T
    BY DEF Collected
  <1>6. \A t \in items : lane_for_item(config, t) = s
    BY <1>5, LaneCollects DEF s
  <1>7. Unclassified(config, items) = {}
    <2>1. \A t \in items : Fallbacks(config) # {}
      BY <1>5, ClassifiedOnce
    <2> HIDE DEF items
    <2> QED
      BY <2>1 DEF Unclassified
  <1>8. SelectedTests(config, {s.name}, T) =
            IF Unclassified(config, items) # {} THEN {}
            ELSE {t \in items : lane_for_item(config, t).name \in {s.name}}
    BY <1>4 DEF SelectedTests
  <1> HIDE DEF items
  <1>9. SelectedTests(config, {s.name}, T) = items
    BY <1>6, <1>7, <1>8
  <1> QED
    BY <1>9 DEF s, items

-----------------------------------------------------------------------------
(* The configurations of adhoc.py *)

\* What a sequence of lanes is once another is appended.
LEMMA AppendedLane ==
    ASSUME NEW n \in Nat, NEW S, NEW q \in [1..n -> S], NEW x
    PROVE  /\ DOMAIN Append(q, x) = 1..n + 1
           /\ \A i \in 1..n : Append(q, x)[i] = q[i]
           /\ Append(q, x)[n + 1] = x
  <1>1. q \in Seq(S) /\ Len(q) = n
    BY FunctionIsSeq
  <1>2. q \in Seq(S \cup {x}) /\ x \in S \cup {x}
    BY <1>1, SeqMonotonic
  <1>3. /\ Append(q, x) \in Seq(S \cup {x}) /\ Len(Append(q, x)) = n + 1
        /\ \A i \in 1..n : Append(q, x)[i] = q[i]
        /\ Append(q, x)[n + 1] = x
    BY <1>1, <1>2, AppendProperties
  <1> QED
    BY <1>3, LenProperties

\* Claiming lanes with names and paths of their own, and one for the rest.
LEMMA MakesPartition ==
    ASSUME NEW n \in Nat, NEW S, NEW lanes \in [1..n -> S], NEW name, NEW order,
           \A i \in 1..n : Claimant(lanes[i]) /\ lanes[i].name # name,
           \A i, j \in 1..n : i # j => lanes[i].name # lanes[j].name /\ Apart(lanes[i], lanes[j])
    PROVE  Partition(Config(Append(lanes, _fallback_lane(name)), order), n)
  <1> DEFINE all == Append(lanes, _fallback_lane(name))
             config == Config(all, order)
  <1>1. /\ DOMAIN all = 1..n + 1 /\ \A i \in 1..n : all[i] = lanes[i]
        /\ all[n + 1] = _fallback_lane(name)
    BY AppendedLane
  <1>2. _fallback_lane(name).name = name
    BY RestLane
  <1> HIDE DEF all
  <1>3. config.lanes = all
    BY DEF Config
  <1> HIDE DEF config
  <1>4. \A i \in 1..n + 1 : i \in 1..n \/ i = n + 1
    OBVIOUS
  <1>5. ASSUME NEW i \in 1..n + 1, NEW j \in 1..n + 1, all[i].name = all[j].name
        PROVE  i = j
    BY <1>1, <1>2, <1>4, <1>5
  <1>6. Partition(config, n)
    BY <1>1, <1>3, <1>5 DEF Partition
  <1> QED
    BY <1>6 DEF config, all

\* A lane of paths below the rootdir claims them.
LEMMA PathLaneClaims ==
    ASSUME NEW name, NEW paths \in SUBSET Path, paths # {}, <<>> \notin paths,
           \A t \in AllTests : Append(t.path, t.name) \notin paths
    PROVE  /\ Claimant(PathLane(name, paths)) /\ PathLane(name, paths).name = name
           /\ PathLane(name, paths).subprocess_paths = paths
  <1> DEFINE s == PathLane(name, paths)
  <1>1. /\ s.name = name /\ s.classifier_class_base_names = {}
        /\ s.classifier_path_suffix = None /\ ~s.classifier_fallback
        /\ s.classifier_paths = {} /\ s.classifier_path_prefixes = paths
        /\ s.subprocess_paths = paths /\ s.subprocess_nodeids = {}
        /\ s.subprocess_ignore = {} /\ ~s.subprocess_ignore_other_lanes
    BY DEF PathLane, LaneNamed
  <1> HIDE DEF s
  <1>2. Claimant(s)
    BY <1>1 DEF Claimant
  <1> QED
    BY <1>1, <1>2 DEF s

\* --lane-def with separate paths partitions the tests, and runs all lanes.
LEMMA DefinitionsPartition ==
    ASSUME NEW d \in Definitions, d # <<>>, lane_config_from_definitions(d) # Refused
    PROVE  LET config == lane_config_from_definitions(d)
               n == Len(d)
           IN  /\ n \in Nat \ {0} /\ InOrderOf(config, n + 1)
               /\ DOMAIN config.lanes = 1..n + 1
               /\ Separate(config) => Partition(config, n)
  <1> DEFINE n == Len(d)
             lanes == [i \in 1..n |-> PathLane(d[i].name, d[i].paths)]
             all == Append(lanes, _fallback_lane("other"))
             config == lane_config_from_definitions(d)
  <1>1. /\ d \in Seq([name : STRING, paths : (SUBSET Path) \ {{}}])
        /\ n \in Nat \ {0} /\ DOMAIN d = 1..n
    <2>1. d \in Seq([name : STRING, paths : (SUBSET Path) \ {{}}])
      BY PartitionAssumption
    <2> QED
      BY <2>1, EmptySeq, LenProperties
  <1>2. \A i \in 1..n : d[i].paths \in SUBSET Path /\ d[i].paths # {}
    <2>1. \A i \in 1..n : d[i] \in [name : STRING, paths : (SUBSET Path) \ {{}}]
      BY <1>1, ElementOfSeq
    <2> QED
      BY <2>1
  <1>3. config = Config(all, Names(all)) /\ "other" \notin Range(Names(lanes)) /\ IsInjective(Names(lanes))
    BY <1>1 DEF lane_config_from_definitions
  <1>4. \A i \in 1..n : lanes[i].name = d[i].name /\ lanes[i].subprocess_paths = d[i].paths
    BY DEF PathLane, LaneNamed
  <1>5. \A i \in 1..n : lanes[i].name # "other"
    BY <1>3 DEF Range, Names
  <1>6. \A i, j \in 1..n : i # j => lanes[i].name # lanes[j].name
    <2>1. \A i \in 1..n : Names(lanes)[i] = lanes[i].name /\ DOMAIN Names(lanes) = 1..n
      BY DEF Names
    <2> HIDE DEF lanes
    <2> QED
      BY <1>3, <2>1 DEF IsInjective
  <1>7. /\ DOMAIN all = 1..n + 1 /\ \A i \in 1..n : all[i] = lanes[i]
        /\ lanes \in [1..n -> Range(lanes)]
    <2>1. lanes \in [1..n -> Range(lanes)]
      BY DEF Range
    <2> HIDE DEF lanes
    <2> QED
      BY <1>1, <2>1, AppendedLane
  <1>8. config.lanes = all /\ config.order_full = <<>> /\ config.order_standard = Names(all)
    <2> HIDE DEF all, config
    <2> QED
      BY <1>3 DEF Config
  <1>9. InOrderOf(config, n + 1)
    <2> HIDE DEF config, all, lanes
    <2> QED
      BY <1>7, <1>8 DEF InOrderOf, Names
  <1>10. ASSUME Separate(config)
         PROVE  Partition(config, n)
    <2>1. \A i \in 1..n : i \in 1..n + 1 /\ lanes[i] \in Range(config.lanes)
      <3> HIDE DEF config, all, lanes
      <3> QED
        BY <1>1, <1>7, <1>8 DEF Range
    <2>2. \A i \in 1..n : /\ <<>> \notin d[i].paths
                          /\ \A t \in AllTests : Append(t.path, t.name) \notin d[i].paths
      <3> HIDE DEF config, lanes
      <3> QED
        BY <1>4, <1>10, <2>1 DEF Separate
    <2>3. \A i \in 1..n : Claimant(lanes[i])
      BY <1>2, <2>2, PathLaneClaims
    <2>4. \A i, j \in 1..n : i # j => Apart(lanes[i], lanes[j])
      <3>1. \A i, j \in 1..n : i # j => lanes[i] # lanes[j]
        <4> HIDE DEF lanes
        <4> QED
          BY <1>6
      <3> HIDE DEF config, lanes
      <3> QED
        BY <1>10, <2>1, <3>1 DEF Separate, Apart
    <2>5. n \in Nat
      BY <1>1
    <2> DEFINE order == Names(all)
    <2>6. config = Config(Append(lanes, _fallback_lane("other")), order)
      BY <1>3
    <2> HIDE DEF lanes, order, config, n
    <2>7. Partition(Config(Append(lanes, _fallback_lane("other")), order), n)
      BY <1>5, <1>6, <1>7, <2>3, <2>4, <2>5, MakesPartition
    <2> QED
      BY <2>6, <2>7
  <1> QED
    BY <1>1, <1>7, <1>8, <1>9, <1>10

-----------------------------------------------------------------------------
(* --lanes-auto *)

\* Every listed path has its own place.
LEMMA LexicalPlaces ==
    /\ IsFiniteSet(Range(Lexical)) /\ Cardinality(Range(Lexical)) <= Len(Lexical)
    /\ Range(Lexical) \in SUBSET Path /\ Len(Lexical) \in Nat
    /\ \A p \in Range(Lexical) : LexicalIndex(p) \in 1..Len(Lexical) /\ Lexical[LexicalIndex(p)] = p
  <1>1. Lexical \in Seq(Path)
    BY PartitionAssumption
  <1>2. /\ Len(Lexical) \in Nat /\ Lexical \in [1..Len(Lexical) -> Path]
        /\ DOMAIN Lexical = 1..Len(Lexical)
    BY <1>1, LenProperties
  <1>3. Range(Lexical) \in SUBSET Path
    BY <1>2 DEF Range
  <1>4. \A p \in Range(Lexical) : LexicalIndex(p) \in 1..Len(Lexical) /\ Lexical[LexicalIndex(p)] = p
    BY <1>2 DEF Range, LexicalIndex
  <1>5. Lexical \in Surjection(1..Len(Lexical), Range(Lexical))
    BY <1>2 DEF Surjection, Range
  <1>6. IsFiniteSet(1..Len(Lexical)) /\ Cardinality(1..Len(Lexical)) = Len(Lexical)
    <2> DEFINE m == Len(Lexical)
    <2>1. m \in Nat
      BY <1>2
    <2> HIDE DEF m
    <2>2. 1 \in Int /\ m \in Int
      BY <2>1
    <2>3. IsFiniteSet(1..m) /\ Cardinality(1..m) = IF 1 > m THEN 0 ELSE m - 1 + 1
      BY <2>2, FS_Interval
    <2>4. IsFiniteSet(1..m) /\ Cardinality(1..m) = m
      BY <2>1, <2>3
    <2> QED
      BY <2>4 DEF m
  <1>7. IsFiniteSet(Range(Lexical)) /\ Cardinality(Range(Lexical)) <= Len(Lexical)
    BY <1>5, <1>6, FS_Surjection
  <1> QED
    BY <1>2, <1>3, <1>4, <1>7

\* Paths are listed in their order.
LEMMA InOrderLists ==
    ASSUME NEW S \in SUBSET Range(Lexical)
    PROVE  /\ InOrder(S) \in Seq(S) /\ Len(InOrder(S)) = Cardinality(S) /\ Cardinality(S) \in Nat
           /\ \A k, m \in 1..Len(InOrder(S)) : k # m => InOrder(S)[k] # InOrder(S)[m]
           /\ \A x \in S : \E k \in 1..Len(InOrder(S)) : InOrder(S)[k] = x
  <1> DEFINE before == {p \in S \X S : LexicalIndex(p[1]) < LexicalIndex(p[2])}
  <1>1. IsFiniteSet(S)
    BY LexicalPlaces, FS_Subset
  <1>2. \A x \in S : LexicalIndex(x) \in Int /\ Lexical[LexicalIndex(x)] = x
    BY LexicalPlaces
  <1>3. \A x, y \in S : <<x, y>> \in before <=> LexicalIndex(x) < LexicalIndex(y)
    OBVIOUS
  <1> HIDE DEF before
  <1>4. TotalOrder(before, S)
    <2>1. \A x, y \in S : x # y => LexicalIndex(x) # LexicalIndex(y)
      BY <1>2
    <2>2. \A x \in S : LexicalIndex(x) \in Int
      BY <1>2
    <2> QED
      BY <1>3, <2>1, <2>2 DEF TotalOrder
  <1>5. Lists(sorted(S, before), S, before)
    BY <1>1, <1>4, SortedLists
  <1>6. InOrder(S) = sorted(S, before)
    BY DEF InOrder, before
  <1> QED
    BY <1>5, <1>6 DEF Lists

\* Of as many names as are taken and one more, one is free.
LEMMA FreeName ==
    ASSUME NEW taken, IsFiniteSet(taken), NEW a \in {0, 1}, NEW g,
           \A m, n \in a..a + Cardinality(taken) : g[m] = g[n] => m = n
    PROVE  LET free == {n \in a..a + Cardinality(taken) : g[n] \notin taken}
           IN  Min(free) \in free
  <1> DEFINE c == Cardinality(taken)
             N == a..a + c
             free == {n \in N : g[n] \notin taken}
  <1>1. c \in Nat
    BY FS_CardinalityType
  <1>2. IsFiniteSet(N) /\ Cardinality(N) = c + 1
    <2> DEFINE b == a + c
    <2>1. a \in Int /\ b \in Int /\ a <= b /\ b - a + 1 = c + 1
      BY <1>1
    <2> HIDE DEF b
    <2>2. IsFiniteSet(a..b) /\ Cardinality(a..b) = IF a > b THEN 0 ELSE b - a + 1
      BY <2>1, FS_Interval
    <2>3. IsFiniteSet(a..b) /\ Cardinality(a..b) = c + 1
      BY <2>1, <2>2
    <2> QED
      BY <2>3 DEF b
  <1>3. free # {}
    <2> SUFFICES ASSUME free = {}
                 PROVE  FALSE
      OBVIOUS
    <2> DEFINE f == [n \in N |-> g[n]]
    <2>1. f \in [N -> taken]
      OBVIOUS
    <2>2. c < Cardinality(N)
      BY <1>1, <1>2
    <2> HIDE DEF f, N
    <2>3. \E m, n \in N : m # n /\ f[m] = f[n]
      BY <1>2, <2>1, <2>2, FS_PigeonHole
    <2> QED
      BY <2>3 DEF f, N
  <1>4. free \in SUBSET Nat
    BY <1>1
  <1> HIDE DEF free
  <1>5. \E m \in free : \A k \in free : m <= k
    BY <1>3, <1>4, LeastNat
  <1>6. Min(free) \in free
    BY <1>5 DEF Min
  <1> QED
    BY <1>6 DEF free

\* The directories of --lanes-auto.
AutoDirs(T) ==
    {t.path[1] : t \in {t \in {t \in T : t.standard_name} : Len(t.path) > 1}} \ NoRecurse

\* A path of one part.
LEMMA OnePart ==
    ASSUME NEW S, NEW d \in S
    PROVE  <<d>> \in Seq(S) /\ Len(<<d>>) = 1 /\ <<d>>[1] = d
  OBVIOUS

\* The directories --lanes-auto makes lanes of are listed.
LEMMA AutoPaths ==
    ASSUME NEW T \in SUBSET AllTests
    PROVE  LET S == {<<d>> : d \in AutoDirs(T)}
           IN  /\ S \in SUBSET Range(Lexical)
               /\ \A d \in AutoDirs(T) : <<d>> \in Path /\ Len(<<d>>) = 1
               /\ IsFiniteSet(AutoDirs(T)) /\ Cardinality(AutoDirs(T)) <= Len(Lexical)
               /\ Cardinality(AutoDirs(T)) = Cardinality(S)
  <1> DEFINE D == AutoDirs(T)
             S == {<<d>> : d \in D}
  <1>1. \A d \in D : <<d>> \in Range(Lexical)
    <2> TAKE d \in D
    <2>1. PICK t \in T : Len(t.path) > 1 /\ d = t.path[1]
      BY DEF AutoDirs
    <2>2. t \in AllTests /\ t.path \in Path /\ Len(t.path) \in Nat
      BY TestPaths
    <2>3. 1 \in 0..Len(t.path) /\ 1 \in 1..Len(t.path)
      BY <2>1, <2>2
    <2>4. SubSeq(t.path, 1, 1) \in Range(Lexical)
      BY <2>2, <2>3, PartitionAssumption DEF OnDisk
    <2>5. /\ SubSeq(t.path, 1, 1) \in Path /\ Len(SubSeq(t.path, 1, 1)) = 1
          /\ IsPrefix(SubSeq(t.path, 1, 1), t.path)
      BY <2>2, <2>3, PrefixTaken
    <2>6. SubSeq(t.path, 1, 1)[1] = t.path[1]
      BY <2>2, <2>5, PrefixDef
    <2>7. d \in STRING
      BY <2>1, <2>2, <2>3, ElementOfSeq DEF Path
    <2>8. <<d>> \in Path /\ Len(<<d>>) = 1 /\ <<d>>[1] = d
      BY <2>7, OnePart DEF Path
    <2>9. SubSeq(t.path, 1, 1) = <<d>>
      <3> DEFINE p == SubSeq(t.path, 1, 1)
                 q == <<d>>
      <3>1. p \in Seq(STRING) /\ q \in Seq(STRING) /\ Len(p) = 1 /\ Len(q) = 1 /\ p[1] = q[1]
        BY <2>1, <2>5, <2>6, <2>8 DEF Path
      <3> HIDE DEF p, q
      <3>2. \A i \in 1..Len(p) : p[i] = q[i]
        BY <3>1
      <3>3. p = q
        BY <3>1, <3>2, SeqEqual
      <3> QED
        BY <3>3 DEF p, q
    <2> QED
      BY <2>4, <2>9
  <1>2. S \in SUBSET Range(Lexical)
    BY <1>1
  <1>3. \A d \in D : <<d>> \in Path /\ Len(<<d>>) = 1
    <2>1. \A d \in D : <<d>> \in Path
      BY <1>1, LexicalPlaces
    <2>2. \A d \in D : Len(<<d>>) = 1
      OBVIOUS
    <2> QED
      BY <2>1, <2>2
  <1>4. IsFiniteSet(S) /\ Cardinality(S) <= Len(Lexical) /\ Cardinality(S) \in Nat
    <2> HIDE DEF S
    <2>1. IsFiniteSet(S) /\ Cardinality(S) <= Cardinality(Range(Lexical))
      BY <1>2, LexicalPlaces, FS_Subset
    <2>2. Cardinality(S) \in Nat /\ Cardinality(Range(Lexical)) \in Nat
      BY <2>1, LexicalPlaces, FS_CardinalityType
    <2> QED
      BY <2>1, <2>2, LexicalPlaces
  <1>5. IsFiniteSet(D) /\ Cardinality(D) = Cardinality(S)
    <2> DEFINE f == [p \in S |-> p[1]]
    <2>1. f \in [S -> D]
      OBVIOUS
    <2>2. \A p, q \in S : f[p] = f[q] => p = q
      OBVIOUS
    <2>3. \A d \in D : \E p \in S : f[p] = d
      <3> TAKE d \in D
      <3>1. <<d>> \in S /\ f[<<d>>] = d
        OBVIOUS
      <3> QED
        BY <3>1
    <2>4. DOMAIN f = S
      OBVIOUS
    <2> HIDE DEF f, S, D
    <2>5. f \in Bijection(S, D)
      BY <2>1, <2>2, <2>3, <2>4 DEF Bijection, Injection, Surjection, IsInjective
    <2> QED
      BY <1>4, <2>5, FS_Bijection DEF ExistsBijection
  <1> QED
    BY <1>2, <1>3, <1>4, <1>5

\* The fallback lane's name is not one of the directories'.
LEMMA UnclaimedName ==
    ASSUME NEW D, IsFiniteSet(D), Cardinality(D) <= Len(Lexical)
    PROVE  _unclaimed_name(D) \notin D
  <1>1. Cardinality(D) \in Nat /\ Len(Lexical) \in Nat
    BY LexicalPlaces, FS_CardinalityType
  <1>2. \A m, n \in 0..Len(Lexical) : OtherName[m] = OtherName[n] => m = n
    BY NamesAssumption
  <1>3. 0 + Cardinality(D) = Cardinality(D)
    BY <1>1
  <1>4. \A m, n \in 0..0 + Cardinality(D) : OtherName[m] = OtherName[n] => m = n
    <2>1. \A m \in 0..0 + Cardinality(D) : m \in 0..Len(Lexical)
      BY <1>1
    <2> QED
      BY <1>2, <2>1
  <1> DEFINE free == {n \in 0..0 + Cardinality(D) : OtherName[n] \notin D}
  <1>5. Min(free) \in free
    BY <1>4, FreeName
  <1>6. _unclaimed_name(D) = OtherName[Min(free)]
    BY <1>3 DEF _unclaimed_name
  <1> QED
    BY <1>5, <1>6

\* --lanes-auto partitions the tests, and runs all lanes that get one of the
\* files named like a test.
LEMMA AutoPartition ==
    ASSUME NEW T \in SUBSET AllTests, auto_lane_config_or_none(T) # None
    PROVE  \E n \in Nat \ {0} : \E m \in 1..n + 1 :
              /\ Partition(auto_lane_config_or_none(T), n)
              /\ InOrderOf(auto_lane_config_or_none(T), m)
              /\ \A t \in T : Plain(t) /\ t.standard_name =>
                    m = n + 1 \/ \E i \in 1..m : Covers(auto_lane_config_or_none(T).lanes[i], t)
  <1> DEFINE D == AutoDirs(T)
             S == {<<d>> : d \in D}
             paths == InOrder(S)
             n == Len(paths)
             ordered == [i \in DOMAIN paths |-> paths[i][1]]
             lanes == [i \in DOMAIN ordered |-> PathLane(ordered[i], {<<ordered[i]>>})]
             fallback == _fallback_lane(_unclaimed_name(D))
             stray == \E t \in {t \in T : t.standard_name} : Len(t.path) = 1
             order == IF stray THEN Append(ordered, fallback.name) ELSE ordered
             config == auto_lane_config_or_none(T)
             m == IF stray THEN n + 1 ELSE n
  <1>1. ~(Cardinality(D) < 2) /\ config = Config(Append(lanes, fallback), order)
    <2>1. config = IF Cardinality(D) < 2 THEN None ELSE Config(Append(lanes, fallback), order)
      BY DEF auto_lane_config_or_none, AutoDirs
    <2> QED
      BY <2>1
  <1>2. /\ S \in SUBSET Range(Lexical)
        /\ \A d \in D : <<d>> \in Path /\ Len(<<d>>) = 1
        /\ IsFiniteSet(D) /\ Cardinality(D) <= Len(Lexical) /\ Cardinality(D) = Cardinality(S)
    BY AutoPaths
  <1>3. /\ paths \in Seq(S) /\ n = Cardinality(S) /\ n \in Nat
        /\ \A k, l \in 1..n : k # l => paths[k] # paths[l]
        /\ \A x \in S : \E k \in 1..n : paths[k] = x
    <2> HIDE DEF S
    <2> QED
      BY <1>2, InOrderLists
  <1>4. n \in Nat \ {0} /\ DOMAIN paths = 1..n /\ \A k \in 1..n : paths[k] \in S
    <2> HIDE DEF S, paths, D
    <2> QED
      BY <1>1, <1>2, <1>3, LenProperties, ElementOfSeq
  <1>5. \A k \in 1..n : paths[k][1] \in D /\ paths[k] = <<paths[k][1]>>
    <2> HIDE DEF paths, n, D
    <2> QED
      BY <1>4
  <1>6. /\ DOMAIN ordered = 1..n /\ \A k \in 1..n : ordered[k] = paths[k][1]
        /\ lanes = [k \in 1..n |-> PathLane(ordered[k], {<<ordered[k]>>})]
    <2> HIDE DEF paths, n
    <2> QED
      BY <1>4
  <1> HIDE DEF paths, n
  <1>7. \A k \in 1..n : <<ordered[k]>> = paths[k] /\ ordered[k] \in D
    <2> HIDE DEF ordered
    <2> QED
      BY <1>5, <1>6
  <1>8. ASSUME NEW k \in 1..n
        PROVE  /\ Claimant(lanes[k]) /\ lanes[k].name = ordered[k]
               /\ lanes[k].subprocess_paths = {paths[k]}
    <2> DEFINE P == {<<ordered[k]>>}
    <2>1. P = {paths[k]} /\ paths[k] \in Path /\ Len(paths[k]) = 1
      BY <1>2, <1>7
    <2>2. \A t \in AllTests : Append(t.path, t.name) \notin P
      <3> TAKE t \in AllTests
      <3>1. t.path \in Path /\ Len(t.path) \in Nat \ {0} /\ t.name \in STRING
        BY TestPaths
      <3>2. Len(Append(t.path, t.name)) = Len(t.path) + 1
        BY <3>1, PrefixOfAppend
      <3>3. Len(Append(t.path, t.name)) # 1
        BY <3>1, <3>2
      <3> HIDE DEF P
      <3> QED
        BY <2>1, <3>3
    <2>3. <<>> \notin P
      <3>1. Len(<<>>) = 0
        BY EmptySeq
      <3> HIDE DEF P
      <3> QED
        BY <2>1, <3>1
    <2>4. lanes[k] = PathLane(ordered[k], P)
      BY <1>6
    <2> HIDE DEF P, lanes, ordered
    <2>5. P \in SUBSET Path /\ P # {}
      BY <2>1
    <2>6. /\ Claimant(PathLane(ordered[k], P)) /\ PathLane(ordered[k], P).name = ordered[k]
          /\ PathLane(ordered[k], P).subprocess_paths = P
      BY <2>2, <2>3, <2>5, PathLaneClaims
    <2> QED
      BY <2>1, <2>4, <2>6
  <1>9. ASSUME NEW k \in 1..n, NEW l \in 1..n, k # l
        PROVE  lanes[k].name # lanes[l].name /\ Apart(lanes[k], lanes[l])
    <2>1. ordered[k] # ordered[l]
      <3>1. paths[k] # paths[l]
        BY <1>3, <1>9
      <3> HIDE DEF ordered
      <3> QED
        BY <1>7, <3>1
    <2>2. /\ paths[k] \in Path /\ paths[l] \in Path /\ Len(paths[k]) = Len(paths[l])
      <3> HIDE DEF ordered
      <3> QED
        BY <1>2, <1>7
    <2>3. ~IsPrefix(paths[k], paths[l])
      BY <1>3, <1>9, <2>2, PrefixOrder
    <2> HIDE DEF lanes, ordered
    <2> QED
      BY <1>8, <2>1, <2>3 DEF Apart
  <1> DEFINE name == _unclaimed_name(D)
  <1>10. \A k \in 1..n : Claimant(lanes[k]) /\ lanes[k].name # name
    <2>1. name \notin D
      <3> HIDE DEF D
      <3> QED
        BY <1>2, UnclaimedName
    <2> HIDE DEF lanes, name, ordered
    <2> QED
      BY <1>7, <1>8, <2>1
  <1>11. lanes \in [1..n -> Range(lanes)]
    <2>1. DOMAIN lanes = 1..n /\ lanes = [k \in 1..n |-> lanes[k]]
      BY <1>6
    <2> HIDE DEF lanes
    <2> QED
      BY <2>1 DEF Range
  <1>12. /\ Partition(config, n) /\ config.order_full = <<>> /\ config.order_standard = order
    <2>1. config = Config(Append(lanes, _fallback_lane(name)), order)
      BY <1>1
    <2>2. n \in Nat
      BY <1>3
    <2>3. \A i \in 1..n : Claimant(lanes[i]) /\ lanes[i].name # name
      BY <1>10
    <2>4. \A i, j \in 1..n : i # j => lanes[i].name # lanes[j].name /\ Apart(lanes[i], lanes[j])
      BY <1>9
    <2> DEFINE all == Append(lanes, _fallback_lane(name))
    <2> HIDE DEF lanes, name, order, config, ordered, fallback, D, S, stray, m, n
    <2>5. Partition(Config(all, order), n)
      BY <1>11, <2>2, <2>3, <2>4, MakesPartition
    <2>6. Config(all, order).order_full = <<>> /\ Config(all, order).order_standard = order
      BY DEF Config
    <2>7. config = Config(all, order)
      BY <2>1
    <2> HIDE DEF all
    <2> QED
      BY <2>5, <2>6, <2>7
  <1>13. \A k \in 1..n : config.lanes[k] = lanes[k] /\ config.lanes[n + 1].name = name
    <2>1. config.lanes = Append(lanes, fallback)
      <3> HIDE DEF lanes, fallback, order, config
      <3> QED
        BY <1>1 DEF Config
    <2>2. fallback.name = name
      BY RestLane
    <2>3. n \in Nat
      BY <1>3
    <2> HIDE DEF lanes, fallback, config, name, ordered, D
    <2>4. /\ \A k \in 1..n : Append(lanes, fallback)[k] = lanes[k]
          /\ Append(lanes, fallback)[n + 1] = fallback
      BY <1>11, <2>3, AppendedLane
    <2> QED
      BY <2>1, <2>2, <2>4
  <1>14. m \in 1..n + 1 /\ order = [k \in 1..m |-> config.lanes[k].name]
    <2>1. ordered \in [1..n -> D] /\ \A k \in 1..n : ordered[k] = config.lanes[k].name
      <3>1. ordered = [k \in 1..n |-> ordered[k]]
        BY <1>6
      <3> HIDE DEF ordered, lanes, config
      <3> QED
        BY <1>7, <1>8, <1>13, <3>1
    <2>2. fallback.name = config.lanes[n + 1].name
      <3>1. fallback.name = name
        BY RestLane
      <3>2. 1 \in 1..n
        BY <1>4
      <3> HIDE DEF fallback, config, name
      <3> QED
        BY <1>13, <3>1, <3>2
    <2>3. 1 \in 1..n
      BY <1>4
    <2> HIDE DEF ordered, fallback, config, stray, D
    <2>4. CASE stray
      <3>1. /\ DOMAIN Append(ordered, fallback.name) = 1..n + 1
            /\ \A k \in 1..n : Append(ordered, fallback.name)[k] = ordered[k]
            /\ Append(ordered, fallback.name)[n + 1] = fallback.name
        <4>1. n \in Nat
          BY <1>3
        <4> QED
          BY <2>1, <4>1, AppendedLane
      <3> DEFINE q == Append(ordered, fallback.name)
      <3>2. \A k \in 1..n + 1 : k \in 1..n \/ k = n + 1
        BY <1>3
      <3>3. q \in Seq(D \cup {fallback.name})
        <4>1. ordered \in Seq(D)
          BY <1>3, <2>1, FunctionIsSeq
        <4>2. ordered \in Seq(D \cup {fallback.name}) /\ fallback.name \in D \cup {fallback.name}
          BY <4>1, SeqMonotonic
        <4> QED
          BY <4>2, AppendProperties
      <3>4. q = [k \in 1..n + 1 |-> q[k]]
        BY <3>1, <3>3, LenProperties
      <3> HIDE DEF q
      <3>5. \A k \in 1..n + 1 : q[k] = config.lanes[k].name
        BY <2>1, <2>2, <3>1, <3>2 DEF q
      <3>6. q = [k \in 1..n + 1 |-> config.lanes[k].name]
        BY <3>4, <3>5
      <3> QED
        BY <1>3, <2>4, <3>6 DEF q
    <2>5. CASE ~stray
      <3>1. ordered = [k \in 1..n |-> ordered[k]]
        BY <2>1
      <3>2. ordered = [k \in 1..n |-> config.lanes[k].name]
        BY <2>1, <3>1
      <3> QED
        BY <1>4, <2>5, <3>2
    <2> QED
      BY <2>4, <2>5
  <1>15. InOrderOf(config, m)
    <2> HIDE DEF config, order, m
    <2> QED
      BY <1>12, <1>14 DEF InOrderOf
  <1>16. ASSUME NEW t \in T, Plain(t), t.standard_name, m # n + 1
         PROVE  \E i \in 1..m : Covers(config.lanes[i], t)
    <2>1. ~stray /\ m = n
      BY <1>16
    <2>2. t \in AllTests /\ t.path \in Path /\ Len(t.path) \in Nat \ {0} /\ Len(t.path) # 1
      BY <1>16, <2>1, TestPaths
    <2>3. Len(t.path) > 1 /\ 1 \in 1..Len(t.path) /\ 1 < Len(t.path)
      <3> DEFINE l == Len(t.path)
      <3>1. l \in Nat \ {0} /\ l # 1
        BY <2>2
      <3> HIDE DEF l
      <3>2. l > 1 /\ 1 \in 1..l /\ 1 < l
        BY <3>1
      <3> QED
        BY <3>2 DEF l
    <2>4. t.path[1] \in D
      BY <1>16, <2>3 DEF Plain, AutoDirs
    <2>5. <<t.path[1]>> \in S
      BY <2>4
    <2>6. PICK k \in 1..n : paths[k] = <<t.path[1]>>
      <3> HIDE DEF S
      <3> QED
        BY <1>3, <2>5
    <2>7. <<t.path[1]>> \in Path /\ Len(<<t.path[1]>>) = 1 /\ <<t.path[1]>>[1] = t.path[1]
      <3>1. t.path[1] \in STRING
        BY <2>2, <2>3, ElementOfSeq DEF Path
      <3> QED
        BY <3>1, OnePart DEF Path
    <2>8. IsPrefix(paths[k], t.path)
      <3> DEFINE q == <<t.path[1]>>
      <3>1. q \in Path /\ Len(q) = 1 /\ q[1] = t.path[1]
        BY <2>7
      <3> HIDE DEF q
      <3>2. IsPrefix(q, t.path)
        BY <2>2, <2>3, <3>1, PrefixDef
      <3> QED
        BY <2>6, <3>2 DEF q
    <2>9. config.lanes[k].subprocess_paths = {paths[k]}
      <3> HIDE DEF config, lanes
      <3> QED
        BY <1>8, <1>13
    <2>10. Covers(config.lanes[k], t)
      BY <2>8, <2>9 DEF Covers
    <2> QED
      BY <2>1, <2>10
  <1> QED
    <2> HIDE DEF config, m
    <2>1. n \in Nat \ {0} /\ m \in 1..n + 1 /\ Partition(config, n) /\ InOrderOf(config, m)
      BY <1>4, <1>12, <1>14, <1>15
    <2>2. \A t \in T : Plain(t) /\ t.standard_name =>
                m = n + 1 \/ \E i \in 1..m : Covers(config.lanes[i], t)
      BY <1>16
    <2>3. \E l \in Nat \ {0} : \E k \in 1..l + 1 :
              /\ Partition(config, l) /\ InOrderOf(config, k)
              /\ \A t \in T : Plain(t) /\ t.standard_name =>
                    k = l + 1 \/ \E i \in 1..k : Covers(config.lanes[i], t)
      BY <2>1, <2>2
    <2> QED
      BY <2>3 DEF config

-----------------------------------------------------------------------------
(* Finite sets of numbers *)

\* A finite set of numbers that is not empty has a greatest and a least one.
LEMMA MaxMin ==
    ASSUME NEW S \in SUBSET Int, IsFiniteSet(S), S # {}
    PROVE  /\ Max(S) \in S /\ \A x \in S : x <= Max(S)
           /\ Min(S) \in S /\ \A x \in S : Min(S) <= x
  <1> DEFINE Good == {A \in SUBSET S : A = {} \/ (/\ \E m \in A : \A x \in A : x <= m
                                                  /\ \E m \in A : \A x \in A : m <= x)}
  <1>1. {} \in Good
    OBVIOUS
  <1>2. ASSUME NEW A \in SUBSET S, NEW x \in S \ A, A \in Good
        PROVE  A \cup {x} \in Good
    <2>1. CASE A = {}
      BY <2>1
    <2>2. CASE A # {}
      <3>1. PICK m \in A : \A y \in A : y <= m
        BY <1>2, <2>2
      <3>2. PICK l \in A : \A y \in A : l <= y
        BY <1>2, <2>2
      <3>3. x \in Int /\ m \in Int /\ l \in Int /\ \A y \in A : y \in Int
        OBVIOUS
      <3>4. \E k \in A \cup {x} : \A y \in A \cup {x} : y <= k
        <4>1. CASE x <= m
          BY <3>1, <4>1
        <4>2. CASE ~(x <= m)
          <5>1. \A y \in A \cup {x} : y <= x
            BY <3>1, <3>3, <4>2
          <5> QED
            BY <5>1
        <4> QED
          BY <4>1, <4>2
      <3>5. \E k \in A \cup {x} : \A y \in A \cup {x} : k <= y
        <4>1. CASE l <= x
          BY <3>2, <4>1
        <4>2. CASE ~(l <= x)
          <5>1. \A y \in A \cup {x} : x <= y
            BY <3>2, <3>3, <4>2
          <5> QED
            BY <5>1
        <4> QED
          BY <4>1, <4>2
      <3> QED
        BY <3>4, <3>5
    <2> QED
      BY <2>1, <2>2
  <1> HIDE DEF Good
  <1>3. S \in Good
    BY <1>1, <1>2, SetInduction
  <1>4. /\ \E m \in S : \A x \in S : m >= x
        /\ \E m \in S : \A x \in S : m <= x
    BY <1>3 DEF Good
  <1>5. Max(S) \in S /\ \A x \in S : Max(S) >= x
    BY <1>4 DEF Max
  <1>6. Min(S) \in S /\ \A x \in S : Min(S) <= x
    BY <1>4 DEF Min
  <1>7. Max(S) \in Int /\ \A x \in S : x \in Int
    BY <1>5
  <1> QED
    BY <1>5, <1>6, <1>7

\* The values of a function on a finite set are finitely many.
LEMMA FiniteRange ==
    ASSUME NEW S, IsFiniteSet(S), NEW g
    PROVE  IsFiniteSet({g[x] : x \in S})
  <1> DEFINE h == [x \in S |-> g[x]]
  <1>1. h \in Surjection(S, {g[x] : x \in S})
    BY DEF Surjection
  <1> QED
    BY <1>1, FS_Surjection

-----------------------------------------------------------------------------
(* The recorded files *)

\* The files of the tests.
TestFiles == {t.path : t \in AllTests}

\* Seconds are recorded of test files.
Recorded(seconds) ==
    /\ DOMAIN seconds \subseteq TestFiles
    /\ \A f \in DOMAIN seconds : seconds[f] \in Nat

\* Test files are listed, and so is every directory above one; none lies
\* above another.
LEMMA Files ==
    /\ IsFiniteSet(TestFiles) /\ TestFiles \in SUBSET Range(Lexical)
    /\ \A f \in TestFiles :
        /\ f \in Path /\ f # <<>> /\ Front(f) \in Path /\ Front(f) \in Range(Lexical)
        /\ Front(f) \notin TestFiles /\ IsPrefix(Front(f), f)
        /\ \A d \in Path : IsPrefix(d, f) /\ d # f => IsPrefix(d, Front(f))
        /\ \A g \in TestFiles : IsPrefix(f, g) => f = g
  <1>1. \A f \in TestFiles : \E t \in AllTests : f = t.path
    BY DEF TestFiles
  <1>2. \A f \in TestFiles :
            f \in Range(Lexical) /\ f \in Path /\ f # <<>>
    BY <1>1, TestPaths
  <1>3. TestFiles \in SUBSET Range(Lexical)
    BY <1>2
  <1>4. IsFiniteSet(TestFiles)
    BY <1>3, LexicalPlaces, FS_Subset
  <1>5. \A f, g \in TestFiles : IsPrefix(f, g) => f = g
    BY <1>1, TestPaths
  <1>6. ASSUME NEW f \in TestFiles
        PROVE  /\ Front(f) \in Path /\ Front(f) \in Range(Lexical)
               /\ Front(f) \notin TestFiles /\ IsPrefix(Front(f), f)
               /\ \A d \in Path : IsPrefix(d, f) /\ d # f => IsPrefix(d, Front(f))
    <2>1. f \in Path /\ f # <<>>
      BY <1>2
    <2>2. /\ Front(f) \in Path /\ Len(Front(f)) = Len(f) - 1 /\ IsPrefix(Front(f), f)
          /\ \A d \in Path : IsPrefix(d, f) /\ d # f => IsPrefix(d, Front(f))
      BY <2>1, FrontOfPath
    <2>3. Len(f) \in Nat \ {0}
      BY <2>1, EmptyPrefix
    <2>4. Front(f) # f
      <3>1. Len(f) - 1 # Len(f)
        <4> DEFINE l == Len(f)
        <4>1. l \in Nat
          BY <2>3
        <4> HIDE DEF l
        <4>2. l - 1 # l
          BY <4>1
        <4> QED
          BY <4>2 DEF l
      <3> QED
        BY <2>2, <3>1
    <2>5. Front(f) \notin TestFiles
      BY <1>5, <2>2, <2>4
    <2>6. Front(f) \in Range(Lexical)
      <3>1. PICK t \in AllTests : f = t.path
        BY <1>1
      <3>2. \A k \in 0..Len(f) : SubSeq(f, 1, k) \in Range(Lexical)
        BY <3>1, PartitionAssumption DEF OnDisk
      <3>3. Len(Front(f)) \in 0..Len(f) /\ SubSeq(f, 1, Len(Front(f))) = Front(f)
        BY <2>1, <2>2, PrefixTaken
      <3> QED
        BY <3>2, <3>3
    <2> QED
      BY <2>2, <2>5, <2>6
  <1> QED
    BY <1>2, <1>3, <1>4, <1>5, <1>6

\* What --lanes-suggest starts from.
LEMMA PooledRecorded ==
    ASSUME NEW records \in Durations, DOMAIN _pooled_files(records) \subseteq TestFiles
    PROVE  Recorded(_pooled_files(records))
  <1> DEFINE seconds == _pooled_files(records)
             measured(f) == {r \in Range(records) : f \in DOMAIN r}
             values(f) == {r[f] : r \in measured(f)}
             S == UNION {DOMAIN r : r \in Range(records)}
  <1>1. /\ records \in Seq(Range(records))
        /\ \A r \in Range(records) : \A f \in DOMAIN r : r[f] \in Nat
    BY PartitionAssumption
  <1>2. IsFiniteSet(Range(records))
    <2>1. Len(records) \in Nat /\ DOMAIN records = 1..Len(records)
      BY <1>1, LenProperties
    <2>2. records \in Surjection(1..Len(records), Range(records))
      BY <1>1, <2>1, LenProperties DEF Surjection, Range
    <2>3. IsFiniteSet(1..Len(records))
      <3> DEFINE m == Len(records)
      <3>1. m \in Nat
        BY <2>1
      <3> HIDE DEF m
      <3>2. IsFiniteSet(1..m)
        BY <3>1, SortedNumbers, FS_Interval
      <3> QED
        BY <3>2 DEF m
    <2> QED
      BY <2>2, <2>3, FS_Surjection
  <1>3. seconds = [f \in S |-> Max(values(f))]
    BY DEF _pooled_files
  <1>4. ASSUME NEW f \in S
        PROVE  Max(values(f)) \in Nat
    <2>1. IsFiniteSet(measured(f))
      BY <1>2, FS_Subset
    <2>2. IsFiniteSet(values(f))
      <3> DEFINE at == [r \in measured(f) |-> r[f]]
      <3>1. values(f) = {at[r] : r \in measured(f)}
        OBVIOUS
      <3> HIDE DEF at
      <3>2. IsFiniteSet({at[r] : r \in measured(f)})
        BY <2>1, FiniteRange
      <3> QED
        BY <3>1, <3>2
    <2>3. values(f) \in SUBSET Nat /\ values(f) # {}
      BY <1>1
    <2>4. values(f) \in SUBSET Int
      BY <2>3
    <2> HIDE DEF values
    <2> QED
      BY <2>2, <2>3, <2>4, MaxMin
  <1> HIDE DEF S, values, seconds
  <1>5. DOMAIN seconds = S /\ \A f \in S : seconds[f] \in Nat
    BY <1>3, <1>4
  <1> QED
    BY <1>5 DEF Recorded, seconds

-----------------------------------------------------------------------------
(* The files of a directory, and what is packed *)

\* Files are in one group with the other files of their directory.
LEMMA Directories ==
    ASSUME NEW S \in SUBSET TestFiles
    PROVE  LET dirs == _files_by_directory(S)
           IN  /\ IsFiniteSet(dirs) /\ IsFiniteSet(S)
               /\ \A d \in dirs :
                    /\ d \in SUBSET S /\ d # {} /\ \A f \in d : Front(f) = _parent_directory(d)
                    /\ _parent_directory(d) \in Path
                    /\ _parent_directory(d) \in Range(Lexical) \ TestFiles
               /\ \A d, e \in dirs : d # e =>
                    _parent_directory(d) # _parent_directory(e) /\ d \cap e = {}
               /\ \A f \in S : \E d \in dirs : f \in d
  <1> DEFINE dirs == _files_by_directory(S)
             group == [p \in {Front(f) : f \in S} |-> {f \in S : Front(f) = p}]
             front == [f \in S |-> Front(f)]
  <1>1. dirs = {group[p] : p \in {front[f] : f \in S}}
    BY DEF _files_by_directory
  <1>2. IsFiniteSet(S)
    BY Files, FS_Subset
  <1>3. IsFiniteSet(dirs)
    <2> HIDE DEF group, front, dirs
    <2>1. IsFiniteSet({front[f] : f \in S})
      BY <1>2, FiniteRange
    <2> QED
      BY <1>1, <2>1, FiniteRange
  <1>4. ASSUME NEW d \in dirs
        PROVE  /\ d \in SUBSET S /\ d # {} /\ \A f \in d : Front(f) = _parent_directory(d)
               /\ \A f \in S : Front(f) = _parent_directory(d) => f \in d
    <2>1. PICK p \in {Front(f) : f \in S} : d = {f \in S : Front(f) = p}
      BY DEF _files_by_directory
    <2>2. d \in SUBSET S /\ d # {} /\ \A f \in d : Front(f) = p
      BY <2>1
    <2>3. _parent_directory(d) = p
      BY <2>2 DEF _parent_directory
    <2> QED
      BY <2>1, <2>2, <2>3
  <1>5. ASSUME NEW f \in S
        PROVE  \E d \in dirs : f \in d
    <2> DEFINE d == {g \in S : Front(g) = Front(f)}
    <2>1. d \in dirs /\ f \in d
      BY DEF _files_by_directory
    <2> QED
      BY <2>1
  <1> HIDE DEF dirs
  <1>6. ASSUME NEW d \in dirs
        PROVE  /\ _parent_directory(d) \in Path
               /\ _parent_directory(d) \in Range(Lexical) \ TestFiles
    <2>1. PICK f \in d : Front(f) = _parent_directory(d) /\ f \in TestFiles
      BY <1>4
    <2> QED
      BY <2>1, Files
  <1>7. ASSUME NEW d \in dirs, NEW e \in dirs, d # e
        PROVE  _parent_directory(d) # _parent_directory(e) /\ d \cap e = {}
    <2>1. _parent_directory(d) # _parent_directory(e)
      <3>1. ASSUME _parent_directory(d) = _parent_directory(e)
            PROVE  d = e
        BY <1>4, <3>1
      <3> QED
        BY <1>7, <3>1
    <2>2. \A f \in d, g \in e : f # g
      BY <1>4, <2>1
    <2> QED
      BY <2>1, <2>2
  <1> QED
    BY <1>2, <1>3, <1>4, <1>5, <1>6, <1>7 DEF dirs

\* Every file is in one unit, and units differ in their keys.
UnitsOf(units, seconds) ==
    /\ IsFiniteSet(units)
    /\ \A u \in units :
        /\ u.files \in SUBSET DOMAIN seconds /\ u.files # {}
        /\ u.seconds = _total_seconds(seconds, u.files)
        /\ u.key \in Range(Lexical)
    /\ \A u, v \in units : u # v => u.key # v.key /\ u.files \cap v.files = {}
    /\ \A f \in DOMAIN seconds : \E u \in units : f \in u.files

\* A unit is one file, or weighs no more than 1.3 shares.
Light(u, seconds, bins) ==
    \/ \E f \in DOMAIN seconds : u.files = {f}
    \/ ~(10 * bins * _total_seconds(seconds, u.files) > 13 * _total_seconds(seconds, DOMAIN seconds))

\* What is packed are units.
LEMMA PackingUnits ==
    ASSUME NEW seconds, Recorded(seconds), NEW bins
    PROVE  /\ UnitsOf(_packing_units(seconds, bins), seconds)
           /\ \A u \in _packing_units(seconds, bins) : Light(u, seconds, bins)
  <1> DEFINE S == DOMAIN seconds
             dirs == _files_by_directory(S)
             heavy(d) == 10 * bins * _total_seconds(seconds, d) > 13 * _total_seconds(seconds, S)
             oversized == {d \in dirs : heavy(d)}
             units == _packing_units(seconds, bins)
             whole == [d \in dirs |-> PackingUnit(_parent_directory(d), seconds, d)]
             single == [f \in S |-> PackingUnit(f, seconds, {f})]
             W == {whole[d] : d \in dirs \ oversized}
             F == {single[f] : f \in UNION oversized}
  <1>1. S \in SUBSET TestFiles
    BY DEF Recorded
  <1>2. /\ IsFiniteSet(dirs) /\ IsFiniteSet(S)
        /\ \A d \in dirs : /\ d \in SUBSET S /\ d # {}
                           /\ _parent_directory(d) \in Range(Lexical) \ TestFiles
        /\ \A d, e \in dirs : d # e =>
                    _parent_directory(d) # _parent_directory(e) /\ d \cap e = {}
        /\ \A f \in S : \E d \in dirs : f \in d
    BY <1>1, Directories
  <1> HIDE DEF dirs
  <1>3. units = W \cup F
    <2>1. UNION oversized \in SUBSET S
      BY <1>2
    <2>2. units = {PackingUnit(_parent_directory(d), seconds, d) : d \in dirs \ oversized}
                  \cup {PackingUnit(f, seconds, {f}) : f \in UNION oversized}
      BY DEF _packing_units, dirs
    <2>3. \A d \in dirs \ oversized : whole[d] = PackingUnit(_parent_directory(d), seconds, d)
      OBVIOUS
    <2>4. \A f \in UNION oversized : single[f] = PackingUnit(f, seconds, {f})
      BY <2>1
    <2> HIDE DEF whole, single, oversized, units
    <2>5. W = {PackingUnit(_parent_directory(d), seconds, d) : d \in dirs \ oversized}
      BY <2>3
    <2>6. F = {PackingUnit(f, seconds, {f}) : f \in UNION oversized}
      BY <2>4
    <2> QED
      BY <2>2, <2>5, <2>6
  <1>4. \A d \in dirs : /\ whole[d].key = _parent_directory(d) /\ whole[d].files = d
                        /\ whole[d].seconds = _total_seconds(seconds, d)
    BY DEF PackingUnit
  <1>5. \A f \in S : /\ single[f].key = f /\ single[f].files = {f}
                     /\ single[f].seconds = _total_seconds(seconds, {f})
    BY DEF PackingUnit
  <1>6. /\ oversized \in SUBSET dirs /\ UNION oversized \in SUBSET S
        /\ \A d \in dirs \ oversized : ~heavy(d)
    <2> HIDE DEF heavy
    <2> QED
      BY <1>2
  <1> HIDE DEF whole, single, oversized, units, heavy, W, F
  <1>7. IsFiniteSet(units)
    <2>1. IsFiniteSet(dirs \ oversized) /\ IsFiniteSet(UNION oversized)
      BY <1>2, <1>6, FS_Subset
    <2>2. IsFiniteSet(W)
      BY <2>1, FiniteRange DEF W
    <2>3. IsFiniteSet(F)
      BY <2>1, FiniteRange DEF F
    <2> QED
      BY <1>3, <2>2, <2>3, FS_Union
  <1>8. \A u \in units : \/ \E d \in dirs \ oversized : u = whole[d]
                         \/ \E f \in UNION oversized : u = single[f]
    BY <1>3 DEF W, F
  <1>9. ASSUME NEW u \in units
        PROVE  /\ u.files \in SUBSET S /\ u.files # {}
               /\ u.seconds = _total_seconds(seconds, u.files)
               /\ u.key \in Range(Lexical)
    <2>1. CASE \E d \in dirs \ oversized : u = whole[d]
      BY <1>2, <1>4, <2>1
    <2>2. CASE \E f \in UNION oversized : u = single[f]
      <3>1. PICK f \in S : u = single[f]
        BY <1>6, <2>2
      <3>2. f \in Range(Lexical)
        BY <1>1, <3>1, Files
      <3>3. u.key = f /\ u.files = {f} /\ u.seconds = _total_seconds(seconds, {f})
        BY <1>5, <3>1
      <3>4. {f} \in SUBSET S /\ {f} # {}
        OBVIOUS
      <3> HIDE DEF S
      <3> QED
        BY <3>2, <3>3, <3>4
    <2> QED
      BY <1>8, <2>1, <2>2
  <1>10. ASSUME NEW u \in units, NEW v \in units, u # v
         PROVE  u.key # v.key /\ u.files \cap v.files = {}
    <2>1. CASE \E d, e \in dirs \ oversized : u = whole[d] /\ v = whole[e]
      <3>1. PICK d \in dirs, e \in dirs : u = whole[d] /\ v = whole[e]
        BY <2>1
      <3>2. d # e
        BY <1>10, <3>1
      <3> QED
        BY <1>2, <1>4, <3>1, <3>2
    <2>2. CASE \E f, g \in UNION oversized : u = single[f] /\ v = single[g]
      <3>1. PICK f \in S, g \in S : u = single[f] /\ v = single[g]
        BY <1>6, <2>2
      <3>2. f # g
        BY <1>10, <3>1
      <3> QED
        BY <1>5, <3>1, <3>2
    <2>3. ASSUME NEW d \in dirs \ oversized, NEW f \in UNION oversized
          PROVE  whole[d].key # single[f].key /\ whole[d].files \cap single[f].files = {}
      <3>1. f \in S /\ f \in TestFiles
        BY <1>1, <1>6
      <3>2. whole[d].key # single[f].key
        <4>1. whole[d].key \notin TestFiles
          BY <1>2, <1>4
        <4>2. single[f].key \in TestFiles
          BY <1>5, <3>1
        <4> QED
          BY <4>1, <4>2
      <3>3. PICK e \in oversized : f \in e
        OBVIOUS
      <3>4. d # e /\ d \in dirs /\ e \in dirs
        BY <1>6, <3>3
      <3>5. f \notin d
        BY <1>2, <3>3, <3>4
      <3>6. whole[d].files = d /\ single[f].files = {f}
        BY <1>4, <1>5, <3>1, <3>4
      <3> QED
        BY <3>2, <3>5, <3>6
    <2>4. CASE \E d \in dirs \ oversized, f \in UNION oversized :
                  \/ u = whole[d] /\ v = single[f]
                  \/ v = whole[d] /\ u = single[f]
      BY <2>3, <2>4
    <2> QED
      BY <1>8, <2>1, <2>2, <2>4
  <1>11. ASSUME NEW f \in S
         PROVE  \E u \in units : f \in u.files
    <2>1. PICK d \in dirs : f \in d
      BY <1>2
    <2>2. CASE d \in oversized
      <3>1. single[f] \in units
        BY <1>3, <2>1, <2>2 DEF F
      <3> QED
        BY <1>5, <3>1
    <2>3. CASE d \notin oversized
      <3>1. whole[d] \in units
        BY <1>3, <2>3 DEF W
      <3> QED
        BY <1>4, <2>1, <3>1
    <2> QED
      BY <2>2, <2>3
  <1>12. ASSUME NEW u \in units
         PROVE  Light(u, seconds, bins)
    <2>1. CASE \E d \in dirs \ oversized : u = whole[d]
      BY <1>4, <1>6, <2>1 DEF heavy, Light
    <2>2. CASE \E f \in UNION oversized : u = single[f]
      <3>1. PICK f \in S : u = single[f]
        BY <1>6, <2>2
      <3>2. u.files = {f}
        BY <1>5, <3>1
      <3> QED
        BY <3>2 DEF Light
    <2> QED
      BY <1>8, <2>1, <2>2
  <1> QED
    BY <1>7, <1>9, <1>10, <1>11, <1>12 DEF UnitsOf, units

-----------------------------------------------------------------------------
(* Seconds of sets of files *)

\* What disjoint sets of files take is added; more files take no less.
LEMMA Weights ==
    ASSUME NEW seconds, Recorded(seconds)
    PROVE  LET S == DOMAIN seconds
               T(A) == _total_seconds(seconds, A)
           IN  /\ IsFiniteSet(S)
               /\ \A A \in SUBSET S : IsFiniteSet(A) /\ T(A) \in Nat
               /\ T({}) = 0
               /\ \A f \in S : T({f}) = seconds[f]
               /\ \A A, B \in SUBSET S : A \cap B = {} => T(A \cup B) = T(A) + T(B)
               /\ \A A, B \in SUBSET S : A \subseteq B => T(A) <= T(B)
  <1> DEFINE S == DOMAIN seconds
             T(A) == _total_seconds(seconds, A)
  <1>1. IsFiniteSet(S)
    BY Files, FS_Subset DEF Recorded
  <1>2. \A A : T(A) = SumFunctionOnSet(seconds, A)
    BY DEF _total_seconds
  <1>3. \A f \in S : seconds[f] \in Nat /\ seconds[f] \in Int
    BY DEF Recorded
  <1> HIDE DEF S, T
  <1>4. ASSUME NEW A \in SUBSET S
        PROVE  IsFiniteSet(A) /\ T(A) \in Nat
    <2>1. IsFiniteSet(A) /\ \A f \in A : seconds[f] \in Nat
      BY <1>1, <1>3, FS_Subset
    <2> QED
      BY <1>2, <2>1, SumNat
  <1>5. T({}) = 0
    BY <1>2, SumOfNone
  <1>6. ASSUME NEW f \in S
        PROVE  T({f}) = seconds[f]
    <2>1. /\ IsFiniteSet({}) /\ f \notin {}
          /\ \A y \in {} \cup {f} : seconds[y] \in Int
      BY <1>3, FS_EmptySet
    <2>2. SumFunctionOnSet(seconds, {} \cup {f}) = seconds[f] + SumFunctionOnSet(seconds, {})
      BY <2>1, SumAdded
    <2>3. SumFunctionOnSet(seconds, {}) = 0 /\ {} \cup {f} = {f} /\ seconds[f] \in Int
      BY <1>3, SumOfNone
    <2>4. SumFunctionOnSet(seconds, {f}) = seconds[f]
      BY <2>2, <2>3
    <2> QED
      BY <1>2, <2>4
  <1>7. ASSUME NEW A \in SUBSET S, NEW B \in SUBSET S, A \cap B = {}
        PROVE  T(A \cup B) = T(A) + T(B)
    <2> DEFINE C == A \cup B
    <2>1. C \in SUBSET S /\ A \in SUBSET C /\ C \ A = B
      BY <1>7
    <2>2. IsFiniteSet(C) /\ \A f \in C : seconds[f] \in Int
      BY <1>3, <1>4, <2>1
    <2> HIDE DEF C
    <2>3. SumFunctionOnSet(seconds, C) = SumFunctionOnSet(seconds, A) + SumFunctionOnSet(seconds, C \ A)
      BY <2>1, <2>2, SumSplit
    <2>4. T(C) = T(A) + T(B)
      BY <1>2, <2>1, <2>3
    <2> QED
      BY <2>4 DEF C
  <1>8. ASSUME NEW A \in SUBSET S, NEW B \in SUBSET S, A \subseteq B
        PROVE  T(A) <= T(B)
    <2>1. A \cap (B \ A) = {} /\ A \cup (B \ A) = B /\ B \ A \in SUBSET S
      BY <1>8
    <2>2. T(B) = T(A) + T(B \ A)
      BY <1>7, <2>1
    <2>3. T(A) \in Nat /\ T(B \ A) \in Nat
      BY <1>4, <2>1
    <2> QED
      BY <2>2, <2>3
  <1> QED
    BY <1>1, <1>4, <1>5, <1>6, <1>7, <1>8 DEF S, T

\* The files of g[i] for each i of N.
FilesOf(g, N) == UNION {g[i] : i \in N}

\* What disjoint sets take together is the sum of what each takes.
LEMMA DisjointWeights ==
    ASSUME NEW seconds, Recorded(seconds), NEW N, IsFiniteSet(N),
           NEW g, \A i \in N : g[i] \in SUBSET DOMAIN seconds,
           \A i, j \in N : i # j => g[i] \cap g[j] = {},
           NEW load, \A i \in N : load[i] = _total_seconds(seconds, g[i])
    PROVE  SumFunctionOnSet(load, N) = _total_seconds(seconds, FilesOf(g, N))
  <1> DEFINE S == DOMAIN seconds
             T(A) == _total_seconds(seconds, A)
             Good == {A \in SUBSET N : SumFunctionOnSet(load, A) = T(FilesOf(g, A))}
  <1>1. /\ \A A \in SUBSET S : T(A) \in Nat
        /\ T({}) = 0
        /\ \A A, B \in SUBSET S : A \cap B = {} => T(A \cup B) = T(A) + T(B)
    BY Weights
  <1>2. \A i \in N : load[i] = T(g[i]) /\ g[i] \in SUBSET S
    OBVIOUS
  <1> HIDE DEF T, S
  <1>3. {} \in Good
    <2>1. FilesOf(g, {}) = {}
      BY DEF FilesOf
    <2>2. SumFunctionOnSet(load, {}) = 0
      BY SumOfNone
    <2> QED
      BY <1>1, <2>1, <2>2
  <1>4. ASSUME NEW A \in SUBSET N, NEW x \in N \ A, A \in Good
        PROVE  A \cup {x} \in Good
    <2>1. IsFiniteSet(A) /\ x \notin A /\ \A y \in A \cup {x} : load[y] \in Int
      BY <1>1, <1>2, FS_Subset
    <2>2. SumFunctionOnSet(load, A \cup {x}) = load[x] + SumFunctionOnSet(load, A)
      BY <2>1, SumAdded
    <2>3. /\ FilesOf(g, A \cup {x}) = FilesOf(g, A) \cup g[x]
          /\ FilesOf(g, A) \in SUBSET S
          /\ FilesOf(g, A) \cap g[x] = {}
      BY <1>2, <2>1 DEF FilesOf
    <2>4. T(FilesOf(g, A \cup {x})) = T(FilesOf(g, A)) + T(g[x])
      BY <1>1, <1>2, <2>3
    <2>5. T(FilesOf(g, A)) \in Nat /\ T(g[x]) \in Nat /\ load[x] = T(g[x])
      BY <1>1, <1>2, <2>3
    <2>6. SumFunctionOnSet(load, A) = T(FilesOf(g, A))
      BY <1>4
    <2>7. SumFunctionOnSet(load, A \cup {x}) = T(FilesOf(g, A \cup {x}))
      BY <2>2, <2>4, <2>5, <2>6
    <2> QED
      BY <2>7
  <1> HIDE DEF Good
  <1>5. N \in Good
    BY <1>3, <1>4, SetInduction
  <1> QED
    BY <1>5 DEF Good, T

\* A sum of numbers not below c is not below c for each.
LEMMA SumAtLeast ==
    ASSUME NEW N, IsFiniteSet(N), NEW c \in Int, NEW f,
           \A x \in N : f[x] \in Int /\ c <= f[x]
    PROVE  Cardinality(N) * c <= SumFunctionOnSet(f, N)
  <1> DEFINE Good == {A \in SUBSET N : Cardinality(A) * c <= SumFunctionOnSet(f, A)}
  <1>1. {} \in Good
    BY SumOfNone, FS_EmptySet
  <1>2. ASSUME NEW A \in SUBSET N, NEW x \in N \ A, A \in Good
        PROVE  A \cup {x} \in Good
    <2>1. IsFiniteSet(A) /\ x \notin A /\ \A y \in A \cup {x} : f[y] \in Int
      BY FS_Subset
    <2>2. SumFunctionOnSet(f, A \cup {x}) = f[x] + SumFunctionOnSet(f, A)
      BY <2>1, SumAdded
    <2>3. SumFunctionOnSet(f, A) \in Int /\ f[x] \in Int /\ c <= f[x]
      BY <2>1, SumType
    <2>4. Cardinality(A \cup {x}) = Cardinality(A) + 1 /\ Cardinality(A) \in Nat
      BY <2>1, FS_AddElement, FS_CardinalityType
    <2> DEFINE n == Cardinality(A)
               s == SumFunctionOnSet(f, A)
    <2>5. n \in Nat /\ s \in Int /\ n * c <= s
      BY <1>2, <2>3, <2>4
    <2> HIDE DEF n, s
    <2>6. n * c \in Int /\ (n + 1) * c = n * c + c
      BY <2>5
    <2>7. (n + 1) * c <= f[x] + s
      BY <2>3, <2>5, <2>6
    <2>8. Cardinality(A \cup {x}) * c <= SumFunctionOnSet(f, A \cup {x})
      BY <2>2, <2>4, <2>7 DEF n, s
    <2> QED
      BY <2>8
  <1> HIDE DEF Good
  <1>3. N \in Good
    BY <1>1, <1>2, SetInduction
  <1> QED
    BY <1>3 DEF Good

-----------------------------------------------------------------------------
(* Packing *)

\* The numbers up to n are n numbers.
LEMMA UpTo ==
    ASSUME NEW n \in Nat
    PROVE  IsFiniteSet(1..n) /\ Cardinality(1..n) = n
  BY SortedNumbers, FS_Interval

\* What the packing builds: files and seconds for each lane.
LaneBins(seconds, count) == [1..count -> [files : SUBSET DOMAIN seconds, seconds : Int]]

\* The lightest bin is none heavier.
LEMMA LightestBin ==
    ASSUME NEW seconds, NEW count \in Nat \ {0}, NEW b \in LaneBins(seconds, count)
    PROVE  /\ lightest(b) \in 1..count
           /\ \A j \in 1..count : b[lightest(b)].seconds <= b[j].seconds
  <1> DEFINE N == 1..count
             load == [i \in N |-> b[i].seconds]
             loads == {load[i] : i \in N}
             L == {i \in N : \A j \in N : b[i].seconds <= b[j].seconds}
  <1>1. DOMAIN b = N /\ \A i \in N : b[i].seconds \in Int /\ load[i] = b[i].seconds
    BY DEF LaneBins
  <1>2. IsFiniteSet(N) /\ 1 \in N /\ N \in SUBSET Int
    BY SortedNumbers, FS_Interval
  <1> HIDE DEF N, load
  <1>3. IsFiniteSet(loads)
    BY <1>2, FiniteRange
  <1>4. loads \in SUBSET Int /\ loads # {}
    BY <1>1, <1>2
  <1>5. PICK i \in N : \A j \in N : load[i] <= load[j]
    <2> HIDE DEF loads
    <2>1. Min(loads) \in loads /\ \A x \in loads : Min(loads) <= x
      BY <1>3, <1>4, MaxMin
    <2> QED
      BY <2>1 DEF loads
  <1>6. i \in L
    BY <1>1, <1>5
  <1>7. L \in SUBSET N
    OBVIOUS
  <1>8. IsFiniteSet(L) /\ L \in SUBSET Int /\ L # {}
    BY <1>2, <1>6, <1>7, FS_Subset
  <1>9. lightest(b) = Min(L)
    BY <1>1 DEF lightest
  <1>10. Min(L) \in L
    <2> HIDE DEF L
    <2> QED
      BY <1>8, MaxMin
  <1> QED
    BY <1>9, <1>10 DEF N

\* The files of A lie in the bins, each in one, and what a bin holds exceeds
\* an even share by no more than one unit.
Bins(b, A, seconds, units, count) ==
    /\ b \in LaneBins(seconds, count)
    /\ \A i \in 1..count : b[i].seconds = _total_seconds(seconds, b[i].files)
    /\ \A i, j \in 1..count : i # j => b[i].files \cap b[j].files = {}
    /\ \A f : f \in A <=> \E i \in 1..count : f \in b[i].files
    /\ \A i \in 1..count :
        \/ b[i].seconds = 0
        \/ \E u \in units : count * b[i].seconds <=
                _total_seconds(seconds, DOMAIN seconds) + count * _total_seconds(seconds, u.files)

\* No bin holds anything at first.
LEMMA EmptyBins ==
    ASSUME NEW seconds, Recorded(seconds), NEW units, NEW count \in Nat
    PROVE  Bins([i \in 1..count |-> [files |-> {}, seconds |-> 0]], {}, seconds, units, count)
  <1>1. _total_seconds(seconds, {}) = 0
    BY Weights
  <1> DEFINE b == [i \in 1..count |-> [files |-> {}, seconds |-> 0]]
  <1>2. \A i \in 1..count : b[i].files = {} /\ b[i].seconds = 0
    OBVIOUS
  <1>3. b \in LaneBins(seconds, count)
    BY DEF LaneBins
  <1> HIDE DEF b
  <1> QED
    BY <1>1, <1>2, <1>3 DEF Bins, b

\* A unit goes into the bin that was the lightest.
LEMMA PlaceUnit ==
    ASSUME NEW seconds, Recorded(seconds), NEW units, NEW count \in Nat \ {0},
           NEW b, NEW A, Bins(b, A, seconds, units, count),
           NEW u \in units, u.files \in SUBSET DOMAIN seconds,
           u.seconds = _total_seconds(seconds, u.files), u.files \cap A = {}
    PROVE  Bins(Placed(b, u), A \cup u.files, seconds, units, count)
  <1> DEFINE S == DOMAIN seconds
             T(B) == _total_seconds(seconds, B)
             N == 1..count
             l == lightest(b)
             c == Placed(b, u)
             load == [i \in N |-> b[i].seconds]
             g == [i \in N |-> b[i].files]
  <1>1. /\ \A B \in SUBSET S : T(B) \in Nat
        /\ \A B, C \in SUBSET S : B \cap C = {} => T(B \cup C) = T(B) + T(C)
        /\ \A B, C \in SUBSET S : B \subseteq C => T(B) <= T(C)
    BY Weights
  <1>2. /\ b \in LaneBins(seconds, count)
        /\ \A i \in N : b[i].files \in SUBSET S /\ b[i].seconds \in Int
        /\ \A i \in N : b[i].seconds = T(b[i].files)
        /\ \A i, j \in N : i # j => b[i].files \cap b[j].files = {}
        /\ \A f : f \in A <=> \E i \in N : f \in b[i].files
        /\ \A i \in N : \/ b[i].seconds = 0
                        \/ \E v \in units : count * b[i].seconds <= T(S) + count * T(v.files)
    BY DEF Bins, LaneBins
  <1>3. l \in N /\ \A j \in N : b[l].seconds <= b[j].seconds
    BY <1>2, LightestBin
  <1>4. u.files \in SUBSET S /\ u.seconds = T(u.files) /\ u.files \cap A = {}
    OBVIOUS
  <1>5. A \in SUBSET S
    BY <1>2
  <1>6. /\ DOMAIN b = N
        /\ c = [b EXCEPT ![l] = [files |-> b[l].files \cup u.files,
                                 seconds |-> b[l].seconds + u.seconds]]
    BY DEF Bins, LaneBins, Placed
  <1>7. /\ DOMAIN c = N /\ c = [i \in N |-> c[i]]
        /\ \A i \in N : i # l => c[i] = b[i]
        /\ c[l] = [files |-> b[l].files \cup u.files, seconds |-> b[l].seconds + u.seconds]
    <2> HIDE DEF N, l, c
    <2> QED
      BY <1>3, <1>6
  <1>8. c[l].files = b[l].files \cup u.files /\ c[l].seconds = b[l].seconds + u.seconds
    <2> HIDE DEF c, l
    <2> QED
      BY <1>7
  <1>9. SumFunctionOnSet(load, N) = T(A)
    <2>1. IsFiniteSet(N)
      <3>1. count \in Nat
        OBVIOUS
      <3> QED
        BY <3>1, UpTo
    <2>2. FilesOf(g, N) = A
      <3>1. \A i \in N : g[i] = b[i].files
        OBVIOUS
      <3>2. \A f : f \in FilesOf(g, N) <=> \E i \in N : f \in g[i]
        BY DEF FilesOf
      <3>3. \A f : f \in FilesOf(g, N) <=> f \in A
        <4> HIDE DEF g, N
        <4> QED
          BY <1>2, <3>1, <3>2
      <3> QED
        BY <3>3
    <2>3. /\ \A i \in N : g[i] \in SUBSET DOMAIN seconds
          /\ \A i, j \in N : i # j => g[i] \cap g[j] = {}
          /\ \A i \in N : load[i] = _total_seconds(seconds, g[i])
      BY <1>2
    <2> HIDE DEF N, g, load, T
    <2>4. SumFunctionOnSet(load, N) = _total_seconds(seconds, FilesOf(g, N))
      BY <2>1, <2>3, DisjointWeights
    <2> QED
      BY <2>2, <2>4 DEF T
  <1>10. count * b[l].seconds <= T(A)
    <2>1. IsFiniteSet(N) /\ Cardinality(N) = count
      BY SortedNumbers, FS_Interval
    <2> DEFINE m == b[l].seconds
    <2>2. m \in Int /\ \A i \in N : load[i] \in Int /\ m <= load[i]
      <3> HIDE DEF l
      <3> QED
        BY <1>2, <1>3
    <2> HIDE DEF N, load, m
    <2>3. Cardinality(N) * m <= SumFunctionOnSet(load, N)
      BY <2>1, <2>2, SumAtLeast
    <2> QED
      BY <1>9, <2>1, <2>3 DEF m
  <1>11. T(A) + T(u.files) <= T(S)
    <2>1. T(A \cup u.files) = T(A) + T(u.files)
      BY <1>1, <1>4, <1>5
    <2>2. A \cup u.files \in SUBSET S /\ S \in SUBSET S
      BY <1>4, <1>5
    <2>3. T(A \cup u.files) <= T(S)
      BY <1>1, <2>2
    <2> QED
      BY <2>1, <2>3
  <1> HIDE DEF T, S, N, l, c, load, g
  <1>12. c[l].seconds = T(c[l].files)
    <2>1. b[l].files \cap u.files = {}
      BY <1>2, <1>3, <1>4
    <2> QED
      BY <1>1, <1>2, <1>3, <1>4, <1>8, <2>1
  <1>13. c \in LaneBins(seconds, count)
    <2>1. c[l] \in [files : SUBSET S, seconds : Int]
      <3>1. b[l].seconds + u.seconds \in Int
        BY <1>1, <1>2, <1>3, <1>4
      <3>2. b[l].files \cup u.files \in SUBSET S
        BY <1>2, <1>3, <1>4
      <3> QED
        BY <1>7, <3>1, <3>2
    <2>2. \A i \in N : b[i] \in [files : SUBSET S, seconds : Int]
      BY <1>2 DEF LaneBins, N, S
    <2>3. \A i \in N : c[i] \in [files : SUBSET S, seconds : Int]
      BY <1>7, <2>1, <2>2
    <2> QED
      BY <1>7, <2>3 DEF LaneBins, N, S
  <1>14. ASSUME NEW i \in N, NEW j \in N, i # j
         PROVE  c[i].files \cap c[j].files = {}
    <2>1. \A k \in N : b[k].files \cap u.files = {}
      BY <1>2, <1>4
    <2>2. b[i].files \cap b[j].files = {}
      BY <1>2, <1>14
    <2>3. CASE i = l
      <3>1. c[j].files = b[j].files /\ c[i].files = b[i].files \cup u.files
        BY <1>7, <1>8, <1>14, <2>3
      <3> QED
        BY <2>1, <2>2, <3>1
    <2>4. CASE j = l
      <3>1. c[i].files = b[i].files /\ c[j].files = b[j].files \cup u.files
        BY <1>7, <1>8, <1>14, <2>4
      <3> QED
        BY <2>1, <2>2, <3>1
    <2>5. CASE i # l /\ j # l
      BY <1>7, <2>2, <2>5
    <2> QED
      BY <2>3, <2>4, <2>5
  <1>15. \A f : f \in A \cup u.files <=> \E i \in N : f \in c[i].files
    <2> TAKE f
    <2>1. ASSUME f \in A \cup u.files
          PROVE  \E i \in N : f \in c[i].files
      <3>1. CASE f \in u.files
        BY <1>3, <1>8, <3>1
      <3>2. CASE f \in A
        <4>1. PICK i \in N : f \in b[i].files
          BY <1>2, <3>2
        <4>2. f \in c[i].files
          BY <1>7, <1>8, <4>1
        <4> QED
          BY <4>2
      <3> QED
        BY <2>1, <3>1, <3>2
    <2>2. ASSUME NEW i \in N, f \in c[i].files
          PROVE  f \in A \cup u.files
      <3>1. f \in b[i].files \/ f \in u.files
        BY <1>7, <1>8, <2>2
      <3> QED
        BY <1>2, <3>1
    <2> QED
      BY <2>1, <2>2
  <1>16. ASSUME NEW i \in N
         PROVE  \/ c[i].seconds = 0
                \/ \E v \in units : count * c[i].seconds <= T(S) + count * T(v.files)
    <2>1. CASE i # l
      BY <1>2, <1>7, <2>1
    <2>2. CASE i = l
      <3> DEFINE m == b[l].seconds
                 w == T(u.files)
                 a == T(A)
                 s == T(S)
      <3>1. m \in Int /\ w \in Nat /\ a \in Nat /\ s \in Nat
        BY <1>1, <1>2, <1>3, <1>4, <1>5
      <3>2. c[i].seconds = m + w
        BY <1>4, <1>8, <2>2
      <3>3. count * m <= a /\ a + w <= s
        BY <1>10, <1>11
      <3> HIDE DEF m, w, a, s
      <3>4. count * (m + w) = count * m + count * w /\ count * m \in Int /\ count * w \in Int
        BY <3>1
      <3>5. count * (m + w) <= s + count * w
        <4>1. count * m <= s
          BY <3>1, <3>3, <3>4
        <4> QED
          BY <3>1, <3>4, <4>1
      <3>6. count * c[i].seconds <= T(S) + count * T(u.files)
        BY <3>2, <3>5 DEF s, w
      <3> QED
        BY <3>6
    <2> QED
      BY <2>1, <2>2
  <1> QED
    BY <1>7, <1>8, <1>12, <1>13, <1>14, <1>15, <1>16, <1>2 DEF Bins, T, S, N, c

\* Everything is packed.
LEMMA Packing ==
    ASSUME NEW seconds, Recorded(seconds), NEW units, UnitsOf(units, seconds),
           NEW count \in Nat \ {0}
    PROVE  \E b : /\ Bins(b, DOMAIN seconds, seconds, units, count)
                  /\ _longest_processing_time_pack(units, count) = [i \in 1..count |-> b[i].files]
  <1> DEFINE load == [u \in units |-> u.seconds]
             place == [u \in units |-> LexicalIndex(u.key)]
             before == HeaviestFirst(units, load, place)
             order == sorted(units, before)
             n == Len(order)
             start == [i \in 1..count |-> [files |-> {}, seconds |-> 0]]
             loop(g) == [k \in 0..n |-> IF k = 0 THEN start ELSE Placed(g[k - 1], order[k])]
             bins == CHOOSE g : g = loop(g)
             A(k) == UNION {order[l].files : l \in 1..k}
  <1>1. /\ IsFiniteSet(units)
        /\ \A u \in units : /\ u.files \in SUBSET DOMAIN seconds
                            /\ u.seconds = _total_seconds(seconds, u.files)
                            /\ u.key \in Range(Lexical)
        /\ \A u, v \in units : u # v => u.key # v.key /\ u.files \cap v.files = {}
        /\ \A f \in DOMAIN seconds : \E u \in units : f \in u.files
    BY DEF UnitsOf
  <1>2. Lists(order, units, before)
    <2>1. load \in [units -> Int]
      <3>1. \A u \in units : u.seconds \in Int
        BY <1>1, Weights
      <3> QED
        BY <3>1
    <2>2. place \in [units -> Int] /\ \A u, v \in units : place[u] = place[v] => u = v
      <3>1. \A u \in units : LexicalIndex(u.key) \in Int /\ Lexical[LexicalIndex(u.key)] = u.key
        BY <1>1, LexicalPlaces
      <3>2. \A u, v \in units : LexicalIndex(u.key) = LexicalIndex(v.key) => u = v
        BY <1>1, <3>1
      <3> QED
        BY <3>1, <3>2
    <2> HIDE DEF load, place
    <2>3. TotalOrder(before, units)
      BY <2>1, <2>2, HeaviestFirstOrders
    <2> HIDE DEF before
    <2> QED
      BY <1>1, <2>3, SortedLists
  <1>3. /\ n \in Nat /\ \A k \in 1..n : order[k] \in units
        /\ \A k, l \in 1..n : k # l => order[k] # order[l]
        /\ \A u \in units : \E k \in 1..n : order[k] = u
    <2> HIDE DEF order, before
    <2> QED
      BY <1>2, ElementOfSeq DEF Lists
  <1>4. _longest_processing_time_pack(units, count) = [i \in 1..count |-> bins[n][i].files]
    BY DEF _longest_processing_time_pack
  <1> HIDE DEF order, before, n, start
  <1>5. \E g : g = loop(g)
    <2> DEFINE step == [k \in 1..n |-> [b \in LaneBins(seconds, count) |-> Placed(b, order[k])]]
    <2>1. start \in LaneBins(seconds, count)
      BY DEF start, LaneBins
    <2>2. ASSUME NEW k \in 1..n, NEW b \in LaneBins(seconds, count)
          PROVE  Placed(b, order[k]) \in LaneBins(seconds, count)
      <3> DEFINE u == order[k]
                 l == lightest(b)
                 entry == [files |-> b[l].files \cup u.files, seconds |-> b[l].seconds + u.seconds]
      <3>1. u \in units /\ u.files \in SUBSET DOMAIN seconds /\ u.seconds \in Int
        BY <1>1, <1>3, Weights
      <3>2. l \in 1..count
        BY LightestBin
      <3>3. b \in [1..count -> [files : SUBSET DOMAIN seconds, seconds : Int]]
        BY DEF LaneBins
      <3>4. Placed(b, u) = [b EXCEPT ![l] = entry]
        BY DEF Placed
      <3>5. entry \in [files : SUBSET DOMAIN seconds, seconds : Int]
        <4> HIDE DEF u, l
        <4>1. b[l] \in [files : SUBSET DOMAIN seconds, seconds : Int]
          BY <3>2, <3>3
        <4> QED
          BY <3>1, <4>1
      <3> HIDE DEF u, l, entry
      <3>6. Placed(b, u) \in [1..count -> [files : SUBSET DOMAIN seconds, seconds : Int]]
        BY <3>2, <3>3, <3>4, <3>5
      <3> QED
        BY <3>6 DEF LaneBins, u
    <2>3. step \in [1..n -> [LaneBins(seconds, count) -> LaneBins(seconds, count)]]
      BY <2>2
    <2>4. \A k \in 1..n : \A b \in LaneBins(seconds, count) : step[k][b] = Placed(b, order[k])
      OBVIOUS
    <2> HIDE DEF step
    <2>5. PICK g : Iterates(g, LaneBins(seconds, count), n, start, step)
      BY <1>3, <2>1, <2>3, IterationExists
    <2>6. /\ g \in [0..n -> LaneBins(seconds, count)] /\ g[0] = start
          /\ \A k \in 1..n : g[k] = step[k][g[k - 1]]
      BY <2>5 DEF Iterates
    <2>7. \A k \in 0..n : g[k] = IF k = 0 THEN start ELSE Placed(g[k - 1], order[k])
      <3> TAKE k \in 0..n
      <3>1. CASE k = 0
        BY <2>6, <3>1
      <3>2. CASE k # 0
        <4>1. k \in 1..n /\ k - 1 \in 0..n
          BY <1>3, <3>2
        <4> QED
          BY <2>4, <2>6, <3>2, <4>1
      <3> QED
        BY <3>1, <3>2
    <2>8. g = loop(g)
      BY <2>6, <2>7
    <2> QED
      BY <2>8
  <1>6. bins = loop(bins)
    BY <1>5
  <1> HIDE DEF bins
  <1>7. /\ bins[0] = start
        /\ \A k \in 1..n : bins[k] = Placed(bins[k - 1], order[k])
    <2>1. \A k \in 0..n : bins[k] = IF k = 0 THEN start ELSE Placed(bins[k - 1], order[k])
      BY <1>6
    <2>2. \A k \in 1..n : k \in 0..n /\ k # 0
      OBVIOUS
    <2>3. 0 \in 0..n
      BY <1>3
    <2> QED
      BY <2>1, <2>2, <2>3
  <1>8. \A k \in 0..n : Bins(bins[k], A(k), seconds, units, count)
    <2> DEFINE Failing == {k \in 0..n : ~Bins(bins[k], A(k), seconds, units, count)}
    <2> SUFFICES ASSUME Failing # {}
                 PROVE  FALSE
      OBVIOUS
    <2>1. PICK k \in Failing : \A l \in Failing : k <= l
      <3>1. Failing \in SUBSET Nat
        OBVIOUS
      <3> HIDE DEF Failing
      <3> QED
        BY <3>1, LeastNat
    <2>2. k # 0
      <3>1. A(0) = {}
        OBVIOUS
      <3>2. Bins(bins[0], {}, seconds, units, count)
        BY <1>7, EmptyBins DEF start
      <3> QED
        BY <2>1, <3>1, <3>2
    <2>3. k \in 1..n /\ k - 1 \in 0..n /\ ~(k <= k - 1)
      BY <1>3, <2>1, <2>2
    <2>4. Bins(bins[k - 1], A(k - 1), seconds, units, count)
      BY <2>1, <2>3
    <2> DEFINE u == order[k]
    <2>5. u \in units /\ u.files \in SUBSET DOMAIN seconds /\ u.seconds = _total_seconds(seconds, u.files)
      BY <1>1, <1>3, <2>3
    <2>6. u.files \cap A(k - 1) = {}
      <3>1. \A l \in 1..k - 1 : l \in 1..n /\ l # k
        BY <1>3, <2>3
      <3>2. \A l \in 1..k - 1 : order[l] \in units /\ order[l] # u
        BY <1>3, <2>3, <3>1
      <3>3. \A l \in 1..k - 1 : order[l].files \cap u.files = {}
        BY <1>1, <2>5, <3>2
      <3> HIDE DEF u
      <3> QED
        BY <3>3
    <2>7. A(k) = A(k - 1) \cup u.files
      <3>1. \A l : l \in 1..k <=> l \in 1..k - 1 \/ l = k
        BY <2>3
      <3> QED
        BY <3>1
    <2> HIDE DEF u, A, Failing
    <2>8. Bins(Placed(bins[k - 1], u), A(k - 1) \cup u.files, seconds, units, count)
      BY <2>4, <2>5, <2>6, PlaceUnit
    <2>9. Bins(bins[k], A(k), seconds, units, count)
      BY <1>7, <2>3, <2>7, <2>8 DEF u
    <2> QED
      BY <2>1, <2>9 DEF Failing
  <1>9. A(n) = DOMAIN seconds
    <2>1. \A f \in DOMAIN seconds : \E k \in 1..n : f \in order[k].files
      BY <1>1, <1>3
    <2>2. \A k \in 1..n : order[k].files \in SUBSET DOMAIN seconds
      BY <1>1, <1>3
    <2> QED
      BY <2>1, <2>2
  <1>10. Bins(bins[n], DOMAIN seconds, seconds, units, count)
    <2>1. n \in 0..n
      BY <1>3
    <2> HIDE DEF A
    <2>2. Bins(bins[n], A(n), seconds, units, count)
      BY <1>8, <2>1
    <2> QED
      BY <1>9, <2>2
  <1> QED
    BY <1>4, <1>10

\* A suggested lane holds no more than an even share and one file, or one
\* directory of 1.3 shares.
FairShare(files, seconds, count) ==
    \E part \in SUBSET DOMAIN seconds :
        /\ \/ \E f \in DOMAIN seconds : part = {f}
           \/ ~(10 * count * _total_seconds(seconds, part) > 13 * _total_seconds(seconds, DOMAIN seconds))
        /\ count * _total_seconds(seconds, files)
            <= _total_seconds(seconds, DOMAIN seconds) + count * _total_seconds(seconds, part)

\* The lanes of a suggestion: each recorded file is in one of them, the
\* heaviest lane comes first, and no lane is much heavier than its share.
Balanced(packed, seconds, count) ==
    /\ Len(packed) \in Nat /\ DOMAIN packed = 1..Len(packed) /\ Len(packed) <= count
    /\ \A k \in 1..Len(packed) : packed[k] \in SUBSET DOMAIN seconds /\ packed[k] # {}
    /\ \A k, l \in 1..Len(packed) : k # l => packed[k] \cap packed[l] = {}
    /\ \A f \in DOMAIN seconds : \E k \in 1..Len(packed) : f \in packed[k]
    /\ \A k, l \in 1..Len(packed) : k < l =>
            _total_seconds(seconds, packed[l]) <= _total_seconds(seconds, packed[k])
    /\ \A k \in 1..Len(packed) : FairShare(packed[k], seconds, count)

\* The bins that hold files are the lanes.
LEMMA LanesFilled ==
    ASSUME NEW seconds, Recorded(seconds), NEW units, UnitsOf(units, seconds),
           NEW count \in Nat \ {0}, \A u \in units : Light(u, seconds, count),
           NEW b, Bins(b, DOMAIN seconds, seconds, units, count)
    PROVE  Balanced(_lanes_heaviest_first(seconds, [i \in 1..count |-> b[i].files]), seconds, count)
  <1> DEFINE S == DOMAIN seconds
             T(A) == _total_seconds(seconds, A)
             N == 1..count
             files == [i \in N |-> b[i].files]
             filled == Range(files) \ {{}}
             load == [d \in filled |-> T(d)]
             place == [d \in filled |-> Min({LexicalIndex(f) : f \in d})]
             before == HeaviestFirst(filled, load, place)
             packed == _lanes_heaviest_first(seconds, files)
             n == Len(packed)
  <1>1. /\ b \in LaneBins(seconds, count)
        /\ \A i \in N : b[i].files \in SUBSET S
        /\ \A i \in N : b[i].seconds = T(b[i].files)
        /\ \A i, j \in N : i # j => b[i].files \cap b[j].files = {}
        /\ \A f : f \in S <=> \E i \in N : f \in b[i].files
        /\ \A i \in N : \/ b[i].seconds = 0
                        \/ \E u \in units : count * b[i].seconds <= T(S) + count * T(u.files)
    BY DEF Bins, LaneBins
  <1>2. /\ \A A \in SUBSET S : IsFiniteSet(A) /\ T(A) \in Nat
    BY Weights
  <1>3. \A d \in filled : \E i \in N : d = b[i].files
    BY DEF Range
  <1>4. \A i \in N : b[i].files # {} => b[i].files \in filled
    BY DEF Range
  <1>5. packed = sorted(filled, before)
    BY DEF _lanes_heaviest_first
  <1>6. IsFiniteSet(filled) /\ Cardinality(filled) <= count
    <2>1. count \in Nat
      OBVIOUS
    <2>2. IsFiniteSet(N) /\ Cardinality(N) = count
      BY <2>1, UpTo
    <2>3. files \in Surjection(N, Range(files))
      BY DEF Surjection, Range
    <2> HIDE DEF N, files
    <2>4. IsFiniteSet(Range(files)) /\ Cardinality(Range(files)) <= count
      BY <2>2, <2>3, FS_Surjection
    <2>5. filled \in SUBSET Range(files)
      OBVIOUS
    <2> HIDE DEF filled
    <2>6. IsFiniteSet(filled) /\ Cardinality(filled) <= Cardinality(Range(files))
      BY <2>4, <2>5, FS_Subset
    <2>7. Cardinality(filled) \in Nat /\ Cardinality(Range(files)) \in Nat
      BY <2>4, <2>6, FS_CardinalityType
    <2> QED
      BY <2>1, <2>4, <2>6, <2>7
  <1>7. \A d \in filled : d \in SUBSET S /\ d # {}
    BY <1>1, <1>3
  <1>8. \A d, e \in filled : d # e => d \cap e = {}
    <2> TAKE d, e \in filled
    <2>1. PICK i, j \in N : d = b[i].files /\ e = b[j].files
      BY <1>3
    <2> QED
      BY <1>1, <2>1
  <1> HIDE DEF filled, N, T, S, files
  <1>9. load \in [filled -> Int]
    BY <1>2, <1>7
  <1>10. ASSUME NEW d \in filled
         PROVE  place[d] \in Int /\ \E f \in d : LexicalIndex(f) = place[d]
    <2> DEFINE at == [f \in d |-> LexicalIndex(f)]
               places == {LexicalIndex(f) : f \in d}
    <2>1. d \in SUBSET TestFiles
      BY <1>7 DEF S, Recorded
    <2>2. \A f \in d : LexicalIndex(f) \in Int
      BY <2>1, Files, LexicalPlaces
    <2>3. places = {at[f] : f \in d}
      OBVIOUS
    <2>4. IsFiniteSet(places)
      <3> HIDE DEF at, places
      <3> QED
        BY <1>2, <1>7, <2>3, FiniteRange
    <2>5. places \in SUBSET Int /\ places # {}
      BY <1>7, <2>2
    <2>6. place[d] = Min(places)
      OBVIOUS
    <2>7. Min(places) \in places
      <3> HIDE DEF places
      <3> QED
        BY <2>4, <2>5, MaxMin
    <2> HIDE DEF place
    <2> QED
      BY <2>2, <2>6, <2>7
  <1>11. place \in [filled -> Int] /\ \A d, e \in filled : place[d] = place[e] => d = e
    <2>1. place = [d \in filled |-> place[d]]
      OBVIOUS
    <2> HIDE DEF place
    <2>2. place \in [filled -> Int]
      BY <1>10, <2>1
    <2>3. ASSUME NEW d \in filled, NEW e \in filled, place[d] = place[e]
          PROVE  d = e
      <3>1. PICK f \in d : LexicalIndex(f) = place[d]
        BY <1>10
      <3>2. PICK g \in e : LexicalIndex(g) = place[e]
        BY <1>10
      <3>3. f \in Range(Lexical) /\ g \in Range(Lexical)
        BY <1>7, <3>1, <3>2, Files DEF S, Recorded
      <3>4. f = g
        BY <2>3, <3>1, <3>2, <3>3, LexicalPlaces
      <3> QED
        BY <1>8, <3>1, <3>2, <3>4
    <2> QED
      BY <2>2, <2>3
  <1>12. Lists(packed, filled, before)
    <2> HIDE DEF load, place, packed
    <2>1. TotalOrder(before, filled)
      BY <1>9, <1>11, HeaviestFirstOrders
    <2> HIDE DEF before
    <2>2. Lists(sorted(filled, before), filled, before)
      BY <1>6, <2>1, SortedLists
    <2> QED
      BY <1>5, <2>2
  <1> HIDE DEF packed
  <1>13. /\ n \in Nat /\ DOMAIN packed = 1..n /\ n <= count
         /\ \A k \in 1..n : packed[k] \in filled
         /\ \A k, l \in 1..n : k < l => <<packed[k], packed[l]>> \in before
         /\ \A k, l \in 1..n : k # l => packed[k] # packed[l]
         /\ \A d \in filled : \E k \in 1..n : packed[k] = d
    <2> HIDE DEF before
    <2> QED
      BY <1>6, <1>12, LenProperties, ElementOfSeq DEF Lists
  <1>14. \A d, e \in filled : <<d, e>> \in before => T(e) <= T(d)
    <2> TAKE d, e \in filled
    <2>1. <<d, e>> \in before => load[d] > load[e] \/ load[d] = load[e]
      <3> HIDE DEF load, place
      <3> QED
        BY DEF HeaviestFirst
    <2>2. load[d] = T(d) /\ load[e] = T(e) /\ T(d) \in Nat /\ T(e) \in Nat
      BY <1>2, <1>7
    <2> HIDE DEF before, load
    <2> QED
      BY <2>1, <2>2
  <1> HIDE DEF before, load, place, n
  <1>15. ASSUME NEW f \in S
         PROVE  \E k \in 1..n : f \in packed[k]
    <2>1. PICK i \in N : f \in b[i].files
      BY <1>1
    <2>2. b[i].files \in filled
      BY <1>4, <2>1
    <2> QED
      BY <1>13, <2>1, <2>2
  <1>16. ASSUME NEW d \in filled
         PROVE  FairShare(d, seconds, count)
    <2>1. PICK i \in N : d = b[i].files
      BY <1>3
    <2>2. T(S) \in Nat /\ T(d) \in Nat /\ b[i].seconds = T(d)
      BY <1>1, <1>2, <1>7, <2>1
    <2>3. CASE b[i].seconds = 0
      <3>1. PICK f \in d : f \in S
        BY <1>7
      <3> DEFINE part == {f}
      <3>2. part \in SUBSET S /\ \E g \in S : part = {g}
        BY <3>1
      <3>3. T(part) \in Nat
        BY <1>2, <3>2
      <3> HIDE DEF part
      <3>4. count * T(part) \in Nat /\ count * T(d) = 0
        BY <2>2, <2>3, <3>3
      <3>5. count * T(d) <= T(S) + count * T(part)
        BY <2>2, <3>4
      <3>6. /\ part \in SUBSET DOMAIN seconds /\ \E g \in DOMAIN seconds : part = {g}
            /\ count * _total_seconds(seconds, d)
                <= _total_seconds(seconds, DOMAIN seconds) + count * _total_seconds(seconds, part)
        BY <3>2, <3>5 DEF S, T
      <3> QED
        BY <3>6 DEF FairShare
    <2>4. CASE \E u \in units : count * b[i].seconds <= T(S) + count * T(u.files)
      <3>1. PICK u \in units : count * b[i].seconds <= T(S) + count * T(u.files)
        BY <2>4
      <3> DEFINE part == u.files
      <3>2. part \in SUBSET DOMAIN seconds
        BY DEF UnitsOf
      <3>3. \/ \E f \in DOMAIN seconds : part = {f}
            \/ ~(10 * count * _total_seconds(seconds, part) > 13 * _total_seconds(seconds, DOMAIN seconds))
        BY DEF Light
      <3>4. count * _total_seconds(seconds, d)
                <= _total_seconds(seconds, DOMAIN seconds) + count * _total_seconds(seconds, part)
        BY <2>2, <3>1 DEF S, T
      <3> HIDE DEF part
      <3> QED
        BY <3>2, <3>3, <3>4 DEF FairShare
    <2> QED
      BY <1>1, <2>3, <2>4
  <1>17. /\ \A k \in 1..n : packed[k] \in SUBSET S /\ packed[k] # {}
         /\ \A k \in 1..n : FairShare(packed[k], seconds, count)
    BY <1>7, <1>13, <1>16
  <1>18. \A k, l \in 1..n : k # l => packed[k] \cap packed[l] = {}
    BY <1>8, <1>13
  <1>19. \A k, l \in 1..n : k < l => T(packed[l]) <= T(packed[k])
    BY <1>13, <1>14
  <1> QED
    BY <1>13, <1>15, <1>17, <1>18, <1>19 DEF Balanced, S, T, n, packed, files, N

\* As many lanes as there are processors, but no more than files.
Lanes(seconds) == Max({1, Min({LaneCount, Cardinality(DOMAIN seconds)})})

\* There is at least one lane, and at most LaneCount.
LEMMA LanesCounted ==
    ASSUME NEW seconds, Recorded(seconds)
    PROVE  Lanes(seconds) \in Nat \ {0} /\ Lanes(seconds) <= LaneCount
  <1> DEFINE m == Cardinality(DOMAIN seconds)
             low == Min({LaneCount, m})
  <1>1. m \in Nat /\ LaneCount \in Nat \ {0}
    BY Weights, FS_CardinalityType, PartitionAssumption
  <1> HIDE DEF m
  <1>2. low \in {LaneCount, m} /\ low <= LaneCount
    <2>1. {LaneCount, m} \in SUBSET Int /\ {LaneCount, m} # {}
      BY <1>1
    <2>2. IsFiniteSet({LaneCount, m})
      <3>1. IsFiniteSet({LaneCount}) /\ IsFiniteSet({LaneCount} \cup {m})
        BY FS_Singleton, FS_AddElement
      <3>2. {LaneCount} \cup {m} = {LaneCount, m}
        OBVIOUS
      <3> QED
        BY <3>1, <3>2
    <2> QED
      BY <2>1, <2>2, MaxMin
  <1> HIDE DEF low
  <1>3. low \in Nat
    BY <1>1, <1>2
  <1>4. Max({1, low}) \in {1, low} /\ 1 <= Max({1, low})
    <2>1. {1, low} \in SUBSET Int /\ {1, low} # {}
      BY <1>3
    <2>2. IsFiniteSet({1, low})
      <3>1. IsFiniteSet({1}) /\ IsFiniteSet({1} \cup {low})
        BY FS_Singleton, FS_AddElement
      <3>2. {1} \cup {low} = {1, low}
        OBVIOUS
      <3> QED
        BY <3>1, <3>2
    <2> QED
      BY <2>1, <2>2, MaxMin
  <1> DEFINE high == Max({1, low})
  <1> HIDE DEF high
  <1>5. high \in Nat \ {0} /\ high <= LaneCount
    BY <1>1, <1>2, <1>3, <1>4 DEF high
  <1> QED
    BY <1>5 DEF Lanes, high, low, m

\* What --lanes-suggest suggests.
LEMMA BalancedFiles ==
    ASSUME NEW seconds, Recorded(seconds), ~(Cardinality(DOMAIN seconds) < 2)
    PROVE  Balanced(balanced_partition(seconds, LaneCount), seconds, Lanes(seconds))
  <1> DEFINE count == Lanes(seconds)
             units == _packing_units(seconds, count)
  <1>1. balanced_partition(seconds, LaneCount)
            = _lanes_heaviest_first(seconds, _longest_processing_time_pack(units, count))
    BY DEF balanced_partition, Lanes
  <1>2. count \in Nat \ {0}
    BY LanesCounted
  <1> HIDE DEF count
  <1>3. UnitsOf(units, seconds) /\ \A u \in units : Light(u, seconds, count)
    BY PackingUnits
  <1> HIDE DEF units
  <1>4. PICK b : /\ Bins(b, DOMAIN seconds, seconds, units, count)
                 /\ _longest_processing_time_pack(units, count) = [i \in 1..count |-> b[i].files]
    BY <1>2, <1>3, Packing
  <1>5. Balanced(_lanes_heaviest_first(seconds, [i \in 1..count |-> b[i].files]), seconds, count)
    BY <1>2, <1>3, <1>4, LanesFilled
  <1> QED
    BY <1>1, <1>4, <1>5 DEF count

-----------------------------------------------------------------------------
(* The names of suggested lanes *)

\* The last part of a directory with tests is known.
LEMMA LastPart ==
    ASSUME NEW f \in TestFiles, Front(f) # <<>>
    PROVE  Last(Front(f)) \in DOMAIN Token
  <1>1. PICK t \in AllTests : f = t.path
    BY DEF TestFiles
  <1>2. \A k \in 1..Len(f) - 1 : f[k] \in DOMAIN Token
    BY <1>1, PartitionAssumption DEF OnDisk
  <1>3. f \in Path /\ f # <<>> /\ Front(f) \in Path /\ IsPrefix(Front(f), f)
    BY Files
  <1>4. Len(Front(f)) = Len(f) - 1
    BY <1>3, FrontOfPath
  <1>5. Len(Front(f)) \in Nat \ {0} /\ Len(f) \in Nat \ {0}
    BY <1>3, EmptyPrefix
  <1> DEFINE l == Len(Front(f))
  <1>6. l \in 1..l /\ l \in 1..Len(f) - 1
    BY <1>4, <1>5
  <1>7. Front(f)[l] = f[l]
    <2> HIDE DEF l
    <2> QED
      BY <1>3, <1>6, PrefixDef DEF l
  <1>8. Last(Front(f)) = Front(f)[l]
    BY DEF Last
  <1> HIDE DEF l
  <1> QED
    BY <1>2, <1>6, <1>7, <1>8

\* A lane is called "lane" or after one of its directories.
LEMMA LaneName ==
    ASSUME NEW seconds, Recorded(seconds), NEW files \in SUBSET DOMAIN seconds, files # {}
    PROVE  _lane_name(seconds, files) \in {"lane"} \cup Range(Token)
  <1> DEFINE dirs == _files_by_directory(files)
             load == [d \in dirs |-> _total_seconds(seconds, d)]
             place == [d \in dirs |-> LexicalIndex(_parent_directory(d))]
             before == HeaviestFirst(dirs, load, place)
             first == sorted(dirs, before)[1]
             parent == _parent_directory(first)
  <1>1. files \in SUBSET TestFiles
    BY DEF Recorded
  <1>2. /\ IsFiniteSet(dirs)
        /\ \A d \in dirs :
            /\ d \in SUBSET files /\ d # {} /\ \A f \in d : Front(f) = _parent_directory(d)
            /\ _parent_directory(d) \in Range(Lexical)
        /\ \A d, e \in dirs : d # e => _parent_directory(d) # _parent_directory(e)
        /\ \A f \in files : \E d \in dirs : f \in d
    BY <1>1, Directories
  <1> HIDE DEF dirs
  <1>3. load \in [dirs -> Int]
    <2>1. \A d \in dirs : _total_seconds(seconds, d) \in Int
      BY <1>2, Weights
    <2> QED
      BY <2>1
  <1>4. place \in [dirs -> Int] /\ \A d, e \in dirs : place[d] = place[e] => d = e
    <2>1. \A d \in dirs : /\ LexicalIndex(_parent_directory(d)) \in Int
                          /\ Lexical[LexicalIndex(_parent_directory(d))] = _parent_directory(d)
      BY <1>2, LexicalPlaces
    <2> QED
      BY <1>2, <2>1
  <1>5. Lists(sorted(dirs, before), dirs, before)
    <2> HIDE DEF load, place
    <2>1. TotalOrder(before, dirs)
      BY <1>3, <1>4, HeaviestFirstOrders
    <2> HIDE DEF before
    <2> QED
      BY <1>2, <2>1, SortedLists
  <1>6. first \in dirs
    <2> DEFINE q == sorted(dirs, before)
    <2>1. PICK d \in dirs : TRUE
      BY <1>2
    <2> HIDE DEF q, before
    <2>2. q \in Seq(dirs) /\ \E k \in 1..Len(q) : q[k] = d
      BY <1>5, <2>1 DEF Lists, q
    <2>3. Len(q) \in Nat
      BY <2>2, LenProperties
    <2>4. 1 \in 1..Len(q)
      BY <2>2, <2>3
    <2>5. q[1] \in dirs
      BY <2>2, <2>4, ElementOfSeq
    <2> QED
      BY <2>5 DEF q
  <1>7. _lane_name(seconds, files) = IF parent = <<>> THEN "lane" ELSE Token[Last(parent)]
    BY DEF _lane_name, dirs
  <1> HIDE DEF first
  <1>8. PICK f \in files : Front(f) = parent
    BY <1>2, <1>6
  <1>9. parent # <<>> => Last(parent) \in DOMAIN Token
    BY <1>1, <1>8, LastPart
  <1> HIDE DEF parent
  <1> QED
    BY <1>7, <1>9 DEF Range

\* Names that may be given: each differs from the others and is not "rest".
Distinct(names, n) ==
    /\ Len(names) = n /\ DOMAIN names = 1..n
    /\ \A k, l \in 1..n : names[k] = names[l] => k = l
    /\ \A k \in 1..n : names[k] # "rest"

\* _unique_names gives different names, none of them the last lane's.
LEMMA UniqueNames ==
    ASSUME NEW n \in Nat, n <= LaneCount, NEW preferred, Len(preferred) = n,
           \A k \in 1..n : preferred[k] \in {"lane"} \cup Range(Token)
    PROVE  Distinct(_unique_names(preferred), n)
  <1> DEFINE taken(q) == Range(q) \cup {"rest"}
             frees(q, name) == {m \in 1..Cardinality(taken(q)) + 1 :
                                    NumberedName(name, m) \notin taken(q)}
             free(q, name) == NumberedName(name, Min(frees(q, name)))
             loop(g) == [k \in 0..n |->
                            IF k = 0 THEN <<>> ELSE Append(g[k - 1], free(g[k - 1], preferred[k]))]
             names == CHOOSE g : g = loop(g)
             Numbered == {NumberedName(preferred[k], Min(B)) : k \in 1..n, B \in SUBSET Nat}
             T == Seq(Numbered)
             step == [k \in 1..n |-> [q \in T |-> Append(q, free(q, preferred[k]))]]
  <1>1. _unique_names(preferred) = names[n]
    BY DEF _unique_names
  <1>2. ASSUME NEW q \in T
        PROVE  /\ IsFiniteSet(taken(q)) /\ Cardinality(taken(q)) \in Nat
               /\ Cardinality(taken(q)) <= Len(q) + 1 /\ Len(q) \in Nat
               /\ DOMAIN q = 1..Len(q)
    <2> HIDE DEF Numbered
    <2>1. Len(q) \in Nat /\ DOMAIN q = 1..Len(q) /\ q \in [1..Len(q) -> Numbered]
      BY LenProperties
    <2>2. q \in Surjection(1..Len(q), Range(q))
      BY <2>1 DEF Surjection, Range
    <2>3. IsFiniteSet(1..Len(q)) /\ Cardinality(1..Len(q)) = Len(q)
      BY <2>1, UpTo
    <2>4. IsFiniteSet(Range(q)) /\ Cardinality(Range(q)) <= Len(q)
      BY <2>2, <2>3, FS_Surjection
    <2>5. /\ IsFiniteSet(taken(q))
          /\ Cardinality(taken(q)) = IF "rest" \in Range(q) THEN Cardinality(Range(q))
                                     ELSE Cardinality(Range(q)) + 1
      BY <2>4, FS_AddElement
    <2>6. Cardinality(Range(q)) \in Nat
      BY <2>4, FS_CardinalityType
    <2> HIDE DEF taken
    <2>7. Cardinality(taken(q)) \in Nat /\ Cardinality(taken(q)) <= Len(q) + 1
      BY <2>1, <2>4, <2>5, <2>6
    <2> QED
      BY <2>1, <2>5, <2>7
  <1>3. ASSUME NEW q \in T, NEW k \in 1..n
        PROVE  /\ free(q, preferred[k]) \in Numbered
               /\ Append(q, free(q, preferred[k])) \in T
    <2>1. Cardinality(taken(q)) \in Nat
      <3> HIDE DEF T, taken
      <3> QED
        BY <1>2
    <2>2. frees(q, preferred[k]) \in SUBSET Nat
      <3> HIDE DEF taken
      <3> QED
        BY <2>1
    <2> HIDE DEF frees
    <2>3. free(q, preferred[k]) \in Numbered
      BY <2>2
    <2> HIDE DEF free, Numbered
    <2> QED
      BY <2>3, AppendProperties
  <1>4. \E g : g = loop(g)
    <2>1. step \in [1..n -> [T -> T]]
      <3> HIDE DEF T, free
      <3> QED
        BY <1>3
    <2>2. <<>> \in T
      BY EmptySeq
    <2>3. \A k \in 1..n : \A q \in T : step[k][q] = Append(q, free(q, preferred[k]))
      OBVIOUS
    <2> HIDE DEF T, step, free
    <2>4. PICK g : Iterates(g, T, n, <<>>, step)
      BY <2>1, <2>2, IterationExists
    <2>5. g \in [0..n -> T] /\ g[0] = <<>> /\ \A k \in 1..n : g[k] = step[k][g[k - 1]]
      BY <2>4 DEF Iterates
    <2>6. \A k \in 0..n : g[k] = IF k = 0 THEN <<>>
                                 ELSE Append(g[k - 1], free(g[k - 1], preferred[k]))
      <3> TAKE k \in 0..n
      <3>1. CASE k = 0
        BY <2>5, <3>1
      <3>2. CASE k # 0
        <4>1. k \in 1..n /\ k - 1 \in 0..n
          BY <3>2
        <4>2. g[k] = step[k][g[k - 1]] /\ g[k - 1] \in T
          BY <2>5, <4>1
        <4> QED
          BY <2>3, <3>2, <4>1, <4>2
      <3> QED
        BY <3>1, <3>2
    <2>7. g = loop(g)
      BY <2>5, <2>6
    <2> QED
      BY <2>7
  <1>5. names = loop(names)
    BY <1>4
  <1> HIDE DEF names
  <1>6. /\ names[0] = <<>>
        /\ \A k \in 1..n : names[k] = Append(names[k - 1], free(names[k - 1], preferred[k]))
    <2> HIDE DEF free
    <2>1. \A k \in 0..n : names[k] = IF k = 0 THEN <<>>
                                     ELSE Append(names[k - 1], free(names[k - 1], preferred[k]))
      BY <1>5
    <2>2. \A k \in 1..n : k \in 0..n /\ k # 0
      OBVIOUS
    <2>3. 0 \in 0..n
      OBVIOUS
    <2> QED
      BY <2>1, <2>2, <2>3
  <1> DEFINE Good(k) == names[k] \in T /\ Distinct(names[k], k)
  <1>7. ASSUME NEW k \in 1..n, Good(k - 1)
        PROVE  Good(k)
    <2> DEFINE q == names[k - 1]
               name == preferred[k]
               x == free(q, name)
    <2>1. q \in T /\ Distinct(q, k - 1)
      BY <1>7
    <2>2. names[k] = Append(q, x)
      BY <1>6
    <2>3. x \in Numbered /\ Append(q, x) \in T
      <3> HIDE DEF T, Numbered, free, q
      <3>1. q \in T /\ k \in 1..n
        BY <2>1
      <3> QED
        BY <1>3, <3>1
    <2>4. x \notin taken(q)
      <3>1. /\ IsFiniteSet(taken(q)) /\ Cardinality(taken(q)) \in Nat
            /\ Cardinality(taken(q)) <= Len(q) + 1 /\ Len(q) = k - 1
        <4> HIDE DEF T, taken, q
        <4>1. Len(q) = k - 1
          BY <2>1 DEF Distinct
        <4> QED
          BY <1>2, <2>1, <4>1
      <3>2. name \in {"lane"} \cup Range(Token) /\ LaneCount \in Nat
        BY PartitionAssumption
      <3> DEFINE g == [m \in 1..LaneCount + 2 |-> NumberedName(name, m)]
                 c == Cardinality(taken(q))
      <3>3. \A m, l \in 1..LaneCount + 2 : NumberedName(name, m) = NumberedName(name, l) => m = l
        BY <3>2, NamesAssumption
      <3>4. c \in Nat /\ \A m \in 1..1 + c : m \in 1..LaneCount + 2
        <4> HIDE DEF c
        <4>1. c \in Nat /\ c <= k
          BY <3>1 DEF c
        <4> QED
          BY <3>2, <4>1
      <3>5. \A m \in 1..1 + c : g[m] = NumberedName(name, m)
        <4> HIDE DEF c
        <4> QED
          BY <3>4
      <3> HIDE DEF taken, q, name, g
      <3>6. \A m, l \in 1..1 + c : g[m] = g[l] => m = l
        <4> HIDE DEF c
        <4> QED
          BY <3>3, <3>4, <3>5
      <3> DEFINE open == {m \in 1..1 + c : g[m] \notin taken(q)}
      <3>7. Min(open) \in open
        BY <3>1, <3>6, FreeName
      <3>8. open = frees(q, name)
        <4>1. c + 1 = 1 + c
          BY <3>4
        <4> QED
          BY <3>5, <4>1
      <3>9. Min(frees(q, name)) \in frees(q, name)
        BY <3>7, <3>8
      <3> QED
        BY <3>9
    <2> HIDE DEF x, T, Numbered
    <2>5. /\ Len(q) = k - 1 /\ DOMAIN q = 1..k - 1
          /\ \A i, j \in 1..k - 1 : q[i] = q[j] => i = j
          /\ \A i \in 1..k - 1 : q[i] # "rest"
      BY <2>1 DEF Distinct
    <2>6. /\ x # "rest" /\ \A i \in 1..k - 1 : q[i] # x
      <3> HIDE DEF q
      <3> QED
        BY <2>4, <2>5 DEF Range
    <2>7. /\ Len(Append(q, x)) = k /\ DOMAIN Append(q, x) = 1..k
          /\ \A i \in 1..k - 1 : Append(q, x)[i] = q[i]
          /\ Append(q, x)[k] = x
      <3>1. k \in Nat /\ k - 1 \in Nat /\ (k - 1) + 1 = k
        OBVIOUS
      <3> HIDE DEF q
      <3>2. q \in Seq(Numbered) /\ Append(q, x) \in Seq(Numbered)
        BY <2>1, <2>3 DEF T
      <3>3. /\ Len(Append(q, x)) = Len(q) + 1
            /\ \A i \in 1..Len(q) : Append(q, x)[i] = q[i]
            /\ Append(q, x)[Len(q) + 1] = x
        BY <2>3, <3>2, AppendProperties
      <3>4. DOMAIN Append(q, x) = 1..Len(Append(q, x))
        BY <3>2, LenProperties
      <3> QED
        BY <2>5, <3>1, <3>3, <3>4
    <2>8. \A i \in 1..k : i \in 1..k - 1 \/ i = k
      OBVIOUS
    <2> DEFINE r == Append(q, x)
    <2>9. \A i, j \in 1..k : r[i] = r[j] => i = j
      <3> HIDE DEF r, q
      <3> QED
        BY <2>5, <2>6, <2>7, <2>8 DEF r
    <2>10. \A i \in 1..k : r[i] # "rest"
      <3> HIDE DEF r, q
      <3> QED
        BY <2>5, <2>6, <2>7, <2>8 DEF r
    <2> HIDE DEF q
    <2> QED
      BY <2>2, <2>3, <2>7, <2>9, <2>10 DEF Distinct
  <1>8. Good(0)
    <2>1. <<>> \in T /\ Len(<<>>) = 0
      BY EmptySeq
    <2>2. DOMAIN <<>> = 1..0
      BY LenProperties, EmptySeq
    <2> HIDE DEF T
    <2> QED
      BY <1>6, <2>1, <2>2 DEF Distinct
  <1>9. Good(n)
    <2> DEFINE Failing == {k \in 0..n : ~Good(k)}
    <2> HIDE DEF Good
    <2> SUFFICES ASSUME Failing # {}
                 PROVE  FALSE
      <3>1. n \in 0..n
        OBVIOUS
      <3> QED
        BY <3>1
    <2>1. PICK k \in Failing : \A l \in Failing : k <= l
      <3>1. Failing \in SUBSET Nat
        OBVIOUS
      <3> HIDE DEF Failing
      <3> QED
        BY <3>1, LeastNat
    <2>2. k # 0
      BY <1>8, <2>1
    <2>3. k \in 1..n /\ k - 1 \in 0..n /\ ~(k <= k - 1)
      BY <2>1, <2>2
    <2>4. Good(k - 1)
      BY <2>1, <2>3
    <2>5. Good(k)
      BY <1>7, <2>3, <2>4
    <2> QED
      BY <2>1, <2>5
  <1> QED
    BY <1>1, <1>9

-----------------------------------------------------------------------------
(* The paths of suggested lanes *)

\* The paths lead to files of the lane, and to no other recorded file.
Owns(paths, files, seconds) ==
    /\ paths \in SUBSET Path /\ paths # {} /\ <<>> \notin paths
    /\ \A p \in paths : \E f \in files : IsPrefix(p, f)
    /\ \A p \in paths : \A f \in DOMAIN seconds : IsPrefix(p, f) => f \in files

\* Whole directories and the other files, one by one, are such paths.
LEMMA OwnPaths ==
    ASSUME NEW seconds, Recorded(seconds), NEW files \in SUBSET DOMAIN seconds, files # {}
    PROVE  LET whole == _whole_directories(seconds, files)
               listed == {f \in files : ~\E d \in whole : IsPrefix(d, Front(f))}
           IN  Owns(whole \cup listed, files, seconds)
  <1> DEFINE whole == _whole_directories(seconds, files)
             listed == {f \in files : ~\E d \in whole : IsPrefix(d, Front(f))}
             S == DOMAIN seconds
  <1>1. S \in SUBSET TestFiles /\ files \in SUBSET S
    BY DEF Recorded
  <1>2. \A f \in S : /\ f \in TestFiles /\ f \in Path /\ f # <<>> /\ Front(f) \in Path
                     /\ Front(f) \notin TestFiles /\ IsPrefix(Front(f), f)
                     /\ \A d \in Path : IsPrefix(d, f) /\ d # f => IsPrefix(d, Front(f))
                     /\ \A g \in S : IsPrefix(f, g) => f = g
    BY <1>1, Files
  <1>3. ASSUME NEW d \in whole
        PROVE  /\ d # <<>> /\ \E f \in files : d = Front(f)
               /\ \A f \in S : IsPrefix(d, Front(f)) => f \in files
    BY DEF _whole_directories
  <1> HIDE DEF whole, S
  <1>4. ASSUME NEW d \in whole
        PROVE  /\ d \in Path /\ d # <<>> /\ \E f \in files : IsPrefix(d, f)
               /\ \A f \in S : IsPrefix(d, f) => f \in files
    <2>1. PICK f \in files : d = Front(f)
      BY <1>3
    <2>2. d \in Path /\ d \notin TestFiles /\ IsPrefix(d, f)
      BY <1>1, <1>2, <2>1
    <2>3. ASSUME NEW g \in S, IsPrefix(d, g)
          PROVE  g \in files
      <3>1. d # g
        BY <1>2, <2>2
      <3>2. IsPrefix(d, Front(g))
        BY <1>2, <2>2, <2>3, <3>1
      <3> QED
        BY <1>3, <3>2
    <2> QED
      BY <1>3, <2>2, <2>3
  <1>5. ASSUME NEW f \in listed
        PROVE  /\ f \in Path /\ f # <<>> /\ \E g \in files : IsPrefix(f, g)
               /\ \A g \in S : IsPrefix(f, g) => g \in files
    <2>1. f \in files /\ f \in S
      BY <1>1
    <2>2. f \in Path /\ f # <<>> /\ \A g \in S : IsPrefix(f, g) => f = g
      BY <1>2, <2>1
    <2>3. IsPrefix(f, f)
      BY <2>2, PrefixOrder
    <2> QED
      BY <2>1, <2>2, <2>3
  <1>6. whole \cup listed # {}
    <2>1. PICK f \in files : TRUE
      OBVIOUS
    <2> QED
      BY <2>1
  <1> HIDE DEF listed
  <1>7. \A p \in whole \cup listed :
            /\ p \in Path /\ p # <<>> /\ \E f \in files : IsPrefix(p, f)
            /\ \A f \in S : IsPrefix(p, f) => f \in files
    BY <1>4, <1>5
  <1>8. Owns(whole \cup listed, files, seconds)
    BY <1>6, <1>7 DEF Owns, S
  <1> QED
    BY <1>8 DEF whole, listed

\* The test's node id is above no file.
LEMMA NoNodeId ==
    ASSUME NEW t \in AllTests, NEW f \in TestFiles
    PROVE  ~IsPrefix(Append(t.path, t.name), f)
  <1> DEFINE id == Append(t.path, t.name)
  <1>1. t.path \in Path /\ t.name \in STRING /\ t.path \in TestFiles /\ f \in Path
    BY TestPaths, Files DEF TestFiles
  <1>2. id \in Path /\ Len(id) = Len(t.path) + 1 /\ IsPrefix(t.path, id)
    BY <1>1, PrefixOfAppend, PrefixOrder
  <1>3. Len(id) # Len(t.path)
    <2>1. Len(t.path) \in Nat
      BY <1>1, LenProperties DEF Path
    <2> DEFINE l == Len(t.path)
    <2>2. l + 1 # l
      <3>1. l \in Nat
        BY <2>1
      <3> HIDE DEF l
      <3> QED
        BY <3>1
    <2> HIDE DEF id
    <2> QED
      BY <1>2, <2>2
  <1> HIDE DEF id
  <1>4. SUFFICES ASSUME IsPrefix(id, f)
                 PROVE  FALSE
    BY DEF id
  <1>5. IsPrefix(t.path, f)
    BY <1>1, <1>2, <1>4, PrefixOrder
  <1>6. t.path = f
    BY <1>1, <1>5, Files
  <1>7. id = f
    <2>1. IsPrefix(f, id)
      BY <1>2, <1>6
    <2>2. Len(id) <= Len(f) /\ Len(f) <= Len(id)
      BY <1>1, <1>2, <1>4, <2>1, PrefixDef
    <2>3. Len(id) \in Nat /\ Len(f) \in Nat
      BY <1>1, <1>2, LenProperties DEF Path
    <2>4. Len(id) = Len(f)
      BY <2>2, <2>3
    <2> QED
      BY <1>1, <1>2, <1>4, <2>4, PrefixOrder
  <1> QED
    BY <1>3, <1>6, <1>7

\* A suggested lane runs what its paths lead to.
LEMMA BalancedLaneClaims ==
    ASSUME NEW seconds, Recorded(seconds), NEW files \in SUBSET DOMAIN seconds, files # {}, NEW name
    PROVE  LET s == BalancedLane(name, seconds, files)
           IN  Claimant(s) /\ s.name = name /\ Owns(s.subprocess_paths, files, seconds)
  <1> DEFINE whole == _whole_directories(seconds, files)
             listed == {f \in files : ~\E d \in whole : IsPrefix(d, Front(f))}
             s == BalancedLane(name, seconds, files)
  <1>1. /\ s.name = name /\ s.classifier_class_base_names = {}
        /\ s.classifier_path_suffix = None /\ ~s.classifier_fallback
        /\ s.classifier_paths = listed /\ s.classifier_path_prefixes = whole
        /\ s.subprocess_paths = whole \cup listed /\ s.subprocess_nodeids = {}
        /\ s.subprocess_ignore = {} /\ ~s.subprocess_ignore_other_lanes
    BY DEF BalancedLane, LaneNamed
  <1>2. Owns(whole \cup listed, files, seconds)
    BY OwnPaths
  <1>3. files \in SUBSET TestFiles
    BY DEF Recorded
  <1>4. listed \in SUBSET files
    OBVIOUS
  <1> HIDE DEF s, whole, listed
  <1>5. ASSUME NEW t \in AllTests
        PROVE  /\ Append(t.path, t.name) \notin whole \cup listed
               /\ \A p \in listed : IsPrefix(p, t.path) => p = t.path
    <2>1. Append(t.path, t.name) \notin whole \cup listed
      BY <1>2, <1>3, NoNodeId DEF Owns
    <2>2. t.path \in TestFiles
      BY DEF TestFiles
    <2>3. \A p \in listed : IsPrefix(p, t.path) => p = t.path
      BY <1>3, <1>4, <2>2, Files
    <2> QED
      BY <2>1, <2>3
  <1>6. Claimant(s)
    <2>1. listed \cup whole = whole \cup listed
      OBVIOUS
    <2>2. /\ whole \cup listed \in SUBSET Path /\ whole \cup listed # {}
          /\ <<>> \notin whole \cup listed
      BY <1>2 DEF Owns
    <2> QED
      BY <1>1, <1>5, <2>1, <2>2 DEF Claimant
  <1> QED
    BY <1>1, <1>2, <1>6 DEF s

\* Lanes that own different files are apart.
LEMMA OwnersApart ==
    ASSUME NEW r, NEW s, NEW A, NEW B \in SUBSET TestFiles, NEW seconds, B \in SUBSET DOMAIN seconds,
           Owns(r.subprocess_paths, A, seconds), Owns(s.subprocess_paths, B, seconds), A \cap B = {}
    PROVE  Apart(r, s)
  <1>1. ASSUME NEW p \in r.subprocess_paths, NEW q \in s.subprocess_paths, IsPrefix(p, q)
        PROVE  FALSE
    <2>1. PICK f \in B : IsPrefix(q, f)
      BY DEF Owns
    <2>2. p \in Path /\ q \in Path /\ f \in Path /\ f \in DOMAIN seconds
      BY <2>1, Files DEF Owns
    <2>3. IsPrefix(p, f)
      BY <1>1, <2>1, <2>2, PrefixOrder
    <2>4. f \in A
      BY <2>2, <2>3 DEF Owns
    <2> QED
      BY <2>1, <2>4
  <1> QED
    BY <1>1 DEF Apart

\* What --lanes-suggest suggests partitions the tests, and runs all lanes.
LEMMA BalancedPartition ==
    ASSUME NEW seconds, Recorded(seconds), BalancedConfig(seconds, LaneCount) # None
    PROVE  \E n \in Nat : /\ Partition(BalancedConfig(seconds, LaneCount), n)
                          /\ InOrderOf(BalancedConfig(seconds, LaneCount), n + 1)
                          /\ ~(Cardinality(DOMAIN seconds) < 2)
  <1> DEFINE packed == balanced_partition(seconds, LaneCount)
             n == Len(packed)
             preferred == [i \in DOMAIN packed |-> _lane_name(seconds, packed[i])]
             names == _unique_names(preferred)
             lanes == [i \in DOMAIN packed |-> BalancedLane(names[i], seconds, packed[i])]
             all == Append(lanes, _fallback_lane("rest"))
             config == BalancedConfig(seconds, LaneCount)
  <1>1. packed # <<>> /\ config = Config(all, Names(all))
    <2>1. config = IF packed = <<>> THEN None ELSE Config(all, Names(all))
      BY DEF BalancedConfig
    <2> HIDE DEF packed, all
    <2> QED
      BY <2>1
  <1>2. ~(Cardinality(DOMAIN seconds) < 2)
    BY <1>1 DEF balanced_partition
  <1> HIDE DEF config
  <1>3. /\ Balanced(packed, seconds, Lanes(seconds))
        /\ Lanes(seconds) \in Nat /\ Lanes(seconds) <= LaneCount /\ LaneCount \in Nat
    BY <1>2, BalancedFiles, LanesCounted, PartitionAssumption
  <1> HIDE DEF packed
  <1>4. /\ n \in Nat /\ DOMAIN packed = 1..n /\ n <= LaneCount
        /\ \A k \in 1..n : packed[k] \in SUBSET DOMAIN seconds /\ packed[k] # {}
        /\ \A k, l \in 1..n : k # l => packed[k] \cap packed[l] = {}
    BY <1>3 DEF Balanced
  <1> HIDE DEF n
  <1>5. Distinct(names, n)
    <2>1. \A k \in 1..n : preferred[k] \in {"lane"} \cup Range(Token)
      BY <1>4, LaneName
    <2>2. Len(preferred) = n
      <3> DEFINE X == {"lane"} \cup Range(Token)
      <3>1. preferred = [k \in 1..n |-> preferred[k]]
        BY <1>4
      <3> HIDE DEF preferred, X
      <3>2. preferred \in [1..n -> X]
        BY <2>1, <3>1 DEF X
      <3> QED
        BY <1>4, <3>2, FunctionIsSeq
    <2> HIDE DEF preferred
    <2> QED
      BY <1>4, <2>1, <2>2, UniqueNames
  <1> HIDE DEF names
  <1>6. ASSUME NEW k \in 1..n
        PROVE  /\ Claimant(lanes[k]) /\ lanes[k].name = names[k]
               /\ Owns(lanes[k].subprocess_paths, packed[k], seconds)
    <2>1. lanes[k] = BalancedLane(names[k], seconds, packed[k])
      BY <1>4
    <2> HIDE DEF lanes
    <2> QED
      BY <1>4, <2>1, BalancedLaneClaims
  <1>7. lanes \in [1..n -> Range(lanes)]
    <2>1. DOMAIN lanes = 1..n /\ lanes = [k \in 1..n |-> lanes[k]]
      BY <1>4
    <2> HIDE DEF lanes
    <2> QED
      BY <2>1 DEF Range
  <1> HIDE DEF lanes
  <1>8. \A k \in 1..n : Claimant(lanes[k]) /\ lanes[k].name # "rest"
    BY <1>5, <1>6 DEF Distinct
  <1>9. \A k, l \in 1..n : k # l => lanes[k].name # lanes[l].name /\ Apart(lanes[k], lanes[l])
    <2> TAKE k, l \in 1..n
    <2> HAVE k # l
    <2>1. lanes[k].name # lanes[l].name
      BY <1>5, <1>6 DEF Distinct
    <2>2. packed[l] \in SUBSET TestFiles
      BY <1>4 DEF Recorded
    <2>3. Apart(lanes[k], lanes[l])
      BY <1>4, <1>6, <2>2, OwnersApart
    <2> QED
      BY <2>1, <2>3
  <1> DEFINE order == Names(all)
             made == Config(Append(lanes, _fallback_lane("rest")), order)
  <1>10. config = made /\ order = Names(Append(lanes, _fallback_lane("rest")))
    BY <1>1
  <1>11. n \in Nat
    BY <1>4
  <1> HIDE DEF order
  <1>12. /\ Partition(made, n) /\ made.order_full = <<>> /\ made.order_standard = order
    <2> DEFINE S == Range(lanes)
               name == "rest"
    <2>1. lanes \in [1..n -> S] /\ \A k \in 1..n : Claimant(lanes[k]) /\ lanes[k].name # name
      BY <1>7, <1>8
    <2>2. made.order_full = <<>> /\ made.order_standard = order
      BY DEF Config
    <2> HIDE DEF S, name, made, n
    <2>3. Partition(Config(Append(lanes, _fallback_lane(name)), order), n)
      BY <1>9, <1>11, <2>1, MakesPartition
    <2> QED
      BY <2>2, <2>3 DEF made, name
  <1>13. order = [i \in 1..n + 1 |-> Append(lanes, _fallback_lane("rest"))[i].name]
    <2>1. DOMAIN Append(lanes, _fallback_lane("rest")) = 1..n + 1
      BY <1>7, <1>11, AppendedLane
    <2> QED
      BY <1>10, <2>1 DEF Names
  <1>14. made.lanes = Append(lanes, _fallback_lane("rest"))
    BY DEF Config
  <1> HIDE DEF made
  <1>15. InOrderOf(made, n + 1)
    BY <1>12, <1>13, <1>14 DEF InOrderOf
  <1> QED
    BY <1>2, <1>10, <1>11, <1>12, <1>15 DEF config

-----------------------------------------------------------------------------
(* The inductive invariant *)

\* The run that fans out, and the run of selected lanes.
FanRun(config, origin, mode) ==
    LET commands == build_lane_commands(config, mode)
    IN  [config |-> config, origin |-> origin, selected |-> {},
         sessions |-> [i \in DOMAIN commands |->
                           [lane |-> commands[i].name,
                            tests |-> SubprocessTests(commands[i], tests)]]]

SelectedRun(config, origin, selected) ==
    [config |-> config, origin |-> origin, selected |-> selected,
     sessions |-> <<[lane |-> "selected", tests |-> SelectedTests(config, selected, tests)]>>]

\* A pasted suggestion is what the recorded seconds give.
FileInv ==
    /\ tests \subseteq AllTests
    /\ balance = None => ini \in HandWritten \cup {None}
    /\ balance # None => /\ Recorded(balance) /\ ini = BalancedConfig(balance, LaneCount)
                         /\ ini # None

\* The last run was made from the present tests and the present file.
RunInv ==
    \/ run = NoRun
    \/ \E definitions \in Definitions, lanes_auto \in BOOLEAN :
        LET config == resolve_lane_config_or_none(definitions, lanes_auto, tests, ini)
            origin == Origin(definitions, lanes_auto)
        IN  /\ config \notin {None, Refused}
            /\ \/ \E mode \in {"standard", "full"} : run = FanRun(config, origin, mode)
               \/ \E selected \in SUBSET Range(Names(config.lanes)) :
                    selected # {} /\ run = SelectedRun(config, origin, selected)

\* The inductive invariant.
IInv == FileInv /\ RunInv

\* It holds at first.
LEMMA InitIInv == Init => IInv
  <1> SUFFICES ASSUME Init
               PROVE  IInv
    OBVIOUS
  <1>1. tests \subseteq AllTests
    BY DEF Init
  <1>2. balance = None /\ ini \in HandWritten \cup {None} /\ run = NoRun
    BY DEF Init
  <1> QED
    BY <1>1, <1>2 DEF IInv, FileInv, RunInv

\* Every action preserves it.
LEMMA NextIInv == IInv /\ [Next]_vars => IInv'
  <1> SUFFICES ASSUME IInv, [Next]_vars
               PROVE  IInv'
    OBVIOUS
  <1>1. CASE AddTest
    <2>1. tests' \subseteq AllTests
      BY <1>1 DEF AddTest, IInv, FileInv
    <2>2. ini' = ini /\ balance' = balance /\ run' = NoRun
      BY <1>1 DEF AddTest
    <2> QED
      BY <2>1, <2>2 DEF IInv, FileInv, RunInv
  <1>2. CASE RemoveTest
    <2>1. tests' \subseteq AllTests
      BY <1>2 DEF RemoveTest, IInv, FileInv
    <2>2. ini' = ini /\ balance' = balance /\ run' = NoRun
      BY <1>2 DEF RemoveTest
    <2> QED
      BY <2>1, <2>2 DEF IInv, FileInv, RunInv
  <1>3. CASE PasteSuggestion
    <2>1. PICK suggestion \in Suggestions :
            /\ DOMAIN suggestion.seconds \subseteq {t.path : t \in tests}
            /\ suggestion.config # None
            /\ ini' = suggestion.config /\ balance' = suggestion.seconds
      BY <1>3 DEF PasteSuggestion
    <2>2. PICK records \in Durations :
            suggestion = [seconds |-> _pooled_files(records),
                          config |-> BalancedConfig(_pooled_files(records), LaneCount)]
      BY DEF Suggestions
    <2> DEFINE seconds == _pooled_files(records)
    <2>3. suggestion.seconds = seconds /\ suggestion.config = BalancedConfig(seconds, LaneCount)
      <3> HIDE DEF seconds
      <3> QED
        BY <2>2 DEF seconds
    <2>4. DOMAIN seconds \subseteq TestFiles
      <3>1. {t.path : t \in tests} \subseteq TestFiles
        BY DEF IInv, FileInv, TestFiles
      <3> HIDE DEF seconds
      <3> QED
        BY <2>1, <2>3, <3>1
    <2>5. Recorded(seconds) /\ seconds # None
      BY <2>4, PooledRecorded, PartitionAssumption
    <2> HIDE DEF seconds
    <2>6. tests' = tests /\ run' = NoRun /\ tests \subseteq AllTests
      BY <1>3 DEF PasteSuggestion, IInv, FileInv
    <2>7. Recorded(balance')
      BY <2>1, <2>3, <2>5
    <2>8. FileInv'
      BY <2>1, <2>3, <2>5, <2>6, <2>7 DEF FileInv
    <2> QED
      BY <2>6, <2>8 DEF IInv, RunInv
  <1>4. CASE Orchestrate
    <2>1. PICK definitions \in Definitions, lanes_auto \in BOOLEAN, mode \in {"standard", "full"} :
            LET config == resolve_lane_config_or_none(definitions, lanes_auto, tests, ini)
            IN  /\ config \notin {None, Refused}
                /\ run' = FanRun(config, Origin(definitions, lanes_auto), mode)
      <3>1. PICK definitions \in Definitions, lanes_auto \in BOOLEAN, mode \in {"standard", "full"} :
            LET config == resolve_lane_config_or_none(definitions, lanes_auto, tests, ini)
                commands == build_lane_commands(config, mode)
            IN  /\ run = NoRun
                /\ config \notin {None, Refused}
                /\ commands # <<>>
                /\ run' = [config |-> config, origin |-> Origin(definitions, lanes_auto),
                           selected |-> {},
                           sessions |-> [i \in DOMAIN commands |->
                               [lane |-> commands[i].name,
                                tests |-> SubprocessTests(commands[i], tests)]]]
                /\ UNCHANGED <<tests, ini, balance>>
        BY <1>4, Zenon DEF Orchestrate
      <3>2. run' = FanRun(resolve_lane_config_or_none(definitions, lanes_auto, tests, ini),
                          Origin(definitions, lanes_auto), mode)
        BY <3>1 DEF FanRun
      <3> QED
        BY <3>1, <3>2
    <2>2. tests' = tests /\ ini' = ini /\ balance' = balance
      BY <1>4 DEF Orchestrate
    <2>3. FileInv'
      BY <2>2 DEF FileInv, IInv
    <2>4. RunInv'
      <3> DEFINE config == resolve_lane_config_or_none(definitions, lanes_auto, tests, ini)
      <3>1. Origin(definitions, lanes_auto)' = Origin(definitions, lanes_auto)
        BY <2>2 DEF Origin
      <3>2. FanRun(config, Origin(definitions, lanes_auto), mode)'
                = FanRun(config, Origin(definitions, lanes_auto), mode)
        BY <2>2, <3>1 DEF FanRun
      <3>3. (/\ config \notin {None, Refused}
             /\ run = FanRun(config, Origin(definitions, lanes_auto), mode))'
        BY <2>1, <2>2, <3>2
      <3> QED
        BY <3>3 DEF RunInv
    <2> QED
      BY <2>3, <2>4 DEF IInv
  <1>5. CASE SelectLanes
    <2>1. PICK definitions \in Definitions, lanes_auto \in BOOLEAN :
            LET config == resolve_lane_config_or_none(definitions, lanes_auto, tests, ini)
            IN  /\ config \notin {None, Refused}
                /\ \E selected \in UNION {kSubset(n, Range(Names(config.lanes))) : n \in 1..MaxSelected} :
                      run' = SelectedRun(config, Origin(definitions, lanes_auto), selected)
      BY <1>5 DEF SelectLanes, SelectedRun
    <2> DEFINE config == resolve_lane_config_or_none(definitions, lanes_auto, tests, ini)
    <2>2. tests' = tests /\ ini' = ini /\ balance' = balance
      BY <1>5 DEF SelectLanes
    <2>3. PICK selected \in UNION {kSubset(n, Range(Names(config.lanes))) : n \in 1..MaxSelected} :
                      run' = SelectedRun(config, Origin(definitions, lanes_auto), selected)
      BY <2>1
    <2>4. selected \in SUBSET Range(Names(config.lanes)) /\ selected # {}
      <3> DEFINE R == Range(Names(config.lanes))
      <3>1. PICK n \in 1..MaxSelected : selected \in kSubset(n, R)
        OBVIOUS
      <3> HIDE DEF R
      <3>2. selected \in SUBSET R /\ Cardinality(selected) = n
        BY <3>1 DEF kSubset
      <3>3. n # 0
        BY PartitionAssumption
      <3>4. selected # {}
        BY <3>2, <3>3, FS_EmptySet
      <3> QED
        BY <3>2, <3>4 DEF R
    <2>5. FileInv'
      BY <2>2 DEF FileInv, IInv
    <2>6. RunInv'
      <3>1. Origin(definitions, lanes_auto)' = Origin(definitions, lanes_auto)
        BY <2>2 DEF Origin
      <3>2. SelectedRun(config, Origin(definitions, lanes_auto), selected)'
                = SelectedRun(config, Origin(definitions, lanes_auto), selected)
        BY <2>2, <3>1 DEF SelectedRun
      <3>3. (/\ config \notin {None, Refused}
             /\ selected \in SUBSET Range(Names(config.lanes)) /\ selected # {}
             /\ run = SelectedRun(config, Origin(definitions, lanes_auto), selected))'
        BY <2>1, <2>2, <2>3, <2>4, <3>2
      <3> QED
        BY <3>3 DEF RunInv
    <2> QED
      BY <2>5, <2>6 DEF IInv
  <1>6. CASE UNCHANGED vars
    <2>1. tests' = tests /\ ini' = ini /\ balance' = balance /\ run' = run
      BY <1>6 DEF vars
    <2>2. FileInv'
      BY <2>1 DEF FileInv, IInv
    <2>3. RunInv' = RunInv
      BY <2>1 DEF RunInv, Origin, FanRun, SelectedRun
    <2> QED
      BY <2>2, <2>3 DEF IInv
  <1> QED
    BY <1>1, <1>2, <1>3, <1>4, <1>5, <1>6 DEF Next

\* Where the configuration of a run comes from.
LEMMA ResolvedFrom ==
    ASSUME FileInv, NEW definitions \in Definitions, NEW lanes_auto \in BOOLEAN
    PROVE  LET config == resolve_lane_config_or_none(definitions, lanes_auto, tests, ini)
               origin == Origin(definitions, lanes_auto)
           IN  \/ /\ origin = "definitions" /\ definitions # <<>>
                  /\ config = lane_config_from_definitions(definitions)
               \/ /\ origin = "auto" /\ config = auto_lane_config_or_none(tests) /\ config # None
               \/ /\ origin = "balanced" /\ balance # None /\ Recorded(balance)
                  /\ config = BalancedConfig(balance, LaneCount) /\ config # None
               \/ origin = "file" /\ config \in HandWritten \cup {None}
  <1> DEFINE auto == auto_lane_config_or_none(tests)
             config == resolve_lane_config_or_none(definitions, lanes_auto, tests, ini)
             origin == Origin(definitions, lanes_auto)
  <1>1. /\ definitions # <<>> => config = lane_config_from_definitions(definitions)
        /\ definitions = <<>> /\ lanes_auto /\ auto # None => config = auto
        /\ definitions = <<>> /\ ~(lanes_auto /\ auto # None) => config = ini
    BY DEF resolve_lane_config_or_none
  <1>2. /\ definitions # <<>> => origin = "definitions"
        /\ definitions = <<>> /\ lanes_auto /\ auto # None => origin = "auto"
        /\ definitions = <<>> /\ ~(lanes_auto /\ auto # None) =>
                /\ balance # None => origin = "balanced"
                /\ balance = None => origin = "file"
    BY DEF Origin
  <1> HIDE DEF config, origin, auto
  <1> QED
    BY <1>1, <1>2 DEF FileInv, config, origin, auto

\* A generated configuration partitions the tests.
LEMMA GeneratedPartition ==
    ASSUME FileInv, NEW definitions \in Definitions, NEW lanes_auto \in BOOLEAN,
           resolve_lane_config_or_none(definitions, lanes_auto, tests, ini) \notin {None, Refused},
           Origin(definitions, lanes_auto) # "file",
           Origin(definitions, lanes_auto) = "definitions" =>
                Separate(resolve_lane_config_or_none(definitions, lanes_auto, tests, ini))
    PROVE  LET config == resolve_lane_config_or_none(definitions, lanes_auto, tests, ini)
           IN  \E n \in Nat : \E m \in 1..n + 1 :
                  /\ Partition(config, n) /\ InOrderOf(config, m)
                  /\ \A t \in tests :
                        Plain(t) /\ (Origin(definitions, lanes_auto) = "auto" => t.standard_name) =>
                            m = n + 1 \/ \E i \in 1..m : Covers(config.lanes[i], t)
  <1> DEFINE config == resolve_lane_config_or_none(definitions, lanes_auto, tests, ini)
             origin == Origin(definitions, lanes_auto)
             All(n) == Partition(config, n) /\ InOrderOf(config, n + 1)
  <1>1. \/ /\ origin = "definitions" /\ definitions # <<>>
           /\ config = lane_config_from_definitions(definitions)
        \/ /\ origin = "auto" /\ config = auto_lane_config_or_none(tests) /\ config # None
        \/ /\ origin = "balanced" /\ balance # None /\ Recorded(balance)
           /\ config = BalancedConfig(balance, LaneCount) /\ config # None
    BY ResolvedFrom
  <1>2. config \notin {None, Refused} /\ (origin = "definitions" => Separate(config))
    OBVIOUS
  <1> HIDE DEF config, origin
  <1>3. ASSUME NEW n \in Nat, All(n)
        PROVE  \E k \in Nat : \E m \in 1..k + 1 :
                  /\ Partition(config, k) /\ InOrderOf(config, m)
                  /\ \A t \in tests : Plain(t) /\ (origin = "auto" => t.standard_name) =>
                            m = k + 1 \/ \E i \in 1..m : Covers(config.lanes[i], t)
    <2>1. n + 1 \in 1..n + 1
      OBVIOUS
    <2> QED
      BY <1>3, <2>1
  <1>4. CASE origin = "definitions"
    <2>1. config = lane_config_from_definitions(definitions) /\ definitions # <<>>
      BY <1>1, <1>4
    <2>2. Len(definitions) \in Nat /\ InOrderOf(config, Len(definitions) + 1)
          /\ (Separate(config) => Partition(config, Len(definitions)))
      BY <1>2, <2>1, DefinitionsPartition
    <2>3. All(Len(definitions))
      BY <1>2, <1>4, <2>2
    <2> HIDE DEF All
    <2>4. Len(definitions) \in Nat
      BY <2>2
    <2> QED
      BY <1>3, <2>3, <2>4 DEF config, origin
  <1>5. CASE origin = "auto"
    <2>1. config = auto_lane_config_or_none(tests) /\ config # None /\ tests \in SUBSET AllTests
      BY <1>1, <1>5 DEF FileInv
    <2>2. auto_lane_config_or_none(tests) # None
      BY <2>1
    <2>3. \E n \in Nat \ {0} : \E m \in 1..n + 1 :
              /\ Partition(auto_lane_config_or_none(tests), n)
              /\ InOrderOf(auto_lane_config_or_none(tests), m)
              /\ \A t \in tests : Plain(t) /\ t.standard_name =>
                    m = n + 1 \/ \E i \in 1..m : Covers(auto_lane_config_or_none(tests).lanes[i], t)
      BY <2>1, <2>2, AutoPartition
    <2>4. \E n \in Nat \ {0} : \E m \in 1..n + 1 :
              /\ Partition(config, n) /\ InOrderOf(config, m)
              /\ \A t \in tests : Plain(t) /\ t.standard_name =>
                    m = n + 1 \/ \E i \in 1..m : Covers(config.lanes[i], t)
      BY <2>1, <2>3
    <2>5. PICK n \in Nat : \E m \in 1..n + 1 :
              /\ Partition(config, n) /\ InOrderOf(config, m)
              /\ \A t \in tests : Plain(t) /\ t.standard_name =>
                    m = n + 1 \/ \E i \in 1..m : Covers(config.lanes[i], t)
      BY <2>4
    <2>50. PICK m \in 1..n + 1 :
              /\ Partition(config, n) /\ InOrderOf(config, m)
              /\ \A t \in tests : Plain(t) /\ t.standard_name =>
                    m = n + 1 \/ \E i \in 1..m : Covers(config.lanes[i], t)
      BY <2>5
    <2>6. \A t \in tests : Plain(t) /\ (origin = "auto" => t.standard_name) =>
                    m = n + 1 \/ \E i \in 1..m : Covers(config.lanes[i], t)
      BY <1>5, <2>50
    <2>7. \E k \in Nat : \E l \in 1..k + 1 :
                  /\ Partition(config, k) /\ InOrderOf(config, l)
                  /\ \A t \in tests : Plain(t) /\ (origin = "auto" => t.standard_name) =>
                            l = k + 1 \/ \E i \in 1..l : Covers(config.lanes[i], t)
      BY <2>50, <2>6
    <2> QED
      BY <2>7 DEF config, origin
  <1>6. CASE origin = "balanced"
    <2>1. Recorded(balance) /\ config = BalancedConfig(balance, LaneCount) /\ config # None
      BY <1>1, <1>6
    <2>2. PICK n \in Nat : All(n)
      BY <2>1, BalancedPartition
    <2> HIDE DEF All
    <2> QED
      BY <1>3, <2>2 DEF config, origin
  <1>7. origin # "file"
    BY DEF origin
  <1> QED
    BY <1>1, <1>4, <1>5, <1>6

\* What a run that fans out consists of.
LEMMA FanRunSessions ==
    ASSUME NEW config, NEW n, Partition(config, n), NEW m \in 1..n + 1, InOrderOf(config, m),
           NEW origin, NEW mode, run = FanRun(config, origin, mode)
    PROVE  /\ run.config = config /\ run.origin = origin /\ run.selected = {}
           /\ SessionsRun(config, m, tests, run.sessions)
  <1>1. LET commands == build_lane_commands(config, mode)
        IN  SessionsRun(config, m, tests, [i \in DOMAIN commands |->
                    [lane |-> commands[i].name, tests |-> SubprocessTests(commands[i], tests)]])
    BY SessionsOfPartition
  <1> DEFINE made == LET commands == build_lane_commands(config, mode)
                     IN  [i \in DOMAIN commands |->
                    [lane |-> commands[i].name, tests |-> SubprocessTests(commands[i], tests)]]
  <1>2. SessionsRun(config, m, tests, made)
    BY <1>1
  <1>3. run = [config |-> config, origin |-> origin, selected |-> {}, sessions |-> made]
    BY DEF FanRun
  <1> HIDE DEF made
  <1> QED
    BY <1>2, <1>3

\* A run that fans out: where it came from.
LEMMA FanOut ==
    ASSUME IInv, FannedOut
    PROVE  \E definitions \in Definitions, lanes_auto \in BOOLEAN, mode \in {"standard", "full"} :
              LET config == resolve_lane_config_or_none(definitions, lanes_auto, tests, ini)
              IN  /\ config \notin {None, Refused}
                  /\ run = FanRun(config, Origin(definitions, lanes_auto), mode)
                  /\ run.config = config /\ run.origin = Origin(definitions, lanes_auto)
  <1>1. run # NoRun /\ run.selected = {}
    BY DEF NoRun, FannedOut
  <1>2. PICK definitions \in Definitions, lanes_auto \in BOOLEAN :
        LET config == resolve_lane_config_or_none(definitions, lanes_auto, tests, ini)
            origin == Origin(definitions, lanes_auto)
        IN  /\ config \notin {None, Refused}
            /\ \/ \E mode \in {"standard", "full"} : run = FanRun(config, origin, mode)
               \/ \E selected \in SUBSET Range(Names(config.lanes)) :
                    selected # {} /\ run = SelectedRun(config, origin, selected)
    BY <1>1 DEF IInv, RunInv
  <1> DEFINE config == resolve_lane_config_or_none(definitions, lanes_auto, tests, ini)
             origin == Origin(definitions, lanes_auto)
  <1> HIDE DEF config, origin
  <1>3. \A selected : SelectedRun(config, origin, selected).selected = selected
    BY DEF SelectedRun
  <1>4. PICK mode \in {"standard", "full"} : run = FanRun(config, origin, mode)
    BY <1>1, <1>2, <1>3 DEF config, origin
  <1>5. run.config = config /\ run.origin = origin
    BY <1>4 DEF FanRun
  <1> QED
    BY <1>2, <1>4, <1>5 DEF config, origin

\* A run of selected lanes: where it came from.
LEMMA Selection ==
    ASSUME IInv, run.selected # {}
    PROVE  \E definitions \in Definitions, lanes_auto \in BOOLEAN :
              LET config == resolve_lane_config_or_none(definitions, lanes_auto, tests, ini)
              IN  /\ config \notin {None, Refused}
                  /\ run.config = config /\ run.origin = Origin(definitions, lanes_auto)
                  /\ run.selected \in SUBSET Range(Names(config.lanes))
                  /\ run.sessions = <<[lane |-> "selected",
                                       tests |-> SelectedTests(config, run.selected, tests)]>>
  <1>1. run # NoRun
    BY DEF NoRun
  <1>2. PICK definitions \in Definitions, lanes_auto \in BOOLEAN :
        LET config == resolve_lane_config_or_none(definitions, lanes_auto, tests, ini)
            origin == Origin(definitions, lanes_auto)
        IN  /\ config \notin {None, Refused}
            /\ \/ \E mode \in {"standard", "full"} : run = FanRun(config, origin, mode)
               \/ \E selected \in SUBSET Range(Names(config.lanes)) :
                    selected # {} /\ run = SelectedRun(config, origin, selected)
    BY <1>1 DEF IInv, RunInv
  <1> DEFINE config == resolve_lane_config_or_none(definitions, lanes_auto, tests, ini)
             origin == Origin(definitions, lanes_auto)
  <1> HIDE DEF config, origin
  <1>3. \A mode : FanRun(config, origin, mode).selected = {}
    BY DEF FanRun
  <1>4. PICK selected \in SUBSET Range(Names(config.lanes)) : run = SelectedRun(config, origin, selected)
    BY <1>2, <1>3 DEF config, origin
  <1>5. /\ run.config = config /\ run.origin = origin /\ run.selected = selected
        /\ run.sessions = <<[lane |-> "selected", tests |-> SelectedTests(config, selected, tests)]>>
    BY <1>4 DEF SelectedRun
  <1> QED
    BY <1>2, <1>4, <1>5 DEF config, origin

-----------------------------------------------------------------------------
(* What the invariant implies *)

\* Each test is run by one lane.
LEMMA InvExactlyOneLane == IInv => ExactlyOneLane
  <1> SUFFICES ASSUME IInv, FannedOut, run.origin # "file",
                      run.origin = "definitions" => Separate(run.config),
                      NEW t \in PlainTests, run.origin = "auto" => t.standard_name
               PROVE  \E i \in DOMAIN run.sessions :
                        /\ SessionsOf(t) = {i}
                        /\ run.sessions[i].lane = lane_for_item(run.config, t).name
    BY DEF ExactlyOneLane
  <1>1. PICK definitions \in Definitions, lanes_auto \in BOOLEAN, mode \in {"standard", "full"} :
              LET config == resolve_lane_config_or_none(definitions, lanes_auto, tests, ini)
              IN  /\ config \notin {None, Refused}
                  /\ run = FanRun(config, Origin(definitions, lanes_auto), mode)
                  /\ run.config = config /\ run.origin = Origin(definitions, lanes_auto)
    BY FanOut
  <1> DEFINE config == resolve_lane_config_or_none(definitions, lanes_auto, tests, ini)
             origin == Origin(definitions, lanes_auto)
  <1>2. /\ config \notin {None, Refused} /\ run = FanRun(config, origin, mode)
        /\ run.config = config /\ run.origin = origin
    BY <1>1
  <1>3. FileInv /\ tests \in SUBSET AllTests
    BY DEF IInv, FileInv
  <1>4. origin # "file" /\ (origin = "definitions" => Separate(config))
    <2> HIDE DEF config, origin
    <2> QED
      BY <1>2
  <1> DEFINE Runs(n, m) ==
                  /\ Partition(config, n) /\ InOrderOf(config, m)
                  /\ \A u \in tests : Plain(u) /\ (origin = "auto" => u.standard_name) =>
                            m = n + 1 \/ \E i \in 1..m : Covers(config.lanes[i], u)
  <1>50. PICK n \in Nat : \E m \in 1..n + 1 : Runs(n, m)
    BY <1>2, <1>3, <1>4, GeneratedPartition
  <1> HIDE DEF config, origin
  <1>5. PICK m \in 1..n + 1 : Runs(n, m)
    BY <1>50
  <1>6. SessionsRun(config, m, tests, run.sessions)
    BY <1>2, <1>5, FanRunSessions
  <1>7. t \in tests /\ Plain(t)
    BY <1>3, PlainCollected DEF PlainTests
  <1>8. m = n + 1 \/ \E i \in 1..m : Covers(config.lanes[i], t)
    BY <1>2, <1>5, <1>7
  <1>81. Taken(config, n, m, tests, run.sessions, t)
    BY <1>3, <1>5, <1>6, <1>7, <1>8 DEF Taken
  <1> HIDE DEF Runs
  <1>9. PICK i \in 1..m : /\ \A k \in 1..m : t \in run.sessions[k].tests <=> k = i
                          /\ run.sessions[i].lane = lane_for_item(config, t).name
    BY <1>81, RunOnce
  <1>10. DOMAIN run.sessions = 1..m
    BY <1>6 DEF SessionsRun
  <1> QED
    BY <1>2, <1>9, <1>10 DEF SessionsOf

\* A lane's command runs what the lane ran.
LEMMA InvLaneReproduces == IInv => LaneReproduces
  <1> SUFFICES ASSUME IInv, Cardinality(run.selected) = 1, run.origin # "file",
                      run.origin = "definitions" => Separate(run.config)
               PROVE  LET spec == lane_by_name(run.config, CHOOSE name \in run.selected : TRUE)
                      IN  run.sessions[1].tests
                            = Collected(Arguments(spec), Ignores(run.config, spec), tests)
    BY DEF LaneReproduces
  <1>1. run.selected # {}
    BY FS_EmptySet
  <1>2. PICK definitions \in Definitions, lanes_auto \in BOOLEAN :
              LET config == resolve_lane_config_or_none(definitions, lanes_auto, tests, ini)
              IN  /\ config \notin {None, Refused}
                  /\ run.config = config /\ run.origin = Origin(definitions, lanes_auto)
                  /\ run.selected \in SUBSET Range(Names(config.lanes))
                  /\ run.sessions = <<[lane |-> "selected",
                                       tests |-> SelectedTests(config, run.selected, tests)]>>
    BY <1>1, Selection
  <1> DEFINE config == resolve_lane_config_or_none(definitions, lanes_auto, tests, ini)
             origin == Origin(definitions, lanes_auto)
  <1>3. /\ config \notin {None, Refused} /\ run.config = config /\ run.origin = origin
        /\ run.selected \in SUBSET Range(Names(config.lanes))
        /\ run.sessions[1].tests = SelectedTests(config, run.selected, tests)
    <2>1. run.sessions = <<[lane |-> "selected", tests |-> SelectedTests(config, run.selected, tests)]>>
      BY <1>2
    <2> HIDE DEF config
    <2>2. run.sessions[1] = [lane |-> "selected", tests |-> SelectedTests(config, run.selected, tests)]
      BY <2>1
    <2>3. run.sessions[1].tests = SelectedTests(config, run.selected, tests)
      BY <2>2
    <2> QED
      BY <1>2, <2>3 DEF config
  <1>4. FileInv /\ tests \in SUBSET AllTests
    BY DEF IInv, FileInv
  <1>5. origin # "file" /\ (origin = "definitions" => Separate(config))
    <2> HIDE DEF config, origin
    <2> QED
      BY <1>3
  <1>6. PICK n \in Nat : Partition(config, n)
    <2>1. \E k \in Nat : \E l \in 1..k + 1 :
                  /\ Partition(config, k) /\ InOrderOf(config, l)
                  /\ \A u \in tests : Plain(u) /\ (origin = "auto" => u.standard_name) =>
                            l = k + 1 \/ \E i \in 1..l : Covers(config.lanes[i], u)
      BY <1>3, <1>4, <1>5, GeneratedPartition
    <2> HIDE DEF config, origin
    <2> QED
      BY <2>1
  <1> HIDE DEF config, origin
  <1>7. PICK name : run.selected = {name}
    <2>1. PICK x \in run.selected : TRUE
      BY <1>1
    <2>2. IsFiniteSet(Range(Names(config.lanes)))
      <3>1. DOMAIN Names(config.lanes) = 1..n + 1
        BY <1>6 DEF Names, Partition
      <3>2. n + 1 \in Nat
        BY <1>6
      <3>3. IsFiniteSet(1..n + 1)
        BY <3>2, UpTo
      <3>4. Names(config.lanes) \in Surjection(1..n + 1, Range(Names(config.lanes)))
        <4>1. Names(config.lanes) = [i \in 1..n + 1 |-> Names(config.lanes)[i]]
          BY <3>1 DEF Names
        <4> QED
          BY <3>1, <4>1 DEF Surjection, Range
      <3> QED
        BY <3>3, <3>4, FS_Surjection
    <2>3. IsFiniteSet(run.selected)
      BY <1>3, <2>2, FS_Subset
    <2>4. IsFiniteSet(run.selected \ {x}) /\ Cardinality(run.selected \ {x}) = 1 - 1
      BY <2>1, <2>3, FS_RemoveElement
    <2>5. Cardinality(run.selected \ {x}) = 0
      BY <2>4
    <2>6. run.selected \ {x} = {}
      BY <2>4, <2>5, FS_EmptySet
    <2>7. run.selected = {x}
      BY <2>1, <2>6
    <2> QED
      BY <2>7
  <1>8. PICK i \in 1..n + 1 : config.lanes[i].name = name
    BY <1>3, <1>6, <1>7 DEF Range, Names, Partition
  <1>9. lane_by_name(config, name) = config.lanes[i]
    BY <1>6, <1>8, FoundByName
  <1>10. SelectedTests(config, {name}, tests)
            = Collected(Arguments(config.lanes[i]), Ignores(config, config.lanes[i]), tests)
    BY <1>4, <1>6, <1>8, SelectedOnce
  <1>11. (CHOOSE x \in run.selected : TRUE) = name
    BY <1>7
  <1> QED
    BY <1>3, <1>7, <1>9, <1>10, <1>11

\* Names are unique and orders name lanes.
LEMMA InvTypeOK == IInv => TypeOK
  <1> SUFFICES ASSUME IInv
               PROVE  TypeOK
    OBVIOUS
  <1>1. tests \subseteq AllTests
    BY DEF IInv, FileInv
  <1>2. balance # None => \E n \in Nat : Partition(ini, n) /\ InOrderOf(ini, n + 1)
    BY BalancedPartition DEF IInv, FileInv
  <1>3. ASSUME balance # None
        PROVE  /\ Range(ini.order_standard) \subseteq Range(Names(ini.lanes))
               /\ IsInjective(Names(ini.lanes))
    <2>1. PICK n \in Nat : Partition(ini, n) /\ InOrderOf(ini, n + 1)
      BY <1>2, <1>3
    <2>2. /\ DOMAIN ini.lanes = 1..n + 1
          /\ \A i, j \in 1..n + 1 : ini.lanes[i].name = ini.lanes[j].name => i = j
          /\ ini.order_standard = [i \in 1..n + 1 |-> ini.lanes[i].name]
      BY <2>1 DEF Partition, InOrderOf
    <2>3. Names(ini.lanes) = [i \in 1..n + 1 |-> ini.lanes[i].name]
      BY <2>2 DEF Names
    <2> QED
      BY <2>2, <2>3 DEF IsInjective
  <1>4. ini = None \/ Range(ini.order_standard) \subseteq Range(Names(ini.lanes))
    <2>1. CASE balance # None
      BY <1>3, <2>1
    <2>2. CASE balance = None
      <3>1. ini \in HandWritten \cup {None}
        BY <2>2 DEF IInv, FileInv
      <3>2. ini \in HandWritten => Accepted(ini)
        BY PartitionAssumption
      <3> QED
        BY <3>1, <3>2 DEF Accepted
    <2> QED
      BY <2>1, <2>2
  <1>5. CASE run = NoRun
    <2>1. DOMAIN run.sessions = {} /\ run.selected = {}
      <3>1. run.sessions = <<>> /\ run.selected = {}
        BY <1>5 DEF NoRun
      <3>2. DOMAIN <<>> = {}
        OBVIOUS
      <3> QED
        BY <3>1, <3>2
    <2> QED
      BY <1>1, <1>3, <1>4, <2>1 DEF TypeOK
  <1>6. CASE run # NoRun
    <2>1. PICK definitions \in Definitions, lanes_auto \in BOOLEAN :
        LET config == resolve_lane_config_or_none(definitions, lanes_auto, tests, ini)
            origin == Origin(definitions, lanes_auto)
        IN  /\ config \notin {None, Refused}
            /\ \/ \E mode \in {"standard", "full"} : run = FanRun(config, origin, mode)
               \/ \E selected \in SUBSET Range(Names(config.lanes)) :
                    selected # {} /\ run = SelectedRun(config, origin, selected)
      BY <1>6 DEF IInv, RunInv
    <2> DEFINE config == resolve_lane_config_or_none(definitions, lanes_auto, tests, ini)
               origin == Origin(definitions, lanes_auto)
    <2> HIDE DEF config, origin
    <2>2. CASE \E mode \in {"standard", "full"} : run = FanRun(config, origin, mode)
      <3>1. PICK mode \in {"standard", "full"} : run = FanRun(config, origin, mode)
        BY <2>2
      <3> DEFINE commands == build_lane_commands(config, mode)
      <3>2. /\ run.selected = {}
            /\ run.sessions = [i \in DOMAIN commands |->
                           [lane |-> commands[i].name, tests |-> SubprocessTests(commands[i], tests)]]
        BY <3>1 DEF FanRun
      <3> HIDE DEF commands
      <3>3. \A i \in DOMAIN run.sessions : run.sessions[i].tests \subseteq tests
        BY <3>2 DEF SubprocessTests, Collected
      <3> QED
        BY <1>1, <1>3, <1>4, <3>2, <3>3 DEF TypeOK
    <2>3. CASE \E selected \in SUBSET Range(Names(config.lanes)) : run = SelectedRun(config, origin, selected)
      <3>1. PICK selected \in SUBSET Range(Names(config.lanes)) : run = SelectedRun(config, origin, selected)
        BY <2>3
      <3> DEFINE T == SelectedTests(config, selected, tests)
      <3>2. run.sessions = <<[lane |-> "selected", tests |-> T]>>
        BY <3>1 DEF SelectedRun
      <3>3. T \subseteq tests
        BY DEF SelectedTests, Collected
      <3> HIDE DEF T
      <3>4. Len(run.sessions) = 1 /\ \A i \in DOMAIN run.sessions : run.sessions[i].tests \subseteq tests
        BY <3>2, <3>3
      <3> QED
        BY <1>1, <1>3, <1>4, <3>4 DEF TypeOK
    <2> QED
      BY <2>1, <2>2, <2>3 DEF config, origin
  <1> QED
    BY <1>5, <1>6

\* What a fair share is, in numbers.
LEMMA FairLoad ==
    ASSUME NEW seconds, Recorded(seconds), DOMAIN seconds # {}, NEW count \in Nat \ {0},
           NEW files \in SUBSET DOMAIN seconds, FairShare(files, seconds, count)
    PROVE  LET total == _total_seconds(seconds, DOMAIN seconds)
           IN  10 * count * _total_seconds(seconds, files) <= 10 * total
                    + Max({13 * total, 10 * count * Max(Range(seconds))})
  <1> DEFINE S == DOMAIN seconds
             T(A) == _total_seconds(seconds, A)
             total == T(S)
             longest == Max(Range(seconds))
             load == T(files)
  <1>1. PICK part \in SUBSET S :
        /\ (\E f \in S : part = {f}) \/ ~(10 * count * T(part) > 13 * total)
        /\ count * load <= total + count * T(part)
    BY DEF FairShare
  <1> DEFINE w == T(part)
  <1>2. w \in Nat /\ total \in Nat /\ load \in Nat /\ \A f \in S : T({f}) = seconds[f]
    <2>1. part \in SUBSET S /\ S \in SUBSET S /\ files \in SUBSET S
      OBVIOUS
    <2> QED
      BY <2>1, Weights
  <1>3. longest \in Nat /\ \A f \in S : seconds[f] <= longest
    <2> DEFINE R == {seconds[f] : f \in S}
    <2>1. R = Range(seconds)
      BY DEF Range
    <2>2. IsFiniteSet(R)
      BY Weights, FiniteRange
    <2>3. R \in SUBSET Nat /\ R \in SUBSET Int /\ R # {}
      BY DEF Recorded
    <2> HIDE DEF R
    <2>4. Max(R) \in R /\ \A x \in R : x <= Max(R)
      BY <2>2, <2>3, MaxMin
    <2> QED
      BY <2>1, <2>3, <2>4 DEF R
  <1> DEFINE a == 13 * total
             b == 10 * count * longest
  <1> HIDE DEF T, S, total, longest, load, w
  <1>4. a \in Nat /\ b \in Nat
    <2>1. count * longest \in Nat
      BY <1>3
    <2> DEFINE c == count * longest
    <2>2. 10 * c \in Nat
      BY <2>1
    <2>3. 10 * count * longest = 10 * c
      BY <1>3
    <2> QED
      BY <1>2, <2>2, <2>3
  <1>5. a <= Max({a, b}) /\ b <= Max({a, b}) /\ Max({a, b}) \in Nat
    <2> HIDE DEF a, b
    <2>1. {a, b} \in SUBSET Int /\ {a, b} # {}
      BY <1>4
    <2>2. IsFiniteSet({a, b})
      <3>1. IsFiniteSet({a}) /\ IsFiniteSet({a} \cup {b})
        BY FS_Singleton, FS_AddElement
      <3>2. {a} \cup {b} = {a, b}
        OBVIOUS
      <3> QED
        BY <3>1, <3>2
    <2>3. Max({a, b}) \in {a, b} /\ \A x \in {a, b} : x <= Max({a, b})
      BY <2>1, <2>2, MaxMin
    <2> QED
      BY <1>4, <2>3
  <1>6. 10 * count * w <= Max({a, b})
    <2>1. CASE \E f \in S : part = {f}
      <3>1. PICK f \in S : part = {f}
        BY <2>1
      <3>2. w <= longest
        BY <1>2, <1>3, <3>1 DEF w
      <3>3. 10 * count * w <= b
        <4> HIDE DEF b
        <4>1. count * w <= count * longest /\ count * w \in Int /\ count * longest \in Int
          <5>1. longest - w \in Nat
            BY <1>2, <1>3, <3>2
          <5>2. count * (longest - w) \in Nat
            BY <5>1
          <5>3. count * (longest - w) = count * longest - count * w
            BY <1>2, <1>3
          <5>4. count * w \in Int /\ count * longest \in Int
            BY <1>2, <1>3
          <5> QED
            BY <5>2, <5>3, <5>4
        <4>2. 10 * count * w = 10 * (count * w) /\ 10 * count * longest = 10 * (count * longest)
          BY <1>2, <1>3
        <4> DEFINE x == count * w
                   y == count * longest
        <4>3. x <= y /\ x \in Int /\ y \in Int
          BY <4>1
        <4> HIDE DEF x, y
        <4>4. 10 * x <= 10 * y
          BY <4>3
        <4> QED
          BY <4>2, <4>4 DEF x, y, b
      <3>4. 10 * count * w \in Int
        BY <1>2
      <3> HIDE DEF a, b
      <3> QED
        BY <1>4, <1>5, <3>3, <3>4
    <2>2. CASE ~(10 * count * w > 13 * total)
      <3> DEFINE x == 10 * count * w
      <3>1. x \in Int /\ ~(x > a)
        BY <1>2, <2>2
      <3> HIDE DEF x, a, b
      <3>2. x <= Max({a, b})
        BY <1>4, <1>5, <3>1
      <3> QED
        BY <3>2 DEF x
    <2> QED
      BY <1>1, <2>1, <2>2 DEF w
  <1>7. count * load <= total + count * w
    BY <1>1 DEF w
  <1>8. 10 * count * load <= 10 * total + Max({a, b})
    <2> DEFINE x == count * load
               y == count * w
    <2>1. x \in Int /\ y \in Int /\ x <= total + y
      BY <1>2, <1>7
    <2>2. 10 * count * load = 10 * x /\ 10 * count * w = 10 * y
      BY <1>2
    <2> HIDE DEF x, y, a, b
    <2>3. 10 * y <= Max({a, b})
      BY <1>6, <2>2
    <2>4. 10 * x <= 10 * total + Max({a, b})
      BY <1>2, <1>5, <2>1, <2>3
    <2> QED
      BY <2>2, <2>4
  <1> QED
    BY <1>8 DEF load, total, T, S, longest

\* A suggested partition is balanced.
LEMMA InvLanesBalanced == IInv => LanesBalanced
  <1> SUFFICES ASSUME IInv, balance # None
               PROVE  LanesBalanced
    BY DEF LanesBalanced
  <1> DEFINE count == Lanes(balance)
             packed == balanced_partition(balance, LaneCount)
             n == Len(packed)
             load(i) == _total_seconds(balance, packed[i])
             total == _total_seconds(balance, DOMAIN balance)
  <1>1. Recorded(balance) /\ BalancedConfig(balance, LaneCount) # None
    BY DEF IInv, FileInv
  <1>2. ~(Cardinality(DOMAIN balance) < 2)
    BY <1>1, BalancedPartition
  <1>3. Balanced(packed, balance, count) /\ count \in Nat \ {0}
    BY <1>1, <1>2, BalancedFiles, LanesCounted
  <1>4. DOMAIN balance # {}
    BY <1>2, FS_EmptySet
  <1> HIDE DEF packed, count
  <1>5. /\ n \in Nat /\ DOMAIN packed = 1..n
        /\ \A k \in 1..n : packed[k] \in SUBSET DOMAIN balance
        /\ \A k, l \in 1..n : k # l => packed[k] \cap packed[l] = {}
        /\ \A f \in DOMAIN balance : \E k \in 1..n : f \in packed[k]
        /\ \A k, l \in 1..n : k < l => load(l) <= load(k)
        /\ \A k \in 1..n : FairShare(packed[k], balance, count)
    BY <1>3 DEF Balanced
  <1> HIDE DEF n
  <1>6. \A f \in DOMAIN balance : \E i \in DOMAIN packed : {j \in DOMAIN packed : f \in packed[j]} = {i}
    <2> TAKE f \in DOMAIN balance
    <2>1. PICK i \in 1..n : f \in packed[i]
      BY <1>5
    <2>2. \A j \in 1..n : f \in packed[j] <=> j = i
      BY <1>5, <2>1
    <2>3. i \in DOMAIN packed /\ \A j \in DOMAIN packed : f \in packed[j] <=> j = i
      BY <1>5, <2>2
    <2> QED
      BY <2>3
  <1>7. \A i \in DOMAIN packed : i > 1 => load(i) <= load(i - 1)
    <2> TAKE i \in DOMAIN packed
    <2> HAVE i > 1
    <2>1. i - 1 \in 1..n /\ i \in 1..n /\ i - 1 < i
      BY <1>5
    <2> HIDE DEF load
    <2> QED
      BY <1>5, <2>1
  <1>8. \A i \in DOMAIN packed : 10 * count * load(i) <= 10 * total
                    + Max({13 * total, 10 * count * Max(Range(balance))})
    <2> TAKE i \in DOMAIN packed
    <2>1. packed[i] \in SUBSET DOMAIN balance /\ FairShare(packed[i], balance, count)
      BY <1>5
    <2> QED
      BY <1>1, <1>3, <1>4, <2>1, FairLoad
  <1> QED
    BY <1>6, <1>7, <1>8 DEF LanesBalanced, Lanes, packed, count

-----------------------------------------------------------------------------
(* Any configuration *)

\* What every configuration that is run has: lanes with paths, told apart by
\* their names, of which at most one ignores the paths of the others.
WellFormed(config) ==
    /\ \E n \in Nat : DOMAIN config.lanes = 1..n
    /\ \E n \in Nat : DOMAIN config.order_standard = 1..n
    /\ \E n \in Nat : DOMAIN config.order_full = 1..n
    /\ \A i \in DOMAIN config.lanes :
        /\ config.lanes[i].subprocess_paths \in SUBSET Path
        /\ config.lanes[i].subprocess_nodeids \in SUBSET Path
        /\ config.lanes[i].classifier_paths \in SUBSET Path
        /\ config.lanes[i].classifier_path_prefixes \in SUBSET Path
    /\ \A i, j \in DOMAIN config.lanes :
        /\ config.lanes[i].name = config.lanes[j].name => config.lanes[i] = config.lanes[j]
        /\ config.lanes[i].subprocess_ignore_other_lanes
           /\ config.lanes[j].subprocess_ignore_other_lanes => i = j

\* A configuration that config.py accepts has it,
LEMMA AcceptedWellFormed ==
    ASSUME NEW config, Accepted(config)
    PROVE  WellFormed(config)
  <1>1. /\ config \in LaneConfig
        /\ \A i, j \in DOMAIN config.lanes :
            /\ config.lanes[i].name = config.lanes[j].name => config.lanes[i] = config.lanes[j]
            /\ config.lanes[i].subprocess_ignore_other_lanes
               /\ config.lanes[j].subprocess_ignore_other_lanes => i = j
    BY DEF Accepted
  <1>2. /\ config.lanes \in Seq(LaneSpec) /\ config.order_standard \in Seq(STRING)
        /\ config.order_full \in Seq(STRING)
    BY <1>1 DEF LaneConfig
  <1>3. /\ \E n \in Nat : DOMAIN config.lanes = 1..n
        /\ \E n \in Nat : DOMAIN config.order_standard = 1..n
        /\ \E n \in Nat : DOMAIN config.order_full = 1..n
    BY <1>2, LenProperties
  <1>4. \A i \in DOMAIN config.lanes : config.lanes[i] \in LaneSpec
    <2> DEFINE lanes == config.lanes
    <2>1. lanes \in Seq(LaneSpec)
      BY <1>2
    <2> HIDE DEF lanes
    <2>2. \A i \in DOMAIN lanes : lanes[i] \in LaneSpec
      BY <2>1, LenProperties
    <2> QED
      BY <2>2 DEF lanes
  <1>5. \A s \in LaneSpec :
            /\ s.subprocess_paths \in SUBSET Path /\ s.subprocess_nodeids \in SUBSET Path
            /\ s.classifier_paths \in SUBSET Path /\ s.classifier_path_prefixes \in SUBSET Path
    BY DEF LaneSpec
  <1>6. \A i \in DOMAIN config.lanes :
            /\ config.lanes[i].subprocess_paths \in SUBSET Path
            /\ config.lanes[i].subprocess_nodeids \in SUBSET Path
            /\ config.lanes[i].classifier_paths \in SUBSET Path
            /\ config.lanes[i].classifier_path_prefixes \in SUBSET Path
    BY <1>4, <1>5
  <1> QED
    BY <1>1, <1>3, <1>6 DEF WellFormed

\* so has one with lanes of different names, of which the last takes the rest,
LEMMA NamedWellFormed ==
    ASSUME NEW config, NEW n \in Nat, DOMAIN config.lanes = 1..n + 1,
           \A i \in 1..n : /\ config.lanes[i].subprocess_paths \in SUBSET Path
                           /\ config.lanes[i].subprocess_nodeids = {}
                           /\ config.lanes[i].classifier_paths \in SUBSET Path
                           /\ config.lanes[i].classifier_path_prefixes \in SUBSET Path
                           /\ ~config.lanes[i].subprocess_ignore_other_lanes,
           \E name : config.lanes[n + 1] = _fallback_lane(name),
           \A i, j \in 1..n + 1 : config.lanes[i].name = config.lanes[j].name => i = j,
           NEW m \in 1..n + 1, InOrderOf(config, m)
    PROVE  WellFormed(config)
  <1> DEFINE L == config.lanes
  <1>1. L[n + 1].subprocess_paths = {} /\ L[n + 1].subprocess_nodeids = {}
        /\ L[n + 1].classifier_paths = {} /\ L[n + 1].classifier_path_prefixes = {}
    BY RestLane
  <1>2. \A i \in 1..n + 1 : i \in 1..n \/ i = n + 1
    OBVIOUS
  <1> HIDE DEF L
  <1>3. \A i \in 1..n + 1 : /\ L[i].subprocess_paths \in SUBSET Path
                            /\ L[i].subprocess_nodeids \in SUBSET Path
                            /\ L[i].classifier_paths \in SUBSET Path
                            /\ L[i].classifier_path_prefixes \in SUBSET Path
    <2> TAKE i \in 1..n + 1
    <2>1. CASE i \in 1..n
      BY <2>1 DEF L
    <2>2. CASE i = n + 1
      BY <1>1, <2>2
    <2> QED
      BY <1>2, <2>1, <2>2
  <1>4. \A i, j \in 1..n + 1 :
            /\ L[i].name = L[j].name => L[i] = L[j]
            /\ L[i].subprocess_ignore_other_lanes /\ L[j].subprocess_ignore_other_lanes => i = j
    <2>1. \A i \in 1..n + 1 : L[i].subprocess_ignore_other_lanes => i = n + 1
      BY <1>2 DEF L
    <2>2. \A i, j \in 1..n + 1 : L[i].name = L[j].name => i = j
      BY DEF L
    <2> QED
      BY <2>1, <2>2
  <1>5. \E k \in Nat : DOMAIN config.order_standard = 1..k
    <2>1. DOMAIN config.order_standard = 1..m /\ m \in Nat
      BY DEF InOrderOf
    <2> QED
      BY <2>1
  <1>6. \E k \in Nat : DOMAIN config.order_full = 1..k
    <2>1. config.order_full = <<>>
      BY DEF InOrderOf
    <2>2. DOMAIN <<>> = 1..0
      OBVIOUS
    <2>3. DOMAIN config.order_full = 1..0 /\ 0 \in Nat
      BY <2>1, <2>2
    <2> QED
      BY <2>3
  <1>7. n + 1 \in Nat /\ DOMAIN L = 1..n + 1
    BY DEF L
  <1> QED
    BY <1>3, <1>4, <1>5, <1>6, <1>7 DEF WellFormed, L

\* a partition,
LEMMA PartitionWellFormed ==
    ASSUME NEW config, NEW n, Partition(config, n), NEW m \in 1..n + 1, InOrderOf(config, m)
    PROVE  WellFormed(config)
  <1> DEFINE L == config.lanes
  <1>1. /\ n \in Nat /\ DOMAIN L = 1..n + 1 /\ \A i \in 1..n : Claimant(L[i])
        /\ \E name : L[n + 1] = _fallback_lane(name)
        /\ \A i, j \in 1..n + 1 : L[i].name = L[j].name => i = j
    BY DEF Partition
  <1> HIDE DEF L
  <1>2. \A i \in 1..n : /\ L[i].subprocess_paths \in SUBSET Path
                        /\ L[i].subprocess_nodeids = {}
                        /\ L[i].classifier_paths \in SUBSET Path
                        /\ L[i].classifier_path_prefixes \in SUBSET Path
                        /\ ~L[i].subprocess_ignore_other_lanes
    <2> TAKE i \in 1..n
    <2>1. Claimant(L[i])
      BY <1>1
    <2> QED
      BY <2>1 DEF Claimant
  <1>3. n \in Nat
    BY <1>1
  <1> QED
    BY <1>1, <1>2, <1>3, NamedWellFormed DEF L

\* and any configuration of --lane-def.
LEMMA DefinitionsWellFormed ==
    ASSUME NEW d \in Definitions, d # <<>>, lane_config_from_definitions(d) # Refused
    PROVE  WellFormed(lane_config_from_definitions(d))
  <1> DEFINE n == Len(d)
             lanes == [i \in 1..n |-> PathLane(d[i].name, d[i].paths)]
             all == Append(lanes, _fallback_lane("other"))
             config == lane_config_from_definitions(d)
  <1>1. /\ d \in Seq([name : STRING, paths : (SUBSET Path) \ {{}}])
        /\ n \in Nat \ {0} /\ DOMAIN d = 1..n /\ n \in Nat
    <2>1. d \in Seq([name : STRING, paths : (SUBSET Path) \ {{}}])
      BY PartitionAssumption
    <2> QED
      BY <2>1, EmptySeq, LenProperties
  <1>2. \A i \in 1..n : d[i].paths \in SUBSET Path
    <2>1. \A i \in 1..n : d[i] \in [name : STRING, paths : (SUBSET Path) \ {{}}]
      BY <1>1, ElementOfSeq
    <2> QED
      BY <2>1
  <1>3. config = Config(all, Names(all)) /\ "other" \notin Range(Names(lanes)) /\ IsInjective(Names(lanes))
    BY <1>1 DEF lane_config_from_definitions
  <1>4. /\ DOMAIN Names(lanes) = 1..n /\ \A i \in 1..n : Names(lanes)[i] = lanes[i].name
    BY DEF Names
  <1>5. \A i \in 1..n : lanes[i].name # "other"
    <2> HIDE DEF lanes
    <2> QED
      BY <1>3, <1>4 DEF Range
  <1>6. \A i, j \in 1..n : lanes[i].name = lanes[j].name => i = j
    <2> HIDE DEF lanes
    <2> QED
      BY <1>3, <1>4 DEF IsInjective
  <1>7. /\ DOMAIN all = 1..n + 1 /\ \A i \in 1..n : all[i] = lanes[i]
        /\ all[n + 1] = _fallback_lane("other")
    <2>1. lanes \in [1..n -> Range(lanes)]
      BY DEF Range
    <2> HIDE DEF lanes
    <2> QED
      BY <1>1, <2>1, AppendedLane
  <1>8. \A i \in 1..n : /\ lanes[i].subprocess_paths = d[i].paths /\ lanes[i].subprocess_nodeids = {}
                        /\ lanes[i].classifier_paths = {} /\ lanes[i].classifier_path_prefixes = d[i].paths
                        /\ ~lanes[i].subprocess_ignore_other_lanes
    BY DEF PathLane, LaneNamed
  <1>9. InOrderOf(config, n + 1)
    BY DefinitionsPartition
  <1>10. config.lanes = all
    <2> HIDE DEF all, config
    <2> QED
      BY <1>3 DEF Config
  <1>11. _fallback_lane("other").name = "other"
    BY RestLane
  <1> HIDE DEF config, all, lanes, n
  <1> DEFINE L == config.lanes
  <1>12. \A i \in 1..n : /\ L[i].subprocess_paths \in SUBSET Path
                         /\ L[i].subprocess_nodeids = {}
                         /\ L[i].classifier_paths \in SUBSET Path
                         /\ L[i].classifier_path_prefixes \in SUBSET Path
                         /\ ~L[i].subprocess_ignore_other_lanes
    BY <1>2, <1>7, <1>8, <1>10
  <1>13. \A i, j \in 1..n + 1 : L[i].name = L[j].name => i = j
    <2> TAKE i, j \in 1..n + 1
    <2> HAVE L[i].name = L[j].name
    <2>1. \A k \in 1..n + 1 : k \in 1..n \/ k = n + 1
      BY <1>1
    <2>2. L[n + 1].name = "other"
      BY <1>7, <1>10, <1>11
    <2>3. \A k \in 1..n : L[k].name = lanes[k].name
      BY <1>7, <1>10
    <2> HIDE DEF L
    <2> QED
      BY <1>5, <1>6, <2>1, <2>2, <2>3
  <1>14. DOMAIN L = 1..n + 1 /\ \E name : L[n + 1] = _fallback_lane(name)
    BY <1>7, <1>10
  <1>15. n + 1 \in 1..n + 1
    BY <1>1
  <1> HIDE DEF L
  <1>16. n \in Nat
    BY <1>1
  <1>17. WellFormed(config)
    BY <1>9, <1>12, <1>13, <1>14, <1>15, <1>16, NamedWellFormed DEF L
  <1> QED
    BY <1>17 DEF config

\* So has the configuration of every run.
LEMMA ResolvedWellFormed ==
    ASSUME FileInv, NEW definitions \in Definitions, NEW lanes_auto \in BOOLEAN,
           resolve_lane_config_or_none(definitions, lanes_auto, tests, ini) \notin {None, Refused}
    PROVE  WellFormed(resolve_lane_config_or_none(definitions, lanes_auto, tests, ini))
  <1> DEFINE config == resolve_lane_config_or_none(definitions, lanes_auto, tests, ini)
             origin == Origin(definitions, lanes_auto)
  <1>1. \/ /\ origin = "definitions" /\ definitions # <<>>
           /\ config = lane_config_from_definitions(definitions)
        \/ /\ origin = "auto" /\ config = auto_lane_config_or_none(tests) /\ config # None
        \/ /\ origin = "balanced" /\ balance # None /\ Recorded(balance)
           /\ config = BalancedConfig(balance, LaneCount) /\ config # None
        \/ origin = "file" /\ config \in HandWritten \cup {None}
    BY ResolvedFrom
  <1>2. config \notin {None, Refused}
    OBVIOUS
  <1>3. CASE origin = "definitions"
    <2> HIDE DEF config, origin
    <2> QED
      BY <1>1, <1>2, <1>3, DefinitionsWellFormed DEF config
  <1>4. CASE origin \in {"auto", "balanced"}
    <2>1. origin # "file" /\ (origin = "definitions" => Separate(config))
      BY <1>4
    <2>2. \E k \in Nat : \E l \in 1..k + 1 :
                  /\ Partition(config, k) /\ InOrderOf(config, l)
                  /\ \A u \in tests : Plain(u) /\ (origin = "auto" => u.standard_name) =>
                            l = k + 1 \/ \E i \in 1..l : Covers(config.lanes[i], u)
      BY <1>2, <2>1, GeneratedPartition
    <2> HIDE DEF config, origin
    <2>3. PICK n \in Nat : \E l \in 1..n + 1 : Partition(config, n) /\ InOrderOf(config, l)
      BY <2>2
    <2>4. PICK m \in 1..n + 1 : Partition(config, n) /\ InOrderOf(config, m)
      BY <2>3
    <2>5. WellFormed(config)
      BY <2>4, PartitionWellFormed
    <2> QED
      BY <2>5 DEF config
  <1>5. CASE origin = "file"
    <2> HIDE DEF config, origin
    <2>1. config \in HandWritten
      BY <1>1, <1>2, <1>5
    <2>2. WellFormed(config)
      BY <2>1, PartitionAssumption, AcceptedWellFormed
    <2> QED
      BY <2>2 DEF config
  <1> HIDE DEF config, origin
  <1> QED
    BY <1>1, <1>3, <1>4, <1>5 DEF config, origin

\* A lane with the name is found.
LEMMA NameFound ==
    ASSUME NEW config, WellFormed(config), NEW name \in Range(Names(config.lanes))
    PROVE  \E j \in DOMAIN config.lanes :
              lane_by_name(config, name) = config.lanes[j] /\ config.lanes[j].name = name
  <1> DEFINE I == Indices(config, LAMBDA s : s.name = name)
  <1>1. PICK n \in Nat : DOMAIN config.lanes = 1..n
    BY DEF WellFormed
  <1>2. I = {i \in 1..n : config.lanes[i].name = name}
    BY <1>1 DEF Indices
  <1>3. PICK i \in 1..n : config.lanes[i].name = name
    BY <1>1 DEF Range, Names
  <1>4. I \in SUBSET (1..n) /\ I # {}
    BY <1>2, <1>3
  <1>5. lane_by_name(config, name) = IF I = {} THEN None ELSE config.lanes[Min(I)]
    BY DEF lane_by_name, FirstOf
  <1> HIDE DEF I
  <1>6. IsFiniteSet(I) /\ I \in SUBSET Int
    <2>1. n \in Nat
      BY <1>1
    <2>2. IsFiniteSet(1..n)
      BY <2>1, UpTo
    <2>3. IsFiniteSet(I)
      BY <1>4, <2>2, FS_Subset
    <2> QED
      BY <1>4, <2>3
  <1>7. Min(I) \in I
    BY <1>4, <1>6, MaxMin
  <1> QED
    BY <1>1, <1>2, <1>4, <1>5, <1>7

\* Each session is one of a lane.
LEMMA SessionLanes ==
    ASSUME NEW config, WellFormed(config), NEW origin, NEW mode, run = FanRun(config, origin, mode)
    PROVE  \A i \in DOMAIN run.sessions : \E j \in DOMAIN config.lanes :
              /\ run.sessions[i].lane = config.lanes[j].name
              /\ run.sessions[i].tests = Collected(Arguments(config.lanes[j]),
                                                   Ignores(config, config.lanes[j]), tests)
  <1> DEFINE order == IF mode = "full" /\ config.order_full # <<>>
                      THEN config.order_full ELSE config.order_standard
             known == {i \in DOMAIN order : order[i] \in Range(Names(config.lanes))}
             before == {p \in known \X known : p[1] < p[2]}
             places == sorted(known, before)
             specs == subprocess_lanes(config, mode)
             commands == build_lane_commands(config, mode)
  <1>1. PICK n \in Nat : DOMAIN order = 1..n
    BY DEF WellFormed
  <1>2. specs = [k \in DOMAIN places |-> lane_by_name(config, order[places[k]])]
    BY DEF subprocess_lanes, _lanes_in_order
  <1>3. commands = [i \in DOMAIN specs |-> [name |-> specs[i].name, args |-> Arguments(specs[i]),
                                            ignores |-> Ignores(config, specs[i])]]
    BY DEF build_lane_commands
  <1>4. run.sessions = [i \in DOMAIN commands |->
                    [lane |-> commands[i].name, tests |-> SubprocessTests(commands[i], tests)]]
    BY DEF FanRun
  <1>5. known \in SUBSET (1..n) /\ \A i \in known : order[i] \in Range(Names(config.lanes))
    BY <1>1
  <1> HIDE DEF order, known, specs, commands
  <1>6. Lists(places, known, before)
    <2>1. IsFiniteSet(known)
      BY <1>5, UpTo, FS_Subset
    <2>2. \A x, y \in known : <<x, y>> \in before <=> x < y
      OBVIOUS
    <2> HIDE DEF before
    <2>3. \A x \in known : x \in Int
      BY <1>5
    <2>4. TotalOrder(before, known)
      BY <2>2, <2>3 DEF TotalOrder
    <2> QED
      BY <2>1, <2>4, SortedLists
  <1>7. \A k \in DOMAIN places : places[k] \in known
    <2> HIDE DEF places
    <2>1. places \in Seq(known)
      BY <1>6 DEF Lists
    <2> QED
      BY <2>1, LenProperties
  <1> HIDE DEF places
  <1>8. ASSUME NEW i \in DOMAIN run.sessions
        PROVE  \E j \in DOMAIN config.lanes :
              /\ run.sessions[i].lane = config.lanes[j].name
              /\ run.sessions[i].tests = Collected(Arguments(config.lanes[j]),
                                                   Ignores(config, config.lanes[j]), tests)
    <2>1. i \in DOMAIN commands /\ i \in DOMAIN specs /\ i \in DOMAIN places
      BY <1>2, <1>3, <1>4
    <2>2. specs[i] = lane_by_name(config, order[places[i]])
      BY <1>2, <2>1
    <2>3. PICK j \in DOMAIN config.lanes : specs[i] = config.lanes[j]
      <3> DEFINE name == order[places[i]]
      <3>1. name \in Range(Names(config.lanes))
        BY <1>5, <1>7, <2>1
      <3> HIDE DEF name
      <3>2. PICK j \in DOMAIN config.lanes : lane_by_name(config, name) = config.lanes[j]
        BY <3>1, NameFound
      <3> QED
        BY <2>2, <3>2 DEF name
    <2>4. /\ commands[i].name = specs[i].name /\ commands[i].args = Arguments(specs[i])
          /\ commands[i].ignores = Ignores(config, specs[i])
      BY <1>3, <2>1
    <2>5. /\ run.sessions[i].lane = commands[i].name
          /\ run.sessions[i].tests = SubprocessTests(commands[i], tests)
      BY <1>4, <2>1
    <2> QED
      BY <2>3, <2>4, <2>5 DEF SubprocessTests
  <1> QED
    BY <1>8

-----------------------------------------------------------------------------
(* Complete configurations *)

\* The paths of a lane that one which ignores the other lanes ignores.
Given(s) == s.subprocess_paths \cup s.classifier_paths \cup s.classifier_path_prefixes

\* r takes what the other lanes are not given; the others ignore nothing and
\* are given what their path rules claim.
TakesRest(config, r) ==
    /\ r \in Range(config.lanes) /\ Arguments(r) = {}
    /\ \A s \in Range(config.lanes) : s # r =>
        /\ Arguments(s) # {} /\ Ignores(config, s) = {}
        /\ Given(s) \in SUBSET Path /\ s.subprocess_nodeids \in SUBSET Path
        /\ \A p \in Given(s) : \E q \in s.subprocess_paths : IsPrefix(q, p)
    /\ \A p : p \in Ignores(config, r)
                <=> \E s \in Range(config.lanes) : s # r /\ p \in Given(s)

\* Two elements of a set that is not a singleton.
LEMMA TwoOf ==
    ASSUME NEW S, Cardinality(S) > 1
    PROVE  \E x, y \in S : x # y
  <1>1. Cardinality({}) = 0
    BY FS_EmptySet
  <1>2. \A x : Cardinality({x}) = 1
    BY FS_Singleton
  <1>3. S # {}
    BY <1>1
  <1>4. PICK x \in S : TRUE
    BY <1>3
  <1>5. S # {x}
    BY <1>2
  <1> QED
    BY <1>4, <1>5

\* A complete configuration has such a lane.
LEMMA CompleteRest ==
    ASSUME NEW config, WellFormed(config), Complete(config)
    PROVE  \E r : TakesRest(config, r)
  <1> DEFINE L == Range(config.lanes)
             rest == {s \in L : Arguments(s) = {}}
  <1>1. /\ Cardinality(rest) = 1
        /\ \A s \in rest : s.subprocess_ignore_other_lanes
        /\ \A s \in L : s.subprocess_ignore = {}
        /\ \A s \in L \ rest : \A p \in s.classifier_paths \cup s.classifier_path_prefixes :
                \E q \in s.subprocess_paths : IsPrefix(q, p)
    BY DEF Complete
  <1>2. \A s \in L : \E i \in DOMAIN config.lanes : s = config.lanes[i]
    BY DEF Range
  <1>3. \A s \in L : /\ s.subprocess_paths \in SUBSET Path
                     /\ s.subprocess_nodeids \in SUBSET Path
                     /\ s.classifier_paths \in SUBSET Path
                     /\ s.classifier_path_prefixes \in SUBSET Path
    BY <1>2 DEF WellFormed
  <1>4. \A s, u \in L : /\ s.name = u.name => s = u
                        /\ s.subprocess_ignore_other_lanes /\ u.subprocess_ignore_other_lanes => s = u
    BY <1>2 DEF WellFormed
  <1>5. rest # {}
    BY <1>1, FS_EmptySet
  <1>6. PICK r \in L : Arguments(r) = {}
    BY <1>5
  <1>7. \A s \in L : s # r => Arguments(s) # {} /\ ~s.subprocess_ignore_other_lanes
    BY <1>1, <1>4, <1>6
  <1>8. \A s \in L : s # r => Ignores(config, s) = {}
    BY <1>1, <1>7 DEF Ignores
  <1>9. \A s \in L : Given(s) \in SUBSET Path
    BY <1>3 DEF Given
  <1>10. ASSUME NEW s \in L, s # r
         PROVE  \A p \in Given(s) : \E q \in s.subprocess_paths : IsPrefix(q, p)
    <2>1. s \in L \ rest
      BY <1>7, <1>10
    <2>2. \A p \in s.subprocess_paths : IsPrefix(p, p)
      BY <1>3, PrefixOrder
    <2> HIDE DEF L, rest
    <2> QED
      BY <1>1, <2>1, <2>2 DEF Given
  <1>11. Ignores(config, r) = UNION {Given(s) : s \in {s \in L : s.name # r.name}}
    <2>1. r.subprocess_ignore_other_lanes /\ r.subprocess_ignore = {}
      BY <1>1, <1>6
    <2>2. Ignores(config, r) = other_lane_ignores(config, r)
      BY <2>1 DEF Ignores
    <2> QED
      BY <2>2 DEF other_lane_ignores, Given
  <1> HIDE DEF L, rest
  <1>12. \A p : p \in Ignores(config, r) <=> \E s \in L : s # r /\ p \in Given(s)
    BY <1>4, <1>6, <1>11
  <1>13. \A s \in L : s # r =>
            /\ Arguments(s) # {} /\ Ignores(config, s) = {}
            /\ Given(s) \in SUBSET Path /\ s.subprocess_nodeids \in SUBSET Path
            /\ \A p \in Given(s) : \E q \in s.subprocess_paths : IsPrefix(q, p)
    BY <1>3, <1>7, <1>8, <1>9, <1>10
  <1>14. TakesRest(config, r)
    BY <1>6, <1>12, <1>13 DEF TakesRest, L
  <1> QED
    BY <1>14

\* A lane other than that one collects every plain test below its arguments.
LEMMA OtherCollects ==
    ASSUME NEW config, NEW r, TakesRest(config, r), NEW s \in Range(config.lanes), s # r,
           NEW T \in SUBSET AllTests, NEW t \in T
    PROVE  /\ \A q \in s.subprocess_paths : IsPrefix(q, t.path) /\ Plain(t) =>
                t \in Collected(Arguments(s), Ignores(config, s), T)
           /\ t \in Collected(Arguments(s), Ignores(config, s), T) =>
                \/ \E p \in s.subprocess_paths : IsPrefix(p, Append(t.path, t.name))
                \/ \E id \in s.subprocess_nodeids : IsPrefix(id, Append(t.path, t.name))
  <1>1. /\ Arguments(s) # {} /\ Ignores(config, s) = {} /\ s.subprocess_paths \in SUBSET Path
    BY DEF TakesRest, Given
  <1>2. Arguments(s) = s.subprocess_paths \cup s.subprocess_nodeids
    BY DEF Arguments
  <1>3. t \in Collected(Arguments(s), Ignores(config, s), T)
            <=> \E a \in Arguments(s) : Reaches(a, {}, t)
    BY <1>1 DEF Collected
  <1>4. t \in AllTests /\ t.path \in Path /\ t.name \in STRING
    BY TestPaths
  <1>5. ASSUME NEW q \in s.subprocess_paths, IsPrefix(q, t.path), Plain(t)
        PROVE  Reaches(q, {}, t)
    <2>1. q \in Path
      BY <1>1
    <2>2. IsPrefix(q, Append(t.path, t.name))
      BY <1>4, <1>5, <2>1, PrefixOfAppend
    <2> QED
      BY <1>4, <1>5, <2>1, <2>2, PlainReached
  <1>6. \A a : Reaches(a, {}, t) => IsPrefix(a, Append(t.path, t.name))
    BY DEF Reaches
  <1> QED
    BY <1>2, <1>3, <1>5, <1>6

\* What that lane collects lies below nothing that another is given.
LEMMA RestCollectsFree ==
    ASSUME NEW config, NEW r, TakesRest(config, r), NEW T \in SUBSET AllTests, NEW t \in T
    PROVE  /\ t \in Collected(Arguments(r), Ignores(config, r), T) =>
                \A k \in 1..Len(t.path) : SubSeq(t.path, 1, k) \notin Ignores(config, r)
           /\ Plain(t) /\ (\A k \in 1..Len(t.path) : SubSeq(t.path, 1, k) \notin Ignores(config, r))
                => t \in Collected(Arguments(r), Ignores(config, r), T)
  <1> DEFINE I == Ignores(config, r)
  <1>1. Arguments(r) = {}
    BY DEF TakesRest
  <1>2. t \in AllTests /\ t.path \in Path /\ t.name \in STRING
    BY TestPaths
  <1>3. <<>> \in Path /\ Len(<<>>) + 1 = 1 /\ IsPrefix(<<>>, Append(t.path, t.name))
    <2>1. <<>> \in Path /\ Len(<<>>) = 0 /\ IsPrefix(<<>>, t.path)
      BY <1>2, EmptyPrefix
    <2>2. IsPrefix(<<>>, Append(t.path, t.name))
      BY <1>2, <2>1, PrefixOfAppend
    <2> QED
      BY <2>1, <2>2
  <1> HIDE DEF I
  <1>4. t \in Collected(Arguments(r), I, T) <=> Reaches(<<>>, I, t)
    BY <1>1 DEF Collected
  <1>5. Reaches(<<>>, I, t) => \A k \in 1..Len(t.path) : SubSeq(t.path, 1, k) \notin I
    BY <1>3 DEF Reaches
  <1>6. ASSUME Plain(t), \A k \in 1..Len(t.path) : SubSeq(t.path, 1, k) \notin I
        PROVE  Reaches(<<>>, I, t)
    BY <1>2, <1>3, <1>6, PlainReached
  <1> QED
    BY <1>4, <1>5, <1>6 DEF I

\* Every plain test is collected by that lane or by another one.
LEMMA SomeLaneCollects ==
    ASSUME NEW config, NEW r, TakesRest(config, r), NEW T \in SUBSET AllTests, NEW t \in T, Plain(t)
    PROVE  \E s \in Range(config.lanes) : t \in Collected(Arguments(s), Ignores(config, s), T)
  <1>1. t \in AllTests /\ t.path \in Path
    BY TestPaths
  <1>2. r \in Range(config.lanes)
    BY DEF TakesRest
  <1>3. CASE \A k \in 1..Len(t.path) : SubSeq(t.path, 1, k) \notin Ignores(config, r)
    BY <1>2, <1>3, RestCollectsFree
  <1>4. CASE \E k \in 1..Len(t.path) : SubSeq(t.path, 1, k) \in Ignores(config, r)
    <2>1. PICK k \in 1..Len(t.path) : SubSeq(t.path, 1, k) \in Ignores(config, r)
      BY <1>4
    <2> DEFINE p == SubSeq(t.path, 1, k)
    <2>2. k \in 0..Len(t.path)
      OBVIOUS
    <2>3. p \in Path /\ IsPrefix(p, t.path)
      BY <1>1, <2>2, PrefixTaken
    <2>4. p \in Ignores(config, r)
      BY <2>1
    <2> HIDE DEF p
    <2>5. PICK s \in Range(config.lanes) : s # r /\ p \in Given(s)
      BY <2>4 DEF TakesRest
    <2>6. PICK q \in s.subprocess_paths : IsPrefix(q, p)
      BY <2>5 DEF TakesRest
    <2>7. q \in Path
      BY <2>5, <2>6 DEF TakesRest, Given
    <2>8. IsPrefix(q, t.path)
      BY <1>1, <2>3, <2>6, <2>7, PrefixOrder
    <2> QED
      BY <2>5, <2>6, <2>8, OtherCollects
  <1> QED
    BY <1>3, <1>4

\* A path of a separate configuration that reaches the test is its file or a
\* directory above it.
LEMMA SeparatePath ==
    ASSUME NEW config, NEW r, TakesRest(config, r), Separate(config),
           NEW s \in Range(config.lanes), s # r, NEW t \in AllTests,
           NEW p \in s.subprocess_paths, IsPrefix(p, Append(t.path, t.name))
    PROVE  p \in Path /\ IsPrefix(p, t.path) /\ Len(p) \in 1..Len(t.path)
           /\ SubSeq(t.path, 1, Len(p)) = p
  <1>1. p \in Path
    BY DEF TakesRest, Given
  <1>2. p # <<>> /\ p # Append(t.path, t.name)
    BY DEF Separate
  <1>3. t.path \in Path /\ t.name \in STRING
    BY TestPaths
  <1>4. IsPrefix(p, t.path)
    BY <1>1, <1>2, <1>3, PrefixOfAppend
  <1>5. Len(p) \in 0..Len(t.path) /\ SubSeq(t.path, 1, Len(p)) = p
    BY <1>1, <1>3, <1>4, PrefixTaken
  <1>6. Len(p) \in Nat \ {0}
    BY <1>1, <1>2, EmptyPrefix
  <1> QED
    BY <1>1, <1>4, <1>5, <1>6

\* That lane collects no test that a path of another reaches.
LEMMA RestOnce ==
    ASSUME NEW config, NEW r, TakesRest(config, r), Separate(config),
           NEW s \in Range(config.lanes), s # r, NEW T \in SUBSET AllTests, NEW t \in T,
           t \in Collected(Arguments(r), Ignores(config, r), T),
           t \in Collected(Arguments(s), Ignores(config, s), T)
    PROVE  \E id \in s.subprocess_nodeids : IsPrefix(id, Append(t.path, t.name))
  <1> SUFFICES ASSUME NEW p \in s.subprocess_paths, IsPrefix(p, Append(t.path, t.name))
               PROVE  FALSE
    BY OtherCollects
  <1>1. Len(p) \in 1..Len(t.path) /\ SubSeq(t.path, 1, Len(p)) = p
    BY SeparatePath
  <1>2. p \in Ignores(config, r)
    BY DEF TakesRest, Given
  <1>3. \A k \in 1..Len(t.path) : SubSeq(t.path, 1, k) \notin Ignores(config, r)
    BY RestCollectsFree
  <1> QED
    BY <1>1, <1>2, <1>3

\* A test of two lanes is given to one by a node id.
LEMMA TwiceByNodeId ==
    ASSUME NEW config, NEW r, TakesRest(config, r), Separate(config),
           NEW s \in Range(config.lanes), NEW u \in Range(config.lanes), s # u,
           NEW T \in SUBSET AllTests, NEW t \in T,
           t \in Collected(Arguments(s), Ignores(config, s), T),
           t \in Collected(Arguments(u), Ignores(config, u), T)
    PROVE  \E v \in Range(config.lanes) : \E id \in v.subprocess_nodeids :
              IsPrefix(id, Append(t.path, t.name))
  <1>1. CASE s = r
    BY <1>1, RestOnce
  <1>2. CASE u = r
    BY <1>2, RestOnce
  <1>3. CASE s # r /\ u # r
    <2> SUFFICES ASSUME NEW p \in s.subprocess_paths, IsPrefix(p, Append(t.path, t.name)),
                        NEW q \in u.subprocess_paths, IsPrefix(q, Append(t.path, t.name))
                 PROVE  FALSE
      BY <1>3, OtherCollects
    <2>1. t \in AllTests /\ t.path \in Path
      BY TestPaths
    <2>2. p \in Path /\ IsPrefix(p, t.path)
      BY <1>3, <2>1, SeparatePath
    <2>3. q \in Path /\ IsPrefix(q, t.path)
      BY <1>3, <2>1, SeparatePath
    <2>4. IsPrefix(p, q) \/ IsPrefix(q, p)
      BY <2>1, <2>2, <2>3, PrefixOrder
    <2> QED
      BY <2>4 DEF Separate
  <1> QED
    BY <1>1, <1>2, <1>3

\* A complete configuration loses no test and runs one twice by a node id only.
LEMMA InvNothingLost == IInv => NothingLost
  <1> SUFFICES ASSUME IInv, FannedOut, Complete(run.config), NEW t \in PlainTests
               PROVE  /\ SessionsOf(t) # {}
                      /\ Cardinality(SessionsOf(t)) > 1 /\ Separate(run.config) =>
                            \E s \in Range(run.config.lanes) : \E id \in s.subprocess_nodeids :
                                IsPrefix(id, Append(t.path, t.name))
    BY DEF NothingLost
  <1>1. PICK definitions \in Definitions, lanes_auto \in BOOLEAN, mode \in {"standard", "full"} :
              LET config == resolve_lane_config_or_none(definitions, lanes_auto, tests, ini)
              IN  /\ config \notin {None, Refused}
                  /\ run = FanRun(config, Origin(definitions, lanes_auto), mode)
                  /\ run.config = config /\ run.origin = Origin(definitions, lanes_auto)
    BY FanOut
  <1> DEFINE config == resolve_lane_config_or_none(definitions, lanes_auto, tests, ini)
             origin == Origin(definitions, lanes_auto)
             sessions == run.sessions
             lanes == [i \in DOMAIN sessions |-> sessions[i].lane]
             collected(s) == Collected(Arguments(s), Ignores(config, s), tests)
  <1>2. /\ config \notin {None, Refused} /\ run = FanRun(config, origin, mode)
        /\ run.config = config
    BY <1>1
  <1>3. FileInv /\ tests \in SUBSET AllTests
    BY DEF IInv, FileInv
  <1>4. WellFormed(config)
    BY <1>2, <1>3, ResolvedWellFormed
  <1>5. t \in tests /\ Plain(t)
    BY <1>3, PlainCollected DEF PlainTests
  <1> HIDE DEF config, origin
  <1>6. Complete(config)
    BY <1>2
  <1>7. \A i \in DOMAIN run.sessions : \E j \in DOMAIN config.lanes :
              /\ run.sessions[i].lane = config.lanes[j].name
              /\ run.sessions[i].tests = collected(config.lanes[j])
    BY <1>2, <1>4, SessionLanes
  <1>8. Range(Names(config.lanes)) = Range(lanes) /\ IsInjective(lanes)
    BY <1>6 DEF Complete
  <1>9. PICK r : TakesRest(config, r)
    BY <1>4, <1>6, CompleteRest
  <1> HIDE DEF collected
  <1>10. \A i, j \in DOMAIN config.lanes :
            config.lanes[i].name = config.lanes[j].name => config.lanes[i] = config.lanes[j]
    BY <1>4 DEF WellFormed
  <1>11. \A j \in DOMAIN config.lanes : \E i \in DOMAIN sessions : sessions[i].lane = config.lanes[j].name
    <2> TAKE j \in DOMAIN config.lanes
    <2>1. config.lanes[j].name \in Range(Names(config.lanes))
      BY DEF Range, Names
    <2> HIDE DEF sessions
    <2>2. config.lanes[j].name \in Range(lanes)
      BY <1>8, <2>1
    <2> QED
      BY <2>2 DEF Range
  <1>12. SessionsOf(t) = {i \in DOMAIN sessions : t \in sessions[i].tests}
    BY DEF SessionsOf
  <1>13. \A i, k \in DOMAIN sessions : sessions[i].lane = sessions[k].lane => i = k
    <2> HIDE DEF sessions
    <2> QED
      BY <1>8 DEF IsInjective
  <1>14. \A i \in DOMAIN sessions : \E j \in DOMAIN config.lanes :
              /\ sessions[i].lane = config.lanes[j].name
              /\ sessions[i].tests = collected(config.lanes[j])
    BY <1>7
  <1> HIDE DEF sessions
  <1>15. SessionsOf(t) # {}
    <2>1. PICK s \in Range(config.lanes) : t \in collected(s)
      BY <1>3, <1>5, <1>9, SomeLaneCollects DEF collected
    <2>2. PICK j \in DOMAIN config.lanes : s = config.lanes[j]
      BY DEF Range
    <2>3. PICK i \in DOMAIN sessions : sessions[i].lane = config.lanes[j].name
      BY <1>11
    <2>4. PICK k \in DOMAIN config.lanes : /\ sessions[i].lane = config.lanes[k].name
                                           /\ sessions[i].tests = collected(config.lanes[k])
      BY <1>14
    <2>5. config.lanes[k] = config.lanes[j]
      BY <1>10, <2>3, <2>4
    <2> QED
      BY <1>12, <2>1, <2>2, <2>4, <2>5
  <1>16. ASSUME Cardinality(SessionsOf(t)) > 1, Separate(config)
         PROVE  \E s \in Range(config.lanes) : \E id \in s.subprocess_nodeids :
                    IsPrefix(id, Append(t.path, t.name))
    <2>1. PICK i, k \in SessionsOf(t) : i # k
      BY <1>16, TwoOf
    <2>2. /\ i \in DOMAIN sessions /\ t \in sessions[i].tests
          /\ k \in DOMAIN sessions /\ t \in sessions[k].tests
      BY <1>12
    <2>3. PICK j \in DOMAIN config.lanes : /\ sessions[i].lane = config.lanes[j].name
                                           /\ sessions[i].tests = collected(config.lanes[j])
      BY <1>14, <2>2
    <2>4. PICK l \in DOMAIN config.lanes : /\ sessions[k].lane = config.lanes[l].name
                                           /\ sessions[k].tests = collected(config.lanes[l])
      BY <1>14, <2>2
    <2>5. config.lanes[j] # config.lanes[l]
      BY <1>13, <2>1, <2>2, <2>3, <2>4
    <2>6. config.lanes[j] \in Range(config.lanes) /\ config.lanes[l] \in Range(config.lanes)
      BY DEF Range
    <2>7. /\ t \in Collected(Arguments(config.lanes[j]), Ignores(config, config.lanes[j]), tests)
          /\ t \in Collected(Arguments(config.lanes[l]), Ignores(config, config.lanes[l]), tests)
      BY <2>2, <2>3, <2>4 DEF collected
    <2> QED
      BY <1>3, <1>5, <1>9, <1>16, <2>5, <2>6, <2>7, TwiceByNodeId
  <1> QED
    BY <1>2, <1>15, <1>16

-----------------------------------------------------------------------------
(* The theorems *)

\* What is listed in the file, and what runs, exists.
THEOREM TypeCorrect == Spec => []TypeOK
  <1> QED
    BY InitIInv, NextIInv, InvTypeOK, PTL DEF Spec

\* With generated lanes (adhoc.py, balance.py) every test plain pytest would
\* run is run by exactly one lane, the one that claims it.
THEOREM ExactlyOneLaneHolds == Spec => []ExactlyOneLane
  <1> QED
    BY InitIInv, NextIInv, InvExactlyOneLane, PTL DEF Spec

\* With generated lanes, --lane=<name> runs what the lane's subprocess ran
\* (lane_selection.py).
THEOREM LaneReproducesHolds == Spec => []LaneReproduces
  <1> QED
    BY InitIInv, NextIInv, InvLaneReproduces, PTL DEF Spec

\* A complete configuration loses no test, and one that is separate runs a
\* test twice only by a node id (lanes.py, the ignores of other lanes).
THEOREM NothingLostHolds == Spec => []NothingLost
  <1> QED
    BY InitIInv, NextIInv, InvNothingLost, PTL DEF Spec

\* A balanced partition (balance.py) holds every recorded file once, the
\* heaviest lane first, and no lane is too heavy.
THEOREM LanesBalancedHolds == Spec => []LanesBalanced
  <1> QED
    BY InitIInv, NextIInv, InvLanesBalanced, PTL DEF Spec

=============================================================================
