------------------------- MODULE ShardedScheduleProofs -------------------------
(***************************************************************************)
(* Proofs about the shard planner and the run it plans.                    *)
(***************************************************************************)
EXTENDS ShardedSchedule, InductionLemmas, SequenceTheorems

-----------------------------------------------------------------------------
(* Greatest elements *)

\* A finite set of integers that is not empty has a greatest element, and Max
\* is it.
LEMMA MaxOf ==
    ASSUME NEW S, IsFiniteSet(S), S # {}, \A x \in S : x \in Int
    PROVE  Max(S) \in S /\ \A y \in S : Max(S) >= y
  <1> DEFINE Good == {A \in SUBSET S : A = {} \/ \E m \in A : \A y \in A : m >= y}
  <1>1. {} \in Good
    OBVIOUS
  <1>2. ASSUME NEW A \in SUBSET S, NEW x \in S \ A, A \in Good
        PROVE  A \cup {x} \in Good
    <2>1. CASE A = {}
      <3>1. \A y \in A \cup {x} : x >= y
        BY <2>1
      <3> QED
        BY <3>1
    <2>2. CASE A # {}
      <3>1. PICK m \in A : \A y \in A : m >= y
        BY <1>2, <2>2
      <3>2. m \in Int /\ x \in Int /\ \A y \in A : y \in Int
        OBVIOUS
      <3>3. CASE m >= x
        <4>1. \A y \in A \cup {x} : m >= y
          BY <3>1, <3>3
        <4> QED
          BY <4>1
      <3>4. CASE ~(m >= x)
        <4>1. \A y \in A \cup {x} : x >= y
          BY <3>1, <3>2, <3>4
        <4> QED
          BY <4>1
      <3> QED
        BY <3>3, <3>4
    <2> QED
      BY <2>1, <2>2
  <1>3. S \in Good
    <2> HIDE DEF Good
    <2> QED
      BY <1>1, <1>2, SetInduction
  <1>4. \E m \in S : \A y \in S : m >= y
    BY <1>3
  <1> QED
    BY <1>4 DEF Max

\* The greater of two integers.
LEMMA MaxOfTwo ==
    ASSUME NEW a \in Int, NEW b \in Int
    PROVE  Max({a, b}) = IF a >= b THEN a ELSE b
  <1>1. IsFiniteSet({a, b})
    <2>1. {a, b} = {a} \cup {b}
      OBVIOUS
    <2>2. IsFiniteSet({a})
      BY FS_Singleton
    <2>3. IsFiniteSet({a} \cup {b})
      BY <2>2, FS_AddElement
    <2> QED
      BY <2>1, <2>3
  <1>2. Max({a, b}) \in {a, b} /\ \A y \in {a, b} : Max({a, b}) >= y
    BY <1>1, MaxOf
  <1> HIDE DEF Max
  <1> QED
    BY <1>2

-----------------------------------------------------------------------------
(* The cut *)

\* Of the cuts up to f, b is the first of those with the least imbalance.
FirstBest(imbalance, cuts, f, b) ==
    /\ b \in cuts /\ b <= f
    /\ \A c \in cuts : /\ c < b => imbalance[b] < imbalance[c]
                       /\ b < c /\ c <= f => imbalance[b] <= imbalance[c]

Smaller(cuts, f) == {c \in cuts : c < f}

\* What the loop of contiguous_halves remembers after the cut at f.
BestSoFar(imbalance, cuts, best, f) ==
    IF Smaller(cuts, f) = {} \/ imbalance[f] < imbalance[best[Max(Smaller(cuts, f))]]
    THEN f ELSE best[Max(Smaller(cuts, f))]

\* There is one such cut.
LEMMA FirstBestExists ==
    ASSUME NEW cuts \in SUBSET Nat, NEW imbalance \in [cuts -> Nat], NEW f \in cuts
    PROVE  \E b : FirstBest(imbalance, cuts, f, b)
  <1> DEFINE upto == {c \in cuts : c <= f}
             values == {imbalance[c] : c \in upto}
  <1>1. values \in SUBSET Nat /\ values # {}
    <2>1. f \in upto
      OBVIOUS
    <2> QED
      BY <2>1
  <1>2. PICK m \in values : \A k \in values : m <= k
    <2> HIDE DEF values
    <2> QED
      BY <1>1, LeastNat
  <1> DEFINE least == {c \in upto : imbalance[c] = m}
  <1>3. least \in SUBSET Nat /\ least # {}
    BY <1>2
  <1>4. PICK b \in least : \A k \in least : b <= k
    <2> HIDE DEF least
    <2> QED
      BY <1>3, LeastNat
  <1>5. b \in cuts /\ b <= f /\ imbalance[b] = m /\ b \in Nat /\ f \in Nat
    BY <1>4
  <1>6. ASSUME NEW c \in cuts, c < b
        PROVE  imbalance[b] < imbalance[c]
    <2>1. c \in Nat /\ c \in upto
      BY <1>5, <1>6
    <2>2. c \notin least
      BY <1>4, <1>5, <1>6, <2>1
    <2>3. m <= imbalance[c] /\ imbalance[c] # m
      BY <1>2, <2>1, <2>2
    <2> QED
      BY <1>5, <2>3
  <1>7. ASSUME NEW c \in cuts, b < c, c <= f
        PROVE  imbalance[b] <= imbalance[c]
    <2>1. imbalance[c] \in values
      BY <1>7
    <2> QED
      BY <1>2, <1>5, <2>1
  <1> QED
    BY <1>5, <1>6, <1>7 DEF FirstBest

\* And no other.
LEMMA FirstBestUnique ==
    ASSUME NEW cuts \in SUBSET Nat, NEW imbalance \in [cuts -> Nat], NEW f \in cuts,
           NEW a, FirstBest(imbalance, cuts, f, a), NEW b, FirstBest(imbalance, cuts, f, b)
    PROVE  a = b
  <1>1. a \in Nat /\ b \in Nat /\ a \in cuts /\ b \in cuts /\ a <= f /\ b <= f
    BY DEF FirstBest
  <1>2. imbalance[a] \in Nat /\ imbalance[b] \in Nat
    BY <1>1
  <1>3. ~(a < b)
    BY <1>1, <1>2 DEF FirstBest
  <1>4. ~(b < a)
    BY <1>1, <1>2 DEF FirstBest
  <1> QED
    BY <1>1, <1>3, <1>4

\* The loop finds it, if what it remembers of the cut before is right.
LEMMA LoopStep ==
    ASSUME NEW cuts \in SUBSET Nat, IsFiniteSet(cuts), NEW imbalance \in [cuts -> Nat],
           NEW f \in cuts, NEW best,
           \A c \in cuts : c < f => FirstBest(imbalance, cuts, c, best[c])
    PROVE  FirstBest(imbalance, cuts, f, BestSoFar(imbalance, cuts, best, f))
  <1> DEFINE S == Smaller(cuts, f)
             p == Max(S)
  <1>1. CASE S = {}
    <2>1. \A c \in cuts : ~(c < f)
      BY <1>1 DEF Smaller
    <2>2. BestSoFar(imbalance, cuts, best, f) = f
      BY <1>1 DEF BestSoFar
    <2>3. \A c \in cuts : ~(f < c /\ c <= f)
      OBVIOUS
    <2>4. f <= f
      OBVIOUS
    <2> QED
      BY <2>1, <2>2, <2>3, <2>4 DEF FirstBest
  <1>2. CASE S # {}
    <2>1. IsFiniteSet(S) /\ \A x \in S : x \in Int
      BY FS_Subset DEF Smaller
    <2>2. p \in S /\ \A y \in S : p >= y
      BY <1>2, <2>1, MaxOf
    <2> HIDE DEF p
    <2>3. p \in cuts /\ p < f /\ p \in Nat /\ f \in Nat
      BY <2>2 DEF Smaller
    <2>4. \A c \in cuts : c < f => c <= p
      BY <2>2, <2>3 DEF Smaller
    <2> DEFINE b == best[p]
    <2>5. FirstBest(imbalance, cuts, p, b)
      BY <2>3
    <2> HIDE DEF b
    <2>6. b \in cuts /\ b <= p /\ b \in Nat
      BY <2>5 DEF FirstBest
    <2>7. imbalance[b] \in Nat /\ imbalance[f] \in Nat
      BY <2>6
    <2>8. CASE imbalance[f] < imbalance[b]
      <3>1. BestSoFar(imbalance, cuts, best, f) = f
        BY <1>2, <2>8 DEF BestSoFar, b, p
      <3>2. ASSUME NEW c \in cuts, c < f
            PROVE  imbalance[f] < imbalance[c]
        <4>1. c \in Nat /\ c <= p /\ imbalance[c] \in Nat
          BY <2>4, <3>2
        <4>2. imbalance[b] <= imbalance[c]
          <5>1. CASE c < b
            BY <2>5, <2>7, <4>1, <5>1 DEF FirstBest
          <5>2. CASE c = b
            BY <2>7, <5>2
          <5>3. CASE b < c
            BY <2>5, <4>1, <5>3 DEF FirstBest
          <5> QED
            BY <2>6, <4>1, <5>1, <5>2, <5>3
        <4> QED
          BY <2>7, <2>8, <4>1, <4>2
      <3>3. \A c \in cuts : ~(f < c /\ c <= f)
        OBVIOUS
      <3>4. f <= f
        OBVIOUS
      <3> QED
        BY <3>1, <3>2, <3>3, <3>4 DEF FirstBest
    <2>9. CASE ~(imbalance[f] < imbalance[b])
      <3>1. BestSoFar(imbalance, cuts, best, f) = b
        BY <1>2, <2>9 DEF BestSoFar, b, p
      <3>2. \A c \in cuts : c < b => imbalance[b] < imbalance[c]
        BY <2>5 DEF FirstBest
      <3>3. ASSUME NEW c \in cuts, b < c, c <= f
            PROVE  imbalance[b] <= imbalance[c]
        <4>1. CASE c = f
          BY <2>7, <2>9, <4>1
        <4>2. CASE c # f
          <5>1. c <= p
            BY <2>3, <2>4, <3>3, <4>2
          <5> QED
            BY <2>5, <3>3, <5>1 DEF FirstBest
        <4> QED
          BY <4>1, <4>2
      <3>4. b <= f
        BY <2>3, <2>6
      <3> QED
        BY <2>6, <3>1, <3>2, <3>3, <3>4 DEF FirstBest
    <2> QED
      BY <2>8, <2>9
  <1> QED
    BY <1>1, <1>2

\* What the loop remembers is well defined: the first best cuts do it.
LEMMA LoopExists ==
    ASSUME NEW cuts \in SUBSET Nat, IsFiniteSet(cuts), NEW imbalance \in [cuts -> Nat]
    PROVE  \E best : /\ best = [f \in cuts |-> BestSoFar(imbalance, cuts, best, f)]
                      /\ \A f \in cuts : FirstBest(imbalance, cuts, f, best[f])
  <1> DEFINE best == [f \in cuts |-> CHOOSE b : FirstBest(imbalance, cuts, f, b)]
  <1>1. \A f \in cuts : FirstBest(imbalance, cuts, f, best[f])
    BY FirstBestExists
  <1>2. DOMAIN best = cuts /\ best = [f \in cuts |-> best[f]]
    OBVIOUS
  <1> HIDE DEF best
  <1>3. ASSUME NEW f \in cuts
        PROVE  best[f] = BestSoFar(imbalance, cuts, best, f)
    <2>1. FirstBest(imbalance, cuts, f, BestSoFar(imbalance, cuts, best, f))
      BY <1>1, LoopStep
    <2> QED
      BY <1>1, <2>1, FirstBestUnique
  <1>4. best = [f \in cuts |-> BestSoFar(imbalance, cuts, best, f)]
    BY <1>2, <1>3
  <1> QED
    BY <1>1, <1>4

\* And it is right at every cut.
LEMMA LoopIsRight ==
    ASSUME NEW cuts \in SUBSET Nat, IsFiniteSet(cuts), NEW imbalance \in [cuts -> Nat],
           NEW best,
           \A f \in cuts :
              (\A c \in cuts : c < f => FirstBest(imbalance, cuts, c, best[c]))
                => best[f] = BestSoFar(imbalance, cuts, best, f)
    PROVE  \A f \in cuts : FirstBest(imbalance, cuts, f, best[f])
  <1> DEFINE Failing == {f \in cuts : ~FirstBest(imbalance, cuts, f, best[f])}
  <1> SUFFICES ASSUME Failing # {}
               PROVE  FALSE
    OBVIOUS
  <1>1. PICK f \in Failing : \A k \in Failing : f <= k
    <2>1. Failing \subseteq Nat
      OBVIOUS
    <2> HIDE DEF Failing
    <2> QED
      BY <2>1, LeastNat
  <1>2. \A c \in cuts : c < f => FirstBest(imbalance, cuts, c, best[c])
    <2>1. \A c \in cuts : c < f => ~(f <= c)
      BY <1>1
    <2> QED
      BY <1>1, <2>1
  <1>3. FirstBest(imbalance, cuts, f, BestSoFar(imbalance, cuts, best, f))
    BY <1>1, <1>2, LoopStep
  <1>4. best[f] = BestSoFar(imbalance, cuts, best, f)
    <2>1. f \in cuts
      BY <1>1
    <2> QED
      BY <1>2, <2>1
  <1> QED
    BY <1>1, <1>3, <1>4

\* Recorded files are numbers, and take whole seconds.
Timed(files) ==
    /\ DOMAIN files \in SUBSET Nat /\ IsFiniteSet(DOMAIN files)
    /\ \A f \in DOMAIN files : files[f] \in Nat

\* The cuts the loop of contiguous_halves tries.
CutsOf(files) == DOMAIN files \ {Max(DOMAIN files)}

\* The seconds of some of the files are a natural number.
LEMMA SecondsType ==
    ASSUME NEW files, Timed(files), NEW S \in SUBSET DOMAIN files
    PROVE  Seconds(files, S) \in Nat
  <1>1. IsFiniteSet(S) /\ \A f \in S : files[f] \in Nat
    BY FS_Subset DEF Timed
  <1> QED
    BY <1>1, SumNat DEF Seconds

\* So is the imbalance of a cut.
LEMMA ImbalanceType ==
    ASSUME NEW files, Timed(files), NEW first \in SUBSET DOMAIN files
    PROVE  Imbalance(files, first) \in Nat
  <1>1. Rest(files, first) \in SUBSET DOMAIN files
    BY DEF Rest
  <1> DEFINE a == Seconds(files, first)
             b == Seconds(files, Rest(files, first))
  <1>2. a \in Nat /\ b \in Nat
    BY <1>1, SecondsType
  <1>3. Imbalance(files, first) = Max({a - b, b - a})
    BY DEF Imbalance
  <1> HIDE DEF a, b
  <1>4. a - b \in Int /\ b - a \in Int
    BY <1>2
  <1>5. Max({a - b, b - a}) = IF a - b >= b - a THEN a - b ELSE b - a
    BY <1>4, MaxOfTwo
  <1> QED
    BY <1>2, <1>3, <1>5

\* contiguous_halves cuts at the first of the best cuts.
LEMMA HalvesAreBest ==
    ASSUME NEW files, Timed(files), Cardinality(DOMAIN files) >= 2
    PROVE  \E b \in CutsOf(files) :
               /\ contiguous_halves(files) = UpTo(files, b)
               /\ \A f \in CutsOf(files) :
                    LET at(c) == Imbalance(files, UpTo(files, c)) IN
                    /\ f < b => at(b) < at(f)
                    /\ b < f => at(b) <= at(f)
  <1> DEFINE D == DOMAIN files
             cuts == CutsOf(files)
             imbalance == [c \in cuts |-> Imbalance(files, UpTo(files, c))]
             loop(best) == [f \in cuts |->
                IF {g \in cuts : g < f} = {}
                     \/ BetterCut(files, f, best[Max({g \in cuts : g < f})])
                THEN f ELSE best[Max({g \in cuts : g < f})]]
             best == CHOOSE best : best = loop(best)
  <1>1. /\ D \in SUBSET Nat /\ IsFiniteSet(D) /\ cuts \in SUBSET Nat /\ IsFiniteSet(cuts)
        /\ cuts \in SUBSET D
    BY FS_Subset DEF Timed, CutsOf
  <1>2. imbalance \in [cuts -> Nat]
    <2>1. \A c \in cuts : UpTo(files, c) \in SUBSET DOMAIN files
      BY DEF UpTo
    <2>2. \A c \in cuts : Imbalance(files, UpTo(files, c)) \in Nat
      BY <2>1, ImbalanceType
    <2> QED
      BY <2>2
  <1>3. cuts # {} /\ Max(D) \in D /\ \A f \in D : Max(D) >= f
    <2>1. D # {}
      BY FS_EmptySet
    <2>2. Max(D) \in D /\ \A f \in D : Max(D) >= f
      BY <1>1, <2>1, MaxOf
    <2>3. Cardinality(D \ {Max(D)}) = Cardinality(D) - 1 /\ Cardinality(D) \in Nat
      BY <1>1, <2>2, FS_RemoveElement, FS_CardinalityType
    <2>4. Cardinality({}) = 0
      BY FS_EmptySet
    <2>5. Cardinality(D \ {Max(D)}) # 0
      <3>1. Cardinality(D) >= 2
        OBVIOUS
      <3> HIDE DEF D
      <3> QED
        BY <2>3, <3>1
    <2>6. D \ {Max(D)} # {}
      BY <2>4, <2>5
    <2> QED
      BY <2>2, <2>6 DEF CutsOf
  <1>4. contiguous_halves(files) = UpTo(files, best[Max(cuts)])
    BY DEF contiguous_halves, CutsOf
  <1>5. ASSUME NEW g, NEW f \in cuts,
               \A c \in cuts : c < f => FirstBest(imbalance, cuts, c, g[c])
        PROVE  BestSoFar(imbalance, cuts, g, f) = loop(g)[f]
    <2> DEFINE S == Smaller(cuts, f)
               p == Max(S)
    <2>1. S = {c \in cuts : c < f}
      BY DEF Smaller
    <2>2. CASE S = {}
      BY <2>1, <2>2 DEF BestSoFar
    <2>3. CASE S # {}
      <3>1. IsFiniteSet(S) /\ \A x \in S : x \in Int
        BY <1>1, FS_Subset DEF Smaller
      <3>2. p \in S
        BY <2>3, <3>1, MaxOf
      <3>3. p \in cuts /\ p < f
        BY <2>1, <3>2
      <3>4. g[p] \in cuts
        BY <1>5, <3>3 DEF FirstBest
      <3>5. imbalance[f] < imbalance[g[p]] <=> BetterCut(files, f, g[p])
        BY <3>4 DEF BetterCut
      <3>6. BestSoFar(imbalance, cuts, g, f) = IF imbalance[f] < imbalance[g[p]] THEN f ELSE g[p]
        BY <2>3 DEF BestSoFar
      <3>7. loop(g)[f] = IF BetterCut(files, f, g[p]) THEN f ELSE g[p]
        <4> HIDE DEF cuts
        <4> QED
          BY <2>1, <2>3
      <3> QED
        BY <3>5, <3>6, <3>7
    <2> QED
      BY <2>2, <2>3
  <1>6. best = loop(best)
    <2>1. PICK g : /\ g = [f \in cuts |-> BestSoFar(imbalance, cuts, g, f)]
                   /\ \A f \in cuts : FirstBest(imbalance, cuts, f, g[f])
      <3> HIDE DEF cuts, imbalance
      <3> QED
        BY <1>1, <1>2, LoopExists
    <2>2. \A f \in cuts : BestSoFar(imbalance, cuts, g, f) = loop(g)[f]
      <3> HIDE DEF loop, cuts, imbalance
      <3> QED
        BY <1>5, <2>1
    <2>3. [f \in cuts |-> BestSoFar(imbalance, cuts, g, f)] = [f \in cuts |-> loop(g)[f]]
      <3> HIDE DEF loop, cuts, imbalance
      <3> QED
        BY <2>2
    <2>4. loop(g) = [f \in cuts |-> loop(g)[f]]
      OBVIOUS
    <2>5. g = loop(g)
      <3> HIDE DEF loop, cuts, imbalance
      <3> QED
        BY <2>1, <2>3, <2>4
    <2> HIDE DEF loop
    <2> QED
      BY <2>5
  <1>7. \A f \in cuts : FirstBest(imbalance, cuts, f, best[f])
    <2> HIDE DEF loop, imbalance, best, cuts
    <2>1. \A f \in cuts : best[f] = loop(best)[f]
      BY <1>6
    <2>2. \A f \in cuts :
              (\A c \in cuts : c < f => FirstBest(imbalance, cuts, c, best[c]))
                => best[f] = BestSoFar(imbalance, cuts, best, f)
      BY <1>5, <2>1
    <2> QED
      BY <1>1, <1>2, <2>2, LoopIsRight
  <1> DEFINE last == Max(cuts)
             b == best[last]
  <1>8. last \in cuts /\ \A f \in cuts : last >= f
    <2>1. \A x \in cuts : x \in Int
      BY <1>1
    <2> HIDE DEF cuts
    <2> QED
      BY <1>1, <1>3, <2>1, MaxOf
  <1> HIDE DEF best, last
  <1>9. FirstBest(imbalance, cuts, last, b)
    BY <1>7, <1>8
  <1> HIDE DEF b
  <1>10. b \in cuts
    BY <1>9 DEF FirstBest
  <1>11. ASSUME NEW f \in cuts
         PROVE  LET at(c) == Imbalance(files, UpTo(files, c)) IN
                /\ f < b => at(b) < at(f)
                /\ b < f => at(b) <= at(f)
    <2>1. imbalance[b] = Imbalance(files, UpTo(files, b))
      BY <1>10
    <2>2. imbalance[f] = Imbalance(files, UpTo(files, f))
      OBVIOUS
    <2>3. f <= last
      BY <1>1, <1>8
    <2> HIDE DEF imbalance
    <2> QED
      BY <1>9, <2>1, <2>2, <2>3 DEF FirstBest
  <1> QED
    BY <1>4, <1>10, <1>11 DEF b, last

\* The half contiguous_halves returns, seen from outside the loop.
LEMMA CutIsBestOf ==
    ASSUME NEW files, Timed(files), Cardinality(DOMAIN files) >= 2
    PROVE  LET h == contiguous_halves(files) IN
           /\ h \in SUBSET DOMAIN files /\ h # {} /\ h # DOMAIN files
           /\ \A f \in DOMAIN files \ {Max(DOMAIN files)} :
                LET other == UpTo(files, f) IN
                \/ h \subseteq other /\ Imbalance(files, h) <= Imbalance(files, other)
                \/ other \subseteq h /\ Imbalance(files, h) < Imbalance(files, other)
                \/ h = other
  <1>1. PICK b \in CutsOf(files) :
               /\ contiguous_halves(files) = UpTo(files, b)
               /\ \A f \in CutsOf(files) :
                    LET at(c) == Imbalance(files, UpTo(files, c)) IN
                    /\ f < b => at(b) < at(f)
                    /\ b < f => at(b) <= at(f)
    BY HalvesAreBest
  <1> DEFINE D == DOMAIN files
             h == UpTo(files, b)
  <1>2. D \in SUBSET Nat /\ IsFiniteSet(D) /\ b \in D /\ b # Max(D)
    BY DEF CutsOf, Timed
  <1>3. Max(D) \in D /\ \A f \in D : Max(D) >= f
    BY <1>2, MaxOf
  <1>4. b \in h /\ Max(D) \notin h /\ h \in SUBSET D
    <2>1. b \in Nat /\ Max(D) \in Nat /\ ~(Max(D) <= b)
      <3> HIDE DEF Max
      <3> QED
        BY <1>2, <1>3
    <2> QED
      BY <1>2, <2>1 DEF UpTo
  <1>5. ASSUME NEW f \in CutsOf(files)
        PROVE  LET other == UpTo(files, f) IN
                \/ h \subseteq other /\ Imbalance(files, h) <= Imbalance(files, other)
                \/ other \subseteq h /\ Imbalance(files, h) < Imbalance(files, other)
                \/ h = other
    <2>1. f \in Nat /\ b \in Nat
      BY <1>2 DEF CutsOf
    <2>2. CASE f < b
      <3>1. UpTo(files, f) \subseteq h
        BY <1>2, <2>1, <2>2 DEF UpTo
      <3>2. Imbalance(files, h) < Imbalance(files, UpTo(files, f))
        BY <1>1, <2>2
      <3> QED
        BY <3>1, <3>2
    <2>3. CASE b < f
      <3>1. h \subseteq UpTo(files, f)
        BY <1>2, <2>1, <2>3 DEF UpTo
      <3>2. Imbalance(files, h) <= Imbalance(files, UpTo(files, f))
        BY <1>1, <2>3
      <3> QED
        BY <3>1, <3>2
    <2>4. CASE f = b
      BY <2>4
    <2> QED
      BY <2>1, <2>2, <2>3, <2>4
  <1>6. contiguous_halves(files) = h
    BY <1>1
  <1>7. h # {} /\ h # D
    BY <1>3, <1>4
  <1> HIDE DEF h
  <1> QED
    BY <1>4, <1>5, <1>6, <1>7 DEF CutsOf

-----------------------------------------------------------------------------
(* The candidate *)

\* What a record of a history holds.
LEMMA RecordFacts ==
    ASSUME NEW recs \in Histories, NEW l \in DOMAIN recs
    PROVE  /\ LaneRecord(recs[l]) /\ Timed(recs[l].files)
           /\ recs[l].total \in Nat /\ recs[l].startup \in Nat /\ recs[l].collect \in Nat
  <1>1. LaneRecord(recs[l])
    BY PlanningAssumption
  <1>2. Files \subseteq Nat /\ IsFiniteSet(Files)
    BY PlanningAssumption
  <1>3. IsFiniteSet(DOMAIN recs[l].files)
    BY <1>1, <1>2, FS_Subset DEF LaneRecord
  <1> QED
    BY <1>1, <1>2, <1>3 DEF LaneRecord, Timed

\* There are finitely many lanes.
LEMMA LanesFinite == IsFiniteSet(Lanes)
  <1>1. Order \in Seq(Lanes) /\ Lanes = {Order[i] : i \in DOMAIN Order}
    BY PlanningAssumption DEF Lanes, Range
  <1>2. DOMAIN Order = 1..Len(Order) /\ Len(Order) \in Nat
    BY <1>1, LenProperties
  <1>3. IsFiniteSet(1..Len(Order))
    <2> DEFINE n == Len(Order)
    <2>1. 1 \in Int /\ n \in Int
      BY <1>2
    <2> HIDE DEF n
    <2>2. IsFiniteSet(1..n)
      BY <2>1, FS_Interval
    <2> QED
      BY <2>2 DEF n
  <1> DEFINE f == [i \in DOMAIN Order |-> Order[i]]
  <1>4. f \in Surjection(DOMAIN Order, Lanes)
    BY <1>1 DEF Surjection
  <1> HIDE DEF f
  <1> QED
    BY <1>2, <1>3, <1>4, FS_Surjection

\* A lane is declared somewhere.
LEMMA Declared ==
    ASSUME NEW l \in Lanes
    PROVE  DeclaredAt(l) \in DOMAIN Order /\ DeclaredAt(l) \in Nat /\ Order[DeclaredAt(l)] = l
  <1>1. Order \in Seq(Lanes) /\ \E i \in DOMAIN Order : Order[i] = l
    BY PlanningAssumption DEF Lanes, Range
  <1>2. DOMAIN Order \subseteq Nat
    <2>1. DOMAIN Order = 1..Len(Order) /\ Len(Order) \in Nat
      BY <1>1, LenProperties
    <2> QED
      BY <2>1
  <1> QED
    BY <1>1, <1>2 DEF DeclaredAt

\* Lanes with a record are ranked one above the other.
LEMMA Ranked ==
    ASSUME NEW recs \in Histories,
           NEW S, S \subseteq Lanes \cap DOMAIN recs,
           NEW l \in S, NEW k \in S, l # k
    PROVE  Outranks(recs, l, k) \/ Outranks(recs, k, l)
  <1>1. recs[l].total \in Nat /\ recs[k].total \in Nat
    BY RecordFacts
  <1>2. /\ DeclaredAt(l) \in Nat /\ Order[DeclaredAt(l)] = l
        /\ DeclaredAt(k) \in Nat /\ Order[DeclaredAt(k)] = k
    BY Declared
  <1>3. DeclaredAt(l) # DeclaredAt(k)
    BY <1>2
  <1> DEFINE a == recs[l].total
             b == recs[k].total
             i == DeclaredAt(l)
             j == DeclaredAt(k)
  <1>4. /\ Outranks(recs, l, k) <=> (a > b \/ (a = b /\ i < j))
        /\ Outranks(recs, k, l) <=> (b > a \/ (b = a /\ j < i))
    BY DEF Outranks
  <1>5. a \in Nat /\ b \in Nat /\ i \in Nat /\ j \in Nat /\ i # j
    BY <1>1, <1>2, <1>3
  <1> HIDE DEF a, b, i, j
  <1>6. (a > b \/ (a = b /\ i < j)) \/ (b > a \/ (b = a /\ j < i))
    BY <1>5
  <1> QED
    BY <1>4, <1>6

\* Outranking is transitive.
LEMMA RankedAbove ==
    ASSUME NEW recs \in Histories,
           NEW S, S \subseteq Lanes \cap DOMAIN recs,
           NEW l \in S, NEW k \in S, NEW m \in S,
           Outranks(recs, l, k), Outranks(recs, k, m)
    PROVE  Outranks(recs, l, m)
  <1>1. recs[l].total \in Nat /\ recs[k].total \in Nat /\ recs[m].total \in Nat
    BY RecordFacts
  <1>2. DeclaredAt(l) \in Nat /\ DeclaredAt(k) \in Nat /\ DeclaredAt(m) \in Nat
    BY Declared
  <1> DEFINE a == recs[l].total
             b == recs[k].total
             c == recs[m].total
             i == DeclaredAt(l)
             j == DeclaredAt(k)
             n == DeclaredAt(m)
  <1>3. /\ a > b \/ (a = b /\ i < j)
        /\ b > c \/ (b = c /\ j < n)
        /\ Outranks(recs, l, m) <=> (a > c \/ (a = c /\ i < n))
    BY DEF Outranks
  <1>4. a \in Nat /\ b \in Nat /\ c \in Nat /\ i \in Nat /\ j \in Nat /\ n \in Nat
    BY <1>1, <1>2
  <1> HIDE DEF a, b, c, i, j, n
  <1>5. a > c \/ (a = c /\ i < n)
    BY <1>3, <1>4
  <1> QED
    BY <1>3, <1>5

\* If a lane can be split, there is one that is split first.
LEMMA CandidateExists ==
    ASSUME NEW recs \in Histories, Splittable(recs) # {}
    PROVE  shard_candidate(recs) \in Splittable(recs)
  <1> DEFINE S == Splittable(recs)
             First(A) == \E l \in A : \A k \in A \ {l} : Outranks(recs, l, k)
             Good == {A \in SUBSET S : A = {} \/ First(A)}
  <1>1. S \subseteq Lanes \cap DOMAIN recs /\ IsFiniteSet(S)
    <2>1. S \subseteq Lanes \cap DOMAIN recs
      BY DEF Splittable
    <2> HIDE DEF S
    <2> QED
      BY <2>1, LanesFinite, FS_Subset
  <1>2. {} \in Good
    OBVIOUS
  <1>3. ASSUME NEW A \in SUBSET S, NEW x \in S \ A, A \in Good
        PROVE  A \cup {x} \in Good
    <2> HIDE DEF S
    <2>1. CASE A = {}
      <3>1. \A k \in (A \cup {x}) \ {x} : Outranks(recs, x, k)
        BY <2>1
      <3> QED
        BY <3>1
    <2>2. CASE A # {}
      <3>1. PICK l \in A : \A k \in A \ {l} : Outranks(recs, l, k)
        BY <1>3, <2>2
      <3>2. Outranks(recs, l, x) \/ Outranks(recs, x, l)
        BY <1>1, Ranked
      <3>3. CASE Outranks(recs, l, x)
        <4>1. \A k \in (A \cup {x}) \ {l} : Outranks(recs, l, k)
          BY <3>1, <3>3
        <4> QED
          BY <4>1
      <3>4. CASE Outranks(recs, x, l)
        <4>1. \A k \in (A \cup {x}) \ {x} : Outranks(recs, x, k)
          BY <1>1, <3>1, <3>4, RankedAbove
        <4> QED
          BY <4>1
      <3> QED
        BY <3>2, <3>3, <3>4
    <2> QED
      BY <2>1, <2>2
  <1>4. S \in Good
    <2> HIDE DEF Good, S
    <2> QED
      BY <1>1, <1>2, <1>3, SetInduction
  <1>5. First(S)
    BY <1>4
  <1> QED
    BY <1>5 DEF shard_candidate

-----------------------------------------------------------------------------
(* What is planned *)

\* p splits a lane l in two, of records recs and files present.
SplitOf(p, recs, present, cut) ==
    LET l == shard_candidate(recs)
        known == existing_files(recs, l, present)
    IN  /\ l \in Splittable(recs) /\ MayShard(recs) /\ Cardinality(known) >= 2
        /\ p = Split(recs, l, known, cut)
        /\ p.gain >= 2 * ShardMinSaving

\* plan_shards splits nothing, or the candidate.
LEMMA PlanShape ==
    ASSUME NEW recs \in Histories, NEW present, NEW cut
    PROVE  LET p == plan_shards(recs, present, cut)
               l == shard_candidate(recs)
               known == existing_files(recs, l, present)
           IN  /\ p = Whole \/ SplitOf(p, recs, present, cut)
               /\ Splittable(recs) # {} /\ MayShard(recs) /\ Cardinality(known) >= 2
                    /\ Split(recs, l, known, cut).gain >= 2 * ShardMinSaving
                  => p = Split(recs, l, known, cut)
  <1>1. Splittable(recs) # {} => shard_candidate(recs) \in Splittable(recs)
    BY CandidateExists
  <1> DEFINE split == Split(recs, shard_candidate(recs),
                            existing_files(recs, shard_candidate(recs), present), cut)
  <1>2. plan_shards(recs, present, cut) =
            IF Splittable(recs) = {} \/ ~MayShard(recs) THEN Whole
            ELSE IF /\ Cardinality(existing_files(recs, shard_candidate(recs), present)) >= 2
                    /\ split.gain >= 2 * ShardMinSaving
                 THEN split ELSE Whole
    BY DEF plan_shards
  <1> HIDE DEF split
  <1> QED
    BY <1>1, <1>2 DEF SplitOf, split

\* What is saved if the two shards of lane l run these files.
GainOf(recs, l, first, second) ==
    simulate_makespan([i \in DOMAIN Order |-> 2 * recs[Order[i]].total])
        - simulate_makespan(OtherTotals(recs, l)
                              \o <<projected_shard_seconds(recs[l], first),
                                   projected_shard_seconds(recs[l], second)>>)

\* The files of the first shard.
FirstOf(files, l, cut) ==
    IF cut.lane = l /\ Usable(files, IF cut.lane = l THEN cut.first ELSE {})
    THEN IF cut.lane = l THEN cut.first ELSE {} ELSE contiguous_halves(files)

\* The candidate's files that are there, with their seconds.
FilesLeft(recs, present) ==
    LET l == shard_candidate(recs)
    IN  Restrict(recs[l].files, existing_files(recs, l, present))

SplitFacts(p, recs, present, cut, l, files) ==
    /\ l \in Splittable(recs) /\ l # "" /\ l \in Lanes /\ l \in DOMAIN recs
    /\ Timed(files) /\ Cardinality(DOMAIN files) >= 2
    /\ DOMAIN files = DOMAIN recs[l].files \cap present
    /\ \A f \in DOMAIN files : files[f] = recs[l].files[f]
    /\ p.sharded_lane = l
    /\ p.first = FirstOf(files, l, cut)
    /\ p.second = DOMAIN files \ p.first
    /\ p.projected = <<projected_shard_seconds(recs[l], p.first),
                       projected_shard_seconds(recs[l], p.second)>>
    /\ p.gain = GainOf(recs, l, p.first, p.second)

\* The fields of a split: its lane is not the empty name, it cuts the files
\* that are there in two, and what it gains depends only on the cut.
LEMMA SplitFields ==
    ASSUME NEW recs \in Histories, NEW present, NEW cut, NEW p,
           SplitOf(p, recs, present, cut)
    PROVE  SplitFacts(p, recs, present, cut, shard_candidate(recs), FilesLeft(recs, present))
  <1> DEFINE l == shard_candidate(recs)
             known == existing_files(recs, l, present)
             files == Restrict(recs[l].files, known)
  <1>1. l \in Splittable(recs) /\ Cardinality(known) >= 2 /\ p = Split(recs, l, known, cut)
    BY DEF SplitOf
  <1> HIDE DEF l
  <1>2. l # "" /\ l \in Lanes /\ l \in DOMAIN recs
    BY <1>1, PlanningAssumption DEF Splittable
  <1>3. DOMAIN files = known /\ known = DOMAIN recs[l].files \cap present
    BY DEF existing_files, Restrict
  <1>9. \A f \in known : files[f] = recs[l].files[f]
    BY DEF Restrict
  <1>4. Timed(files)
    <2>1. Timed(recs[l].files)
      BY <1>2, RecordFacts
    <2>2. \A f \in known : files[f] = recs[l].files[f]
      BY <1>9
    <2>3. IsFiniteSet(known)
      <3>1. known \subseteq DOMAIN recs[l].files /\ IsFiniteSet(DOMAIN recs[l].files)
        BY <1>3, <2>1 DEF Timed
      <3> HIDE DEF known
      <3> QED
        BY <3>1, FS_Subset
    <2> HIDE DEF files, known
    <2> QED
      BY <1>3, <2>1, <2>2, <2>3 DEF Timed
  <1>5. p.sharded_lane = l /\ p.first = FirstOf(files, l, cut)
    BY <1>1 DEF Split, FirstOf
  <1>6. p.second = DOMAIN files \ p.first
    BY <1>1 DEF Split, Rest
  <1>7. p.projected = <<projected_shard_seconds(recs[l], p.first),
                        projected_shard_seconds(recs[l], p.second)>>
    BY <1>1 DEF Split
  <1>8. p.gain = GainOf(recs, l, p.first, p.second)
    BY <1>1 DEF Split, GainOf
  <1>10. FilesLeft(recs, present) = files /\ shard_candidate(recs) = l
    BY DEF FilesLeft, l
  <1> HIDE DEF files, known
  <1>11. SplitFacts(p, recs, present, cut, l, files)
    BY <1>1, <1>2, <1>3, <1>4, <1>5, <1>6, <1>7, <1>8, <1>9 DEF SplitFacts
  <1> QED
    BY <1>10, <1>11

\* Whatever cut was on file, both shards have something to run.
LEMMA FirstIsProper ==
    ASSUME NEW files, Timed(files), Cardinality(DOMAIN files) >= 2, NEW l, NEW cut
    PROVE  LET first == FirstOf(files, l, cut) IN
           first \in SUBSET DOMAIN files /\ first # {} /\ first # DOMAIN files
  <1>1. LET h == contiguous_halves(files) IN
        h \in SUBSET DOMAIN files /\ h # {} /\ h # DOMAIN files
    BY CutIsBestOf
  <1> QED
    BY <1>1 DEF FirstOf, Usable

-----------------------------------------------------------------------------
(* Planning over many runs *)

CutsOnFile == {NoCut} \cup [lane : Lanes, first : SUBSET Files]

PlanTypeOK ==
    /\ records \in Histories /\ existing \in Disks /\ persisted \in CutsOnFile

\* A plan is what plan_shards made of the present records, and its cut is the
\* one on file.
PlanKept ==
    plan # Whole =>
        /\ \E cut \in CutsOnFile : SplitOf(plan, records, existing, cut)
        /\ persisted = [lane |-> plan.sharded_lane, first |-> plan.first]

PlanInv == PlanTypeOK /\ PlanKept

\* A plan with a split is a split of the present records, and its cut is on file.
LEMMA ShardedPlan ==
    ASSUME PlanInv, Sharded
    PROVE  /\ \E cut \in CutsOnFile : SplitOf(plan, records, existing, cut)
           /\ persisted = [lane |-> plan.sharded_lane, first |-> plan.first]
  <1>1. plan # Whole
    <2>1. Whole.sharded_lane = ""
      BY DEF Whole
    <2> QED
      BY <2>1 DEF Sharded
  <1> QED
    BY <1>1 DEF PlanInv, PlanKept

\* The invariant holds before the first run.
LEMMA PlanInvInit ==
    ASSUME Init
    PROVE  PlanInv
  <1>1. Cuts \subseteq [lane : Lanes, first : SUBSET Files]
    BY PlanningAssumption
  <1> QED
    BY <1>1 DEF Init, PlanInv, PlanTypeOK, PlanKept, CutsOnFile

\* A run keeps the invariant.
LEMMA PlanInvRun ==
    ASSUME PlanInv, PlanRun
    PROVE  PlanInv'
  <1>1. records' = records /\ existing' = existing /\ records \in Histories /\ existing \in Disks
    BY DEF PlanRun, PlanInv, PlanTypeOK
  <1>2. persisted \in CutsOnFile
    BY DEF PlanInv, PlanTypeOK
  <1>3. plan' = plan_shards(records, existing, persisted)
    BY DEF PlanRun
  <1>4. plan' = Whole \/ SplitOf(plan', records, existing, persisted)
    BY <1>1, <1>3, PlanShape
  <1>5. CASE plan' = Whole
    <2>1. plan'.sharded_lane = ""
      BY <1>5 DEF Whole
    <2>2. persisted' = persisted
      BY <2>1 DEF PlanRun
    <2> QED
      BY <1>1, <1>2, <1>5, <2>2 DEF PlanInv, PlanTypeOK, PlanKept, CutsOnFile, NoCut, Whole
  <1>6. CASE SplitOf(plan', records, existing, persisted)
    <2> DEFINE l == shard_candidate(records)
               files == FilesLeft(records, existing)
    <2>0. SplitFacts(plan', records, existing, persisted, l, files)
      BY <1>1, <1>6, SplitFields
    <2>1. /\ l # "" /\ l \in Lanes /\ l \in DOMAIN records
          /\ Timed(files) /\ Cardinality(DOMAIN files) >= 2
          /\ DOMAIN files = DOMAIN records[l].files \cap existing
          /\ plan'.sharded_lane = l /\ plan'.first = FirstOf(files, l, persisted)
      <3> HIDE DEF l, files
      <3> QED
        BY <2>0 DEF SplitFacts
    <2>2. DOMAIN files \subseteq Files
      <3>1. LaneRecord(records[l])
        BY <1>1, <2>1, RecordFacts
      <3> HIDE DEF l, files
      <3> QED
        BY <2>1, <3>1 DEF LaneRecord
    <2> HIDE DEF l, files
    <2>3. plan'.first \subseteq Files
      BY <2>1, <2>2, FirstIsProper
    <2>4. persisted' = [lane |-> plan'.sharded_lane, first |-> plan'.first]
      BY <2>1 DEF PlanRun, persist_first_shard
    <2>5. persisted' \in CutsOnFile
      BY <2>1, <2>3, <2>4 DEF CutsOnFile
    <2>6. PlanTypeOK'
      BY <1>1, <2>5 DEF PlanTypeOK, CutsOnFile, NoCut, Lanes
    <2>7. \E cut \in CutsOnFile : SplitOf(plan', records', existing', cut)
      BY <1>1, <1>2, <1>6
    <2>8. PlanKept'
      BY <2>4, <2>7 DEF PlanKept, CutsOnFile, NoCut, Whole
    <2> QED
      BY <2>6, <2>8 DEF PlanInv
  <1> QED
    BY <1>4, <1>5, <1>6

\* Of what the clock does, only the start of a run plans.
LEMMA SchedPlans ==
    ASSUME [SchedNext]_schedVars
    PROVE  PlanRun \/ UNCHANGED vars
  BY DEF SchedNext, StartRun, Launch, Finish, schedVars

\* So does every step of the run against the clock.
LEMMA PlanInvStep ==
    ASSUME PlanInv, [SchedNext]_schedVars
    PROVE  PlanInv'
  <1>1. CASE PlanRun
    BY <1>1, PlanInvRun
  <1>2. CASE UNCHANGED vars
    BY <1>2 DEF vars, PlanInv, PlanTypeOK, PlanKept, CutsOnFile, NoCut, Whole
  <1> QED
    BY <1>1, <1>2, SchedPlans

\* A plan is always one of the present records, and its cut the one on file.
LEMMA PlanInvHolds == SchedSpec => []PlanInv
  <1>1. SchedInit => PlanInv
    BY PlanInvInit DEF SchedInit
  <1>2. PlanInv /\ [SchedNext]_schedVars => PlanInv'
    BY PlanInvStep
  <1> QED
    BY <1>1, <1>2, PTL DEF SchedSpec

-----------------------------------------------------------------------------
(* The properties of a plan *)

\* Planning again from the same records and files, with the cut on file, gives
\* the same split.
LEMMA SplitAgain ==
    ASSUME NEW recs \in Histories, NEW present, NEW cut, NEW p, SplitOf(p, recs, present, cut),
           NEW again, again = plan_shards(recs, present, [lane |-> p.sharded_lane, first |-> p.first])
    PROVE  /\ again.sharded_lane = p.sharded_lane
           /\ again.first = p.first
           /\ again.gain = p.gain
  <1> DEFINE l == shard_candidate(recs)
             known == existing_files(recs, l, present)
             files == Restrict(recs[l].files, known)
             kept == [lane |-> p.sharded_lane, first |-> p.first]
             q == Split(recs, l, known, kept)
  <1>1. /\ l \in Splittable(recs) /\ p.sharded_lane = l
        /\ p.first = FirstOf(files, l, cut)
        /\ p.second = DOMAIN files \ p.first
        /\ p.gain = GainOf(recs, l, p.first, p.second)
    <2>1. SplitFacts(p, recs, present, cut, l, files)
      BY SplitFields DEF FilesLeft
    <2> HIDE DEF l, files
    <2> QED
      BY <2>1 DEF SplitFacts
  <1>2. MayShard(recs) /\ Cardinality(known) >= 2 /\ p.gain >= 2 * ShardMinSaving
    BY DEF SplitOf
  <1>3. FirstOf(files, l, kept) = p.first
    <2>1. kept.lane = l /\ kept.first = p.first
      BY <1>1
    <2> HIDE DEF kept, files, l
    <2>2. CASE Usable(files, p.first)
      BY <2>1, <2>2 DEF FirstOf
    <2>3. CASE ~Usable(files, p.first)
      <3>1. p.first = contiguous_halves(files)
        BY <1>1, <2>3 DEF FirstOf
      <3> QED
        BY <2>1, <2>3, <3>1 DEF FirstOf
    <2> QED
      BY <2>2, <2>3
  <1>4. q.sharded_lane = l /\ q.first = FirstOf(files, l, kept)
    <2> HIDE DEF kept
    <2> QED
      BY DEF Split, FirstOf
  <1>5. q.second = DOMAIN files \ q.first
    BY DEF Split, Rest
  <1>6. q.gain = GainOf(recs, l, q.first, q.second)
    BY DEF Split, GainOf
  <1> HIDE DEF q
  <1>7. q.gain = p.gain /\ q.first = p.first /\ q.sharded_lane = p.sharded_lane
    BY <1>1, <1>3, <1>4, <1>5, <1>6
  <1>8. Splittable(recs) # {} /\ q.gain >= 2 * ShardMinSaving
    BY <1>1, <1>2, <1>7
  <1>9. again = q
    <2> HIDE DEF kept
    <2> QED
      BY <1>2, <1>8, PlanShape DEF q, kept
  <1> QED
    BY <1>7, <1>9

\* Over the life of a store and a checkout, for every number of lanes, files
\* and workers: the plan is sticky.
THEOREM StickyPlanHolds == SchedSpec => StickyPlan
  <1>1. PlanInv /\ [SchedNext]_schedVars
            => [Sharded => /\ plan'.sharded_lane = plan.sharded_lane
                           /\ plan'.first = plan.first
                           /\ plan'.gain = plan.gain]_vars
    <2> SUFFICES ASSUME PlanInv, [SchedNext]_schedVars
                 PROVE  [Sharded => /\ plan'.sharded_lane = plan.sharded_lane
                                    /\ plan'.first = plan.first
                                    /\ plan'.gain = plan.gain]_vars
      OBVIOUS
    <2>1. CASE PlanRun
      <3> SUFFICES ASSUME Sharded
                   PROVE  /\ plan'.sharded_lane = plan.sharded_lane
                          /\ plan'.first = plan.first
                          /\ plan'.gain = plan.gain
        OBVIOUS
      <3>1. PICK cut \in CutsOnFile : SplitOf(plan, records, existing, cut)
        BY ShardedPlan
      <3>2. persisted = [lane |-> plan.sharded_lane, first |-> plan.first]
        BY ShardedPlan
      <3>3. plan' = plan_shards(records, existing, [lane |-> plan.sharded_lane, first |-> plan.first])
        BY <2>1, <3>2 DEF PlanRun
      <3>4. records \in Histories
        BY DEF PlanInv, PlanTypeOK
      <3> QED
        BY <3>1, <3>3, <3>4, SplitAgain
    <2>2. CASE UNCHANGED vars
      BY <2>2
    <2> QED
      BY <2>1, <2>2, SchedPlans
  <1> QED
    BY <1>1, PlanInvHolds, PTL DEF SchedSpec, StickyPlan

-----------------------------------------------------------------------------
(* Sorting by rank *)

\* The set of pairs before orders the numbers up to n.
Orders(before, n) ==
    /\ \A i, j \in 1..n :
        /\ i # j => <<i, j>> \in before \/ <<j, i>> \in before
        /\ ~(<<i, j>> \in before /\ <<j, i>> \in before)
    /\ \A i, j, k \in 1..n : <<i, j>> \in before /\ <<j, k>> \in before => <<i, k>> \in before

Earlier(before, n, i) == {j \in 1..n : <<j, i>> \in before}

\* What is earlier has the smaller rank, and every rank is taken.
LEMMA Ranks ==
    ASSUME NEW n \in Nat, NEW before, Orders(before, n)
    PROVE  /\ \A i, j \in 1..n : <<i, j>> \in before =>
                Cardinality(Earlier(before, n, i)) < Cardinality(Earlier(before, n, j))
           /\ \A k \in 1..n : \E i \in 1..n : Cardinality(Earlier(before, n, i)) = k - 1
  <1> DEFINE E(i) == Earlier(before, n, i)
             N == 1..n
             rank == [i \in N |-> Cardinality(E(i))]
  <1>1. IsFiniteSet(N) /\ Cardinality(N) = n
    <2>1. 1 \in Int /\ n \in Int
      OBVIOUS
    <2>2. IsFiniteSet(1..n) /\ Cardinality(1..n) = IF 1 > n THEN 0 ELSE n - 1 + 1
      BY <2>1, FS_Interval
    <2> QED
      BY <2>2
  <1>2. \A i \in N : E(i) \in SUBSET N /\ i \notin E(i)
    BY DEF Earlier, Orders
  <1>3. \A i \in N : IsFiniteSet(E(i)) /\ Cardinality(E(i)) \in Nat
    <2> HIDE DEF E, N
    <2> QED
      BY <1>1, <1>2, FS_Subset, FS_CardinalityType
  <1>4. ASSUME NEW i \in N, NEW j \in N, <<i, j>> \in before
        PROVE  rank[i] < rank[j]
    <2>1. E(i) \in SUBSET E(j)
      BY <1>4 DEF Earlier, Orders
    <2>2. i \in E(j) /\ i \notin E(i)
      BY <1>2, <1>4 DEF Earlier
    <2>3. IsFiniteSet(E(j)) /\ Cardinality(E(i)) \in Nat /\ Cardinality(E(j)) \in Nat
      BY <1>3
    <2>4. rank[i] = Cardinality(E(i)) /\ rank[j] = Cardinality(E(j))
      OBVIOUS
    <2> HIDE DEF E, rank
    <2>5. Cardinality(E(i)) <= Cardinality(E(j)) /\ Cardinality(E(i)) # Cardinality(E(j))
      BY <2>1, <2>2, <2>3, FS_Subset
    <2> QED
      BY <2>3, <2>4, <2>5
  <1>5. ASSUME NEW i \in N
        PROVE  rank[i] \in 0..(n - 1)
    <2>1. E(i) \in SUBSET N /\ E(i) # N
      BY <1>2
    <2>2. rank[i] = Cardinality(E(i)) /\ Cardinality(E(i)) \in Nat
      BY <1>3
    <2> HIDE DEF E, rank, N
    <2>3. Cardinality(E(i)) <= Cardinality(N) /\ Cardinality(E(i)) # Cardinality(N)
      BY <1>1, <2>1, FS_Subset
    <2> QED
      BY <1>1, <2>2, <2>3
  <1>6. rank \in Injection(N, 0..(n - 1))
    <2>1. rank \in [N -> 0..(n - 1)]
      <3>1. rank = [i \in N |-> rank[i]]
        OBVIOUS
      <3> HIDE DEF rank
      <3> QED
        BY <1>5, <3>1
    <2>2. ASSUME NEW i \in N, NEW j \in N, rank[i] = rank[j]
          PROVE  i = j
      <3> SUFFICES ASSUME i # j
                   PROVE  FALSE
        OBVIOUS
      <3>1. <<i, j>> \in before \/ <<j, i>> \in before
        BY DEF Orders
      <3>2. rank[i] \in Int
        BY <1>5
      <3> HIDE DEF rank
      <3>3. rank[i] < rank[j] \/ rank[j] < rank[i]
        BY <1>4, <3>1
      <3> QED
        BY <2>2, <3>2, <3>3
    <2>3. DOMAIN rank = N
      OBVIOUS
    <2> HIDE DEF rank
    <2> QED
      BY <2>1, <2>2, <2>3 DEF Injection, IsInjective
  <1>7. IsFiniteSet(0..(n - 1)) /\ Cardinality(0..(n - 1)) = n
    <2> DEFINE m == n - 1
    <2>1. 0 \in Int /\ m \in Int /\ n = m + 1 /\ m >= -1
      OBVIOUS
    <2> HIDE DEF m
    <2>2. IsFiniteSet(0..m) /\ Cardinality(0..m) = IF 0 > m THEN 0 ELSE m - 0 + 1
      BY <2>1, FS_Interval
    <2>3. IsFiniteSet(0..m) /\ Cardinality(0..m) = n
      BY <2>1, <2>2
    <2> QED
      BY <2>3 DEF m
  <1>8. rank \in Surjection(N, 0..(n - 1))
    <2> HIDE DEF rank, N
    <2> QED
      BY <1>1, <1>6, <1>7, FS_Injection
  <1>9. ASSUME NEW k \in 1..n
        PROVE  \E i \in N : rank[i] = k - 1
    <2>1. k - 1 \in 0..(n - 1)
      OBVIOUS
    <2> HIDE DEF rank, N
    <2> QED
      BY <1>8, <2>1 DEF Surjection
  <1> QED
    BY <1>4, <1>9

\* sorted puts the elements of s in the order before: at says where each
\* comes from.
SortedBy(q, s, before, at) ==
    /\ at \in [1..Len(s) -> 1..Len(s)]
    /\ q = [k \in 1..Len(s) |-> s[at[k]]]
    /\ \A k, m \in 1..Len(s) : k < m => <<at[k], at[m]>> \in before
    /\ \A i \in 1..Len(s) : \E k \in 1..Len(s) : at[k] = i

\* Python's sorted puts every position in one place, and in order.
LEMMA SortedPermutes ==
    ASSUME NEW S, NEW s \in Seq(S), NEW before, Orders(before, Len(s))
    PROVE  \E at : SortedBy(sorted(s, before), s, before, at)
  <1> DEFINE n == Len(s)
             E(i) == Earlier(before, n, i)
             at == [k \in 1..n |-> CHOOSE i \in 1..n : Cardinality(E(i)) = k - 1]
  <1>0. n \in Nat
    BY LenProperties
  <1>1. sorted(s, before) = [k \in 1..n |-> s[at[k]]]
    BY DEF sorted, Earlier
  <1>2. Orders(before, n)
    OBVIOUS
  <1> HIDE DEF n
  <1>3. /\ \A i, j \in 1..n : <<i, j>> \in before => Cardinality(E(i)) < Cardinality(E(j))
        /\ \A k \in 1..n : \E i \in 1..n : Cardinality(E(i)) = k - 1
    BY <1>0, <1>2, Ranks
  <1>4. \A i \in 1..n : Cardinality(E(i)) \in Nat /\ i \notin E(i) /\ E(i) \in SUBSET (1..n)
    <2>1. IsFiniteSet(1..n)
      BY <1>0, FS_Interval
    <2>2. \A i \in 1..n : i \notin E(i) /\ E(i) \in SUBSET (1..n)
      BY <1>2 DEF Earlier, Orders
    <2> HIDE DEF E
    <2> QED
      BY <2>1, <2>2, FS_Subset, FS_CardinalityType
  <1>5. \A k \in 1..n : at[k] \in 1..n /\ Cardinality(E(at[k])) = k - 1
    <2> HIDE DEF E
    <2> QED
      BY <1>3
  <1>6. at \in [1..n -> 1..n]
    <2>1. at = [k \in 1..n |-> at[k]]
      OBVIOUS
    <2> HIDE DEF at
    <2> QED
      BY <1>5, <2>1
  <1> HIDE DEF at
  <1>7. ASSUME NEW k \in 1..n, NEW m \in 1..n, k < m
        PROVE  <<at[k], at[m]>> \in before
    <2>1. at[k] # at[m]
      <3>1. k - 1 # m - 1
        BY <1>0, <1>7
      <3> HIDE DEF E
      <3> QED
        BY <1>5, <3>1
    <2>2. ~(<<at[m], at[k]>> \in before)
      <3>1. ~(m - 1 < k - 1)
        BY <1>0, <1>7
      <3> HIDE DEF E
      <3>2. at[k] \in 1..n /\ Cardinality(E(at[k])) = k - 1 /\ at[m] \in 1..n /\ Cardinality(E(at[m])) = m - 1
        BY <1>5
      <3> QED
        BY <1>3, <3>1, <3>2
    <2> QED
      BY <1>2, <1>5, <2>1, <2>2 DEF Orders
  <1>8. ASSUME NEW i \in 1..n
        PROVE  \E k \in 1..n : at[k] = i
    <2> DEFINE k == Cardinality(E(i)) + 1
    <2>1. k \in 1..n
      <3>1. E(i) \in SUBSET (1..n) /\ i \notin E(i)
        BY <1>4
      <3>2. IsFiniteSet(1..n) /\ Cardinality(1..n) = n
        <4>1. IsFiniteSet(1..n) /\ Cardinality(1..n) = IF 1 > n THEN 0 ELSE n - 1 + 1
          BY <1>0, FS_Interval
        <4> QED
          BY <1>0, <4>1
      <3>3. E(i) # 1..n
        BY <3>1
      <3> HIDE DEF E
      <3>4. Cardinality(E(i)) <= n /\ Cardinality(E(i)) # n
        BY <3>1, <3>2, <3>3, FS_Subset
      <3> QED
        BY <1>0, <1>4, <3>4
    <2>2. Cardinality(E(at[k])) = Cardinality(E(i)) /\ at[k] \in 1..n
      <3>1. Cardinality(E(at[k])) = k - 1 /\ at[k] \in 1..n
        BY <1>5, <2>1
      <3>2. Cardinality(E(i)) \in Nat
        BY <1>4
      <3> HIDE DEF E
      <3> QED
        BY <3>1, <3>2
    <2> HIDE DEF k
    <2>3. at[k] = i
      <3> SUFFICES ASSUME at[k] # i
                   PROVE  FALSE
        OBVIOUS
      <3> DEFINE j == at[k]
      <3>1. <<i, j>> \in before \/ <<j, i>> \in before
        BY <1>2, <2>2 DEF Orders
      <3>2. Cardinality(E(j)) = Cardinality(E(i)) /\ j \in 1..n
        BY <2>2
      <3> HIDE DEF j
      <3>3. \/ Cardinality(E(i)) < Cardinality(E(j))
            \/ Cardinality(E(j)) < Cardinality(E(i))
        <4> HIDE DEF E
        <4> QED
          BY <1>3, <3>1, <3>2
      <3>4. Cardinality(E(i)) \in Int
        BY <1>4
      <3> HIDE DEF E
      <3> QED
        BY <3>2, <3>3, <3>4
    <2> QED
      BY <2>1, <2>3
  <1> QED
    BY <1>1, <1>6, <1>7, <1>8 DEF SortedBy, n

-----------------------------------------------------------------------------
(* The replay of the pool *)

\* A function on 1..n is a sequence.
LEMMA FunctionIsSeq ==
    ASSUME NEW S, NEW n \in Nat, NEW f \in [1..n -> S]
    PROVE  f \in Seq(S) /\ Len(f) = n
  <1>1. f \in Seq(S)
    BY SeqDef
  <1>2. DOMAIN f = 1..Len(f) /\ Len(f) \in Nat /\ DOMAIN f = 1..n
    BY <1>1, LenProperties
  <1> DEFINE m == Len(f)
  <1>3. m \in Nat /\ 1..m = 1..n
    BY <1>2
  <1> HIDE DEF m
  <1>4. m = n
    <2>1. \A i \in Nat : (1 <= i /\ i <= m) <=> (1 <= i /\ i <= n)
      <3>1. \A i \in Nat : i \in 1..m <=> i \in 1..n
        BY <1>3
      <3> QED
        BY <1>3, <3>1
    <2> QED
      BY <1>3, <2>1
  <1> QED
    BY <1>1, <1>4 DEF m

\* The longest first is an order.
LEMMA LongerOrders ==
    ASSUME NEW durations \in Seq(Nat)
    PROVE  Orders(Longer(durations), Len(durations))
  <1> DEFINE n == Len(durations)
  <1>1. \A i \in 1..n : durations[i] \in Nat /\ i \in Int
    BY LenProperties
  <1>2. \A i, j \in 1..n : <<i, j>> \in Longer(durations) <=>
            durations[i] > durations[j] \/ (durations[i] = durations[j] /\ i < j)
    BY DEF Longer
  <1> HIDE DEF n
  <1>3. ASSUME NEW i \in 1..n, NEW j \in 1..n
        PROVE  /\ i # j => <<i, j>> \in Longer(durations) \/ <<j, i>> \in Longer(durations)
               /\ ~(<<i, j>> \in Longer(durations) /\ <<j, i>> \in Longer(durations))
    <2> DEFINE a == durations[i]
               b == durations[j]
    <2>1. a \in Nat /\ b \in Nat /\ i \in Int /\ j \in Int
      BY <1>1
    <2>2. /\ <<i, j>> \in Longer(durations) <=> a > b \/ (a = b /\ i < j)
          /\ <<j, i>> \in Longer(durations) <=> b > a \/ (b = a /\ j < i)
      BY <1>2
    <2> HIDE DEF a, b
    <2>3. /\ i # j => (a > b \/ (a = b /\ i < j)) \/ (b > a \/ (b = a /\ j < i))
          /\ ~((a > b \/ (a = b /\ i < j)) /\ (b > a \/ (b = a /\ j < i)))
      BY <2>1
    <2> QED
      BY <2>2, <2>3
  <1>4. ASSUME NEW i \in 1..n, NEW j \in 1..n, NEW k \in 1..n,
               <<i, j>> \in Longer(durations), <<j, k>> \in Longer(durations)
        PROVE  <<i, k>> \in Longer(durations)
    <2> DEFINE a == durations[i]
               b == durations[j]
               c == durations[k]
    <2>1. /\ a \in Nat /\ b \in Nat /\ c \in Nat
          /\ i \in Int /\ j \in Int /\ k \in Int
      BY <1>1
    <2>2. /\ a > b \/ (a = b /\ i < j)
          /\ b > c \/ (b = c /\ j < k)
          /\ <<i, k>> \in Longer(durations) <=> a > c \/ (a = c /\ i < k)
      BY <1>2, <1>4
    <2> HIDE DEF a, b, c
    <2>3. a > c \/ (a = c /\ i < k)
      BY <2>1, <2>2
    <2> QED
      BY <2>2, <2>3
  <1> QED
    BY <1>3, <1>4 DEF Orders, n

\* The worker at the head of the heap exists.
LEMMA NextFreeIs ==
    ASSUME NEW ends \in Seq(Nat), Len(ends) # 0
    PROVE  /\ NextFree(ends) \in 1..Len(ends)
           /\ \A v \in 1..Len(ends) : ends[NextFree(ends)] <= ends[v]
  <1> DEFINE n == Len(ends)
             values == {ends[v] : v \in 1..n}
  <1>1. n \in Nat /\ DOMAIN ends = 1..n /\ \A v \in 1..n : ends[v] \in Nat
    BY LenProperties
  <1>2. values \in SUBSET Nat /\ ends[1] \in values
    BY <1>1
  <1>3. PICK m \in values : \A k \in values : m <= k
    <2> HIDE DEF values
    <2> QED
      BY <1>2, LeastNat
  <1>4. \E w \in DOMAIN ends : \A v \in DOMAIN ends : ends[w] <= ends[v]
    BY <1>1, <1>3
  <1> QED
    BY <1>1, <1>4 DEF NextFree

\* The heap after one more duration.
Placed(ends, d) ==
    IF Len(ends) < MaxWorkers THEN Append(ends, d)
    ELSE [ends EXCEPT ![NextFree(ends)] = @ + d]

\* What a placement does to the heap.
LEMMA PlacedIs ==
    ASSUME NEW ends \in Seq(Nat), NEW d \in Nat
    PROVE  /\ Placed(ends, d) \in Seq(Nat)
           /\ Len(Placed(ends, d)) =
                IF Len(ends) < MaxWorkers THEN Len(ends) + 1 ELSE Len(ends)
           /\ \A w \in 1..Len(ends) : ends[w] <= Placed(ends, d)[w]
           /\ \E w \in 1..Len(Placed(ends, d)) : d <= Placed(ends, d)[w]
  <1> DEFINE n == Len(ends)
             p == Placed(ends, d)
  <1>1. n \in Nat /\ \A v \in 1..n : ends[v] \in Nat
    BY LenProperties
  <1>2. CASE n < MaxWorkers
    <2>1. p = Append(ends, d)
      BY <1>2 DEF Placed
    <2>2. /\ p \in Seq(Nat) /\ Len(p) = n + 1
          /\ \A i \in 1..n : p[i] = ends[i]
          /\ p[n + 1] = d
      BY <2>1, AppendProperties
    <2> HIDE DEF p, n
    <2>3. n + 1 \in 1..Len(p) /\ d <= p[n + 1]
      BY <1>1, <2>2
    <2>4. \A w \in 1..n : ends[w] <= p[w]
      BY <1>1, <2>2
    <2> QED
      BY <1>2, <2>2, <2>3, <2>4 DEF p, n
  <1>3. CASE ~(n < MaxWorkers)
    <2>1. MaxWorkers \in Nat \ {0}
      BY PlanningAssumption
    <2>2. n # 0
      BY <1>1, <1>3, <2>1
    <2> DEFINE f == NextFree(ends)
               e == ends[f] + d
    <2>3. f \in 1..n
      BY <2>2, NextFreeIs
    <2>4. p = [ends EXCEPT ![f] = e]
      BY <1>3 DEF Placed
    <2> HIDE DEF f
    <2>5. ends[f] \in Nat
      BY <1>1, <2>3
    <2>6. e \in Nat /\ d <= e /\ ends[f] <= e
      BY <2>5
    <2> HIDE DEF e, p
    <2>7. /\ p \in Seq(Nat) /\ Len(p) = n
          /\ \A j \in 1..n : p[j] = IF j = f THEN e ELSE ends[j]
      BY <2>3, <2>4, <2>6, ExceptSeq
    <2>8. p[f] = e /\ f \in 1..Len(p)
      BY <2>3, <2>7
    <2>9. ASSUME NEW w \in 1..n
          PROVE  ends[w] <= p[w]
      <3>1. CASE w = f
        BY <2>6, <2>7, <3>1
      <3>2. CASE w # f
        <4>1. p[w] = ends[w] /\ ends[w] \in Nat
          BY <1>1, <2>7, <3>2
        <4> QED
          BY <4>1
      <3> QED
        BY <3>1, <3>2
    <2> QED
      BY <1>3, <2>6, <2>7, <2>8, <2>9 DEF p
  <1> QED
    BY <1>2, <1>3

\* heap[i] is the heap after the first i durations of q.
HeapOf(heap, q, n) ==
    /\ heap \in [0..n -> Seq(Nat)] /\ heap[0] = <<>>
    /\ \A i \in 1..n : heap[i] = Placed(heap[i - 1], q[i])

\* What simulate_makespan sorts and replays.
Replays(durations, at, q, heap) ==
    /\ q = sorted(durations, Longer(durations))
    /\ SortedBy(q, durations, Longer(durations), at)
    /\ \A k \in 1..Len(durations) : q[k] \in Nat
    /\ HeapOf(heap, q, Len(durations))
    /\ simulate_makespan(durations) =
            IF durations = <<>> THEN 0 ELSE Max(Range(heap[Len(durations)]))

\* The replay of simulate_makespan is a sequence of placements.
LEMMA ReplayExists ==
    ASSUME NEW durations \in Seq(Nat)
    PROVE  \E at, q, heap : Replays(durations, at, q, heap)
  <1> DEFINE n == Len(durations)
             q == sorted(durations, Longer(durations))
             loop(g) == [m \in 0..n |-> IF m = 0 THEN <<>> ELSE Placed(g[m - 1], q[m])]
             heap == CHOOSE g : g = loop(g)
  <1>1. n \in Nat /\ \A i \in 1..n : durations[i] \in Nat
    BY LenProperties
  <1>2. PICK at : SortedBy(q, durations, Longer(durations), at)
    BY LongerOrders, SortedPermutes
  <1>3. \A k \in 1..n : q[k] \in Nat
    <2>1. /\ at \in [1..n -> 1..n]
          /\ q = [k \in 1..n |-> durations[at[k]]]
      BY <1>2 DEF SortedBy
    <2> HIDE DEF q, n
    <2> QED
      BY <1>1, <2>1
  <1>4. simulate_makespan(durations) =
            IF durations = <<>> THEN 0 ELSE Max(Range(heap[n]))
    BY DEF simulate_makespan, Placed
  <1>0. q = sorted(durations, Longer(durations))
    OBVIOUS
  <1> HIDE DEF q
  <1> DEFINE T == Seq(Nat)
             step == [i \in 1..n |-> [r \in T |-> Placed(r, q[i])]]
  <1>5. heap = loop(heap)
    <2>1. step \in [1..n -> [T -> T]]
      <3>1. \A i \in 1..n : \A r \in T : Placed(r, q[i]) \in T
        BY <1>3, PlacedIs
      <3> HIDE DEF T, n
      <3> QED
        BY <3>1
    <2>2. <<>> \in T
      BY EmptySeq
    <2>3. PICK g : Iterates(g, T, n, <<>>, step)
      <3> HIDE DEF T, n, step
      <3> QED
        BY <1>1, <2>1, <2>2, IterationExists
    <2>4. g \in [0..n -> T] /\ g[0] = <<>> /\ \A i \in 1..n : g[i] = step[i][g[i - 1]]
      BY <2>3 DEF Iterates
    <2>5. ASSUME NEW m \in 0..n
          PROVE  g[m] = IF m = 0 THEN <<>> ELSE Placed(g[m - 1], q[m])
      <3>1. CASE m = 0
        BY <2>4, <3>1
      <3>2. CASE m # 0
        <4>1. m \in 1..n /\ m - 1 \in 0..n
          BY <1>1, <3>2
        <4>2. g[m] = step[m][g[m - 1]] /\ g[m - 1] \in T
          BY <2>4, <4>1
        <4>3. step[m][g[m - 1]] = Placed(g[m - 1], q[m])
          BY <4>1, <4>2
        <4> QED
          BY <3>2, <4>2, <4>3
      <3> QED
        BY <3>1, <3>2
    <2>6. g = [m \in 0..n |-> g[m]]
      BY <2>4
    <2>7. g = loop(g)
      <3> HIDE DEF n
      <3> QED
        BY <2>5, <2>6
    <2> HIDE DEF loop
    <2> QED
      BY <2>7
  <1>6. /\ DOMAIN heap = 0..n
        /\ \A m \in 0..n : heap[m] = IF m = 0 THEN <<>> ELSE Placed(heap[m - 1], q[m])
    <2> HIDE DEF heap, n
    <2> QED
      BY <1>5
  <1> HIDE DEF heap
  <1>7. \A i \in 1..n : heap[i] = Placed(heap[i - 1], q[i])
    <2> HIDE DEF n
    <2>1. \A i \in 1..n : i \in 0..n /\ i # 0
      BY <1>1
    <2> QED
      BY <1>6, <2>1
  <1>8. heap[0] = <<>>
    <2>1. 0 \in 0..n
      BY <1>1
    <2> HIDE DEF n
    <2> QED
      BY <1>6, <2>1
  <1>9. \A i \in 0..n : heap[i] \in Seq(Nat)
    <2> HIDE DEF n
    <2> DEFINE Failing == {i \in 0..n : heap[i] \notin Seq(Nat)}
    <2> SUFFICES ASSUME Failing # {}
                 PROVE  FALSE
      OBVIOUS
    <2>1. PICK i \in Failing : \A k \in Failing : i <= k
      <3>1. Failing \subseteq Nat
        OBVIOUS
      <3> HIDE DEF Failing
      <3> QED
        BY <3>1, LeastNat
    <2>2. i # 0
      BY <1>8, <2>1, EmptySeq
    <2>3. i \in 1..n /\ i - 1 \in 0..n /\ ~(i <= i - 1)
      BY <1>1, <2>1, <2>2
    <2>4. heap[i - 1] \in Seq(Nat)
      BY <2>1, <2>3
    <2>5. heap[i] \in Seq(Nat)
      BY <1>3, <1>7, <2>3, <2>4, PlacedIs
    <2> QED
      BY <2>1, <2>5
  <1>10. HeapOf(heap, q, n)
    <2>1. heap = [m \in 0..n |-> heap[m]]
      BY <1>5, <1>6
    <2>2. heap \in [0..n -> Seq(Nat)]
      <3> HIDE DEF n
      <3> QED
        BY <1>9, <2>1
    <2> QED
      BY <1>7, <1>8, <2>2 DEF HeapOf
  <1>11. Replays(durations, at, q, heap)
    BY <1>0, <1>2, <1>3, <1>4, <1>10 DEF Replays, heap
  <1> QED
    BY <1>11

\* A run takes at least as long as each of its lanes.
LEMMA MakespanCovers ==
    ASSUME NEW durations \in Seq(Nat)
    PROVE  /\ simulate_makespan(durations) \in Nat
           /\ \A k \in 1..Len(durations) : durations[k] <= simulate_makespan(durations)
  <1> DEFINE n == Len(durations)
  <1>1. PICK at, q, heap : Replays(durations, at, q, heap)
    BY ReplayExists
  <1>2. n \in Nat /\ \A i \in 1..n : durations[i] \in Nat
    BY LenProperties
  <1>3. /\ at \in [1..n -> 1..n] /\ q = [k \in 1..n |-> durations[at[k]]]
        /\ \A i \in 1..n : \E k \in 1..n : at[k] = i
        /\ \A k \in 1..n : q[k] \in Nat
    BY <1>1 DEF Replays, SortedBy
  <1>4. /\ heap \in [0..n -> Seq(Nat)]
        /\ \A i \in 1..n : heap[i] = Placed(heap[i - 1], q[i])
    BY <1>1 DEF Replays, HeapOf
  <1>5. simulate_makespan(durations) = IF durations = <<>> THEN 0 ELSE Max(Range(heap[n]))
    BY <1>1 DEF Replays
  <1>6. durations = <<>> <=> n = 0
    BY EmptySeq
  <1> HIDE DEF n
  <1>7. ASSUME NEW j \in 1..n
        PROVE  \E w \in 1..Len(heap[n]) : q[j] <= heap[n][w]
    <2> DEFINE Has(i) == \E w \in 1..Len(heap[i]) : q[j] <= heap[i][w]
               Failing == {i \in j..n : ~Has(i)}
    <2>1. n \in j..n /\ j \in Nat
      BY <1>2
    <2> SUFFICES ASSUME Failing # {}
                 PROVE  FALSE
      BY <2>1
    <2>2. PICK i \in Failing : \A k \in Failing : i <= k
      <3>1. Failing \subseteq Nat
        BY <2>1
      <3> HIDE DEF Failing
      <3> QED
        BY <3>1, LeastNat
    <2>3. i \in 1..n /\ i - 1 \in 0..n /\ ~(i <= i - 1) /\ j <= i
      BY <1>2, <2>1, <2>2
    <2>4. ~Has(i)
      BY <2>2
    <2> DEFINE h == heap[i - 1]
    <2>5. h \in Seq(Nat) /\ q[i] \in Nat /\ q[j] \in Nat /\ heap[i] = Placed(h, q[i])
      BY <1>3, <1>4, <2>3
    <2> HIDE DEF h
    <2>6. /\ \A w \in 1..Len(h) : h[w] <= heap[i][w]
          /\ \E w \in 1..Len(heap[i]) : q[i] <= heap[i][w]
          /\ Len(heap[i]) = IF Len(h) < MaxWorkers THEN Len(h) + 1 ELSE Len(h)
          /\ heap[i] \in Seq(Nat)
      BY <2>5, PlacedIs
    <2>7. CASE i = j
      BY <2>4, <2>6, <2>7
    <2>8. CASE i # j
      <3>1. i - 1 \in j..n /\ i - 1 \notin Failing
        <4>1. i - 1 \in j..n
          BY <1>2, <2>1, <2>3, <2>8
        <4> HIDE DEF Failing
        <4> QED
          BY <2>2, <2>3, <4>1
      <3>2. PICK w \in 1..Len(h) : q[j] <= h[w]
        BY <3>1 DEF h
      <3>3. w \in 1..Len(heap[i])
        <4>1. Len(h) \in Nat
          BY <2>5, LenProperties
        <4> QED
          BY <2>6, <4>1
      <3>4. h[w] \in Nat /\ heap[i][w] \in Nat
        BY <2>5, <2>6, <3>3, ElementOfSeq
      <3>5. q[j] <= heap[i][w]
        <4>1. h[w] <= heap[i][w]
          BY <2>6, <3>2
        <4> DEFINE a == q[j]
                   b == h[w]
                   c == heap[i][w]
        <4>2. a \in Nat /\ b \in Nat /\ c \in Nat /\ a <= b /\ b <= c
          BY <2>5, <3>2, <3>4, <4>1
        <4> HIDE DEF a, b, c
        <4>3. a <= c
          BY <4>2
        <4> QED
          BY <4>3 DEF a, c
      <3> QED
        BY <2>4, <3>3, <3>5
    <2> QED
      BY <2>7, <2>8
  <1>8. CASE n = 0
    BY <1>5, <1>6, <1>8
  <1>9. CASE n # 0
    <2> DEFINE h == heap[n]
               top == Max(Range(h))
    <2>1. h \in Seq(Nat)
      BY <1>2, <1>4
    <2> HIDE DEF h
    <2>2. Len(h) \in Nat /\ DOMAIN h = 1..Len(h) /\ \A w \in 1..Len(h) : h[w] \in Nat
      BY <2>1, LenProperties
    <2>3. Range(h) = {h[w] : w \in 1..Len(h)}
      BY <2>2 DEF Range
    <2>4. IsFiniteSet(Range(h))
      <3>1. IsFiniteSet(1..Len(h))
        BY <2>2, FS_Interval
      <3> DEFINE f == [w \in 1..Len(h) |-> h[w]]
      <3>2. f \in Surjection(1..Len(h), Range(h))
        BY <2>3 DEF Surjection
      <3> HIDE DEF f
      <3> QED
        BY <3>1, <3>2, FS_Surjection
    <2>5. \A x \in Range(h) : x \in Nat
      BY <2>2, <2>3
    <2>6. 1 \in 1..n
      BY <1>2, <1>9
    <2>7. Range(h) # {}
      BY <1>7, <2>3, <2>6 DEF h
    <2>8. top \in Range(h) /\ \A y \in Range(h) : top >= y
      <3>1. \A x \in Range(h) : x \in Int
        BY <2>5
      <3> QED
        BY <2>4, <2>7, <3>1, MaxOf
    <2> HIDE DEF top
    <2>9. simulate_makespan(durations) = top
      BY <1>5, <1>6, <1>9 DEF top, h
    <2>10. ASSUME NEW k \in 1..n
           PROVE  durations[k] <= top
      <3>1. PICK j \in 1..n : at[j] = k
        BY <1>3
      <3>2. q[j] = durations[k]
        BY <1>3, <3>1
      <3>3. PICK w \in 1..Len(h) : q[j] <= h[w]
        BY <1>7 DEF h
      <3>4. h[w] \in Range(h) /\ h[w] \in Nat /\ top \in Nat
        BY <2>2, <2>3, <2>5, <2>8, <3>3
      <3>5. h[w] <= top
        BY <2>8, <3>4
      <3> QED
        BY <1>2, <3>2, <3>3, <3>4, <3>5
    <2> QED
      BY <2>5, <2>8, <2>9, <2>10 DEF n
  <1> QED
    BY <1>8, <1>9 DEF n

-----------------------------------------------------------------------------
(* The properties of the plan that is followed *)

\* The files of a record that are still there have their seconds.
LEMMA KnownIsTimed ==
    ASSUME records \in Histories, NEW l \in DOMAIN records
    PROVE  Timed(Known(l)) /\ DOMAIN Known(l) = DOMAIN records[l].files \cap existing
  <1> DEFINE D == DOMAIN records[l].files \cap existing
             files == Known(l)
  <1>1. Timed(records[l].files)
    BY RecordFacts
  <1>2. DOMAIN files = D /\ \A f \in D : files[f] = records[l].files[f]
    BY DEF Known, Restrict
  <1> HIDE DEF files
  <1>3. D \in SUBSET DOMAIN records[l].files
    OBVIOUS
  <1>4. IsFiniteSet(D)
    <2> HIDE DEF D
    <2> QED
      BY <1>1, <1>3, FS_Subset DEF Timed
  <1> HIDE DEF D
  <1>5. Timed(files)
    BY <1>1, <1>2, <1>3, <1>4 DEF Timed
  <1> QED
    BY <1>2, <1>5 DEF files, D

\* Whatever is recorded and on disk, contiguous_halves finds the first of the
\* most even cuts.
THEOREM CutIsBestHolds == SchedSpec => []CutIsBest
  <1>1. PlanInv => CutIsBest
    <2> SUFFICES ASSUME PlanInv
                 PROVE  CutIsBest
      OBVIOUS
    <2>1. records \in Histories
      BY DEF PlanInv, PlanTypeOK
    <2>2. ASSUME NEW l \in DOMAIN records, NEW files, files = Known(l),
                 NEW h, h = contiguous_halves(files), Cardinality(DOMAIN files) >= 2
          PROVE  /\ h # {} /\ h # DOMAIN files
                 /\ \A f \in DOMAIN files \ {Max(DOMAIN files)} :
                    LET other == UpTo(files, f) IN
                    \/ h \subseteq other /\ Imbalance(files, h) <= Imbalance(files, other)
                    \/ other \subseteq h /\ Imbalance(files, h) < Imbalance(files, other)
                    \/ h = other
      <3>1. Timed(files)
        BY <2>1, <2>2, KnownIsTimed
      <3> QED
        BY <2>2, <3>1, CutIsBestOf
    <2> QED
      BY <2>2 DEF CutIsBest
  <1> QED
    BY <1>1, PlanInvHolds, PTL

\* Whatever cut was on file, the shards of every plan partition the recorded
\* files that are left.
THEOREM HalvesPartitionHolds == SchedSpec => []HalvesPartition
  <1>1. PlanInv => HalvesPartition
    <2> SUFFICES ASSUME PlanInv, Sharded
                 PROVE  /\ plan.first \cup plan.second = DOMAIN Known(plan.sharded_lane)
                        /\ plan.first \cap plan.second = {}
                        /\ plan.first # {} /\ plan.second # {}
      BY DEF HalvesPartition
    <2>1. records \in Histories
      BY DEF PlanInv, PlanTypeOK
    <2>2. PICK cut \in CutsOnFile : SplitOf(plan, records, existing, cut)
      BY ShardedPlan
    <2> DEFINE l == shard_candidate(records)
               files == FilesLeft(records, existing)
    <2>3. SplitFacts(plan, records, existing, cut, l, files)
      BY <2>1, <2>2, SplitFields
    <2> HIDE DEF l, files
    <2>4. /\ l \in DOMAIN records /\ plan.sharded_lane = l
          /\ Timed(files) /\ Cardinality(DOMAIN files) >= 2
          /\ DOMAIN files = DOMAIN records[l].files \cap existing
          /\ plan.first = FirstOf(files, l, cut) /\ plan.second = DOMAIN files \ plan.first
      BY <2>3 DEF SplitFacts
    <2>5. LET first == FirstOf(files, l, cut) IN
          first \in SUBSET DOMAIN files /\ first # {} /\ first # DOMAIN files
      BY <2>4, FirstIsProper
    <2>6. DOMAIN Known(l) = DOMAIN files
      BY <2>1, <2>4, KnownIsTimed
    <2>7. plan.first \in SUBSET DOMAIN files /\ plan.first # {} /\ plan.first # DOMAIN files
      BY <2>4, <2>5
    <2> QED
      BY <2>4, <2>6, <2>7
  <1> QED
    BY <1>1, PlanInvHolds, PTL

\* What both shards pay, in numbers.
LEMMA FixedIs ==
    ASSUME NEW r, r.total \in Nat, r.startup \in Nat, r.collect \in Nat, Timed(r.files),
           NEW tests, tests = Seconds(r.files, DOMAIN r.files)
    PROVE  /\ tests \in Nat /\ Fixed(r) \in Nat
           /\ Fixed(r) = 2 * (r.startup + r.collect)
                            + (IF r.total >= r.startup + r.collect + tests
                               THEN r.total - (r.startup + r.collect + tests) ELSE 0)
           /\ Max({r.total, r.startup + r.collect + tests})
                = IF r.total >= r.startup + r.collect + tests
                  THEN r.total ELSE r.startup + r.collect + tests
  <1> DEFINE t == r.total
             s == r.startup
             c == r.collect
             k == s + c + tests
  <1>1. tests \in Nat
    BY SecondsType
  <1>2. t \in Nat /\ s \in Nat /\ c \in Nat
    OBVIOUS
  <1>3. Fixed(r) = 2 * (s + c) + Max({t - k, 0})
    BY DEF Fixed
  <1> HIDE DEF t, s, c
  <1>4. k \in Nat /\ t - k \in Int
    BY <1>1, <1>2
  <1> HIDE DEF k
  <1>5. Max({t - k, 0}) = IF t - k >= 0 THEN t - k ELSE 0
    BY <1>4, MaxOfTwo
  <1>6. Max({t, k}) = IF t >= k THEN t ELSE k
    BY <1>2, <1>4, MaxOfTwo
  <1>7. Fixed(r) \in Nat /\ Fixed(r) = 2 * (s + c) + (IF t >= k THEN t - k ELSE 0)
    BY <1>2, <1>3, <1>4, <1>5
  <1> QED
    BY <1>1, <1>6, <1>7 DEF t, s, c, k

\* The shards of every plan are charged the whole of the lane's time, less the
\* files that are gone, and its startup and collection once more.
THEOREM ShardsPayFixedTwiceHolds == SchedSpec => []ShardsPayFixedTwice
  <1>1. PlanInv => ShardsPayFixedTwice
    <2> SUFFICES ASSUME PlanInv, Sharded
                 PROVE  LET r == records[plan.sharded_lane]
                            tests == Seconds(r.files, DOMAIN r.files)
                            gone == Seconds(r.files, DOMAIN r.files \ existing)
                        IN  plan.projected[1] + plan.projected[2] + 2 * gone
                                = 2 * Max({r.total, r.startup + r.collect + tests})
                                    + 2 * (r.startup + r.collect)
      BY DEF ShardsPayFixedTwice
    <2>1. records \in Histories
      BY DEF PlanInv, PlanTypeOK
    <2>2. PICK cut \in CutsOnFile : SplitOf(plan, records, existing, cut)
      BY ShardedPlan
    <2> DEFINE l == shard_candidate(records)
               files == FilesLeft(records, existing)
               r == records[l]
               D == DOMAIN r.files
               tests == Seconds(r.files, D)
               gone == Seconds(r.files, D \ existing)
               one == Seconds(r.files, plan.first)
               two == Seconds(r.files, plan.second)
               left == Seconds(r.files, D \cap existing)
               s == r.startup
               c == r.collect
               t == r.total
    <2>3. SplitFacts(plan, records, existing, cut, l, files)
      BY <2>1, <2>2, SplitFields
    <2> HIDE DEF l, files
    <2>4. /\ l \in DOMAIN records /\ plan.sharded_lane = l
          /\ Timed(files) /\ Cardinality(DOMAIN files) >= 2
          /\ DOMAIN files = D \cap existing
          /\ plan.first = FirstOf(files, l, cut) /\ plan.second = DOMAIN files \ plan.first
          /\ plan.projected = <<projected_shard_seconds(r, plan.first),
                                projected_shard_seconds(r, plan.second)>>
      BY <2>3 DEF SplitFacts
    <2>5. plan.first \in SUBSET (D \cap existing)
      <3>1. LET first == FirstOf(files, l, cut) IN
            first \in SUBSET DOMAIN files /\ first # {} /\ first # DOMAIN files
        BY <2>4, FirstIsProper
      <3> QED
        BY <2>4, <3>1
    <2>6. t \in Nat /\ s \in Nat /\ c \in Nat /\ Timed(r.files)
      BY <2>1, <2>4, RecordFacts
    <2>7. tests = left + gone
      <3>1. IsFiniteSet(D) /\ \A f \in D : r.files[f] \in Int
        BY <2>6 DEF Timed
      <3>2. D \cap existing \in SUBSET D /\ D \ (D \cap existing) = D \ existing
        OBVIOUS
      <3>3. SumFunctionOnSet(r.files, D) = SumFunctionOnSet(r.files, D \cap existing)
                + SumFunctionOnSet(r.files, D \ (D \cap existing))
        <4> DEFINE f == r.files
                   R == D \cap existing
        <4> HIDE DEF f, R, D
        <4> QED
          BY <3>1, <3>2, SumSplit DEF f, R
      <3> QED
        BY <3>2, <3>3 DEF Seconds
    <2>8. left = one + two
      <3>1. IsFiniteSet(D \cap existing) /\ \A f \in D \cap existing : r.files[f] \in Int
        BY <2>4, <2>6 DEF Timed
      <3>2. plan.second = (D \cap existing) \ plan.first
        BY <2>4
      <3>3. SumFunctionOnSet(r.files, D \cap existing) = SumFunctionOnSet(r.files, plan.first)
                + SumFunctionOnSet(r.files, (D \cap existing) \ plan.first)
        <4> DEFINE f == r.files
                   R == D \cap existing
                   h == plan.first
        <4> HIDE DEF f, R, h
        <4> QED
          BY <2>5, <3>1, SumSplit DEF f, R, h
      <3> QED
        BY <3>2, <3>3 DEF Seconds
    <2>9. gone \in Nat /\ one \in Nat /\ two \in Nat /\ left \in Nat
      <3>1. D \ existing \in SUBSET D /\ D \cap existing \in SUBSET D
            /\ plan.first \in SUBSET D /\ plan.second \in SUBSET D
        BY <2>4, <2>5
      <3> HIDE DEF r
      <3> QED
        BY <2>6, <3>1, SecondsType
    <2>10. plan.projected[1] = Fixed(r) + 2 * one /\ plan.projected[2] = Fixed(r) + 2 * two
      BY <2>4 DEF projected_shard_seconds
    <2> DEFINE k == s + c + tests
    <2>11. /\ tests \in Nat /\ Fixed(r) \in Nat
           /\ Fixed(r) = 2 * (s + c) + (IF t >= k THEN t - k ELSE 0)
           /\ Max({t, k}) = IF t >= k THEN t ELSE k
      BY <2>6, FixedIs
    <2> DEFINE F == Fixed(r)
               M == Max({t, k})
    <2>12. /\ F \in Nat /\ F = 2 * (s + c) + (IF t >= k THEN t - k ELSE 0)
           /\ M = IF t >= k THEN t ELSE k
           /\ k = s + c + tests /\ tests \in Nat
      BY <2>11
    <2>13. r = records[plan.sharded_lane]
      BY <2>4
    <2>14. plan.projected[1] + plan.projected[2] + 2 * gone = F + 2 * one + (F + 2 * two) + 2 * gone
      BY <2>10
    <2>15. F + 2 * one + (F + 2 * two) + 2 * gone = 2 * M + 2 * (s + c)
      <3> HIDE DEF F, M, k, s, c, t, one, two, left, gone, tests
      <3>1. tests = one + two + gone
        BY <2>7, <2>8
      <3> QED
        BY <2>6, <2>9, <2>12, <3>1
    <2>16. plan.projected[1] + plan.projected[2] + 2 * gone
                = 2 * Max({r.total, r.startup + r.collect + tests}) + 2 * (r.startup + r.collect)
      BY <2>14, <2>15
    <2> HIDE DEF r
    <2> QED
      BY <2>13, <2>16
  <1> QED
    BY <1>1, PlanInvHolds, PTL

\* Leaving out one lane leaves all the others.
LEMMA OthersRemain ==
    ASSUME NEW l \in Lanes, NEW others, others = RemoveAt(Order, DeclaredAt(l))
    PROVE  /\ others \in Seq(Lanes)
           /\ \A k \in Lanes \ {l} : \E i \in 1..Len(others) : others[i] = k
  <1> DEFINE n == Len(Order)
             d == DeclaredAt(l)
             a == SubSeq(Order, 1, d - 1)
             b == SubSeq(Order, d + 1, n)
  <1>1. Order \in Seq(Lanes) /\ n \in Nat /\ DOMAIN Order = 1..n
        /\ \A i \in 1..n : Order[i] \in Lanes
    BY PlanningAssumption, LenProperties
  <1>2. d \in 1..n /\ Order[d] = l
    BY <1>1, Declared
  <1>3. others = a \o b
    BY DEF RemoveAt
  <1> HIDE DEF d, n
  <1>4. /\ a \in Seq(Lanes) /\ Len(a) = d - 1
        /\ \A i \in 1..(d - 1) : a[i] = Order[i]
    <2> DEFINE m == d - 1
    <2>1. 1 \in Int /\ m \in Int /\ m >= 0
      BY <1>1, <1>2
    <2>2. \A i \in 1..m : Order[i] \in Lanes
      BY <1>1, <1>2
    <2>3. a = SubSeq(Order, 1, m)
      OBVIOUS
    <2> HIDE DEF m, a
    <2>4. /\ a \in Seq(Lanes) /\ Len(a) = IF 1 <= m THEN m - 1 + 1 ELSE 0
          /\ \A i \in 1..(m - 1 + 1) : a[i] = Order[1 + i - 1]
      BY <2>1, <2>2, <2>3, SubSeqProperties
    <2>5. Len(a) = m /\ \A i \in 1..m : a[i] = Order[i]
      BY <2>1, <2>4
    <2> QED
      BY <2>4, <2>5 DEF m
  <1>5. /\ b \in Seq(Lanes) /\ Len(b) = n - d
        /\ \A i \in 1..(n - d) : b[i] = Order[d + i]
    <2> DEFINE m == d + 1
    <2>1. m \in Int /\ n \in Int /\ m <= n + 1 /\ m = d + 1 /\ d \in Int
      BY <1>1, <1>2
    <2>2. \A i \in m..n : Order[i] \in Lanes
      BY <1>1, <1>2
    <2>3. b = SubSeq(Order, m, n)
      OBVIOUS
    <2> HIDE DEF m, b
    <2>4. /\ b \in Seq(Lanes) /\ Len(b) = IF m <= n THEN n - m + 1 ELSE 0
          /\ \A i \in 1..(n - m + 1) : b[i] = Order[m + i - 1]
      BY <2>1, <2>2, <2>3, SubSeqProperties
    <2>5. Len(b) = n - d /\ n - m + 1 = n - d
      BY <2>1, <2>4
    <2>6. ASSUME NEW i \in 1..(n - d)
          PROVE  b[i] = Order[d + i]
      <3>1. m + i - 1 = d + i
        BY <2>1
      <3> QED
        BY <2>4, <2>5, <3>1
    <2> QED
      BY <2>4, <2>5, <2>6
  <1> HIDE DEF a, b
  <1>6. /\ others \in Seq(Lanes) /\ Len(others) = Len(a) + Len(b)
        /\ \A i \in 1..(Len(a) + Len(b)) :
                others[i] = IF i <= Len(a) THEN a[i] ELSE b[i - Len(a)]
    BY <1>3, <1>4, <1>5, ConcatProperties
  <1>7. ASSUME NEW k \in Lanes \ {l}
        PROVE  \E i \in 1..Len(others) : others[i] = k
    <2>1. PICK j \in 1..n : Order[j] = k
      <3>1. \E j \in DOMAIN Order : Order[j] = k
        BY DEF Lanes, Range
      <3> QED
        BY <1>1, <3>1
    <2>2. j # d
      BY <1>2, <2>1
    <2>3. CASE j < d
      <3>1. j \in 1..(d - 1) /\ j \in 1..Len(others) /\ j \in 1..(Len(a) + Len(b)) /\ j <= Len(a)
        BY <1>1, <1>2, <1>4, <1>5, <1>6, <2>3
      <3>2. others[j] = a[j] /\ a[j] = Order[j]
        BY <1>4, <1>6, <3>1
      <3> QED
        BY <2>1, <3>1, <3>2
    <2>4. CASE d < j
      <3> DEFINE i == j - 1
      <3>1. /\ i \in 1..Len(others) /\ i \in 1..(Len(a) + Len(b)) /\ ~(i <= Len(a))
            /\ i - Len(a) \in 1..(n - d) /\ d + (i - Len(a)) = j
        BY <1>1, <1>2, <1>4, <1>5, <1>6, <2>4
      <3> HIDE DEF i
      <3>2. others[i] = b[i - Len(a)] /\ b[i - Len(a)] = Order[d + (i - Len(a))]
        BY <1>5, <1>6, <3>1
      <3>3. others[i] = k
        BY <2>1, <3>1, <3>2
      <3> QED
        BY <3>1, <3>3
    <2> QED
      BY <1>2, <2>1, <2>2, <2>3, <2>4
  <1> QED
    BY <1>6, <1>7

\* A split is planned only if each of its parts would end shard_min_saving
\* before the unsplit run.
THEOREM WorthSplittingHolds == SchedSpec => []WorthSplitting
  <1>1. PlanInv => WorthSplitting
    <2> SUFFICES ASSUME PlanInv, Sharded
                 PROVE  LET whole == simulate_makespan([i \in DOMAIN Order |-> Total(Order[i])])
                            parts == Range(plan.projected)
                                \cup {Total(k) : k \in Lanes \ {plan.sharded_lane}}
                        IN  \A t \in parts : t + 2 * ShardMinSaving <= whole
      BY DEF WorthSplitting
    <2>1. records \in Histories
      BY DEF PlanInv, PlanTypeOK
    <2>2. PICK cut \in CutsOnFile : SplitOf(plan, records, existing, cut)
      BY ShardedPlan
    <2> DEFINE l == shard_candidate(records)
               files == FilesLeft(records, existing)
               r == records[l]
               whole == simulate_makespan([i \in DOMAIN Order |-> Total(Order[i])])
               others == RemoveAt(Order, DeclaredAt(l))
               totals == OtherTotals(records, l)
               p == plan.projected
               all == totals \o p
    <2>3. SplitFacts(plan, records, existing, cut, l, files)
      BY <2>1, <2>2, SplitFields
    <2>4. Lanes \subseteq DOMAIN records /\ plan.gain >= 2 * ShardMinSaving
      BY <2>2 DEF SplitOf, MayShard
    <2> HIDE DEF l, files
    <2>5. /\ l \in DOMAIN records /\ l \in Lanes /\ plan.sharded_lane = l
          /\ Timed(files) /\ Cardinality(DOMAIN files) >= 2
          /\ DOMAIN files = DOMAIN r.files \cap existing
          /\ plan.first = FirstOf(files, l, cut) /\ plan.second = DOMAIN files \ plan.first
          /\ p = <<projected_shard_seconds(r, plan.first), projected_shard_seconds(r, plan.second)>>
          /\ plan.gain = GainOf(records, l, plan.first, plan.second)
      BY <2>3 DEF SplitFacts
    <2>6. plan.gain = whole - simulate_makespan(all)
      BY <2>5 DEF GainOf, Total
    <2>7. \A k \in Lanes : records[k].total \in Nat
      BY <2>1, <2>4, RecordFacts
    <2>8. p \in Seq(Nat) /\ Len(p) = 2
      <3>1. plan.first \in SUBSET DOMAIN r.files /\ plan.second \in SUBSET DOMAIN r.files
        <4>1. LET first == FirstOf(files, l, cut) IN
              first \in SUBSET DOMAIN files /\ first # {} /\ first # DOMAIN files
          BY <2>5, FirstIsProper
        <4> QED
          BY <2>5, <4>1
      <3>2. Timed(r.files) /\ r.total \in Nat /\ r.startup \in Nat /\ r.collect \in Nat
        BY <2>1, <2>5, RecordFacts
      <3>3. Fixed(r) \in Nat
        BY <3>2, FixedIs
      <3>4. Seconds(r.files, plan.first) \in Nat /\ Seconds(r.files, plan.second) \in Nat
        <4> HIDE DEF r
        <4> QED
          BY <3>1, <3>2, SecondsType
      <3>5. /\ projected_shard_seconds(r, plan.first) \in Nat
            /\ projected_shard_seconds(r, plan.second) \in Nat
        BY <3>3, <3>4 DEF projected_shard_seconds
      <3> QED
        BY <2>5, <3>5
    <2>9. /\ others \in Seq(Lanes)
          /\ \A k \in Lanes \ {l} : \E i \in 1..Len(others) : others[i] = k
      BY <2>5, OthersRemain
    <2>10. /\ totals \in Seq(Nat) /\ Len(totals) = Len(others)
           /\ \A i \in 1..Len(others) : totals[i] = 2 * records[others[i]].total
      <3>1. totals = [i \in DOMAIN others |-> 2 * records[others[i]].total]
        BY DEF OtherTotals
      <3>2. /\ Len(others) \in Nat /\ DOMAIN others = 1..Len(others)
            /\ \A i \in 1..Len(others) : others[i] \in Lanes
        BY <2>9, LenProperties
      <3> DEFINE m == Len(others)
      <3> HIDE DEF totals, others
      <3>3. \A i \in 1..m : 2 * records[others[i]].total \in Nat
        BY <2>7, <3>2
      <3>4. totals \in [1..m -> Nat]
        BY <3>1, <3>2, <3>3
      <3>5. m \in Nat
        BY <3>2
      <3> HIDE DEF m
      <3>6. totals \in Seq(Nat) /\ Len(totals) = m
        BY <3>4, <3>5, FunctionIsSeq
      <3> QED
        BY <3>1, <3>2, <3>6 DEF m
    <2> HIDE DEF others, totals, p
    <2>11. /\ all \in Seq(Nat) /\ Len(all) = Len(totals) + Len(p)
           /\ \A i \in 1..(Len(totals) + Len(p)) :
                all[i] = IF i <= Len(totals) THEN totals[i] ELSE p[i - Len(totals)]
      <3>1. totals \in Seq(Nat) /\ p \in Seq(Nat)
        BY <2>8, <2>10
      <3>2. /\ totals \o p \in Seq(Nat) /\ Len(totals \o p) = Len(totals) + Len(p)
            /\ \A i \in 1..(Len(totals) + Len(p)) :
                 (totals \o p)[i] = IF i <= Len(totals) THEN totals[i] ELSE p[i - Len(totals)]
        BY <3>1, ConcatProperties
      <3> QED
        BY <3>2
    <2>12. Len(totals) \in Nat
      BY <2>10, LenProperties
    <2> HIDE DEF all
    <2>13. /\ simulate_makespan(all) \in Nat
           /\ \A k \in 1..Len(all) : all[k] <= simulate_makespan(all)
      BY <2>11, MakespanCovers
    <2>14. whole \in Nat
      <3> DEFINE whole_totals == [i \in DOMAIN Order |-> Total(Order[i])]
                 n == Len(Order)
      <3>1. n \in Nat /\ DOMAIN Order = 1..n /\ \A i \in 1..n : Order[i] \in Lanes
        BY PlanningAssumption, LenProperties
      <3> HIDE DEF n
      <3>2. whole_totals \in [1..n -> Nat]
        BY <2>7, <3>1 DEF Total
      <3> HIDE DEF whole_totals
      <3>3. whole_totals \in Seq(Nat)
        BY <3>1, <3>2, FunctionIsSeq
      <3>4. simulate_makespan(whole_totals) \in Nat
        BY <3>3, MakespanCovers
      <3> QED
        BY <3>4 DEF whole_totals
    <2> HIDE DEF whole
    <2>15. ShardMinSaving \in Nat
      BY PlanningAssumption
    <2>16. ASSUME NEW k \in 1..Len(all)
           PROVE  all[k] + 2 * ShardMinSaving <= whole
      <3> DEFINE a == all[k]
                 m == simulate_makespan(all)
                 saved == 2 * ShardMinSaving
      <3>1. a \in Nat /\ m \in Nat /\ a <= m /\ plan.gain = whole - m /\ plan.gain >= saved
        BY <2>4, <2>6, <2>11, <2>13, ElementOfSeq
      <3>2. saved \in Nat
        BY <2>15
      <3> HIDE DEF a, m, saved
      <3>3. a + saved <= whole
        BY <2>14, <3>1, <3>2
      <3> QED
        BY <3>3 DEF a, saved
    <2>17. ASSUME NEW t \in Range(p)
           PROVE  \E k \in 1..Len(all) : all[k] = t
      <3>1. PICK i \in 1..2 : t = p[i]
        <4>1. DOMAIN p = 1..2
          BY <2>8, LenProperties
        <4> QED
          BY <4>1 DEF Range
      <3> DEFINE k == Len(totals) + i
      <3>2. k \in 1..Len(all) /\ k \in 1..(Len(totals) + Len(p)) /\ ~(k <= Len(totals))
            /\ k - Len(totals) = i
        BY <2>8, <2>11, <2>12
      <3> HIDE DEF k
      <3>3. all[k] = p[i]
        BY <2>11, <3>2
      <3> QED
        BY <3>1, <3>2, <3>3
    <2>18. ASSUME NEW j \in Lanes \ {l}
           PROVE  \E k \in 1..Len(all) : all[k] = Total(j)
      <3>1. PICK i \in 1..Len(others) : others[i] = j
        BY <2>9
      <3>2. i \in 1..Len(all) /\ i \in 1..(Len(totals) + Len(p)) /\ i <= Len(totals)
        BY <2>8, <2>10, <2>11, <2>12
      <3>3. all[i] = totals[i] /\ totals[i] = Total(j)
        BY <2>10, <2>11, <3>1, <3>2 DEF Total
      <3> QED
        BY <3>2, <3>3
    <2>19. ASSUME NEW t \in Range(p) \cup {Total(k) : k \in Lanes \ {plan.sharded_lane}}
           PROVE  t + 2 * ShardMinSaving <= whole
      <3>1. \E k \in 1..Len(all) : all[k] = t
        BY <2>5, <2>17, <2>18
      <3> QED
        BY <2>16, <3>1
    <2> QED
      BY <2>19 DEF whole, p
  <1> QED
    BY <1>1, PlanInvHolds, PTL

-----------------------------------------------------------------------------
(* The jobs of a plan *)

\* A sequence of one element.
LEMMA OneElement ==
    ASSUME NEW S, NEW x \in S
    PROVE  <<x>> \in Seq(S) /\ Len(<<x>>) = 1 /\ <<x>>[1] = x
  OBVIOUS

\* Two sequences without repetitions that have nothing in common have none
\* together.
LEMMA ConcatInjective ==
    ASSUME NEW S, NEW a \in Seq(S), NEW b \in Seq(S), IsInjective(a), IsInjective(b),
           \A i \in 1..Len(a), j \in 1..Len(b) : a[i] # b[j]
    PROVE  IsInjective(a \o b)
  <1> DEFINE m == Len(a)
             n == Len(b)
             c == a \o b
  <1>1. /\ m \in Nat /\ n \in Nat
        /\ DOMAIN a = 1..m /\ DOMAIN b = 1..n
    BY LenProperties
  <1>2. /\ c \in Seq(S) /\ Len(c) = m + n
        /\ \A i \in 1..(m + n) : c[i] = IF i <= m THEN a[i] ELSE b[i - m]
    BY ConcatProperties
  <1>3. DOMAIN c = 1..(m + n)
    BY <1>2, LenProperties
  <1>4. \A i \in 1..m, j \in 1..n : a[i] # b[j]
    OBVIOUS
  <1> HIDE DEF m, n, c
  <1>5. ASSUME NEW i \in 1..(m + n), NEW j \in 1..(m + n), c[i] = c[j]
        PROVE  i = j
    <2>1. CASE i <= m /\ j <= m
      <3>1. i \in 1..m /\ j \in 1..m /\ a[i] = a[j]
        BY <1>1, <1>2, <1>5, <2>1
      <3> QED
        BY <1>1, <3>1 DEF IsInjective
    <2>2. CASE i <= m /\ ~(j <= m)
      <3>1. i \in 1..m /\ j - m \in 1..n /\ a[i] = b[j - m]
        BY <1>1, <1>2, <1>5, <2>2
      <3> QED
        BY <1>4, <3>1
    <2>3. CASE ~(i <= m) /\ j <= m
      <3>1. j \in 1..m /\ i - m \in 1..n /\ a[j] = b[i - m]
        BY <1>1, <1>2, <1>5, <2>3
      <3> QED
        BY <1>4, <3>1
    <2>4. CASE ~(i <= m) /\ ~(j <= m)
      <3>1. i - m \in 1..n /\ j - m \in 1..n /\ b[i - m] = b[j - m]
        BY <1>1, <1>2, <1>5, <2>4
      <3>2. i - m = j - m
        BY <1>1, <3>1 DEF IsInjective
      <3> QED
        BY <1>1, <3>2
    <2> QED
      BY <2>1, <2>2, <2>3, <2>4
  <1> QED
    BY <1>3, <1>5 DEF IsInjective, c

\* flat[i] are the first i sequences in one.
Flattens(flat, seqs, S) ==
    /\ flat \in [0..Len(seqs) -> Seq(S)] /\ flat[0] = <<>>
    /\ \A i \in 1..Len(seqs) : flat[i] = flat[i - 1] \o seqs[i]
    /\ FlattenSeq(seqs) = flat[Len(seqs)]

\* There are such sequences: FlattenSeq joins one sequence after the other.
LEMMA FlattenExists ==
    ASSUME NEW S, NEW seqs \in Seq(Seq(S))
    PROVE  \E flat : Flattens(flat, seqs, S)
  <1> DEFINE T == Seq(S)
             n == Len(seqs)
             step == [i \in 1..n |-> [r \in T |-> r \o seqs[i]]]
             loop(g) == [i \in 1..n |-> IF i = 1 THEN seqs[i] ELSE g[i - 1] \o seqs[i]]
  <1>1. n \in Nat /\ DOMAIN seqs = 1..n /\ \A i \in 1..n : seqs[i] \in T
    BY LenProperties
  <1>2. <<>> \in T
    BY EmptySeq
  <1>3. step \in [1..n -> [T -> T]]
    <2>1. \A i \in 1..n : \A r \in T : r \o seqs[i] \in T
      BY <1>1, ConcatProperties
    <2> HIDE DEF T, n
    <2> QED
      BY <2>1
  <1>4. PICK f : Iterates(f, T, n, <<>>, step)
    <2> HIDE DEF T, n, step
    <2> QED
      BY <1>1, <1>2, <1>3, IterationExists
  <1>5. f \in [0..n -> T] /\ f[0] = <<>> /\ \A i \in 1..n : f[i] = step[i][f[i - 1]]
    BY <1>4 DEF Iterates
  <1>6. ASSUME NEW i \in 1..n
        PROVE  f[i] = f[i - 1] \o seqs[i] /\ f[i - 1] \in T
    <2>1. i - 1 \in 0..n
      BY <1>1
    <2>2. f[i - 1] \in T /\ f[i] = step[i][f[i - 1]]
      BY <1>5, <2>1
    <2> HIDE DEF T, n
    <2> QED
      BY <2>2
  <1>7. CASE n = 0
    <2>1. seqs = <<>>
      BY <1>7, EmptySeq
    <2>2. FlattenSeq(seqs) = seqs
      BY <1>7 DEF FlattenSeq
    <2>3. FlattenSeq(seqs) = f[n]
      BY <1>5, <1>7, <2>1, <2>2
    <2> QED
      BY <1>5, <1>6, <2>3 DEF Flattens
  <1>8. CASE n # 0
    <2> DEFINE loops == CHOOSE g : g = loop(g)
    <2>1. FlattenSeq(seqs) = loops[n]
      BY <1>8 DEF FlattenSeq
    <2> DEFINE h == [i \in 1..n |-> f[i]]
    <2>2. ASSUME NEW i \in 1..n
          PROVE  h[i] = IF i = 1 THEN seqs[i] ELSE h[i - 1] \o seqs[i]
      <3>1. CASE i = 1
        <4>1. f[1] = <<>> \o seqs[1]
          <5>1. f[i] = f[i - 1] \o seqs[i]
            BY <1>6
          <5>2. i - 1 = 0 /\ i = 1
            BY <3>1
          <5>3. f[i] = f[0] \o seqs[i]
            BY <5>1, <5>2
          <5> QED
            BY <1>5, <5>2, <5>3
        <4>2. seqs[1] \in Seq(S)
          BY <1>1, <3>1
        <4>3. f[1] = seqs[1]
          BY <4>1, <4>2, ConcatEmptySeq
        <4> QED
          BY <3>1, <4>3
      <3>2. CASE i # 1
        <4>1. i - 1 \in 1..n
          BY <1>1, <3>2
        <4> HIDE DEF n
        <4> QED
          BY <1>6, <3>2, <4>1
      <3> QED
        BY <3>1, <3>2
    <2>3. h = loop(h)
      <3>1. h = [i \in 1..n |-> h[i]]
        OBVIOUS
      <3> HIDE DEF h, n
      <3> QED
        BY <2>2, <3>1
    <2>4. loops = loop(loops)
      <3> HIDE DEF loop, h
      <3> QED
        BY <2>3
    <2>5. \A i \in 1..n : loops[i] = IF i = 1 THEN seqs[i] ELSE loops[i - 1] \o seqs[i]
      <3> HIDE DEF loops, n
      <3> QED
        BY <2>4
    <2> HIDE DEF loops
    <2> DEFINE Failing == {i \in 1..n : loops[i] # f[i]}
    <2>6. Failing = {}
      <3> SUFFICES ASSUME Failing # {}
                   PROVE  FALSE
        OBVIOUS
      <3>1. PICK i \in Failing : \A k \in Failing : i <= k
        <4>1. Failing \subseteq Nat
          OBVIOUS
        <4> HIDE DEF Failing
        <4> QED
          BY <4>1, LeastNat
      <3>2. i \in 1..n /\ loops[i] # f[i]
        BY <3>1
      <3>3. h[i] = f[i]
        BY <3>2
      <3>4. CASE i = 1
        BY <2>2, <2>5, <3>2, <3>3, <3>4
      <3>5. CASE i # 1
        <4>1. i - 1 \in 1..n /\ ~(i <= i - 1)
          BY <1>1, <3>2, <3>5
        <4>2. loops[i - 1] = f[i - 1]
          BY <3>1, <4>1
        <4> HIDE DEF n, h, Failing
        <4> QED
          BY <1>6, <2>5, <3>2, <3>5, <4>2
      <3> QED
        BY <3>4, <3>5
    <2>7. n \in 1..n
      BY <1>1, <1>8
    <2>8. FlattenSeq(seqs) = f[n]
      <3> HIDE DEF n
      <3> QED
        BY <2>1, <2>6, <2>7
    <2> QED
      BY <1>5, <1>6, <2>8 DEF Flattens
  <1> QED
    BY <1>7, <1>8

JobNames == Lanes \X {0, 1, 2}

\* Every job is named once, and only the split lane has shards.
LEMMA CommandsDistinct ==
    ASSUME NEW p
    PROVE  /\ commands(p) \in Seq(JobNames) /\ IsInjective(commands(p))
           /\ \A k \in 1..Len(commands(p)) :
                commands(p)[k][2] # 0 => commands(p)[k][1] = p.sharded_lane
  <1> DEFINE one(i) == <<<<Order[i], 0>>>>
             two(i) == <<<<Order[i], 1>>, <<Order[i], 2>>>>
             seqs == [i \in DOMAIN Order |-> IF Order[i] = p.sharded_lane THEN two(i) ELSE one(i)]
             n == Len(Order)
  <1>1. Order \in Seq(Lanes) /\ n \in Nat /\ DOMAIN Order = 1..n
        /\ \A i \in 1..n : Order[i] \in Lanes
    BY PlanningAssumption, LenProperties
  <1>2. \A i, j \in 1..n : Order[i] = Order[j] => i = j
    BY <1>1, PlanningAssumption DEF IsInjective
  <1> HIDE DEF n
  <1>3. ASSUME NEW i \in 1..n
        PROVE  /\ seqs[i] \in Seq(JobNames) /\ IsInjective(seqs[i])
               /\ \A k \in 1..Len(seqs[i]) : /\ seqs[i][k][1] = Order[i]
                                             /\ seqs[i][k][2] # 0 => Order[i] = p.sharded_lane
    <2>1. Order[i] \in Lanes
      BY <1>1
    <2>2. CASE Order[i] = p.sharded_lane
      <3>1. seqs[i] = two(i)
        BY <1>1, <2>2
      <3>2. two(i) \in Seq(JobNames) /\ Len(two(i)) = 2
        BY <2>1 DEF JobNames
      <3>3. IsInjective(two(i))
        <4>1. DOMAIN two(i) = 1..2 /\ two(i)[1] = <<Order[i], 1>> /\ two(i)[2] = <<Order[i], 2>>
          OBVIOUS
        <4>2. <<Order[i], 1>> # <<Order[i], 2>>
          OBVIOUS
        <4> HIDE DEF two
        <4> QED
          BY <4>1, <4>2 DEF IsInjective
      <3>4. \A k \in 1..2 : two(i)[k][1] = Order[i]
        OBVIOUS
      <3> HIDE DEF seqs, two
      <3> QED
        BY <2>2, <3>1, <3>2, <3>3, <3>4
    <2>3. CASE Order[i] # p.sharded_lane
      <3>1. seqs[i] = one(i)
        BY <1>1, <2>3
      <3>2. one(i) \in Seq(JobNames) /\ Len(one(i)) = 1
        BY <2>1 DEF JobNames
      <3>3. IsInjective(one(i))
        <4>1. DOMAIN one(i) = 1..1
          OBVIOUS
        <4> HIDE DEF one
        <4> QED
          BY <4>1 DEF IsInjective
      <3>4. \A k \in 1..1 : one(i)[k][1] = Order[i] /\ one(i)[k][2] = 0
        OBVIOUS
      <3> HIDE DEF seqs, one
      <3> QED
        BY <3>1, <3>2, <3>3, <3>4
    <2> QED
      BY <2>2, <2>3
  <1>4. commands(p) = FlattenSeq(seqs)
    BY DEF commands
  <1>5. seqs \in Seq(Seq(JobNames)) /\ Len(seqs) = n
    <2>1. seqs = [i \in 1..n |-> seqs[i]]
      BY <1>1
    <2> HIDE DEF seqs
    <2>2. seqs \in [1..n -> Seq(JobNames)]
      BY <1>3, <2>1
    <2> QED
      BY <1>1, <2>2, FunctionIsSeq
  <1> HIDE DEF seqs
  <1>6. PICK flat : Flattens(flat, seqs, JobNames)
    BY <1>5, FlattenExists
  <1>7. /\ flat \in [0..n -> Seq(JobNames)] /\ flat[0] = <<>>
        /\ \A i \in 1..n : flat[i] = flat[i - 1] \o seqs[i]
        /\ commands(p) = flat[n]
    BY <1>4, <1>5, <1>6 DEF Flattens
  <1> DEFINE Right(i) ==
                /\ IsInjective(flat[i])
                /\ \A k \in 1..Len(flat[i]) :
                    /\ \E m \in 1..i : flat[i][k][1] = Order[m]
                    /\ flat[i][k][2] # 0 => flat[i][k][1] = p.sharded_lane
             Failing == {i \in 0..n : ~Right(i)}
  <1>8. Right(0)
    <2>1. Len(flat[0]) = 0 /\ DOMAIN flat[0] = {}
      BY <1>7, EmptySeq
    <2> QED
      BY <2>1 DEF IsInjective
  <1>9. ASSUME NEW i \in 1..n, Right(i - 1)
        PROVE  Right(i)
    <2> DEFINE a == flat[i - 1]
               b == seqs[i]
               c == flat[i]
    <2>1. a \in Seq(JobNames) /\ b \in Seq(JobNames) /\ c = a \o b
      <3>1. i - 1 \in 0..n
        BY <1>1
      <3> QED
        BY <1>3, <1>7, <3>1
    <2>2. IsInjective(a) /\ IsInjective(b)
      BY <1>3, <1>9
    <2>3. \A k \in 1..Len(a) : /\ \E m \in 1..(i - 1) : a[k][1] = Order[m]
                               /\ a[k][2] # 0 => a[k][1] = p.sharded_lane
      BY <1>9
    <2>4. \A k \in 1..Len(b) : b[k][1] = Order[i] /\ (b[k][2] # 0 => b[k][1] = p.sharded_lane)
      BY <1>3
    <2> HIDE DEF a, b, c
    <2>5. ASSUME NEW k \in 1..Len(a), NEW j \in 1..Len(b)
          PROVE  a[k] # b[j]
      <3>1. PICK m \in 1..(i - 1) : a[k][1] = Order[m]
        BY <2>3
      <3>2. b[j][1] = Order[i]
        BY <2>4
      <3>3. m \in 1..n /\ m # i
        BY <1>1, <3>1
      <3>4. Order[m] # Order[i]
        BY <1>2, <3>3
      <3> QED
        BY <3>1, <3>2, <3>4
    <2>6. IsInjective(c)
      BY <2>1, <2>2, <2>5, ConcatInjective
    <2>7. /\ Len(c) = Len(a) + Len(b)
          /\ \A k \in 1..(Len(a) + Len(b)) : c[k] = IF k <= Len(a) THEN a[k] ELSE b[k - Len(a)]
          /\ Len(a) \in Nat /\ Len(b) \in Nat
      BY <2>1, ConcatProperties, LenProperties
    <2>8. ASSUME NEW k \in 1..Len(c)
          PROVE  /\ \E m \in 1..i : c[k][1] = Order[m]
                 /\ c[k][2] # 0 => c[k][1] = p.sharded_lane
      <3>1. CASE k <= Len(a)
        <4>1. k \in 1..Len(a) /\ c[k] = a[k]
          BY <2>7, <3>1
        <4>2. PICK m \in 1..(i - 1) : a[k][1] = Order[m]
          BY <2>3, <4>1
        <4>3. m \in 1..i
          BY <1>1, <4>2
        <4> QED
          BY <2>3, <4>1, <4>2, <4>3
      <3>2. CASE ~(k <= Len(a))
        <4>1. k - Len(a) \in 1..Len(b) /\ c[k] = b[k - Len(a)]
          BY <2>7, <3>2
        <4>2. i \in 1..i
          BY <1>1
        <4> QED
          BY <2>4, <4>1, <4>2
      <3> QED
        BY <3>1, <3>2
    <2> QED
      BY <2>6, <2>8 DEF c
  <1>10. Failing = {}
    <2> SUFFICES ASSUME Failing # {}
                 PROVE  FALSE
      OBVIOUS
    <2>1. PICK i \in Failing : \A k \in Failing : i <= k
      <3>1. Failing \subseteq Nat
        OBVIOUS
      <3> HIDE DEF Failing
      <3> QED
        BY <3>1, LeastNat
    <2>2. i \in 0..n /\ ~Right(i)
      BY <2>1
    <2> HIDE DEF Right
    <2>3. i # 0
      BY <1>8, <2>2
    <2>4. i \in 1..n /\ i - 1 \in 0..n /\ ~(i <= i - 1)
      BY <1>1, <2>2, <2>3
    <2>5. Right(i - 1)
      BY <2>1, <2>4
    <2> QED
      BY <1>9, <2>2, <2>4, <2>5
  <1>11. Right(n)
    <2>1. n \in 0..n
      BY <1>1
    <2> HIDE DEF Right
    <2> QED
      BY <1>10, <2>1
  <1>12. flat[n] \in Seq(JobNames)
    <2>1. n \in 0..n
      BY <1>1
    <2> QED
      BY <1>7, <2>1
  <1> QED
    BY <1>7, <1>11, <1>12

\* Without a split, there is a job for every lane, in the declared order.
LEMMA CommandsWhole ==
    ASSUME NEW p, p.sharded_lane \notin Lanes
    PROVE  commands(p) = [i \in DOMAIN Order |-> <<Order[i], 0>>]
  <1> DEFINE seqs == [i \in DOMAIN Order |->
                        IF Order[i] = p.sharded_lane THEN <<<<Order[i], 1>>, <<Order[i], 2>>>>
                        ELSE <<<<Order[i], 0>>>>]
             n == Len(Order)
             job(i) == <<Order[i], 0>>
  <1>1. Order \in Seq(Lanes) /\ n \in Nat /\ DOMAIN Order = 1..n
        /\ \A i \in 1..n : Order[i] \in Lanes
    BY PlanningAssumption, LenProperties
  <1> HIDE DEF n
  <1>2. \A i \in 1..n : seqs[i] = <<job(i)>> /\ job(i) \in JobNames
    <2>1. \A i \in 1..n : Order[i] # p.sharded_lane
      BY <1>1
    <2> QED
      BY <1>1, <2>1 DEF JobNames
  <1>3. commands(p) = FlattenSeq(seqs)
    BY DEF commands
  <1>14. \A i \in 1..n : <<job(i)>> \in Seq(JobNames) /\ Len(<<job(i)>>) = 1 /\ <<job(i)>>[1] = job(i)
    <2> HIDE DEF job, seqs
    <2> QED
      BY <1>2, OneElement
  <1>4. seqs \in Seq(Seq(JobNames)) /\ Len(seqs) = n
    <2>1. seqs = [i \in 1..n |-> seqs[i]]
      BY <1>1
    <2>2. \A i \in 1..n : seqs[i] \in Seq(JobNames)
      BY <1>2, <1>14
    <2> HIDE DEF seqs, job
    <2>3. seqs \in [1..n -> Seq(JobNames)]
      BY <2>1, <2>2
    <2> QED
      BY <1>1, <2>3, FunctionIsSeq
  <1> HIDE DEF seqs
  <1>5. PICK flat : Flattens(flat, seqs, JobNames)
    BY <1>4, FlattenExists
  <1>6. /\ flat \in [0..n -> Seq(JobNames)] /\ flat[0] = <<>>
        /\ \A i \in 1..n : flat[i] = flat[i - 1] \o seqs[i]
        /\ commands(p) = flat[n]
    BY <1>3, <1>4, <1>5 DEF Flattens
  <1> HIDE DEF job
  <1> DEFINE Right(i) == Len(flat[i]) = i /\ \A k \in 1..i : flat[i][k] = job(k)
             Failing == {i \in 0..n : ~Right(i)}
  <1>7. Right(0)
    BY <1>6, EmptySeq
  <1>8. ASSUME NEW i \in 1..n, Right(i - 1)
        PROVE  Right(i)
    <2> DEFINE a == flat[i - 1]
               b == <<job(i)>>
               c == flat[i]
    <2>1. a \in Seq(JobNames) /\ b \in Seq(JobNames) /\ c = a \o b /\ Len(b) = 1 /\ b[1] = job(i)
      <3>1. i - 1 \in 0..n
        BY <1>1
      <3> QED
        BY <1>2, <1>6, <1>14, <3>1
    <2>2. Len(a) = i - 1 /\ \A k \in 1..(i - 1) : a[k] = job(k)
      BY <1>8
    <2> HIDE DEF a, b, c
    <2>3. /\ Len(c) = Len(a) + Len(b)
          /\ \A k \in 1..(Len(a) + Len(b)) : c[k] = IF k <= Len(a) THEN a[k] ELSE b[k - Len(a)]
      BY <2>1, ConcatProperties
    <2>4. Len(c) = i /\ i \in Int
      BY <1>1, <2>1, <2>2, <2>3
    <2>5. ASSUME NEW k \in 1..i
          PROVE  c[k] = job(k)
      <3>1. k \in 1..(Len(a) + Len(b))
        BY <2>3, <2>4
      <3>2. CASE k = i
        <4>1. ~(k <= Len(a)) /\ k - Len(a) = 1
          BY <2>2, <2>4, <3>2
        <4> QED
          BY <2>1, <2>3, <3>1, <3>2, <4>1
      <3>3. CASE k # i
        <4>1. k <= Len(a) /\ k \in 1..(i - 1)
          BY <2>2, <2>4, <3>3
        <4> QED
          BY <2>2, <2>3, <3>1, <4>1
      <3> QED
        BY <3>2, <3>3
    <2> QED
      BY <2>4, <2>5 DEF c
  <1>9. Failing = {}
    <2> SUFFICES ASSUME Failing # {}
                 PROVE  FALSE
      OBVIOUS
    <2>1. PICK i \in Failing : \A k \in Failing : i <= k
      <3>1. Failing \subseteq Nat
        OBVIOUS
      <3> HIDE DEF Failing
      <3> QED
        BY <3>1, LeastNat
    <2>2. i \in 0..n /\ ~Right(i)
      BY <2>1
    <2> HIDE DEF Right
    <2>3. i # 0
      BY <1>7, <2>2
    <2>4. i \in 1..n /\ i - 1 \in 0..n /\ ~(i <= i - 1)
      BY <1>1, <2>2, <2>3
    <2>5. Right(i - 1)
      BY <2>1, <2>4
    <2> QED
      BY <1>8, <2>2, <2>4, <2>5
  <1>10. Right(n) /\ flat[n] \in Seq(JobNames)
    <2>1. n \in 0..n
      BY <1>1
    <2>2. Right(n)
      <3> HIDE DEF Right
      <3> QED
        BY <1>9, <2>1
    <2> QED
      BY <1>6, <2>1, <2>2
  <1>11. DOMAIN flat[n] = 1..n
    BY <1>10, LenProperties
  <1>12. flat[n] = [i \in 1..n |-> flat[n][i]]
    <2>1. flat[n] \in [1..n -> JobNames]
      BY <1>10, LenProperties
    <2> QED
      BY <2>1
  <1>13. flat[n] = [i \in 1..n |-> job(i)]
    BY <1>10, <1>12
  <1> QED
    BY <1>1, <1>6, <1>13 DEF job

\* The order of LongestFirstPolicy, as pairs of positions.
LaunchesBefore(cmds) ==
    {p \in (1..Len(cmds)) \X (1..Len(cmds)) : GoesBefore(cmds, p[1], p[2])}

\* It is an order on every list of commands.
LEMMA LaunchOrders ==
    ASSUME records \in Histories, NEW cmds \in Seq(JobNames)
    PROVE  Orders(LaunchesBefore(cmds), Len(cmds))
  <1> DEFINE n == Len(cmds)
             known(k) == Recorded(cmds[k])
             t(k) == IF known(k) THEN records[cmds[k][1]].total ELSE 0
             before == LaunchesBefore(cmds)
  <1>1. \A k \in 1..n : t(k) \in Nat /\ k \in Int
    <2>1. ASSUME NEW k \in 1..n, known(k)
          PROVE  records[cmds[k][1]].total \in Nat
      <3>1. cmds[k][1] \in DOMAIN records
        BY <2>1 DEF Recorded
      <3> QED
        BY <3>1, RecordFacts
    <2> HIDE DEF known
    <2>2. \A k \in 1..n : t(k) \in Nat
      BY <2>1
    <2> QED
      BY <2>2
  <1>2. \A i, j \in 1..n : <<i, j>> \in before <=>
            \/ ~known(i) /\ (known(j) \/ i < j)
            \/ known(i) /\ known(j) /\ (t(i) > t(j) \/ (t(i) = t(j) /\ i < j))
    <2>1. \A i, j \in 1..n : <<i, j>> \in before <=> GoesBefore(cmds, i, j)
      BY DEF LaunchesBefore
    <2>2. ASSUME NEW i \in 1..n, NEW j \in 1..n
          PROVE  GoesBefore(cmds, i, j) <=>
            \/ ~known(i) /\ (known(j) \/ i < j)
            \/ known(i) /\ known(j) /\ (t(i) > t(j) \/ (t(i) = t(j) /\ i < j))
      BY DEF GoesBefore
    <2> HIDE DEF before, known, t
    <2> QED
      BY <2>1, <2>2
  <1> HIDE DEF n, before, known, t
  <1>3. ASSUME NEW i \in 1..n, NEW j \in 1..n
        PROVE  /\ i # j => <<i, j>> \in before \/ <<j, i>> \in before
               /\ ~(<<i, j>> \in before /\ <<j, i>> \in before)
    <2>1. t(i) \in Nat /\ t(j) \in Nat /\ i \in Int /\ j \in Int
      BY <1>1
    <2>2. /\ <<i, j>> \in before <=>
                \/ ~known(i) /\ (known(j) \/ i < j)
                \/ known(i) /\ known(j) /\ (t(i) > t(j) \/ (t(i) = t(j) /\ i < j))
          /\ <<j, i>> \in before <=>
                \/ ~known(j) /\ (known(i) \/ j < i)
                \/ known(j) /\ known(i) /\ (t(j) > t(i) \/ (t(j) = t(i) /\ j < i))
      BY <1>2
    <2> QED
      BY <2>1, <2>2
  <1>4. ASSUME NEW i \in 1..n, NEW j \in 1..n, NEW k \in 1..n,
               <<i, j>> \in before, <<j, k>> \in before
        PROVE  <<i, k>> \in before
    <2>1. /\ t(i) \in Nat /\ t(j) \in Nat /\ t(k) \in Nat
          /\ i \in Int /\ j \in Int /\ k \in Int
      BY <1>1
    <2>2. /\ \/ ~known(i) /\ (known(j) \/ i < j)
             \/ known(i) /\ known(j) /\ (t(i) > t(j) \/ (t(i) = t(j) /\ i < j))
          /\ \/ ~known(j) /\ (known(k) \/ j < k)
             \/ known(j) /\ known(k) /\ (t(j) > t(k) \/ (t(j) = t(k) /\ j < k))
          /\ <<i, k>> \in before <=>
                \/ ~known(i) /\ (known(k) \/ i < k)
                \/ known(i) /\ known(k) /\ (t(i) > t(k) \/ (t(i) = t(k) /\ i < k))
      BY <1>2, <1>4
    <2> QED
      BY <2>1, <2>2
  <1> QED
    BY <1>3, <1>4 DEF Orders, n, before

\* The queue a run starts with has every job of the plan, once.
LEMMA LaunchOrderIs ==
    ASSUME records \in Histories, NEW S, NEW cmds \in Seq(S), S \subseteq JobNames,
           IsInjective(cmds)
    PROVE  /\ launch_order(cmds) \in Seq(S) /\ IsInjective(launch_order(cmds))
           /\ Range(launch_order(cmds)) = Range(cmds)
           /\ Len(launch_order(cmds)) = Len(cmds)
  <1> DEFINE n == Len(cmds)
             q == launch_order(cmds)
  <1>1. n \in Nat /\ DOMAIN cmds = 1..n /\ \A i \in 1..n : cmds[i] \in S
    BY LenProperties
  <1>2. Orders(LaunchesBefore(cmds), n)
    <2>1. cmds \in Seq(JobNames)
      BY SeqDef
    <2> QED
      BY <2>1, LaunchOrders
  <1>3. PICK at : SortedBy(sorted(cmds, LaunchesBefore(cmds)), cmds, LaunchesBefore(cmds), at)
    BY <1>2, SortedPermutes
  <1>4. q = sorted(cmds, LaunchesBefore(cmds))
    BY DEF launch_order, LaunchesBefore
  <1>5. /\ at \in [1..n -> 1..n] /\ q = [k \in 1..n |-> cmds[at[k]]]
        /\ \A k, m \in 1..n : k < m => <<at[k], at[m]>> \in LaunchesBefore(cmds)
        /\ \A i \in 1..n : \E k \in 1..n : at[k] = i
    BY <1>3, <1>4 DEF SortedBy
  <1> HIDE DEF n, q
  <1>6. q \in Seq(S) /\ Len(q) = n /\ DOMAIN q = 1..n /\ \A k \in 1..n : q[k] = cmds[at[k]] /\ at[k] \in 1..n
    <2>1. q \in [1..n -> S]
      BY <1>1, <1>5
    <2>2. q \in Seq(S) /\ Len(q) = n
      BY <1>1, <2>1, FunctionIsSeq
    <2> QED
      BY <1>5, <2>1, <2>2
  <1>7. ASSUME NEW k \in 1..n, NEW m \in 1..n, q[k] = q[m]
        PROVE  k = m
    <2>1. at[k] = at[m]
      BY <1>1, <1>6, <1>7 DEF IsInjective
    <2>2. ~(<<at[k], at[m]>> \in LaunchesBefore(cmds)) /\ ~(<<at[m], at[k]>> \in LaunchesBefore(cmds))
      BY <1>2, <1>6, <2>1 DEF Orders
    <2>3. ~(k < m) /\ ~(m < k)
      BY <1>5, <2>2
    <2> QED
      BY <1>1, <2>3
  <1>8. Range(q) = Range(cmds)
    <2>1. Range(q) = {q[k] : k \in 1..n} /\ Range(cmds) = {cmds[i] : i \in 1..n}
      BY <1>1, <1>6 DEF Range
    <2>2. {q[k] : k \in 1..n} \subseteq {cmds[i] : i \in 1..n}
      BY <1>6
    <2>3. ASSUME NEW i \in 1..n
          PROVE  cmds[i] \in {q[k] : k \in 1..n}
      <3>1. PICK k \in 1..n : at[k] = i
        BY <1>5
      <3>2. q[k] = cmds[i]
        BY <1>6, <3>1
      <3> QED
        BY <3>2
    <2> QED
      BY <2>1, <2>2, <2>3
  <1> QED
    BY <1>6, <1>7, <1>8 DEF IsInjective, q, n

-----------------------------------------------------------------------------
(* The run against the clock *)

Lengths == [j \in Jobs |-> Length(j)]

\* How much work the run has, how much of it waits, and how much is left of
\* the jobs that run.
Work == SumFunctionOnSet(Lengths, Jobs)
Waiting == SumFunctionOnSet(Lengths, Range(queue))
ToEnd == [j \in DOMAIN running |-> running[j] - now]
Left == SumFunctionOnSet(ToEnd, DOMAIN running)

Longest == Max({0} \cup {Length(j) : j \in Jobs})

ClockTypeOK ==
    /\ stage \in {"idle", "running"}
    /\ stage = "idle" => queue = <<>> /\ running = <<>>
    /\ stage = "running" => Lanes \subseteq DOMAIN records
    /\ now \in Nat
    /\ queue \in Seq(Jobs) /\ IsInjective(queue)
    /\ running = [j \in DOMAIN running |-> running[j]]
    /\ DOMAIN running \subseteq Jobs \ Range(queue)
    /\ \A j \in DOMAIN running : running[j] \in Nat /\ now <= running[j]
    /\ Cardinality(DOMAIN running) <= MaxWorkers

\* No job that runs, nor the clock, is beyond the bound; and as long as jobs
\* wait, all the workers have worked all the time.
Busy ==
    /\ \A j \in DOMAIN running :
        MaxWorkers * running[j] <= Work + (MaxWorkers - 1) * Length(j)
    /\ MaxWorkers * now <= Work + (MaxWorkers - 1) * Longest
    /\ queue # <<>> => MaxWorkers * now + Waiting + Left = Work

ClockInv == ClockTypeOK /\ (stage = "running" => Busy)

\* The projected durations of the two shards.
LEMMA ProjectedType ==
    ASSUME PlanInv, Sharded
    PROVE  plan.projected \in Seq(Nat) /\ Len(plan.projected) = 2 /\ plan.sharded_lane \in Lanes
  <1>1. records \in Histories
    BY DEF PlanInv, PlanTypeOK
  <1>2. PICK cut \in CutsOnFile : SplitOf(plan, records, existing, cut)
    BY ShardedPlan
  <1> DEFINE l == shard_candidate(records)
             files == FilesLeft(records, existing)
             r == records[l]
  <1>3. SplitFacts(plan, records, existing, cut, l, files)
    BY <1>1, <1>2, SplitFields
  <1> HIDE DEF l, files
  <1>4. /\ l \in DOMAIN records /\ l \in Lanes /\ plan.sharded_lane = l
        /\ Timed(files) /\ Cardinality(DOMAIN files) >= 2
        /\ DOMAIN files = DOMAIN r.files \cap existing
        /\ plan.first = FirstOf(files, l, cut) /\ plan.second = DOMAIN files \ plan.first
        /\ plan.projected = <<projected_shard_seconds(r, plan.first),
                              projected_shard_seconds(r, plan.second)>>
    BY <1>3 DEF SplitFacts
  <1>5. plan.first \in SUBSET DOMAIN r.files /\ plan.second \in SUBSET DOMAIN r.files
    <2>1. LET first == FirstOf(files, l, cut) IN
          first \in SUBSET DOMAIN files /\ first # {} /\ first # DOMAIN files
      BY <1>4, FirstIsProper
    <2> QED
      BY <1>4, <2>1
  <1>6. Timed(r.files) /\ r.total \in Nat /\ r.startup \in Nat /\ r.collect \in Nat
    BY <1>1, <1>4, RecordFacts
  <1>7. Fixed(r) \in Nat
    BY <1>6, FixedIs
  <1>8. Seconds(r.files, plan.first) \in Nat /\ Seconds(r.files, plan.second) \in Nat
    <2> HIDE DEF r
    <2> QED
      BY <1>5, <1>6, SecondsType
  <1>9. /\ projected_shard_seconds(r, plan.first) \in Nat
        /\ projected_shard_seconds(r, plan.second) \in Nat
    BY <1>7, <1>8 DEF projected_shard_seconds
  <1> QED
    BY <1>4, <1>9

\* The range of a sequence is finite, and no larger than the sequence is long.
LEMMA RangeFinite ==
    ASSUME NEW S, NEW s \in Seq(S)
    PROVE  IsFiniteSet(Range(s)) /\ Cardinality(Range(s)) <= Len(s) /\ Range(s) \subseteq S
           /\ Range(s) = {s[i] : i \in 1..Len(s)}
  <1> DEFINE n == Len(s)
             f == [i \in 1..n |-> s[i]]
  <1>1. n \in Nat /\ DOMAIN s = 1..n /\ \A i \in 1..n : s[i] \in S
    BY LenProperties
  <1> HIDE DEF n
  <1>2. IsFiniteSet(1..n) /\ Cardinality(1..n) = n
    <2>1. 1 \in Int /\ n \in Int
      BY <1>1
    <2>2. IsFiniteSet(1..n) /\ Cardinality(1..n) = IF 1 > n THEN 0 ELSE n - 1 + 1
      BY <2>1, FS_Interval
    <2> QED
      BY <1>1, <2>2
  <1>3. Range(s) = {s[i] : i \in 1..n}
    BY <1>1 DEF Range
  <1>4. f \in Surjection(1..n, Range(s))
    BY <1>3 DEF Surjection
  <1> HIDE DEF f
  <1>5. IsFiniteSet(Range(s)) /\ Cardinality(Range(s)) <= Cardinality(1..n)
    BY <1>2, <1>4, FS_Surjection
  <1>6. Range(s) \subseteq S
    BY <1>1, <1>3
  <1> QED
    BY <1>2, <1>3, <1>5, <1>6 DEF n

\* The jobs of a run all have a length.
LEMMA JobFacts ==
    PlanInv => /\ IsFiniteSet(Jobs) /\ Jobs \subseteq JobNames
               /\ commands(plan) \in Seq(Jobs) /\ IsInjective(commands(plan))
               /\ Lanes \subseteq DOMAIN records => \A j \in Jobs : Length(j) \in Nat
  <1> SUFFICES ASSUME PlanInv
               PROVE  /\ IsFiniteSet(Jobs) /\ Jobs \subseteq JobNames
                      /\ commands(plan) \in Seq(Jobs) /\ IsInjective(commands(plan))
                      /\ Lanes \subseteq DOMAIN records => \A j \in Jobs : Length(j) \in Nat
    OBVIOUS
  <1> DEFINE cmds == commands(plan)
  <1>1. /\ cmds \in Seq(JobNames) /\ IsInjective(cmds)
        /\ \A k \in 1..Len(cmds) : cmds[k][2] # 0 => cmds[k][1] = plan.sharded_lane
    BY CommandsDistinct
  <1> HIDE DEF cmds
  <1>2. IsFiniteSet(Range(cmds)) /\ Range(cmds) \subseteq JobNames
        /\ Range(cmds) = {cmds[i] : i \in 1..Len(cmds)}
    BY <1>1, RangeFinite
  <1>3. Jobs = Range(cmds)
    BY DEF Jobs, cmds
  <1>4. cmds \in Seq(Range(cmds))
    <2> DEFINE n == Len(cmds)
    <2>1. n \in Nat /\ cmds \in [1..n -> JobNames]
      BY <1>1, LenProperties
    <2>2. \A i \in 1..n : cmds[i] \in Range(cmds)
      BY <1>2
    <2> HIDE DEF n
    <2>3. cmds \in [1..n -> Range(cmds)]
      BY <2>1, <2>2
    <2> QED
      BY <2>1, <2>3, FunctionIsSeq
  <1>5. records \in Histories
    BY DEF PlanInv, PlanTypeOK
  <1>6. ASSUME Lanes \subseteq DOMAIN records, NEW j \in Jobs
        PROVE  Length(j) \in Nat
    <2>1. PICK k \in 1..Len(cmds) : cmds[k] = j
      BY <1>2, <1>3
    <2>2. j[1] \in Lanes /\ j[2] \in {0, 1, 2}
      BY <1>2, <1>3 DEF JobNames
    <2>3. CASE j[2] = 0
      <3>1. records[j[1]].total \in Nat
        BY <1>5, <1>6, <2>2, RecordFacts
      <3> QED
        BY <2>3, <3>1 DEF Length
    <2>4. CASE j[2] # 0
      <3>1. plan.sharded_lane = j[1]
        BY <1>1, <2>1, <2>4
      <3>2. Sharded
        BY <2>2, <3>1, PlanningAssumption DEF Sharded
      <3>3. plan.projected[1] \in Nat /\ plan.projected[2] \in Nat
        <4>1. plan.projected \in Seq(Nat) /\ Len(plan.projected) = 2
          BY <3>2, ProjectedType
        <4>2. 1 \in 1..Len(plan.projected) /\ 2 \in 1..Len(plan.projected)
          BY <4>1
        <4> QED
          BY <4>1, <4>2, ElementOfSeq
      <3>4. j[2] = 1 \/ j[2] = 2
        BY <2>2, <2>4
      <3> QED
        BY <2>4, <3>3, <3>4 DEF Length
    <2> QED
      BY <2>3, <2>4
  <1> QED
    BY <1>1, <1>2, <1>3, <1>4, <1>6 DEF cmds

\* Multiplication by an unknown number, as far as the bound needs it.
LEMMA Multiples ==
    ASSUME NEW a \in Int, NEW b \in Int, NEW c \in Int
    PROVE  /\ a * b \in Int
           /\ a * (b + c) = a * b + a * c
           /\ a * (b - c) = a * b - a * c
           /\ (a - 1) * b = a * b - b
           /\ a >= 0 /\ b <= c => a * b <= a * c
           /\ a * 0 = 0
  OBVIOUS

\* A sum of equal numbers.
LEMMA SumOfSame ==
    ASSUME NEW S, IsFiniteSet(S), NEW f, NEW c \in Int, \A x \in S : f[x] = c
    PROVE  SumFunctionOnSet(f, S) = Cardinality(S) * c
  <1> DEFINE Good == {A \in SUBSET S : SumFunctionOnSet(f, A) = Cardinality(A) * c}
  <1>1. {} \in Good
    BY SumOfNone, FS_EmptySet
  <1>2. ASSUME NEW A \in SUBSET S, NEW x \in S \ A, A \in Good
        PROVE  A \cup {x} \in Good
    <2>1. IsFiniteSet(A) /\ x \notin A /\ \A y \in A \cup {x} : f[y] \in Int
      BY FS_Subset
    <2>2. SumFunctionOnSet(f, A \cup {x}) = f[x] + SumFunctionOnSet(f, A)
      BY <2>1, SumAdded
    <2>3. Cardinality(A \cup {x}) = Cardinality(A) + 1 /\ Cardinality(A) \in Nat
      BY <2>1, FS_AddElement, FS_CardinalityType
    <2>4. SumFunctionOnSet(f, A) = Cardinality(A) * c /\ f[x] = c
      BY <1>2
    <2> DEFINE m == Cardinality(A)
               n == Cardinality(A \cup {x})
    <2>5. n = m + 1 /\ m \in Nat
      BY <2>3
    <2>6. SumFunctionOnSet(f, A \cup {x}) = c + m * c
      BY <2>2, <2>4
    <2> HIDE DEF m, n
    <2>7. c + m * c = n * c
      BY <2>5
    <2> QED
      BY <2>6, <2>7 DEF n
  <1>3. S \in Good
    <2> HIDE DEF Good
    <2> QED
      BY <1>1, <1>2, SetInduction
  <1> QED
    BY <1>3

\* A finite set of integers that is not empty has a least element, and Min is it.
LEMMA MinOf ==
    ASSUME NEW S \in SUBSET Nat, S # {}
    PROVE  Min(S) \in S /\ \A y \in S : Min(S) <= y
  <1>1. \E m \in S : \A y \in S : m <= y
    BY LeastNat
  <1> QED
    BY <1>1 DEF Min

\* The jobs' lengths, their sums and the longest of them are numbers.
LEMMA WorkFacts ==
    PlanInv /\ Lanes \subseteq DOMAIN records
        => /\ \A j \in Jobs : Lengths[j] = Length(j) /\ Length(j) \in Nat /\ Length(j) <= Longest
           /\ \A S \in SUBSET Jobs : IsFiniteSet(S) /\ SumFunctionOnSet(Lengths, S) \in Nat
           /\ Work \in Nat /\ Longest \in Nat
  <1> SUFFICES ASSUME PlanInv, Lanes \subseteq DOMAIN records
               PROVE  /\ \A j \in Jobs : Lengths[j] = Length(j) /\ Length(j) \in Nat /\ Length(j) <= Longest
                      /\ \A S \in SUBSET Jobs : IsFiniteSet(S) /\ SumFunctionOnSet(Lengths, S) \in Nat
                      /\ Work \in Nat /\ Longest \in Nat
    OBVIOUS
  <1>1. IsFiniteSet(Jobs) /\ \A j \in Jobs : Length(j) \in Nat
    BY JobFacts
  <1>2. \A j \in Jobs : Lengths[j] = Length(j)
    BY DEF Lengths
  <1>3. ASSUME NEW S \in SUBSET Jobs
        PROVE  IsFiniteSet(S) /\ SumFunctionOnSet(Lengths, S) \in Nat
    <2>1. IsFiniteSet(S)
      BY <1>1, FS_Subset
    <2>2. \A x \in S : Lengths[x] \in Nat
      BY <1>1, <1>2
    <2> QED
      BY <2>1, <2>2, SumNat
  <1>4. Work \in Nat
    BY <1>3 DEF Work
  <1> DEFINE V == {0} \cup {Length(j) : j \in Jobs}
  <1>5. IsFiniteSet(V)
    <2> DEFINE f == [j \in Jobs |-> Length(j)]
               R == {Length(j) : j \in Jobs}
    <2>1. f \in Surjection(Jobs, R)
      BY DEF Surjection
    <2> HIDE DEF f, R
    <2>2. IsFiniteSet(R)
      BY <1>1, <2>1, FS_Surjection
    <2>3. V = R \cup {0}
      BY DEF R
    <2> QED
      BY <2>2, <2>3, FS_AddElement
  <1>6. \A x \in V : x \in Nat
    BY <1>1
  <1>7. V # {} /\ Longest = Max(V)
    BY DEF Longest
  <1>8. \A j \in Jobs : Length(j) \in V
    OBVIOUS
  <1> HIDE DEF V
  <1>9. Max(V) \in V /\ \A y \in V : Max(V) >= y
    <2>1. \A x \in V : x \in Int
      BY <1>6
    <2> QED
      BY <1>5, <1>7, <2>1, MaxOf
  <1>10. Longest \in Nat
    BY <1>6, <1>7, <1>9
  <1>11. \A j \in Jobs : Length(j) <= Longest
    BY <1>1, <1>7, <1>8, <1>9, <1>10
  <1> QED
    BY <1>1, <1>2, <1>3, <1>4, <1>10, <1>11

\* What is left of the running jobs is a natural number.
LEMMA LeftFacts ==
    ClockTypeOK /\ PlanInv
        => /\ IsFiniteSet(DOMAIN running) /\ Left \in Nat
           /\ \A j \in DOMAIN running : ToEnd[j] = running[j] - now /\ ToEnd[j] \in Nat
  <1> SUFFICES ASSUME ClockTypeOK, PlanInv
               PROVE  /\ IsFiniteSet(DOMAIN running) /\ Left \in Nat
                      /\ \A j \in DOMAIN running : ToEnd[j] = running[j] - now /\ ToEnd[j] \in Nat
    OBVIOUS
  <1>1. IsFiniteSet(DOMAIN running)
    <2>1. DOMAIN running \subseteq Jobs
      BY DEF ClockTypeOK
    <2> QED
      BY <2>1, JobFacts, FS_Subset
  <1>2. \A j \in DOMAIN running : ToEnd[j] = running[j] - now
    BY DEF ToEnd
  <1>3. \A j \in DOMAIN running : running[j] - now \in Nat
    BY DEF ClockTypeOK
  <1>4. Left \in Nat
    BY <1>1, <1>2, <1>3, SumNat DEF Left
  <1> QED
    BY <1>1, <1>2, <1>3, <1>4

\* While a run goes on, its jobs and their lengths stay what they are.
LEMMA SameWork ==
    UNCHANGED vars => /\ Jobs' = Jobs /\ Lengths' = Lengths /\ Work' = Work /\ Longest' = Longest
                      /\ \A j : Length(j)' = Length(j)
  <1> SUFFICES ASSUME UNCHANGED vars
               PROVE  /\ Jobs' = Jobs /\ Lengths' = Lengths /\ Work' = Work /\ Longest' = Longest
                      /\ \A j : Length(j)' = Length(j)
    OBVIOUS
  <1>1. Jobs' = Jobs
    BY DEF vars, Jobs
  <1>2. \A j : Length(j)' = Length(j)
    BY DEF vars, Length
  <1>3. Lengths' = Lengths
    BY <1>1, <1>2 DEF Lengths
  <1>4. Work' = Work
    BY <1>1, <1>3 DEF Work
  <1>5. {Length(j)' : j \in Jobs'} = {Length(j) : j \in Jobs}
    BY <1>1, <1>2
  <1>6. Longest' = Longest
    BY <1>5 DEF Longest
  <1> QED
    BY <1>1, <1>2, <1>3, <1>4, <1>6

\* There is at least one worker.
LEMMA SomeWorker == MaxWorkers \in Nat /\ MaxWorkers >= 1
  <1>1. MaxWorkers \in Nat \ {0}
    BY PlanningAssumption
  <1> QED
    BY <1>1

\* What the launch loop takes from the front of the queue, and what it leaves.
Parts(q, S, front, rest) ==
    /\ front \subseteq S /\ rest \in Seq(S) /\ IsInjective(rest)
    /\ front \cap Range(rest) = {} /\ front \cup Range(rest) = Range(q)

\* The jobs launched and the jobs left in the queue are the jobs it had, and
\* none is in both.
LEMMA QueueSplit ==
    ASSUME NEW S, NEW q \in Seq(S), IsInjective(q), NEW c \in 0..Len(q)
    PROVE  /\ Parts(q, S, Range(SubSeq(q, 1, c)), SubSeq(q, c + 1, Len(q)))
           /\ IsFiniteSet(Range(SubSeq(q, 1, c))) /\ Cardinality(Range(SubSeq(q, 1, c))) <= c
  <1> DEFINE n == Len(q)
             a == SubSeq(q, 1, c)
             b == SubSeq(q, c + 1, n)
  <1>1. n \in Nat /\ DOMAIN q = 1..n /\ (\A i \in 1..n : q[i] \in S) /\ c \in 0..n
    BY LenProperties
  <1>2. \A i, j \in 1..n : q[i] = q[j] => i = j
    BY <1>1 DEF IsInjective
  <1>3. /\ a \in Seq(S) /\ Len(a) = c
        /\ \A i \in 1..c : a[i] = q[i]
    <2>1. /\ 1 \in Int /\ c \in Int /\ \A i \in 1..c : q[i] \in S
      BY <1>1
    <2>2. /\ a \in Seq(S) /\ Len(a) = (IF 1 <= c THEN c - 1 + 1 ELSE 0)
          /\ \A i \in 1..c - 1 + 1 : a[i] = q[1 + i - 1]
      BY <2>1, SubSeqProperties
    <2> HIDE DEF a
    <2> QED
      BY <1>1, <2>2
  <1>4. /\ b \in Seq(S) /\ Len(b) = n - c
        /\ \A i \in 1..(n - c) : b[i] = q[c + i]
    <2> HIDE DEF n
    <2>1. /\ c + 1 \in Int /\ n \in Int /\ \A i \in (c + 1)..n : q[i] \in S
      BY <1>1
    <2>2. /\ b \in Seq(S) /\ Len(b) = (IF c + 1 <= n THEN n - (c + 1) + 1 ELSE 0)
          /\ \A i \in 1..n - (c + 1) + 1 : b[i] = q[(c + 1) + i - 1]
      BY <2>1, SubSeqProperties
    <2> HIDE DEF b
    <2> QED
      BY <1>1, <2>2
  <1> HIDE DEF a, b, n
  <1>5. /\ IsFiniteSet(Range(a)) /\ Cardinality(Range(a)) <= c /\ Range(a) \subseteq S
        /\ Range(a) = {a[i] : i \in 1..c}
    BY <1>3, RangeFinite
  <1>6. Range(b) = {b[i] : i \in 1..(n - c)}
    BY <1>4, RangeFinite
  <1>7. Range(q) = {q[i] : i \in 1..n}
    BY <1>1 DEF Range
  <1>8. IsInjective(b)
    <2>1. DOMAIN b = 1..(n - c)
      BY <1>4, LenProperties
    <2>2. \A i, j \in 1..(n - c) : b[i] = b[j] => i = j
      <3>1. ASSUME NEW i \in 1..(n - c), NEW j \in 1..(n - c), b[i] = b[j]
            PROVE  i = j
        <4>1. c + i \in 1..n /\ c + j \in 1..n /\ q[c + i] = q[c + j]
          BY <1>1, <1>4, <3>1
        <4>2. c + i = c + j
          BY <1>2, <4>1
        <4> QED
          BY <1>1, <4>2
      <3> QED
        BY <3>1
    <2> QED
      BY <2>1, <2>2 DEF IsInjective
  <1>9. ASSUME NEW x \in Range(a), x \in Range(b)
        PROVE  FALSE
    <2>1. PICK i \in 1..c : x = a[i]
      BY <1>5
    <2>2. PICK j \in 1..(n - c) : x = b[j]
      BY <1>6, <1>9
    <2>3. i \in 1..n /\ c + j \in 1..n /\ i # c + j
      BY <1>1
    <2>4. q[i] = q[c + j]
      BY <1>3, <1>4, <2>1, <2>2
    <2> QED
      BY <1>2, <2>3, <2>4
  <1>10. ASSUME NEW x \in Range(q)
         PROVE  x \in Range(a) \/ x \in Range(b)
    <2>1. PICK k \in 1..n : x = q[k]
      BY <1>7
    <2>2. CASE k <= c
      <3>1. k \in 1..c /\ a[k] = x
        BY <1>1, <1>3, <2>1, <2>2
      <3> QED
        BY <1>5, <3>1
    <2>3. CASE ~(k <= c)
      <3>1. k - c \in 1..(n - c) /\ c + (k - c) = k
        BY <1>1, <2>3
      <3>2. b[k - c] = x
        BY <1>4, <2>1, <3>1
      <3> QED
        BY <1>6, <3>1, <3>2
    <2> QED
      BY <2>2, <2>3
  <1>11. Range(a) \subseteq Range(q)
    <2>1. \A i \in 1..c : i \in 1..n /\ a[i] = q[i]
      BY <1>1, <1>3
    <2> QED
      BY <1>5, <1>7, <2>1
  <1>12. Range(b) \subseteq Range(q)
    <2>1. \A i \in 1..(n - c) : c + i \in 1..n /\ b[i] = q[c + i]
      BY <1>1, <1>4
    <2> QED
      BY <1>6, <1>7, <2>1
  <1>13. Parts(q, S, Range(a), b)
    BY <1>4, <1>5, <1>8, <1>9, <1>10, <1>11, <1>12 DEF Parts
  <1> QED
    BY <1>5, <1>13 DEF a, b, n

\* The invariant holds before the first run.
LEMMA ClockInvInit ==
    ASSUME SchedInit
    PROVE  ClockInv
  <1>1. stage = "idle" /\ queue = <<>> /\ running = <<>> /\ now = 0
    BY DEF SchedInit
  <1>2. DOMAIN running = {} /\ <<>> \in Seq(Jobs) /\ DOMAIN queue = {}
    BY <1>1, EmptySeq
  <1>3. running = [j \in DOMAIN running |-> running[j]]
    BY <1>1, <1>2
  <1>4. Cardinality(DOMAIN running) <= MaxWorkers
    <2>1. Cardinality({}) = 0
      BY FS_EmptySet
    <2> QED
      BY <1>2, <2>1, SomeWorker
  <1>5. ClockTypeOK
    BY <1>1, <1>2, <1>3, <1>4 DEF ClockTypeOK, IsInjective
  <1> QED
    BY <1>1, <1>5 DEF ClockInv

\* A run starts with all its jobs in the queue, and all its work ahead.
LEMMA StartRunKeepsClock ==
    ASSUME PlanInv, PlanInv', ClockInv, StartRun
    PROVE  ClockInv'
  <1>1. queue = <<>> /\ running = <<>> /\ running' = running /\ now' = 0
    BY DEF StartRun, RunOver, ClockInv, ClockTypeOK
  <1>2. DOMAIN running' = {} /\ DOMAIN running = {}
    BY <1>1, EmptySeq
  <1>3. /\ running' = [j \in DOMAIN running' |-> running'[j]]
        /\ Cardinality(DOMAIN running') <= MaxWorkers
    BY <1>1 DEF ClockInv, ClockTypeOK
  <1>4. records' = records /\ records \in Histories
    BY DEF StartRun, PlanRun, PlanInv, PlanTypeOK
  <1>5. CASE Lanes \subseteq DOMAIN records
    <2>1. queue' = launch_order(commands(plan')) /\ stage' = "running"
      BY <1>5 DEF StartRun
    <2>2. (PlanInv => /\ IsFiniteSet(Jobs) /\ Jobs \subseteq JobNames
                      /\ commands(plan) \in Seq(Jobs) /\ IsInjective(commands(plan))
                      /\ (Lanes \subseteq DOMAIN records => \A j \in Jobs : Length(j) \in Nat))'
      BY JobFacts, PTL
    <2> DEFINE cmds == commands(plan')
    <2>3. Jobs' \subseteq JobNames /\ cmds \in Seq(Jobs') /\ IsInjective(cmds)
      BY <2>2 DEF JobNames
    <2>4. Jobs' = Range(cmds)
      BY DEF Jobs, commands
    <2> HIDE DEF cmds
    <2>5. queue' \in Seq(Jobs') /\ IsInjective(queue') /\ Range(queue') = Jobs'
      <3> DEFINE S == Jobs'
      <3>1. S \subseteq JobNames /\ cmds \in Seq(S) /\ queue' = launch_order(cmds) /\ S = Range(cmds)
        BY <2>1, <2>3, <2>4 DEF cmds
      <3> HIDE DEF S
      <3>2. launch_order(cmds) \in Seq(S) /\ IsInjective(launch_order(cmds))
            /\ Range(launch_order(cmds)) = Range(cmds)
        BY <1>4, <2>3, <3>1, LaunchOrderIs
      <3> QED
        BY <3>1, <3>2 DEF S
    <2>6. ClockTypeOK'
      BY <1>1, <1>2, <1>3, <1>4, <1>5, <2>1, <2>5 DEF ClockTypeOK
    <2>7. (PlanInv /\ Lanes \subseteq DOMAIN records
             => /\ \A j \in Jobs : Lengths[j] = Length(j) /\ Length(j) \in Nat /\ Length(j) <= Longest
                /\ \A S \in SUBSET Jobs : IsFiniteSet(S) /\ SumFunctionOnSet(Lengths, S) \in Nat
                /\ Work \in Nat /\ Longest \in Nat)'
      BY WorkFacts, PTL
    <2>8. Work' \in Nat /\ Longest' \in Nat
      BY <1>4, <1>5, <2>7
    <2>9. Waiting' = Work'
      BY <2>5 DEF Waiting, Work
    <2>10. Left' = 0
      BY <1>2, SumOfNone DEF Left
    <2>11. MaxWorkers * now' = 0 /\ 0 <= (MaxWorkers - 1) * Longest'
      <3> DEFINE l == Longest'
                 m == MaxWorkers
      <3>1. l \in Nat /\ m \in Nat /\ m >= 1
        BY <2>8, SomeWorker
      <3> HIDE DEF l, m
      <3>2. m * 0 = 0 /\ 0 <= (m - 1) * l
        BY <3>1
      <3> QED
        BY <1>1, <3>2 DEF l, m
    <2>12. Busy'
      <3> DEFINE w == Work'
                 x == (MaxWorkers - 1) * Longest'
                 y == MaxWorkers * now'
      <3>0. w \in Nat /\ x \in Int /\ y = 0 /\ 0 <= x
        <4>1. x \in Int
          BY <2>8, SomeWorker
        <4> QED
          BY <2>8, <2>11, <4>1
      <3>1. y <= w + x
        <4> HIDE DEF w, x, y
        <4> QED
          BY <3>0
      <3>2. y + Waiting' + Left' = w
        <4>1. Waiting' = w /\ Left' = 0
          BY <2>9, <2>10
        <4> HIDE DEF w, x, y
        <4> QED
          BY <3>0, <4>1
      <3> QED
        BY <1>2, <3>1, <3>2 DEF Busy
    <2> QED
      BY <2>6, <2>12 DEF ClockInv
  <1>6. CASE ~(Lanes \subseteq DOMAIN records)
    <2>1. queue' = queue /\ stage' = stage
      BY <1>6 DEF StartRun
    <2>2. stage = "idle"
      BY <1>6 DEF ClockInv, ClockTypeOK
    <2>3. queue' \in Seq(Jobs') /\ IsInjective(queue')
      BY <1>1, <2>1, EmptySeq DEF ClockInv, ClockTypeOK
    <2>4. ClockTypeOK'
      BY <1>1, <1>2, <1>3, <2>1, <2>2, <2>3 DEF ClockTypeOK
    <2> QED
      BY <2>1, <2>2, <2>4 DEF ClockInv
  <1> QED
    BY <1>5, <1>6

\* The facts about the present run that every step needs.
RunFacts ==
    /\ IsFiniteSet(DOMAIN running) /\ Cardinality(DOMAIN running) \in Nat
    /\ Left \in Nat /\ Waiting \in Nat /\ Work \in Nat /\ Longest \in Nat
    /\ now \in Nat /\ MaxWorkers \in Nat /\ MaxWorkers >= 1
    /\ \A j \in DOMAIN running : ToEnd[j] = running[j] - now /\ ToEnd[j] \in Nat
    /\ \A j \in Jobs : Lengths[j] = Length(j) /\ Length(j) \in Nat /\ Length(j) <= Longest
    /\ \A S \in SUBSET Jobs : IsFiniteSet(S) /\ SumFunctionOnSet(Lengths, S) \in Nat
    /\ Range(queue) \subseteq Jobs

\* While a run goes on, they hold.
LEMMA RunFactsHold ==
    ASSUME PlanInv, ClockInv, stage = "running"
    PROVE  RunFacts
  <1>1. ClockTypeOK /\ Lanes \subseteq DOMAIN records
    BY DEF ClockInv, ClockTypeOK
  <1>2. Range(queue) \subseteq Jobs
    <2>1. queue \in Seq(Jobs)
      BY <1>1 DEF ClockTypeOK
    <2> QED
      BY <2>1, RangeFinite
  <1>3. /\ \A j \in Jobs : Lengths[j] = Length(j) /\ Length(j) \in Nat /\ Length(j) <= Longest
        /\ \A S \in SUBSET Jobs : IsFiniteSet(S) /\ SumFunctionOnSet(Lengths, S) \in Nat
        /\ Work \in Nat /\ Longest \in Nat
    BY <1>1, WorkFacts
  <1>4. /\ IsFiniteSet(DOMAIN running) /\ Left \in Nat
        /\ \A j \in DOMAIN running : ToEnd[j] = running[j] - now /\ ToEnd[j] \in Nat
    BY <1>1, LeftFacts
  <1>5. Waiting \in Nat
    BY <1>2, <1>3 DEF Waiting
  <1>6. Cardinality(DOMAIN running) \in Nat
    BY <1>4, FS_CardinalityType
  <1>7. now \in Nat
    BY <1>1 DEF ClockTypeOK
  <1> QED
    BY <1>2, <1>3, <1>4, <1>5, <1>6, <1>7, SomeWorker DEF RunFacts

\* What is waiting is launched at once: its work goes from the queue to the
\* running jobs, and no job starts so late that it breaks the bound.
LEMMA LaunchKeepsClock ==
    ASSUME PlanInv, ClockInv, Launch
    PROVE  ClockInv'
  <1> DEFINE D == DOMAIN running
             count == Min({Len(queue), FreeSlots})
             front == Range(SubSeq(queue, 1, count))
  <1>1. /\ count > 0
        /\ running' = [j \in D \cup front |-> IF j \in front THEN Ends(j) ELSE running[j]]
        /\ queue' = SubSeq(queue, count + 1, Len(queue))
        /\ UNCHANGED vars /\ now' = now /\ stage' = stage
    BY DEF Launch
  <1>2. queue \in Seq(Jobs) /\ IsInjective(queue) /\ Len(queue) \in Nat
        /\ D \subseteq Jobs \ Range(queue) /\ Cardinality(D) <= MaxWorkers
        /\ \A j \in D : running[j] \in Nat /\ now <= running[j]
    <2>1. queue \in Seq(Jobs)
      BY DEF ClockInv, ClockTypeOK
    <2> QED
      BY <2>1, LenProperties DEF ClockInv, ClockTypeOK
  <1>3. FreeSlots \in Nat /\ FreeSlots + Cardinality(D) = MaxWorkers
        /\ IsFiniteSet(D) /\ Cardinality(D) \in Nat
    <2>1. IsFiniteSet(D)
      BY LeftFacts DEF ClockInv
    <2>2. Cardinality(D) \in Nat
      BY <2>1, FS_CardinalityType
    <2> QED
      BY <1>2, <2>1, <2>2, SomeWorker DEF FreeSlots
  <1>4. count \in 0..Len(queue) /\ count <= FreeSlots
    <2> DEFINE T == {Len(queue), FreeSlots}
    <2>1. T \in SUBSET Nat /\ T # {}
      BY <1>2, <1>3
    <2>2. Len(queue) \in T /\ FreeSlots \in T /\ count = Min(T)
      OBVIOUS
    <2> HIDE DEF T, count
    <2>3. count \in T /\ \A y \in T : count <= y
      BY <2>1, <2>2, MinOf
    <2> QED
      BY <1>2, <2>1, <2>2, <2>3
  <1>5. Parts(queue, Jobs, front, queue') /\ IsFiniteSet(front) /\ Cardinality(front) <= count
    <2> HIDE DEF count
    <2> QED
      BY <1>1, <1>2, <1>4, QueueSplit
  <1> HIDE DEF count, front
  <1>6. /\ front \subseteq Jobs /\ queue' \in Seq(Jobs) /\ IsInjective(queue')
        /\ front \cap Range(queue') = {} /\ front \cup Range(queue') = Range(queue)
    BY <1>5 DEF Parts
  <1>7. queue # <<>>
    <2>1. Len(queue) # 0
      BY <1>1, <1>4
    <2> QED
      BY <1>2, <2>1, EmptySeq
  <1>8. stage = "running" /\ Busy /\ Lanes \subseteq DOMAIN records
    BY <1>7 DEF ClockInv, ClockTypeOK
  <1>9. RunFacts
    BY <1>8, RunFactsHold
  <1>10. /\ Jobs' = Jobs /\ Lengths' = Lengths /\ Work' = Work /\ Longest' = Longest
         /\ \A j : Length(j)' = Length(j)
    BY <1>1, SameWork
  <1>11. /\ DOMAIN running' = D \cup front
         /\ \A j \in front : running'[j] = now + Length(j)
         /\ \A j \in D : running'[j] = running[j]
         /\ running' = [j \in DOMAIN running' |-> running'[j]]
    <2>1. D \cap front = {}
      BY <1>2, <1>6
    <2> QED
      BY <1>1, <2>1 DEF Ends
  <1> HIDE DEF D
  <1>12. Cardinality(D \cup front) <= MaxWorkers
    <2> DEFINE a == Cardinality(D)
               b == Cardinality(front)
               u == Cardinality(D \cup front)
               z == Cardinality(D \cap front)
    <2>1. u = a + b - z /\ IsFiniteSet(D \cap front)
      <3>1. IsFiniteSet(D \cap front)
        BY <1>3, FS_Subset
      <3> QED
        BY <1>3, <1>5, <3>1, FS_Union
    <2>2. z \in Nat /\ a \in Nat /\ b \in Nat
      BY <1>3, <1>5, <2>1, FS_CardinalityType
    <2>3. a + FreeSlots = MaxWorkers /\ b <= count /\ count <= FreeSlots /\ FreeSlots \in Nat
          /\ count \in Nat
      BY <1>2, <1>3, <1>4, <1>5
    <2> HIDE DEF a, b, u, z
    <2>4. u <= MaxWorkers
      BY <2>1, <2>2, <2>3
    <2> QED
      BY <2>4 DEF u
  <1>13. ClockTypeOK'
    <2>1. \A j \in D \cup front : running'[j] \in Nat /\ now <= running'[j]
      <3>1. \A j \in front : Length(j) \in Nat /\ now \in Nat
        BY <1>6, <1>9 DEF RunFacts
      <3>2. \A j \in front : now + Length(j) \in Nat /\ now <= now + Length(j)
        BY <3>1
      <3> QED
        BY <1>2, <1>11, <3>2 DEF D
    <2>2. D \cup front \subseteq Jobs \ Range(queue')
      BY <1>2, <1>6
    <2>3. now \in Nat /\ records' = records
      BY <1>1, <1>9 DEF RunFacts, vars
    <2> QED
      BY <1>1, <1>6, <1>8, <1>10, <1>11, <1>12, <2>1, <2>2, <2>3 DEF ClockTypeOK
  <1>14. MaxWorkers * now + Waiting + Left = Work
    BY <1>7, <1>8 DEF Busy
  <1>15. ASSUME NEW j \in front
         PROVE  MaxWorkers * (now + Length(j)) <= Work + (MaxWorkers - 1) * Length(j)
    <2> DEFINE R == Range(queue)
               m == MaxWorkers
               l == Length(j)
               others == SumFunctionOnSet(Lengths, R \ {j})
    <2>1. j \in R /\ R \subseteq Jobs
      BY <1>6, <1>9 DEF RunFacts
    <2>2. IsFiniteSet(R) /\ (\A x \in R : Lengths[x] \in Int) /\ Lengths[j] = l /\ l \in Nat
          /\ others \in Nat
      BY <1>9, <2>1 DEF RunFacts
    <2>3. Waiting = Lengths[j] + others
      <3> HIDE DEF R, others
      <3>1. SumFunctionOnSet(Lengths, R) = Lengths[j] + SumFunctionOnSet(Lengths, R \ {j})
        BY <2>1, <2>2, SumAdd
      <3> QED
        BY <3>1 DEF Waiting, R, others
    <2>4. m \in Nat /\ now \in Nat /\ Left \in Nat /\ Work \in Nat
      BY <1>9 DEF RunFacts
    <2> HIDE DEF R, others, l, m
    <2>5. /\ m * (now + l) = m * now + m * l
          /\ (m - 1) * l = m * l - l
          /\ m * now \in Int /\ m * l \in Int
      BY <2>2, <2>4, Multiples
    <2>6. m * now + Waiting + Left = Work
      BY <1>14 DEF m
    <2>7. m * (now + l) <= Work + (m - 1) * l
      BY <2>2, <2>3, <2>4, <2>5, <2>6
    <2> QED
      BY <2>7 DEF l, m
  <1>16. MaxWorkers * now' + Waiting' + Left' = Work'
    <2> DEFINE took == SumFunctionOnSet(Lengths, front)
               R == Range(queue)
               R2 == Range(queue')
               E == D \cup front
               toEnd == ToEnd'
    <2>1. Waiting = took + Waiting'
      <3>1. R \ front = R2
        BY <1>6
      <3>2. IsFiniteSet(R) /\ (\A x \in R : Lengths[x] \in Int) /\ front \in SUBSET R
        BY <1>6, <1>9 DEF RunFacts
      <3> HIDE DEF R, R2
      <3>3. SumFunctionOnSet(Lengths, R) = SumFunctionOnSet(Lengths, front)
                                             + SumFunctionOnSet(Lengths, R \ front)
        BY <3>2, SumSplit
      <3>4. Waiting' = SumFunctionOnSet(Lengths, R2)
        BY <1>10 DEF Waiting, R2
      <3> QED
        BY <3>1, <3>3, <3>4 DEF Waiting, R
    <2>2. /\ \A j \in D : toEnd[j] = running[j] - now
          /\ \A j \in front : toEnd[j] = (now + Length(j)) - now
      BY <1>1, <1>11 DEF ToEnd
    <2>3. Left' = SumFunctionOnSet(toEnd, E)
      BY <1>11 DEF Left
    <2> HIDE DEF toEnd
    <2>4. \A j \in D : toEnd[j] = ToEnd[j] /\ ToEnd[j] \in Nat
      BY <1>9, <2>2 DEF RunFacts, D
    <2>5. \A j \in front : toEnd[j] = Lengths[j] /\ Lengths[j] \in Nat
      <3>1. \A j \in front : Lengths[j] = Length(j) /\ Length(j) \in Nat /\ now \in Nat
        BY <1>6, <1>9 DEF RunFacts
      <3> QED
        BY <2>2, <3>1
    <2>6. IsFiniteSet(E) /\ E \ front = D /\ front \in SUBSET E
      <3>1. D \cap front = {}
        BY <1>2, <1>6
      <3>2. IsFiniteSet(E)
        BY <1>3, <1>5, FS_Union
      <3> QED
        BY <3>1, <3>2
    <2>7. SumFunctionOnSet(toEnd, E) = SumFunctionOnSet(toEnd, front)
                                         + SumFunctionOnSet(toEnd, D)
      <3>1. \A x \in E : toEnd[x] \in Int
        BY <2>4, <2>5
      <3> HIDE DEF E
      <3>2. SumFunctionOnSet(toEnd, E) = SumFunctionOnSet(toEnd, front)
                                           + SumFunctionOnSet(toEnd, E \ front)
        BY <2>6, <3>1, SumSplit
      <3> QED
        BY <2>6, <3>2
    <2>8. SumFunctionOnSet(toEnd, front) = took
      <3>1. \A x \in front : Lengths[x] \in Int /\ toEnd[x] = Lengths[x]
        BY <2>5
      <3> QED
        BY <1>5, <3>1, SumSame
    <2>9. SumFunctionOnSet(toEnd, D) = Left
      <3>1. \A x \in D : ToEnd[x] \in Int /\ toEnd[x] = ToEnd[x]
        BY <2>4
      <3>2. SumFunctionOnSet(toEnd, D) = SumFunctionOnSet(ToEnd, D)
        BY <1>3, <3>1, SumSame
      <3> QED
        BY <3>2 DEF Left, D
    <2>10. Left' = took + Left /\ took \in Nat
      BY <1>6, <1>9, <2>3, <2>7, <2>8, <2>9 DEF RunFacts
    <2>11. Waiting' \in Nat
      <3>1. R2 \in SUBSET Jobs /\ Waiting' = SumFunctionOnSet(Lengths, R2)
        BY <1>6, <1>9, <1>10 DEF Waiting, RunFacts
      <3> QED
        BY <1>9, <3>1 DEF RunFacts
    <2> DEFINE x == MaxWorkers * now
               w == Waiting'
               l == Left'
    <2>12. x \in Int /\ Left \in Nat
      BY <1>9 DEF RunFacts
    <2>13. x + w + l = Work
      <3>1. x + Waiting + Left = Work
        BY <1>14
      <3>2. Waiting = took + w /\ l = took + Left /\ w \in Nat /\ took \in Nat
        BY <2>1, <2>10, <2>11
      <3> HIDE DEF x, w, l, took
      <3> QED
        BY <2>12, <3>1, <3>2
    <2> QED
      BY <1>1, <1>10, <2>13
  <1>17. Busy'
    <2>1. \A j \in D : MaxWorkers * running[j] <= Work + (MaxWorkers - 1) * Length(j)
      BY <1>8 DEF Busy, D
    <2>2. ASSUME NEW j \in D \cup front
          PROVE  MaxWorkers * running'[j] <= Work + (MaxWorkers - 1) * Length(j)
      BY <1>11, <1>15, <2>1
    <2>3. MaxWorkers * now <= Work + (MaxWorkers - 1) * Longest
      BY <1>8 DEF Busy
    <2>4. ASSUME NEW j \in DOMAIN running'
          PROVE  MaxWorkers * running'[j] <= Work' + (MaxWorkers - 1) * Length(j)'
      <3>1. j \in D \cup front /\ Length(j)' = Length(j) /\ Work' = Work
        BY <1>10, <1>11
      <3> QED
        BY <2>2, <3>1
    <2>5. MaxWorkers * now' <= Work' + (MaxWorkers - 1) * Longest'
      BY <1>1, <1>10, <2>3
    <2> QED
      BY <1>16, <2>4, <2>5 DEF Busy
  <1> QED
    BY <1>13, <1>17 DEF ClockInv

\* Until the next job ends, the workers do what is left of the jobs; and the
\* clock is at the end of a job, which is within the bound.
LEMMA FinishKeepsClock ==
    ASSUME PlanInv, ClockInv, Finish
    PROVE  ClockInv'
  <1> DEFINE D == DOMAIN running
             t == now'
             E == {j \in D : running[j] # t}
             m == MaxWorkers
  <1>1. /\ queue = <<>> \/ FreeSlots = 0
        /\ running # <<>> /\ t = Min(Range(running))
        /\ running' = [j \in E |-> running[j]]
        /\ UNCHANGED vars /\ queue' = queue /\ stage' = stage
    BY DEF Finish, Restrict
  <1>2. stage = "running" /\ ClockTypeOK /\ Busy
    BY <1>1 DEF ClockInv, ClockTypeOK
  <1>3. RunFacts
    BY <1>2, RunFactsHold
  <1>4. /\ D \subseteq Jobs \ Range(queue) /\ Cardinality(D) <= m
        /\ \A j \in D : running[j] \in Nat /\ now <= running[j]
    BY <1>2 DEF ClockTypeOK
  <1>5. Range(running) \in SUBSET Nat /\ Range(running) # {}
        /\ Range(running) = {running[j] : j \in D}
    <2>1. Range(running) = {running[j] : j \in D}
      BY DEF Range
    <2>2. D # {}
      <3>1. running = [j \in D |-> running[j]]
        BY <1>2 DEF ClockTypeOK
      <3>2. D = {} => [j \in D |-> running[j]] = <<>>
        OBVIOUS
      <3> QED
        BY <1>1, <3>1, <3>2
    <2> QED
      BY <1>4, <2>1, <2>2
  <1>6. t \in Nat /\ (\E j \in D : running[j] = t) /\ \A j \in D : t <= running[j]
    <2>1. t \in Range(running) /\ \A y \in Range(running) : t <= y
      BY <1>1, <1>5, MinOf
    <2> QED
      BY <1>5, <2>1
  <1> HIDE DEF t
  <1>7. /\ DOMAIN running' = E /\ E \subseteq D
        /\ \A j \in E : running'[j] = running[j]
        /\ running' = [j \in DOMAIN running' |-> running'[j]]
    BY <1>1
  <1>8. IsFiniteSet(D) /\ IsFiniteSet(E) /\ Cardinality(E) <= Cardinality(D)
        /\ Cardinality(D) \in Nat /\ Cardinality(E) \in Nat
    <2>1. IsFiniteSet(D)
      BY <1>3 DEF RunFacts
    <2>2. IsFiniteSet(E) /\ Cardinality(E) <= Cardinality(D)
      BY <1>7, <2>1, FS_Subset
    <2> QED
      BY <2>1, <2>2, FS_CardinalityType
  <1>9. /\ Jobs' = Jobs /\ Lengths' = Lengths /\ Work' = Work /\ Longest' = Longest
        /\ \A j : Length(j)' = Length(j)
    BY <1>1, SameWork
  <1>10. Waiting' = Waiting
    BY <1>1, <1>9 DEF Waiting
  <1>11. ClockTypeOK'
    <2>1. Cardinality(E) <= m
      <3> DEFINE c == Cardinality(D)
                 e == Cardinality(E)
      <3>1. c \in Nat /\ e \in Nat /\ e <= c /\ c <= m /\ m \in Nat
        BY <1>4, <1>8, SomeWorker
      <3> HIDE DEF c, e, m
      <3>2. e <= m
        BY <3>1
      <3> QED
        BY <3>2 DEF e
    <2>2. \A j \in E : running'[j] \in Nat /\ t <= running'[j]
      BY <1>4, <1>6, <1>7
    <2>3. E \subseteq Jobs' \ Range(queue')
      BY <1>1, <1>4, <1>7, <1>9
    <2>4. records' = records /\ queue' \in Seq(Jobs') /\ IsInjective(queue')
          /\ Lanes \subseteq DOMAIN records
      BY <1>1, <1>2, <1>9 DEF ClockTypeOK, vars
    <2> HIDE DEF E, D
    <2> QED
      BY <1>1, <1>2, <1>6, <1>7, <2>1, <2>2, <2>3, <2>4 DEF ClockTypeOK, t
  <1>12. m \in Nat /\ m >= 1 /\ now \in Nat /\ Work \in Nat /\ Longest \in Nat /\ Waiting \in Nat
    BY <1>3 DEF RunFacts
  <1>13. m * t <= Work + (m - 1) * Longest
    <2>1. PICK j \in D : running[j] = t
      BY <1>6
    <2>2. m * t <= Work + (m - 1) * Length(j)
      BY <1>2, <2>1 DEF Busy
    <2>3. Length(j) \in Nat /\ Length(j) <= Longest
      BY <1>3, <1>4 DEF RunFacts
    <2> DEFINE l == Length(j)
    <2> HIDE DEF m, l
    <2>4. m - 1 \in Int /\ m - 1 >= 0 /\ l \in Int /\ Longest \in Int /\ l <= Longest
      BY <1>12, <2>3 DEF l
    <2>5. (m - 1) * l <= (m - 1) * Longest
      BY <2>4, Multiples
    <2>6. (m - 1) * l \in Int /\ (m - 1) * Longest \in Int /\ m * t \in Int
      BY <1>6, <1>12, <2>4, Multiples
    <2>7. m * t <= Work + (m - 1) * l
      BY <2>2 DEF l
    <2> DEFINE x == (m - 1) * l
               y == (m - 1) * Longest
               z == m * t
    <2> HIDE DEF x, y, z
    <2>8. z <= Work + y
      <3>1. x \in Int /\ y \in Int /\ z \in Int /\ x <= y /\ z <= Work + x
        BY <2>5, <2>6, <2>7 DEF x, y, z
      <3> QED
        BY <1>12, <3>1
    <2> QED
      BY <2>8 DEF y, z
  <1>14. ASSUME queue # <<>>
         PROVE  m * t + Waiting' + Left' = Work'
    <2>1. Cardinality(D) = m
      BY <1>1, <1>8, <1>12, <1>14 DEF FreeSlots
    <2> DEFINE f == [j \in D |-> running[j] - t]
               g == [j \in D |-> t - now]
               toEnd == ToEnd'
    <2>2. \A j \in D : /\ f[j] = running[j] - t /\ f[j] \in Int
                       /\ g[j] = t - now /\ g[j] \in Int
                       /\ ToEnd[j] = f[j] + g[j]
      <3>1. \A j \in D : ToEnd[j] = running[j] - now /\ running[j] \in Nat
        BY <1>3, <1>4 DEF RunFacts
      <3> QED
        BY <1>6, <1>12, <3>1
    <2>3. \A j \in E : toEnd[j] = f[j]
      BY <1>7 DEF ToEnd, t
    <2>4. Left' = SumFunctionOnSet(toEnd, E)
      BY <1>7 DEF Left
    <2>5. Left = SumFunctionOnSet(ToEnd, D)
      BY DEF Left
    <2>6. \A j \in D \ E : f[j] = 0
      BY <1>6
    <2> HIDE DEF f, g, toEnd, E, D
    <2>7. Left = SumFunctionOnSet(f, D) + SumFunctionOnSet(g, D)
      <3>1. SumFunctionOnSet(ToEnd, D) = SumFunctionOnSet(f, D) + SumFunctionOnSet(g, D)
        BY <1>8, <2>2, SumOfSums
      <3> QED
        BY <2>5, <3>1
    <2>8. SumFunctionOnSet(g, D) = m * (t - now)
      <3>1. t - now \in Int /\ \A x \in D : g[x] = t - now
        BY <1>6, <1>12, <2>2
      <3>2. SumFunctionOnSet(g, D) = Cardinality(D) * (t - now)
        BY <1>8, <3>1, SumOfSame
      <3> QED
        BY <2>1, <3>2
    <2>9. SumFunctionOnSet(f, D) = SumFunctionOnSet(f, E) + SumFunctionOnSet(f, D \ E)
      BY <1>7, <1>8, <2>2, SumSplit
    <2>10. SumFunctionOnSet(f, D \ E) = 0
      <3>1. IsFiniteSet(D \ E)
        BY <1>8, FS_Subset
      <3> QED
        BY <2>6, <3>1, SumOfZeros
    <2>11. SumFunctionOnSet(f, E) = Left' /\ SumFunctionOnSet(f, E) \in Int
      <3>1. \A x \in E : f[x] \in Int /\ toEnd[x] = f[x]
        BY <1>7, <2>2, <2>3
      <3>2. SumFunctionOnSet(toEnd, E) = SumFunctionOnSet(f, E)
        BY <1>8, <3>1, SumSame
      <3>3. SumFunctionOnSet(f, E) \in Int
        BY <1>8, <3>1, SumType
      <3> QED
        BY <2>4, <3>2, <3>3
    <2> DEFINE left == Left'
    <2>12. Left = left + m * (t - now) /\ left \in Int
      <3> DEFINE a == SumFunctionOnSet(f, D)
                 b == SumFunctionOnSet(f, E)
      <3>1. a = b + 0 /\ b = left /\ b \in Int /\ Left = a + m * (t - now)
        BY <2>7, <2>8, <2>9, <2>10, <2>11
      <3> HIDE DEF a, b, left, m
      <3> QED
        BY <3>1
    <2>13. m * now + Waiting + Left = Work
      BY <1>2, <1>14 DEF Busy
    <2> HIDE DEF m, left
    <2>14. m * (t - now) = m * t - m * now /\ m * t \in Int /\ m * now \in Int
      BY <1>6, <1>12, Multiples
    <2>15. m * t + Waiting + left = Work
      BY <1>12, <2>12, <2>13, <2>14
    <2> QED
      BY <1>9, <1>10, <2>15 DEF left
  <1>15. Busy'
    <2>1. ASSUME NEW j \in DOMAIN running'
          PROVE  m * running'[j] <= Work' + (m - 1) * Length(j)'
      <3>1. j \in D /\ running'[j] = running[j] /\ Length(j)' = Length(j) /\ Work' = Work
        BY <1>7, <1>9, <2>1
      <3>2. m * running[j] <= Work + (m - 1) * Length(j)
        BY <1>2, <3>1 DEF Busy
      <3> QED
        BY <3>1, <3>2
    <2>2. m * now' <= Work' + (m - 1) * Longest'
      BY <1>9, <1>13 DEF t
    <2>3. queue' # <<>> => m * now' + Waiting' + Left' = Work'
      BY <1>1, <1>14 DEF t
    <2> QED
      BY <2>1, <2>2, <2>3 DEF Busy
  <1> QED
    BY <1>11, <1>15 DEF ClockInv

\* Every step keeps the invariant of the clock.
LEMMA ClockInvStep ==
    ASSUME PlanInv, PlanInv', ClockInv, [SchedNext]_schedVars
    PROVE  ClockInv'
  <1>1. CASE StartRun
    BY <1>1, StartRunKeepsClock
  <1>2. CASE Launch
    BY <1>2, LaunchKeepsClock
  <1>3. CASE Finish
    BY <1>3, FinishKeepsClock
  <1>4. CASE UNCHANGED schedVars
    <2>1. UNCHANGED vars /\ queue' = queue /\ running' = running /\ now' = now /\ stage' = stage
      BY <1>4 DEF schedVars
    <2>2. /\ Jobs' = Jobs /\ Lengths' = Lengths /\ Work' = Work /\ Longest' = Longest
          /\ \A j : Length(j)' = Length(j)
      BY <2>1, SameWork
    <2>3. Waiting' = Waiting /\ ToEnd' = ToEnd /\ Left' = Left /\ records' = records
      BY <2>1, <2>2 DEF Waiting, ToEnd, Left, vars
    <2>4. ClockTypeOK' = ClockTypeOK
      BY <2>1, <2>2, <2>3 DEF ClockTypeOK
    <2>5. Busy' = Busy
      BY <2>1, <2>2, <2>3 DEF Busy
    <2> QED
      BY <2>1, <2>4, <2>5 DEF ClockInv
  <1> QED
    BY <1>1, <1>2, <1>3, <1>4 DEF SchedNext

\* Whatever is split, and however the shards are ordered: a run takes no longer
\* than a fair share of its work plus the waiting for its longest job.
THEOREM GrahamBoundHolds == SchedSpec => []GrahamBound
  <1>1. SchedInit => ClockInv
    BY ClockInvInit
  <1>2. PlanInv /\ PlanInv' /\ ClockInv /\ [SchedNext]_schedVars => ClockInv'
    BY ClockInvStep
  <1>3. PlanInv /\ ClockInv => GrahamBound
    <2> SUFFICES ASSUME PlanInv, ClockInv, RunOver
                 PROVE  MaxWorkers * now <= SumFunction([j \in Jobs |-> Length(j)])
                            + (MaxWorkers - 1) * Max({0} \cup {Length(j) : j \in Jobs})
      BY DEF GrahamBound
    <2>1. MaxWorkers * now <= Work + (MaxWorkers - 1) * Longest
      BY DEF RunOver, ClockInv, Busy
    <2>2. Work = SumFunction([j \in Jobs |-> Length(j)])
      BY DEF Work, Lengths, SumFunction
    <2> QED
      BY <2>1, <2>2 DEF Longest
  <1> QED
    BY <1>1, <1>2, <1>3, PlanInvHolds, PTL DEF SchedSpec

-----------------------------------------------------------------------------
(* The replay and the run *)

\* Every job that runs has a worker of its own in the heap h, which is free
\* when the job ends.
Seated(h, D, ends, seat) ==
    /\ seat \in [D -> 1..Len(h)]
    /\ \A i, j \in D : seat[i] = seat[j] => i = j
    /\ \A j \in D : h[seat[j]] = ends[j]

\* The workers without a job.
Spare(h, D, seat) == {v \in 1..Len(h) : \A j \in D : seat[j] # v}

\* All the others are free at t.
Matches(h, D, ends, t) ==
    \E seat : Seated(h, D, ends, seat) /\ \A v \in Spare(h, D, seat) : h[v] = t

\* Fewer jobs than workers leave a worker without one, and as many leave none.
LEMMA SeatsCounted ==
    ASSUME NEW h \in Seq(Nat), NEW D, IsFiniteSet(D), NEW ends, NEW seat,
           Seated(h, D, ends, seat)
    PROVE  /\ Cardinality(D) <= Len(h)
           /\ Cardinality(D) < Len(h) => Spare(h, D, seat) # {}
           /\ Cardinality(D) = Len(h) => Spare(h, D, seat) = {}
  <1> DEFINE n == Len(h)
             N == 1..n
             R == {seat[j] : j \in D}
             c == Cardinality(D)
  <1>1. n \in Nat
    BY LenProperties
  <1>2. seat \in [D -> N] /\ \A i, j \in D : seat[i] = seat[j] => i = j
    BY DEF Seated
  <1> HIDE DEF n
  <1>3. IsFiniteSet(N) /\ Cardinality(N) = n
    <2>1. 1 \in Int /\ n \in Int
      BY <1>1
    <2>2. IsFiniteSet(1..n) /\ Cardinality(1..n) = IF 1 > n THEN 0 ELSE n - 1 + 1
      BY <2>1, FS_Interval
    <2> QED
      BY <1>1, <2>2
  <1>4. R \in SUBSET N /\ seat \in [D -> R]
    BY <1>2
  <1>5. IsFiniteSet(R) /\ Cardinality(R) <= n /\ (n = Cardinality(R) => N = R)
    <2> HIDE DEF N, R
    <2> QED
      BY <1>3, <1>4, FS_Subset
  <1>6. seat \in Bijection(D, R)
    BY <1>2, <1>4 DEF Bijection, Injection, Surjection, IsInjective
  <1>7. Cardinality(R) = c
    <2> HIDE DEF R, c
    <2>1. Cardinality(D) = Cardinality(R)
      <3>1. ExistsBijection(D, R)
        BY <1>6 DEF ExistsBijection
      <3> QED
        BY <1>5, <3>1, FS_Bijection
    <2> QED
      BY <2>1 DEF c
  <1>8. Spare(h, D, seat) = N \ R
    BY DEF Spare, n
  <1>9. c < n => N # R
    <2> HIDE DEF N, R, c
    <2>1. N = R => n = c
      BY <1>3, <1>7
    <2>2. c \in Nat
      BY FS_CardinalityType DEF c
    <2> QED
      BY <1>1, <2>1, <2>2
  <1> HIDE DEF N, R, c
  <1> QED
    BY <1>4, <1>5, <1>7, <1>8, <1>9 DEF c, n

\* What a job adds to the heap is where it ends in the run, if a worker that
\* is free at t, or a new one at the beginning, takes it.
LEMMA PlacedMatches ==
    ASSUME NEW h \in Seq(Nat), NEW D, IsFiniteSet(D), NEW ends, NEW t \in Nat,
           Matches(h, D, ends, t), \A j \in D : ends[j] \in Nat /\ t <= ends[j],
           Cardinality(D) < MaxWorkers, Len(h) <= MaxWorkers, Len(h) < MaxWorkers => t = 0,
           NEW x, x \notin D, NEW l \in Nat, ends[x] = t + l
    PROVE  Matches(Placed(h, l), D \cup {x}, ends, t)
  <1> DEFINE n == Len(h)
             p == Placed(h, l)
             E == D \cup {x}
  <1>1. PICK seat : Seated(h, D, ends, seat) /\ \A v \in Spare(h, D, seat) : h[v] = t
    BY DEF Matches
  <1>2. n \in Nat /\ \A v \in 1..n : h[v] \in Nat
    BY LenProperties
  <1>3. /\ seat \in [D -> 1..n] /\ \A i, j \in D : seat[i] = seat[j] => i = j
        /\ \A j \in D : h[seat[j]] = ends[j] /\ seat[j] \in 1..n
    BY <1>1 DEF Seated
  <1>4. \A v \in 1..n : (\A j \in D : seat[j] # v) => h[v] = t
    BY <1>1 DEF Spare
  <1>5. CASE n < MaxWorkers
    <2> DEFINE s == [j \in E |-> IF j = x THEN n + 1 ELSE seat[j]]
    <2>1. p = Append(h, l)
      BY <1>5 DEF Placed
    <2>2. /\ p \in Seq(Nat) /\ Len(p) = n + 1
          /\ \A i \in 1..n : p[i] = h[i]
          /\ p[n + 1] = l
      BY <2>1, AppendProperties
    <2> HIDE DEF n, p
    <2>3. s[x] = n + 1 /\ \A j \in D : s[j] = seat[j]
      OBVIOUS
    <2>4. s \in [E -> 1..(n + 1)]
      <3>1. n + 1 \in 1..(n + 1) /\ \A j \in D : seat[j] \in 1..(n + 1)
        BY <1>2, <1>3
      <3> QED
        BY <3>1
    <2> HIDE DEF s
    <2>5. ASSUME NEW i \in E, NEW j \in E, s[i] = s[j]
          PROVE  i = j
      <3>1. \A k \in D : s[k] # n + 1
        BY <1>2, <1>3, <2>3
      <3> QED
        BY <1>3, <2>3, <2>5, <3>1
    <2>6. \A j \in E : p[s[j]] = ends[j]
      <3>1. p[s[x]] = ends[x]
        BY <1>5, <2>2, <2>3 DEF n
      <3>2. \A j \in D : p[s[j]] = ends[j]
        BY <1>3, <2>2, <2>3
      <3> QED
        BY <3>1, <3>2
    <2>7. ASSUME NEW v \in Spare(p, E, s)
          PROVE  p[v] = t
      <3>1. v \in 1..(n + 1) /\ \A j \in E : s[j] # v
        BY <2>2 DEF Spare
      <3>2. v # n + 1 /\ \A j \in D : seat[j] # v
        BY <2>3, <3>1
      <3>3. v \in 1..n
        BY <1>2, <3>1, <3>2
      <3> QED
        BY <1>4, <2>2, <3>2, <3>3
    <2>8. Seated(p, E, ends, s)
      BY <2>2, <2>4, <2>5, <2>6 DEF Seated
    <2> HIDE DEF E
    <2> QED
      BY <2>7, <2>8 DEF Matches, p, E
  <1>6. CASE ~(n < MaxWorkers)
    <2>1. n = MaxWorkers /\ n # 0
      BY <1>2, <1>6, SomeWorker
    <2>2. PICK v \in Spare(h, D, seat) : TRUE
      <3>1. Cardinality(D) < n
        BY <2>1
      <3> QED
        BY <1>1, <3>1, SeatsCounted
    <2>3. v \in 1..n /\ h[v] = t /\ \A j \in D : seat[j] # v
      BY <1>1, <2>2 DEF Spare
    <2> DEFINE f == NextFree(h)
               e == h[f] + l
    <2>4. f \in 1..n /\ \A w \in 1..n : h[f] <= h[w]
      BY <2>1, NextFreeIs
    <2>5. p = [h EXCEPT ![f] = e]
      BY <1>6 DEF Placed
    <2> HIDE DEF f
    <2>6. h[f] = t
      <3>1. h[f] <= t
        BY <2>3, <2>4
      <3>2. t <= h[f]
        <4>1. CASE \A j \in D : seat[j] # f
          BY <1>4, <2>4, <4>1
        <4>2. CASE \E j \in D : seat[j] = f
          BY <1>3, <4>2
        <4> QED
          BY <4>1, <4>2
      <3>3. h[f] \in Nat
        BY <1>2, <2>4
      <3> QED
        BY <3>1, <3>2, <3>3
    <2>7. e = t + l /\ e \in Nat
      BY <2>6
    <2> HIDE DEF e, p
    <2>8. /\ p \in Seq(Nat) /\ Len(p) = n
          /\ \A j \in 1..n : p[j] = IF j = f THEN e ELSE h[j]
      BY <2>4, <2>5, <2>7, ExceptSeq
    <2> HIDE DEF n
    <2>9. CASE \A j \in D : seat[j] # f
      <3> DEFINE s == [j \in E |-> IF j = x THEN f ELSE seat[j]]
      <3>1. s[x] = f /\ \A j \in D : s[j] = seat[j]
        OBVIOUS
      <3>2. s \in [E -> 1..n]
        BY <1>3, <2>4
      <3> HIDE DEF s
      <3>3. \A i, j \in E : s[i] = s[j] => i = j
        BY <1>3, <2>9, <3>1
      <3>4. \A j \in E : p[s[j]] = ends[j]
        <4>1. p[f] = ends[x]
          BY <2>4, <2>7, <2>8
        <4>2. \A j \in D : p[seat[j]] = ends[j]
          BY <1>3, <2>8, <2>9
        <4> QED
          BY <3>1, <4>1, <4>2
      <3>5. ASSUME NEW w \in Spare(p, E, s)
            PROVE  p[w] = t
        <4>1. w \in 1..n /\ \A j \in E : s[j] # w
          BY <2>8 DEF Spare
        <4>2. w # f /\ \A j \in D : seat[j] # w
          BY <3>1, <4>1
        <4> QED
          BY <1>4, <2>8, <4>1, <4>2
      <3>6. Seated(p, E, ends, s)
        BY <2>8, <3>2, <3>3, <3>4 DEF Seated
      <3> HIDE DEF E
      <3> QED
        BY <3>5, <3>6 DEF Matches, p, E
    <2>10. CASE \E j \in D : seat[j] = f
      <3>1. PICK a \in D : seat[a] = f
        BY <2>10
      <3> DEFINE s == [j \in E |-> IF j = x THEN f ELSE IF j = a THEN v ELSE seat[j]]
      <3>2. s[x] = f /\ s[a] = v /\ \A j \in D : j # a => s[j] = seat[j]
        OBVIOUS
      <3>3. s \in [E -> 1..n]
        BY <1>3, <2>3, <2>4
      <3>4. v # f
        BY <2>3, <3>1
      <3> HIDE DEF s
      <3>5. \A j \in D : j # a => seat[j] # f /\ seat[j] # v
        BY <1>3, <2>3, <3>1
      <3>6. ASSUME NEW i \in E, NEW j \in E, s[i] = s[j]
            PROVE  i = j
        BY <1>3, <3>2, <3>4, <3>5, <3>6
      <3>7. \A j \in E : p[s[j]] = ends[j]
        <4>1. p[f] = ends[x]
          BY <2>4, <2>7, <2>8
        <4>2. p[v] = ends[a]
          <5>1. p[v] = h[v] /\ h[v] = t
            BY <2>3, <2>8, <3>4
          <5>2. ends[a] = t
            BY <1>3, <2>6, <3>1
          <5> QED
            BY <5>1, <5>2
        <4>3. \A j \in D : j # a => p[seat[j]] = ends[j]
          BY <1>3, <2>8, <3>5
        <4> QED
          BY <3>2, <4>1, <4>2, <4>3
      <3>8. ASSUME NEW w \in Spare(p, E, s)
            PROVE  p[w] = t
        <4>1. w \in 1..n /\ \A j \in E : s[j] # w
          BY <2>8 DEF Spare
        <4>2. w # f /\ \A j \in D : seat[j] # w
          BY <3>1, <3>2, <4>1
        <4> QED
          BY <1>4, <2>8, <4>1, <4>2
      <3>9. Seated(p, E, ends, s)
        BY <2>8, <3>3, <3>6, <3>7 DEF Seated
      <3> HIDE DEF E
      <3> QED
        BY <3>8, <3>9 DEF Matches, p, E
    <2> QED
      BY <2>9, <2>10
  <1> QED
    BY <1>5, <1>6

\* After k placements the heap has k workers, or all.
LEMMA HeapLength ==
    ASSUME NEW q, NEW n \in Nat, \A i \in 1..n : q[i] \in Nat, NEW heap, HeapOf(heap, q, n)
    PROVE  \A k \in 0..n : heap[k] \in Seq(Nat)
                           /\ Len(heap[k]) = IF k < MaxWorkers THEN k ELSE MaxWorkers
  <1> DEFINE Right(k) == Len(heap[k]) = IF k < MaxWorkers THEN k ELSE MaxWorkers
             Failing == {k \in 0..n : ~Right(k)}
  <1>1. /\ \A k \in 0..n : heap[k] \in Seq(Nat)
        /\ heap[0] = <<>> /\ \A i \in 1..n : heap[i] = Placed(heap[i - 1], q[i])
    BY DEF HeapOf
  <1>2. Right(0)
    <2>1. Len(heap[0]) = 0
      BY <1>1, EmptySeq
    <2> QED
      BY <2>1, SomeWorker
  <1>3. Failing = {}
    <2> SUFFICES ASSUME Failing # {}
                 PROVE  FALSE
      OBVIOUS
    <2>1. PICK k \in Failing : \A m \in Failing : k <= m
      <3>1. Failing \subseteq Nat
        OBVIOUS
      <3> HIDE DEF Failing
      <3> QED
        BY <3>1, LeastNat
    <2>2. k \in 0..n /\ ~Right(k)
      BY <2>1
    <2>3. k # 0
      BY <1>2, <2>2
    <2>4. k \in 1..n /\ k - 1 \in 0..n /\ ~(k <= k - 1)
      BY <2>2, <2>3
    <2>5. Right(k - 1)
      BY <2>1, <2>4
    <2>6. Len(heap[k]) = IF Len(heap[k - 1]) < MaxWorkers THEN Len(heap[k - 1]) + 1
                         ELSE Len(heap[k - 1])
      <3>1. heap[k - 1] \in Seq(Nat) /\ q[k] \in Nat /\ heap[k] = Placed(heap[k - 1], q[k])
        BY <1>1, <2>4
      <3> QED
        BY <3>1, PlacedIs
    <2>7. Right(k)
      BY <2>4, <2>5, <2>6, SomeWorker
    <2> QED
      BY <2>2, <2>7
  <1> QED
    BY <1>1, <1>3

\* At t, k durations of q are placed in the heap, and c jobs, whose lengths are
\* the next ones, can join the jobs D that run.
Launching(q, n, heap, k, c, s, D, t, ends) ==
    /\ n \in Nat /\ (\A i \in 1..n : q[i] \in Nat) /\ HeapOf(heap, q, n)
    /\ k \in 0..n /\ c \in Nat /\ k + c <= n
    /\ (\A i, j \in 1..c : s[i] = s[j] => i = j) /\ (\A i \in 1..c : s[i] \notin D)
    /\ IsFiniteSet(D) /\ Cardinality(D) + c <= MaxWorkers
    /\ t \in Nat /\ (k < MaxWorkers => t = 0)
    /\ \A j \in D : ends[j] \in Nat /\ t <= ends[j]
    /\ \A i \in 1..c : ends[s[i]] = t + q[k + i]

\* The first c jobs of the queue s.
FirstJobs(s, c) == {s[i] : i \in 1..c}

\* Launching c jobs of the queue s at once is placing their lengths one after
\* the other.
LEMMA LaunchMatches ==
    ASSUME NEW q, NEW n, NEW heap, NEW k, NEW c, NEW s, NEW D, NEW t, NEW ends,
           Launching(q, n, heap, k, c, s, D, t, ends), Matches(heap[k], D, ends, t)
    PROVE  Matches(heap[k + c], D \cup FirstJobs(s, c), ends, t)
  <1>a. /\ n \in Nat /\ (\A i \in 1..n : q[i] \in Nat) /\ HeapOf(heap, q, n)
        /\ k \in 0..n /\ c \in Nat /\ k + c <= n
    BY DEF Launching
  <1>b. /\ (\A i, j \in 1..c : s[i] = s[j] => i = j) /\ (\A i \in 1..c : s[i] \notin D)
        /\ IsFiniteSet(D) /\ Cardinality(D) + c <= MaxWorkers
    BY DEF Launching
  <1>c. /\ t \in Nat /\ (k < MaxWorkers => t = 0)
        /\ (\A j \in D : ends[j] \in Nat /\ t <= ends[j])
        /\ \A i \in 1..c : ends[s[i]] = t + q[k + i]
    BY DEF Launching
  <1> DEFINE A(i) == D \cup {s[m] : m \in 1..i}
             Right(i) == /\ Matches(heap[k + i], A(i), ends, t)
                         /\ IsFiniteSet(A(i)) /\ Cardinality(A(i)) <= Cardinality(D) + i
             Failing == {i \in 0..c : ~Right(i)}
  <1>0. \A m \in 0..n : heap[m] \in Seq(Nat)
                         /\ Len(heap[m]) = IF m < MaxWorkers THEN m ELSE MaxWorkers
    BY <1>a, HeapLength
  <1>1. Cardinality(D) \in Nat
    BY <1>b, FS_CardinalityType
  <1>2. Right(0)
    <2>1. A(0) = D /\ k + 0 = k
      BY <1>a
    <2> HIDE DEF A
    <2>2. Cardinality(A(0)) <= Cardinality(D) + 0
      BY <1>1, <2>1
    <2> QED
      BY <1>b, <2>1, <2>2
  <1>3. ASSUME NEW i \in 1..c, Right(i - 1)
        PROVE  Right(i)
    <2> DEFINE B == A(i - 1)
               x == s[i]
               h == heap[k + (i - 1)]
               l == q[k + i]
    <2>1. A(i) = B \cup {x}
      <3>1. 1..i = (1..(i - 1)) \cup {i}
        BY <1>a
      <3> QED
        BY <3>1
    <2>2. k + (i - 1) \in 0..n /\ k + i \in 1..n /\ (k + i) - 1 = k + (i - 1)
      BY <1>a
    <2>3. x \notin B
      <3>1. \A m \in 1..(i - 1) : m \in 1..c /\ m # i
        BY <1>a
      <3>2. \A m \in 1..(i - 1) : s[m] # s[i]
        BY <1>b, <3>1
      <3> QED
        BY <1>b, <3>2
    <2>4. h \in Seq(Nat) /\ Len(h) = IF k + (i - 1) < MaxWorkers THEN k + (i - 1) ELSE MaxWorkers
      BY <1>0, <2>2
    <2>5. heap[k + i] = Placed(h, l) /\ l \in Nat
      <3>1. heap[k + i] = Placed(heap[(k + i) - 1], q[k + i])
        BY <1>a, <2>2 DEF HeapOf
      <3> QED
        BY <1>a, <2>2, <3>1
    <2>6. ends[x] = t + l
      BY <1>c
    <2>7. IsFiniteSet(B) /\ Cardinality(B) <= Cardinality(D) + (i - 1) /\ Matches(h, B, ends, t)
      BY <1>3
    <2>8. \A j \in B : ends[j] \in Nat /\ t <= ends[j]
      <3>1. ASSUME NEW m \in 1..(i - 1)
            PROVE  ends[s[m]] \in Nat /\ t <= ends[s[m]]
        <4>1. m \in 1..c /\ k + m \in 1..n
          BY <1>a
        <4>2. ends[s[m]] = t + q[k + m] /\ q[k + m] \in Nat
          BY <1>a, <1>c, <4>1
        <4> HIDE DEF A
        <4> QED
          BY <1>c, <4>2
      <3> QED
        BY <1>c, <3>1
    <2> HIDE DEF A, B, x, h, l
    <2>9. Cardinality(B) \in Nat
      BY <2>7, FS_CardinalityType
    <2>10. Cardinality(B) < MaxWorkers
      BY <1>1, <1>a, <1>b, <2>7, <2>9, SomeWorker
    <2>11. Len(h) <= MaxWorkers /\ (Len(h) < MaxWorkers => t = 0)
      BY <1>a, <1>c, <2>4, SomeWorker
    <2>12. Matches(Placed(h, l), B \cup {x}, ends, t)
      BY <1>c, <2>3, <2>4, <2>5, <2>6, <2>7, <2>8, <2>10, <2>11, PlacedMatches
    <2>13. IsFiniteSet(B \cup {x}) /\ Cardinality(B \cup {x}) = Cardinality(B) + 1
      BY <2>3, <2>7, FS_AddElement
    <2>14. Cardinality(B \cup {x}) <= Cardinality(D) + i
      BY <1>1, <1>a, <2>7, <2>9, <2>13
    <2> QED
      BY <2>1, <2>5, <2>12, <2>13, <2>14
  <1>4. Failing = {}
    <2> SUFFICES ASSUME Failing # {}
                 PROVE  FALSE
      OBVIOUS
    <2>1. PICK i \in Failing : \A m \in Failing : i <= m
      <3>1. Failing \subseteq Nat
        BY <1>a
      <3> HIDE DEF Failing
      <3> QED
        BY <3>1, LeastNat
    <2>2. i \in 0..c /\ ~Right(i)
      BY <2>1
    <2> HIDE DEF Right
    <2>3. i # 0
      BY <1>2, <2>2
    <2>4. i \in 1..c /\ i - 1 \in 0..c /\ ~(i <= i - 1)
      BY <1>a, <2>2, <2>3
    <2>5. Right(i - 1)
      BY <2>1, <2>4
    <2> QED
      BY <1>3, <2>2, <2>4, <2>5
  <1>5. Right(c)
    <2>1. c \in 0..c
      BY <1>a
    <2> HIDE DEF Right
    <2> QED
      BY <1>4, <2>1
  <1> QED
    BY <1>5 DEF FirstJobs

\* Each element of x and y is one of a and b, from one place.
Alike(x, a, y, b, n) == \A k \in 1..n : \E i \in 1..n : x[k] = a[i] /\ y[k] = b[i]

\* Sorting two sequences by one order takes their elements from one place.
LEMMA SortedTogether ==
    ASSUME NEW a, NEW b, NEW n \in Nat, Len(a) = n, Len(b) = n, NEW before, Orders(before, n)
    PROVE  Alike(sorted(a, before), a, sorted(b, before), b, n)
  <1> DEFINE at(k) == CHOOSE i \in 1..n : Cardinality({j \in 1..n : <<j, i>> \in before}) = k - 1
  <1>1. ASSUME NEW k \in 1..n
        PROVE  at(k) \in 1..n
    <2>1. \E i \in 1..n : Cardinality({j \in 1..n : <<j, i>> \in before}) = k - 1
      <3>1. \E i \in 1..n : Cardinality(Earlier(before, n, i)) = k - 1
        BY Ranks
      <3> QED
        BY <3>1 DEF Earlier
    <2> QED
      BY <2>1
  <1>2. \A k \in 1..n : sorted(a, before)[k] = a[at(k)]
    BY DEF sorted
  <1>3. \A k \in 1..n : sorted(b, before)[k] = b[at(k)]
    BY DEF sorted
  <1> HIDE DEF at
  <1> QED
    BY <1>1, <1>2, <1>3 DEF Alike

\* What simulate_makespan replays for a run that is not split.
Durations == [i \in DOMAIN Order |-> Total(Order[i])]

\* The queue is what the replay has still to place, and its heap has the ends
\* of the jobs that run.  As long as jobs wait, a free worker is one that has
\* just become free, and workers are added at the beginning only.  In the end
\* the last worker becomes free now.
Replayed(at, q, heap) ==
    LET n == Len(Durations)
        k == n - Len(queue)
        h == heap[k]
    IN  /\ Replays(Durations, at, q, heap) /\ Len(queue) <= n
        /\ \A i \in 1..Len(queue) : Length(queue[i]) = q[k + i]
        /\ queue # <<>> /\ k < MaxWorkers => now = 0
        /\ \E seat : /\ Seated(h, DOMAIN running, running, seat)
                     /\ \A v \in Spare(h, DOMAIN running, seat) :
                            h[v] <= now /\ (queue # <<>> => h[v] = now)
        /\ queue = <<>> /\ DOMAIN running = {} =>
                (n = 0 /\ now = 0) \/ \E v \in 1..Len(h) : h[v] = now

ReplayInv ==
    stage = "running" /\ ~Sharded => \E at, q, heap : Replayed(at, q, heap)

\* The durations are numbers, and a run does not change them.
LEMMA DurationsType ==
    ASSUME records \in Histories, Lanes \subseteq DOMAIN records
    PROVE  /\ Durations \in Seq(Nat) /\ Len(Durations) = Len(Order) /\ Len(Order) \in Nat
           /\ DOMAIN Order = 1..Len(Order)
           /\ \A i \in 1..Len(Order) : Durations[i] = 2 * records[Order[i]].total
                                       /\ Order[i] \in Lanes /\ records[Order[i]].total \in Nat
  <1> DEFINE n == Len(Order)
  <1>1. Order \in Seq(Lanes) /\ n \in Nat /\ DOMAIN Order = 1..n
        /\ \A i \in 1..n : Order[i] \in Lanes
    BY PlanningAssumption, LenProperties
  <1>2. \A i \in 1..n : records[Order[i]].total \in Nat
    BY <1>1, RecordFacts
  <1>3. Durations = [i \in 1..n |-> 2 * records[Order[i]].total]
    BY <1>1 DEF Durations, Total
  <1> HIDE DEF n
  <1>4. Durations \in [1..n -> Nat]
    BY <1>2, <1>3
  <1>5. Durations \in Seq(Nat) /\ Len(Durations) = n
    BY <1>1, <1>4, FunctionIsSeq
  <1> QED
    BY <1>1, <1>2, <1>3, <1>5 DEF n

\* Without a split the work queue starts in the order of the replay.
LEMMA StartRunReplays ==
    ASSUME PlanInv, PlanInv', ClockInv, StartRun
    PROVE  ReplayInv'
  <1> SUFFICES ASSUME stage' = "running", ~Sharded'
               PROVE  \E at, q, heap : Replayed(at, q, heap)'
    BY DEF ReplayInv
  <1>1. running = <<>> /\ running' = running /\ now' = 0 /\ queue = <<>>
    BY DEF StartRun, RunOver, ClockInv, ClockTypeOK
  <1>2. records' = records /\ records \in Histories
    BY DEF StartRun, PlanRun, PlanInv, PlanTypeOK
  <1>3. Lanes \subseteq DOMAIN records
    <2>1. stage = "running" => Lanes \subseteq DOMAIN records
      BY DEF ClockInv, ClockTypeOK
    <2>2. ~(Lanes \subseteq DOMAIN records) => stage' = stage
      BY DEF StartRun
    <2> QED
      BY <2>1, <2>2
  <1> DEFINE n == Len(Order)
             p == plan'
             cmds == commands(p)
             before == Longer(Durations)
  <1>4. queue' = launch_order(cmds)
    BY <1>3 DEF StartRun
  <1>5. p.sharded_lane \notin Lanes
    <2>1. p.sharded_lane = ""
      BY DEF Sharded
    <2> QED
      BY <2>1, PlanningAssumption
  <1>6. cmds = [i \in DOMAIN Order |-> <<Order[i], 0>>]
    BY <1>5, CommandsWhole
  <1>7. /\ Durations \in Seq(Nat) /\ Len(Durations) = n /\ n \in Nat
        /\ DOMAIN Order = 1..n
        /\ \A i \in 1..n : Durations[i] = 2 * records[Order[i]].total
                           /\ Order[i] \in Lanes /\ records[Order[i]].total \in Nat
    BY <1>2, <1>3, DurationsType
  <1> HIDE DEF n, p
  <1>8. Len(cmds) = n /\ \A i \in 1..n : cmds[i] = <<Order[i], 0>>
    <2>1. cmds = [i \in 1..n |-> <<Order[i], 0>>]
      BY <1>6, <1>7
    <2>2. cmds \in [1..n -> JobNames]
      BY <1>7, <2>1 DEF JobNames
    <2> HIDE DEF cmds
    <2>3. Len(cmds) = n
      BY <1>7, <2>2, FunctionIsSeq
    <2> QED
      BY <2>1, <2>3
  <1> HIDE DEF cmds
  <1>9. LaunchesBefore(cmds) = before
    <2> DEFINE t(i) == records[Order[i]].total
    <2>1. ASSUME NEW i \in 1..n, NEW j \in 1..n
          PROVE  GoesBefore(cmds, i, j) <=>
                    Durations[i] > Durations[j] \/ (Durations[i] = Durations[j] /\ i < j)
      <3>1. cmds[i] = <<Order[i], 0>> /\ cmds[j] = <<Order[j], 0>>
        BY <1>8
      <3>2. Recorded(cmds[i]) /\ Recorded(cmds[j])
        BY <1>3, <1>7, <3>1 DEF Recorded
      <3>3. GoesBefore(cmds, i, j) <=> t(i) > t(j) \/ (t(i) = t(j) /\ i < j)
        BY <3>1, <3>2 DEF GoesBefore
      <3>4. Durations[i] = 2 * t(i) /\ Durations[j] = 2 * t(j) /\ t(i) \in Nat /\ t(j) \in Nat
        BY <1>7
      <3> HIDE DEF t
      <3> QED
        BY <3>3, <3>4
    <2>2. \A x \in (1..n) \X (1..n) :
            GoesBefore(cmds, x[1], x[2]) <=>
                Durations[x[1]] > Durations[x[2]]
                \/ (Durations[x[1]] = Durations[x[2]] /\ x[1] < x[2])
      BY <2>1
    <2>3. LaunchesBefore(cmds) = {x \in (1..n) \X (1..n) : GoesBefore(cmds, x[1], x[2])}
      BY <1>8 DEF LaunchesBefore
    <2>4. before = {x \in (1..n) \X (1..n) :
                        \/ Durations[x[1]] > Durations[x[2]]
                        \/ Durations[x[1]] = Durations[x[2]] /\ x[1] < x[2]}
      BY <1>7 DEF Longer
    <2> QED
      BY <2>2, <2>3, <2>4
  <1>10. queue' = sorted(cmds, before)
    BY <1>4, <1>9 DEF launch_order, LaunchesBefore
  <1>11. PICK at, q, heap : Replays(Durations, at, q, heap)
    BY <1>7, ReplayExists
  <1>12. q = sorted(Durations, before) /\ HeapOf(heap, q, n)
    BY <1>7, <1>11 DEF Replays
  <1>13. \A k \in 1..n : \E i \in 1..n : queue'[k] = cmds[i] /\ q[k] = Durations[i]
    <2>1. Orders(before, n)
      BY <1>7, LongerOrders
    <2>2. Len(cmds) = n /\ Len(Durations) = n /\ n \in Nat
      BY <1>7, <1>8
    <2> HIDE DEF before
    <2>3. Alike(sorted(cmds, before), cmds, sorted(Durations, before), Durations, n)
      BY <2>1, <2>2, SortedTogether
    <2>4. Alike(queue', cmds, q, Durations, n)
      BY <1>10, <1>12, <2>3
    <2> QED
      BY <2>4 DEF Alike
  <1>14. Len(queue') = n
    <2>1. queue' = [k \in 1..n |-> queue'[k]]
      BY <1>8, <1>10 DEF sorted
    <2> HIDE DEF before
    <2>2. queue' \in [1..n -> {queue'[k] : k \in 1..n}]
      BY <2>1
    <2> QED
      BY <1>7, <2>2, FunctionIsSeq
  <1>15. \A k \in 1..n : Length(queue[k])' = q[k]
    <2>1. ASSUME NEW k \in 1..n
          PROVE  Length(queue[k])' = q[k]
      <3>1. PICK i \in 1..n : queue'[k] = cmds[i] /\ q[k] = Durations[i]
        BY <1>13
      <3>2. queue'[k] = <<Order[i], 0>> /\ q[k] = 2 * records[Order[i]].total
        BY <1>7, <1>8, <3>1
      <3>3. queue'[k][1] = Order[i] /\ queue'[k][2] = 0
        BY <3>2
      <3> QED
        BY <1>2, <3>2, <3>3 DEF Length
    <2> QED
      BY <2>1
  <1>16. Durations' = Durations
    BY <1>2 DEF Durations, Total
  <1>17. heap[0] = <<>> /\ Len(heap[0]) = 0
    BY <1>12, EmptySeq DEF HeapOf
  <1>18. DOMAIN running' = {}
    BY <1>1, EmptySeq
  <1>19. \E seat : /\ Seated(heap[0], DOMAIN running', running', seat)
                   /\ \A v \in Spare(heap[0], DOMAIN running', seat) :
                            heap[0][v] <= now' /\ (queue' # <<>> => heap[0][v] = now')
    <2> DEFINE seat == [j \in {} |-> 0]
    <2>1. Seated(heap[0], {}, running', seat)
      BY DEF Seated
    <2>2. Spare(heap[0], {}, seat) = {}
      BY <1>17 DEF Spare
    <2> HIDE DEF seat
    <2> QED
      BY <1>18, <2>1, <2>2
  <1>20. n - Len(queue') = 0 /\ Len(Durations') = n
    BY <1>7, <1>14, <1>16
  <1>21. \A i \in 1..Len(queue') : Length(queue[i])' = q[0 + i]
    <2>1. \A i \in 1..n : 0 + i = i
      BY <1>7
    <2> QED
      BY <1>14, <1>15, <2>1
  <1>22. queue' = <<>> => n = 0
    BY <1>14
  <1>23. Replays(Durations', at, q, heap)
    BY <1>11, <1>16
  <1>24. Len(queue') <= n
    BY <1>7, <1>14
  <1>25. Replayed(at, q, heap)'
    BY <1>1, <1>19, <1>20, <1>21, <1>22, <1>23, <1>24 DEF Replayed
  <1> QED
    BY <1>25

\* What is launched is what the replay places next, on a worker that is free now.
LEMMA LaunchReplays ==
    ASSUME PlanInv, ClockInv, ReplayInv, Launch
    PROVE  ReplayInv'
  <1> DEFINE D == DOMAIN running
             c == Min({Len(queue), FreeSlots})
             front == Range(SubSeq(queue, 1, c))
  <1>1. /\ c > 0
        /\ running' = [j \in D \cup front |-> IF j \in front THEN Ends(j) ELSE running[j]]
        /\ queue' = SubSeq(queue, c + 1, Len(queue))
        /\ UNCHANGED vars /\ now' = now /\ stage' = stage
    BY DEF Launch
  <1> SUFFICES ASSUME stage' = "running", ~Sharded'
               PROVE  \E at, q, heap : Replayed(at, q, heap)'
    BY DEF ReplayInv
  <1>2. stage = "running" /\ ~Sharded
    BY <1>1 DEF Sharded, vars
  <1>3. RunFacts
    BY <1>2, RunFactsHold
  <1>4. /\ queue \in Seq(Jobs) /\ IsInjective(queue)
        /\ D \subseteq Jobs \ Range(queue) /\ Cardinality(D) <= MaxWorkers
        /\ \A j \in D : running[j] \in Nat /\ now <= running[j]
    BY DEF ClockInv, ClockTypeOK
  <1>5. /\ DOMAIN queue = 1..Len(queue) /\ Len(queue) \in Nat
        /\ \A i \in 1..Len(queue) : queue[i] \in Jobs
    BY <1>4, LenProperties
  <1>6. IsFiniteSet(D) /\ Cardinality(D) \in Nat /\ FreeSlots = MaxWorkers - Cardinality(D)
        /\ FreeSlots \in Nat
    <2>1. IsFiniteSet(D) /\ Cardinality(D) \in Nat
      BY <1>3 DEF RunFacts
    <2> QED
      BY <1>4, <2>1, SomeWorker DEF FreeSlots
  <1>7. c \in 1..Len(queue) /\ Cardinality(D) + c <= MaxWorkers /\ c \in Nat
    <2> DEFINE T == {Len(queue), FreeSlots}
    <2>1. T \in SUBSET Nat /\ T # {}
      BY <1>5, <1>6
    <2>2. Len(queue) \in T /\ FreeSlots \in T /\ c = Min(T)
      OBVIOUS
    <2> HIDE DEF T, c
    <2>3. c \in T /\ \A y \in T : c <= y
      BY <2>1, <2>2, MinOf
    <2>4. c \in Nat /\ c <= Len(queue) /\ c <= FreeSlots
      BY <2>1, <2>2, <2>3
    <2> QED
      BY <1>1, <1>5, <1>6, <2>4, SomeWorker
  <1> HIDE DEF c
  <1>8. front = {queue[i] : i \in 1..c}
    <2> DEFINE a == SubSeq(queue, 1, c)
    <2>1. /\ 1 \in Int /\ c \in Int /\ \A i \in 1..c : queue[i] \in Jobs
      BY <1>5, <1>7
    <2>2. /\ a \in Seq(Jobs) /\ Len(a) = (IF 1 <= c THEN c - 1 + 1 ELSE 0)
          /\ \A i \in 1..c - 1 + 1 : a[i] = queue[1 + i - 1]
      BY <2>1, SubSeqProperties
    <2> HIDE DEF a
    <2>3. Len(a) = c /\ \A i \in 1..c : a[i] = queue[i]
      BY <1>7, <2>2
    <2>4. Range(a) = {a[i] : i \in 1..c}
      BY <2>2, <2>3, RangeFinite
    <2> QED
      BY <2>3, <2>4 DEF a
  <1>9. /\ Len(queue') = Len(queue) - c
        /\ \A i \in 1..(Len(queue) - c) : queue'[i] = queue[c + i]
    <2> DEFINE n == Len(queue)
               b == SubSeq(queue, c + 1, n)
    <2>0. n \in Nat /\ c \in 1..n /\ \A i \in 1..n : queue[i] \in Jobs
      BY <1>5, <1>7
    <2> HIDE DEF n
    <2>1. /\ c + 1 \in Int /\ n \in Int /\ \A i \in (c + 1)..n : queue[i] \in Jobs
      BY <2>0
    <2>2. /\ b \in Seq(Jobs) /\ Len(b) = (IF c + 1 <= n THEN n - (c + 1) + 1 ELSE 0)
          /\ \A i \in 1..n - (c + 1) + 1 : b[i] = queue[(c + 1) + i - 1]
      BY <2>1, SubSeqProperties
    <2>3. b = queue'
      BY <1>1 DEF n
    <2> HIDE DEF b
    <2>4. Len(b) = n - c /\ \A i \in 1..(n - c) : b[i] = queue[c + i]
      BY <2>0, <2>2
    <2> QED
      BY <2>3, <2>4 DEF n
  <1>10. \A i, j \in 1..c : queue[i] = queue[j] => i = j
    BY <1>4, <1>5, <1>7 DEF IsInjective
  <1>11. \A i \in 1..c : queue[i] \notin D /\ queue[i] \in front
    <2>1. Range(queue) = {queue[i] : i \in 1..Len(queue)}
      BY <1>4, RangeFinite
    <2> QED
      BY <1>4, <1>5, <1>7, <1>8, <2>1
  <1>12. queue # <<>>
    BY <1>5, <1>7, EmptySeq
  <1>13. PICK at, q, heap : Replayed(at, q, heap)
    BY <1>2 DEF ReplayInv
  <1> DEFINE n == Len(Durations)
             k == n - Len(queue)
  <1>14. /\ Replays(Durations, at, q, heap) /\ Len(queue) <= n
         /\ \A i \in 1..Len(queue) : Length(queue[i]) = q[k + i]
         /\ k < MaxWorkers => now = 0
         /\ \E seat : /\ Seated(heap[k], D, running, seat)
                      /\ \A v \in Spare(heap[k], D, seat) : heap[k][v] = now
    BY <1>12, <1>13 DEF Replayed
  <1>15. n \in Nat /\ HeapOf(heap, q, n) /\ \A i \in 1..n : q[i] \in Nat
    <2>1. Durations \in Seq(Nat)
      <3>1. records \in Histories /\ Lanes \subseteq DOMAIN records
        BY <1>2 DEF PlanInv, PlanTypeOK, ClockInv, ClockTypeOK
      <3> QED
        BY <3>1, DurationsType
    <2> QED
      BY <1>14, <2>1, LenProperties DEF Replays
  <1> HIDE DEF front, D, n, k
  <1>16. k \in 0..n /\ k + c <= n /\ k = n - Len(queue)
    BY <1>5, <1>7, <1>14, <1>15 DEF k
  <1>17. /\ \A j \in D : running'[j] = running[j]
         /\ \A j \in front : running'[j] = now + Length(j)
         /\ DOMAIN running' = D \cup front
    <2>1. D \cap front = {}
      BY <1>8, <1>11
    <2> QED
      BY <1>1, <2>1 DEF Ends
  <1>18. Matches(heap[k + c], D \cup front, running', now)
    <2> DEFINE ends == running'
    <2>1. \A j \in D : ends[j] \in Nat /\ now <= ends[j]
      BY <1>4, <1>17
    <2>2. \A i \in 1..c : ends[queue[i]] = now + q[k + i]
      <3>1. \A i \in 1..c : i \in 1..Len(queue)
        BY <1>5, <1>7
      <3> QED
        BY <1>11, <1>14, <1>17, <3>1
    <2>3. now \in Nat
      BY <1>3 DEF RunFacts
    <2>4. Matches(heap[k], D, ends, now)
      BY <1>14, <1>17 DEF Matches, Seated
    <2> HIDE DEF ends
    <2>5. Matches(heap[k + c], D \cup {queue[i] : i \in 1..c}, ends, now)
      <3> DEFINE s == queue
      <3>1. /\ \A i, j \in 1..c : s[i] = s[j] => i = j
            /\ \A i \in 1..c : s[i] \notin D
            /\ \A i \in 1..c : ends[s[i]] = now + q[k + i]
        BY <1>10, <1>11, <2>2
      <3> HIDE DEF s
      <3>2. /\ n \in Nat /\ (\A i \in 1..n : q[i] \in Nat) /\ HeapOf(heap, q, n)
            /\ k \in 0..n /\ c \in Nat /\ k + c <= n
            /\ IsFiniteSet(D) /\ Cardinality(D) + c <= MaxWorkers
            /\ (k < MaxWorkers => now = 0)
        BY <1>6, <1>7, <1>14, <1>15, <1>16
      <3>3. Launching(q, n, heap, k, c, s, D, now, ends)
        BY <2>1, <2>3, <3>1, <3>2 DEF Launching
      <3>4. Matches(heap[k + c], D \cup FirstJobs(s, c), ends, now)
        BY <2>4, <3>3, LaunchMatches
      <3> QED
        BY <3>4 DEF FirstJobs, s
    <2> QED
      BY <1>8, <2>5 DEF ends
  <1>19. Durations' = Durations /\ \A j : Length(j)' = Length(j)
    <2>1. Durations' = Durations
      BY <1>1 DEF Durations, Total, vars
    <2> QED
      BY <1>1, <2>1, SameWork
  <1>20. n - Len(queue') = k + c
    BY <1>5, <1>7, <1>9, <1>15, <1>16
  <1>21. \A i \in 1..Len(queue') : Length(queue[i])' = q[(k + c) + i]
    <2>1. ASSUME NEW i \in 1..Len(queue')
          PROVE  Length(queue[i])' = q[(k + c) + i]
      <3>1. i \in 1..(Len(queue) - c) /\ c + i \in 1..Len(queue) /\ k + (c + i) = (k + c) + i
        BY <1>5, <1>7, <1>9, <1>15, <1>16, <2>1
      <3>2. queue'[i] = queue[c + i]
        BY <1>9, <3>1
      <3>3. Length(queue[c + i]) = q[k + (c + i)]
        BY <1>14, <3>1
      <3>4. Length(queue[i])' = Length(queue[c + i])
        BY <1>1, <3>2 DEF Length, vars
      <3> QED
        BY <3>1, <3>3, <3>4
    <2> QED
      BY <2>1
  <1>22. k + c < MaxWorkers => now = 0
    BY <1>7, <1>14, <1>15, <1>16, SomeWorker
  <1>23. PICK seat : /\ Seated(heap[k + c], D \cup front, running', seat)
                     /\ \A v \in Spare(heap[k + c], D \cup front, seat) : heap[k + c][v] = now
    BY <1>18 DEF Matches
  <1>24. D \cup front # {}
    <2>1. 1 \in 1..c
      BY <1>7
    <2> QED
      BY <1>11, <2>1
  <1>25. now <= now
    BY <1>3 DEF RunFacts
  <1>26. Len(queue') <= n
    BY <1>5, <1>7, <1>9, <1>14, <1>15
  <1>27. Replayed(at, q, heap)'
    <2>1. Len(Durations') = n /\ Replays(Durations', at, q, heap)
      BY <1>14, <1>19 DEF n
    <2> DEFINE E == DOMAIN running'
               h == heap[k + c]
    <2>2. /\ Seated(h, E, running', seat) /\ E # {}
          /\ \A v \in Spare(h, E, seat) : h[v] <= now' /\ (queue' # <<>> => h[v] = now')
      BY <1>1, <1>17, <1>23, <1>24, <1>25
    <2>3. k + c < MaxWorkers => now' = 0
      BY <1>1, <1>22
    <2>4. Len(Durations') - Len(queue') = k + c /\ Len(queue') <= Len(Durations')
      BY <1>20, <1>26, <2>1
    <2> HIDE DEF h, E
    <2> QED
      BY <1>21, <2>1, <2>2, <2>3, <2>4 DEF Replayed, h, E
  <1> QED
    BY <1>27

\* When the next job ends, its worker is free now, and none was free before
\* that while jobs waited.
LEMMA FinishReplays ==
    ASSUME PlanInv, ClockInv, ReplayInv, Finish
    PROVE  ReplayInv'
  <1> DEFINE D == DOMAIN running
             t == now'
             E == {j \in D : running[j] # t}
  <1>1. /\ queue = <<>> \/ FreeSlots = 0
        /\ running # <<>> /\ t = Min(Range(running))
        /\ running' = [j \in E |-> running[j]]
        /\ UNCHANGED vars /\ queue' = queue /\ stage' = stage
    BY DEF Finish, Restrict
  <1> SUFFICES ASSUME stage' = "running", ~Sharded'
               PROVE  \E at, q, heap : Replayed(at, q, heap)'
    BY DEF ReplayInv
  <1>2. stage = "running" /\ ~Sharded
    BY <1>1 DEF Sharded, vars
  <1>3. RunFacts
    BY <1>2, RunFactsHold
  <1>4. /\ Cardinality(D) <= MaxWorkers
        /\ \A j \in D : running[j] \in Nat /\ now <= running[j]
    BY DEF ClockInv, ClockTypeOK
  <1>5. Range(running) \in SUBSET Nat /\ Range(running) # {}
        /\ Range(running) = {running[j] : j \in D}
    <2>1. Range(running) = {running[j] : j \in D}
      BY DEF Range
    <2>2. D # {}
      <3>1. running = [j \in D |-> running[j]]
        BY DEF ClockInv, ClockTypeOK
      <3>2. D = {} => [j \in D |-> running[j]] = <<>>
        OBVIOUS
      <3> QED
        BY <1>1, <3>1, <3>2
    <2> QED
      BY <1>4, <2>1, <2>2
  <1>6. t \in Nat /\ \A j \in D : t <= running[j]
    <2>1. t \in Range(running) /\ \A y \in Range(running) : t <= y
      BY <1>1, <1>5, MinOf
    <2> QED
      BY <1>5, <2>1
  <1>7. PICK a \in D : running[a] = t
    <2>1. t \in Range(running)
      BY <1>1, <1>5, MinOf
    <2> QED
      BY <1>5, <2>1
  <1> HIDE DEF t
  <1>8. now \in Nat /\ now <= t
    <2>1. now \in Nat /\ now <= running[a]
      BY <1>3, <1>4 DEF RunFacts
    <2> QED
      BY <1>7, <2>1
  <1>9. /\ DOMAIN running' = E /\ E \subseteq D
        /\ \A j \in E : running'[j] = running[j]
    BY <1>1
  <1>10. PICK at, q, heap : Replayed(at, q, heap)
    BY <1>2 DEF ReplayInv
  <1> DEFINE n == Len(Durations)
             k == n - Len(queue)
             h == heap[k]
  <1>11. /\ Replays(Durations, at, q, heap) /\ Len(queue) <= n
         /\ \A i \in 1..Len(queue) : Length(queue[i]) = q[k + i]
         /\ queue # <<>> /\ k < MaxWorkers => now = 0
    BY <1>10 DEF Replayed
  <1>12. PICK seat : /\ Seated(h, D, running, seat)
                     /\ \A v \in Spare(h, D, seat) :
                            h[v] <= now /\ (queue # <<>> => h[v] = now)
    BY <1>10 DEF Replayed
  <1>13. n \in Nat /\ Len(queue) \in Nat
    <2>1. records \in Histories /\ Lanes \subseteq DOMAIN records /\ queue \in Seq(Jobs)
      BY <1>2 DEF PlanInv, PlanTypeOK, ClockInv, ClockTypeOK
    <2>2. Durations \in Seq(Nat)
      BY <2>1, DurationsType
    <2> QED
      BY <2>1, <2>2, LenProperties
  <1> HIDE DEF n
  <1>14. k \in 0..n
    BY <1>11, <1>13
  <1> HIDE DEF k
  <1>15. h \in Seq(Nat) /\ Len(h) = IF k < MaxWorkers THEN k ELSE MaxWorkers
    <2>1. HeapOf(heap, q, n) /\ \A i \in 1..n : q[i] \in Nat
      BY <1>11 DEF Replays, n
    <2> QED
      BY <1>13, <1>14, <2>1, HeapLength
  <1>16. \A v \in 1..Len(h) : h[v] \in Nat
    BY <1>15, LenProperties
  <1> HIDE DEF h
  <1>17. IsFiniteSet(D) /\ Cardinality(D) \in Nat
    BY <1>3 DEF RunFacts
  <1>18. ASSUME queue # <<>>
         PROVE  Spare(h, D, seat) = {} /\ ~(k < MaxWorkers)
    <2>1. Cardinality(D) = MaxWorkers
      BY <1>1, <1>17, <1>18, SomeWorker DEF FreeSlots
    <2>2. /\ Cardinality(D) <= Len(h)
          /\ Cardinality(D) = Len(h) => Spare(h, D, seat) = {}
      BY <1>12, <1>15, <1>17, SeatsCounted
    <2>3. MaxWorkers \in Nat /\ k \in Nat
      BY <1>13, <1>14, SomeWorker
    <2> QED
      BY <1>15, <2>1, <2>2, <2>3
  <1> DEFINE s == [j \in E |-> seat[j]]
  <1>19. /\ seat \in [D -> 1..Len(h)]
         /\ \A i, j \in D : seat[i] = seat[j] => i = j
         /\ \A j \in D : h[seat[j]] = running[j]
    BY <1>12 DEF Seated
  <1>20. Seated(h, E, running', s)
    <2>1. s \in [E -> 1..Len(h)]
      BY <1>19
    <2> QED
      BY <1>9, <1>19, <2>1 DEF Seated
  <1>21. ASSUME NEW v \in Spare(h, E, s)
         PROVE  h[v] <= t /\ (queue # <<>> => h[v] = t)
    <2>1. v \in 1..Len(h) /\ \A j \in E : seat[j] # v
      BY DEF Spare
    <2>2. CASE \E j \in D : seat[j] = v
      <3>1. PICK j \in D : seat[j] = v
        BY <2>2
      <3>2. running[j] = t
        BY <2>1, <3>1
      <3>3. h[v] = t
        BY <1>19, <3>1, <3>2
      <3> QED
        BY <1>6, <3>3
    <2>3. CASE \A j \in D : seat[j] # v
      <3>1. v \in Spare(h, D, seat)
        BY <2>1, <2>3 DEF Spare
      <3>2. queue = <<>>
        BY <1>18, <3>1
      <3>3. h[v] <= now /\ h[v] \in Nat
        BY <1>12, <1>16, <2>1, <3>1
      <3> QED
        BY <1>6, <1>8, <3>2, <3>3
    <2> QED
      BY <2>2, <2>3
  <1>22. \E v \in 1..Len(h) : h[v] = t
    <2>1. seat[a] \in 1..Len(h) /\ h[seat[a]] = t
      BY <1>7, <1>19
    <2> QED
      BY <2>1
  <1>23. Durations' = Durations
    BY <1>1 DEF Durations, Total, vars
  <1>24. \A i \in 1..Len(queue') : Length(queue[i])' = q[k + i]
    <2>1. \A i \in 1..Len(queue') : Length(queue[i])' = Length(queue[i])
      BY <1>1 DEF Length, vars
    <2> QED
      BY <1>1, <1>11, <2>1 DEF k
  <1>25. Replayed(at, q, heap)'
    <2>1. /\ Seated(h, DOMAIN running', running', s)
          /\ \A v \in Spare(h, DOMAIN running', s) :
                h[v] <= now' /\ (queue' # <<>> => h[v] = now')
      BY <1>1, <1>9, <1>20, <1>21 DEF t
    <2>2. Len(Durations') - Len(queue') = k /\ Len(queue') <= Len(Durations')
          /\ Replays(Durations', at, q, heap)
      BY <1>1, <1>11, <1>23 DEF k, n
    <2>3. queue' # <<>> /\ k < MaxWorkers => now' = 0
      BY <1>1, <1>18
    <2>4. \E v \in 1..Len(h) : h[v] = now'
      BY <1>22 DEF t
    <2>5. h = heap[k]
      BY DEF h
    <2> HIDE DEF s, D, E
    <2> QED
      BY <1>24, <2>1, <2>2, <2>3, <2>4, <2>5 DEF Replayed
  <1> QED
    BY <1>25

\* Every step keeps the run and the replay together.
LEMMA ReplayInvStep ==
    ASSUME PlanInv, PlanInv', ClockInv, ReplayInv, [SchedNext]_schedVars
    PROVE  ReplayInv'
  <1>1. CASE StartRun
    BY <1>1, StartRunReplays
  <1>2. CASE Launch
    BY <1>2, LaunchReplays
  <1>3. CASE Finish
    BY <1>3, FinishReplays
  <1>4. CASE UNCHANGED schedVars
    <2>1. /\ UNCHANGED <<records, existing, persisted, plan>>
          /\ queue' = queue /\ running' = running /\ now' = now /\ stage' = stage
      BY <1>4 DEF schedVars, vars
    <2>2. Durations' = Durations /\ Sharded' = Sharded
      BY <2>1 DEF Durations, Total, Sharded
    <2>3. \A at, q, heap : Replayed(at, q, heap)' <=> Replayed(at, q, heap)
      <3> SUFFICES ASSUME NEW at, NEW q, NEW heap
                   PROVE  Replayed(at, q, heap)' <=> Replayed(at, q, heap)
        OBVIOUS
      <3>1. \A i \in 1..Len(queue) : Length(queue[i])' = Length(queue[i])
        BY <2>1 DEF Length
      <3> QED
        BY <2>1, <2>2, <3>1 DEF Replayed
    <2> QED
      BY <2>1, <2>2, <2>3 DEF ReplayInv
  <1> QED
    BY <1>1, <1>2, <1>3, <1>4 DEF SchedNext

\* When the run is over, the worker that was free last is the replay's.
LEMMA ReplayedInFull ==
    ASSUME PlanInv, ClockInv, ReplayInv, RunOver, ~Sharded
    PROVE  now = ProjectedMakespan
  <1>1. stage = "running" /\ queue = <<>> /\ running = <<>>
    BY DEF RunOver
  <1>2. PICK at, q, heap : Replayed(at, q, heap)
    BY <1>1 DEF ReplayInv
  <1> DEFINE n == Len(Durations)
             h == heap[n]
             whole == simulate_makespan(Durations)
  <1>3. Durations \in Seq(Nat) /\ n \in Nat
    <2>1. records \in Histories /\ Lanes \subseteq DOMAIN records
      BY <1>1 DEF PlanInv, PlanTypeOK, ClockInv, ClockTypeOK
    <2>2. Durations \in Seq(Nat)
      BY <2>1, DurationsType
    <2> QED
      BY <2>2, LenProperties
  <1>4. DOMAIN running = {} /\ Len(queue) = 0 /\ n - Len(queue) = n
    <2>1. Len(queue) = 0
      BY <1>1
    <2> QED
      BY <1>1, <1>3, <2>1
  <1>5. /\ Replays(Durations, at, q, heap)
        /\ \E seat : \A v \in Spare(h, {}, seat) : h[v] <= now
        /\ (n = 0 /\ now = 0) \/ \E v \in 1..Len(h) : h[v] = now
    <2>1. n - Len(queue) = n
      BY <1>4
    <2> QED
      BY <1>1, <1>2, <1>4, <2>1 DEF Replayed
  <1>6. \A v \in 1..Len(h) : h[v] <= now
    BY <1>5 DEF Spare
  <1>7. HeapOf(heap, q, n) /\ (\A i \in 1..n : q[i] \in Nat)
        /\ whole = IF Durations = <<>> THEN 0 ELSE Max(Range(h))
    BY <1>5 DEF Replays
  <1> HIDE DEF n
  <1>8. h \in Seq(Nat) /\ Len(h) = IF n < MaxWorkers THEN n ELSE MaxWorkers
    <2>1. n \in 0..n
      BY <1>3
    <2> QED
      BY <1>3, <1>7, <2>1, HeapLength
  <1> HIDE DEF h, whole
  <1>9. whole = now
    <2>1. CASE n = 0 /\ now = 0
      <3>1. Durations = <<>>
        BY <1>3, <2>1, EmptySeq DEF n
      <3> QED
        BY <1>7, <2>1, <3>1
    <2>2. CASE \E v \in 1..Len(h) : h[v] = now
      <3>1. PICK v \in 1..Len(h) : h[v] = now
        BY <2>2
      <3>2. Durations # <<>>
        <4>1. n # 0
          BY <1>8, <3>1, SomeWorker
        <4> QED
          BY <1>3, <4>1, EmptySeq DEF n
      <3>3. IsFiniteSet(Range(h)) /\ Range(h) = {h[i] : i \in 1..Len(h)}
        BY <1>8, RangeFinite
      <3>4. \A i \in 1..Len(h) : h[i] \in Nat
        BY <1>8, LenProperties
      <3>5. now \in Range(h) /\ \A x \in Range(h) : x \in Int /\ x <= now
        BY <1>6, <3>1, <3>3, <3>4
      <3>6. Max(Range(h)) \in Range(h) /\ \A y \in Range(h) : Max(Range(h)) >= y
        BY <3>3, <3>5, MaxOf
      <3>7. Max(Range(h)) = now
        BY <3>5, <3>6
      <3> QED
        BY <1>7, <3>2, <3>7
    <2> QED
      BY <1>5, <2>1, <2>2
  <1>10. plan.gain = 0
    <2>1. plan = Whole
      <3> SUFFICES ASSUME plan # Whole
                   PROVE  FALSE
        OBVIOUS
      <3>1. PICK cut \in CutsOnFile : SplitOf(plan, records, existing, cut)
        BY DEF PlanInv, PlanKept
      <3>2. records \in Histories
        BY DEF PlanInv, PlanTypeOK
      <3> DEFINE l == shard_candidate(records)
                 files == FilesLeft(records, existing)
      <3>3. SplitFacts(plan, records, existing, cut, l, files)
        BY <3>1, <3>2, SplitFields
      <3> HIDE DEF l, files
      <3>4. plan.sharded_lane = l /\ l # ""
        BY <3>3 DEF SplitFacts
      <3> QED
        BY <3>4 DEF Sharded
    <2> QED
      BY <2>1 DEF Whole
  <1>11. ProjectedMakespan = whole - plan.gain
    BY DEF ProjectedMakespan, whole, Durations
  <1>12. whole \in Nat
    BY <1>3, MakespanCovers DEF whole
  <1> QED
    BY <1>9, <1>10, <1>11, <1>12

\* For any lanes and records and any number of workers, simulate_makespan is
\* the time a run that is not split takes.
THEOREM WholeLanesReplayedHolds == SchedSpec => []WholeLanesReplayed
  <1>1. SchedInit => ClockInv /\ ReplayInv
    BY ClockInvInit DEF SchedInit, ReplayInv
  <1>2. PlanInv /\ PlanInv' /\ ClockInv /\ ReplayInv /\ [SchedNext]_schedVars
            => ClockInv' /\ ReplayInv'
    BY ClockInvStep, ReplayInvStep
  <1>3. PlanInv /\ ClockInv /\ ReplayInv => WholeLanesReplayed
    BY ReplayedInFull DEF WholeLanesReplayed
  <1> QED
    BY <1>1, <1>2, <1>3, PlanInvHolds, PTL DEF SchedSpec

=============================================================================
