-------------------------- MODULE LaneReporterProofs -------------------------
(***************************************************************************)
(* Theorems about LaneReporter.  The rows and the text that is left are    *)
(* tied together by RowsRead: a row counts exactly what the lines read so  *)
(* far say, and the lines that are left are the next ones of the session.  *)
(* Reading one more line keeps this (ReadOne), whichever line it is        *)
(* (LineAt); a start, a verdict and a kill do too.  What a row shows is    *)
(* then known from how much was read (ReadHonest).  The sums of the        *)
(* estimate and of the summary are treated with the lemmas on sums.        *)
(***************************************************************************)
EXTENDS LaneReporter, InductionLemmas, SequenceTheorems

-----------------------------------------------------------------------------
(* Sums over the tests of a session *)

\* SumFunction is the sum over the whole domain.
LEMMA SumOfDomain ==
    \A f : SumFunction(f) = SumFunctionOnSet(f, DOMAIN f)
  BY DEF SumFunction

\* How many tests of the first groups have a glyph is a number, and known from
\* the groups before.
LEMMA HavingNext ==
    ASSUME NEW s \in PytestSessions, NEW g \in GLYPHS
    PROVE  /\ Having(s, 0, g) = 0
           /\ \A n \in 0..Len(s.groups) : Having(s, n, g) \in Nat
           /\ \A n \in 1..Len(s.groups) :
                Having(s, n, g) = Having(s, n - 1, g) + s.groups[n][g]
  <1> DEFINE f(n) == [i \in 1..n |-> s.groups[i][g]]
  <1>1. Len(s.groups) \in Nat /\ \A i \in 1..Len(s.groups) : s.groups[i][g] \in Nat
    BY DEF PytestSessions, TestGroups
  <1>2. \A n \in 0..Len(s.groups) :
            /\ IsFiniteSet(1..n) /\ Having(s, n, g) = SumFunctionOnSet(f(n), 1..n)
            /\ \A i \in 1..n : f(n)[i] \in Nat
    <2> TAKE n \in 0..Len(s.groups)
    <2>1. n \in Nat /\ n <= Len(s.groups)
      BY <1>1
    <2>2. IsFiniteSet(1..n)
      BY <2>1, FS_Interval
    <2>3. DOMAIN f(n) = 1..n
      OBVIOUS
    <2>4. Having(s, n, g) = SumFunctionOnSet(f(n), 1..n)
      BY <2>3, SumOfDomain DEF Having
    <2> QED
      BY <1>1, <2>1, <2>2, <2>4
  <1> HIDE DEF f
  <1>3. \A n \in 0..Len(s.groups) : Having(s, n, g) \in Nat
    BY <1>2, SumNat
  <1>4. Having(s, 0, g) = 0
    <2>1. 0 \in 0..Len(s.groups) /\ 1..0 = {}
      BY <1>1
    <2> QED
      BY <1>2, <2>1, SumOfNone
  <1>5. ASSUME NEW n \in 1..Len(s.groups)
        PROVE  Having(s, n, g) = Having(s, n - 1, g) + s.groups[n][g]
    <2>1. /\ n \in 0..Len(s.groups) /\ n - 1 \in 0..Len(s.groups) /\ n \in 1..n
          /\ (1..n) \ {n} = 1..n - 1
      BY <1>1
    <2>2. SumFunctionOnSet(f(n), 1..n) = f(n)[n] + SumFunctionOnSet(f(n), 1..n - 1)
      <3>1. \A i \in 1..n : f(n)[i] \in Int
        BY <1>2, <2>1
      <3>2. SumFunctionOnSet(f(n), 1..n) = f(n)[n] + SumFunctionOnSet(f(n), (1..n) \ {n})
        BY <1>2, <2>1, <3>1, SumAdd
      <3> QED
        BY <2>1, <3>2
    <2>3. SumFunctionOnSet(f(n), 1..n - 1) = SumFunctionOnSet(f(n - 1), 1..n - 1)
      <3>1. \A i \in 1..n - 1 : f(n - 1)[i] \in Int /\ f(n)[i] = f(n - 1)[i]
        <4>1. \A i \in 1..n - 1 : f(n)[i] = f(n - 1)[i]
          BY <2>1 DEF f
        <4> QED
          BY <1>2, <2>1, <4>1
      <3> QED
        BY <1>2, <2>1, <3>1, SumSame
    <2>4. f(n)[n] = s.groups[n][g]
      BY <2>1 DEF f
    <2>5. Having(s, n - 1, g) \in Nat /\ s.groups[n][g] \in Nat
      BY <1>1, <1>3, <2>1
    <2> QED
      BY <1>2, <2>1, <2>2, <2>3, <2>4, <2>5
  <1> QED
    BY <1>3, <1>4, <1>5

\* More groups have no fewer tests with a glyph.
LEMMA HavingGrows ==
    ASSUME NEW s \in PytestSessions, NEW g \in GLYPHS, NEW m \in 0..Len(s.groups)
    PROVE  Having(s, m, g) <= Having(s, Len(s.groups), g)
  <1> DEFINE F == Len(s.groups)
             Failing == {n \in m..F : ~(Having(s, m, g) <= Having(s, n, g))}
  <1>1. F \in Nat /\ \A i \in 1..F : s.groups[i][g] \in Nat
    BY DEF PytestSessions, TestGroups
  <1> HIDE DEF F
  <1> SUFFICES ASSUME Failing # {}
               PROVE  FALSE
    <2>1. F \in m..F
      BY <1>1 DEF F
    <2> QED
      BY <2>1 DEF F
  <1>2. PICK n \in Failing : \A k \in Failing : n <= k
    <2>1. Failing \subseteq Nat
      BY <1>1 DEF F
    <2> HIDE DEF Failing
    <2> QED
      BY <2>1, LeastNat
  <1>3. n \in m..F /\ ~(Having(s, m, g) <= Having(s, n, g)) /\ m \in 0..F
    BY <1>2 DEF F
  <1>4. Having(s, m, g) \in Nat /\ Having(s, n, g) \in Nat
    <2>1. n \in 0..F
      BY <1>1, <1>3
    <2> QED
      BY <1>3, <2>1, HavingNext DEF F
  <1>5. n # m
    BY <1>3, <1>4
  <1>6. n - 1 \in m..F /\ n \in 1..F /\ n - 1 \in 0..F /\ ~(n <= n - 1)
    BY <1>1, <1>3, <1>5
  <1>7. n - 1 \notin Failing
    <2> HIDE DEF Failing
    <2> QED
      BY <1>2, <1>6
  <1>8. Having(s, n, g) = Having(s, n - 1, g) + s.groups[n][g] /\ Having(s, n - 1, g) \in Nat
    BY <1>6, HavingNext DEF F
  <1> QED
    BY <1>1, <1>3, <1>4, <1>6, <1>7, <1>8

\* The tests are those of each glyph; the glyphs a row counts are distinct.
LEMMA TestsCounted ==
    ASSUME NEW s \in PytestSessions, NEW n \in 0..Len(s.groups)
    PROVE  /\ Tests(s, n) \in Nat /\ Tests(s, n) <= Tests(s, Len(s.groups))
           /\ \A g \in GLYPHS : Having(s, n, g) <= Tests(s, n)
           /\ Having(s, n, ".") + Having(s, n, "X") + Having(s, n, "s") + Having(s, n, "F")
                <= Tests(s, n)
  <1> DEFINE h(m) == [g \in GLYPHS |-> Having(s, m, g)]
             F == Len(s.groups)
  <1>1. IsFiniteSet(GLYPHS)
    <2>1. \A T : \A x : IsFiniteSet(T) => IsFiniteSet(T \cup {x})
      BY FS_AddElement
    <2>2. GLYPHS = ((((({"."} \cup {"s"}) \cup {"F"}) \cup {"E"}) \cup {"X"}) \cup {"x"})
      BY DEF GLYPHS
    <2>3. IsFiniteSet({"."})
      BY FS_Singleton
    <2> QED
      BY <2>1, <2>2, <2>3
  <1>2. F \in Nat /\ F \in 0..F
    BY DEF PytestSessions
  <1>3. \A m \in 0..F : /\ Tests(s, m) = SumFunctionOnSet(h(m), GLYPHS)
                        /\ \A g \in GLYPHS : h(m)[g] \in Nat /\ h(m)[g] = Having(s, m, g)
    <2> TAKE m \in 0..F
    <2>1. \A g \in GLYPHS : Having(s, m, g) \in Nat
      BY HavingNext
    <2>2. DOMAIN h(m) = GLYPHS
      OBVIOUS
    <2> QED
      BY <2>1, <2>2, SumOfDomain DEF Tests
  <1>4. \A g \in GLYPHS : h(n)[g] <= h(F)[g]
    BY <1>2, HavingGrows
  <1> HIDE DEF h, F
  <1>5. n \in 0..F
    BY DEF F
  <1>6. Tests(s, n) \in Nat /\ Tests(s, n) <= Tests(s, F)
    <2>1. SumFunctionOnSet(h(n), GLYPHS) \in Nat
      BY <1>1, <1>3, <1>5, SumNat
    <2>2. SumFunctionOnSet(h(n), GLYPHS) <= SumFunctionOnSet(h(F), GLYPHS)
      <3>1. \A g \in GLYPHS : h(n)[g] \in Int /\ h(F)[g] \in Int /\ h(n)[g] <= h(F)[g]
        BY <1>2, <1>3, <1>4, <1>5
      <3> QED
        BY <1>1, <3>1, SumMonotone
    <2> QED
      BY <1>2, <1>3, <1>5, <2>1, <2>2
  <1>7. \A T \in SUBSET GLYPHS : \A g \in T :
            /\ SumFunctionOnSet(h(n), T) = h(n)[g] + SumFunctionOnSet(h(n), T \ {g})
            /\ SumFunctionOnSet(h(n), T \ {g}) \in Nat
    <2> TAKE T \in SUBSET GLYPHS
    <2>1. IsFiniteSet(T) /\ \A g \in T : h(n)[g] \in Nat /\ h(n)[g] \in Int
      BY <1>1, <1>3, <1>5, FS_Subset
    <2> TAKE g \in T
    <2>2. SumFunctionOnSet(h(n), T) = h(n)[g] + SumFunctionOnSet(h(n), T \ {g})
      BY <2>1, SumAdd
    <2>3. IsFiniteSet(T \ {g}) /\ \A x \in T \ {g} : h(n)[x] \in Nat
      BY <2>1, FS_Subset
    <2>4. SumFunctionOnSet(h(n), T \ {g}) \in Nat
      BY <2>3, SumNat
    <2> QED
      BY <2>2, <2>4
  <1>8. ASSUME NEW g \in GLYPHS
        PROVE  Having(s, n, g) <= Tests(s, n)
    <2>1. /\ Tests(s, n) = h(n)[g] + SumFunctionOnSet(h(n), GLYPHS \ {g})
          /\ SumFunctionOnSet(h(n), GLYPHS \ {g}) \in Nat
      BY <1>3, <1>5, <1>7
    <2> QED
      BY <1>3, <1>5, <2>1
  <1>9. Having(s, n, ".") + Having(s, n, "X") + Having(s, n, "s") + Having(s, n, "F")
            <= Tests(s, n)
    <2> DEFINE Sum(T) == SumFunctionOnSet(h(n), T)
    <2>1. /\ "." \in GLYPHS /\ "X" \in GLYPHS \ {"."} /\ "s" \in (GLYPHS \ {"."}) \ {"X"}
          /\ "F" \in ((GLYPHS \ {"."}) \ {"X"}) \ {"s"}
      BY DEF GLYPHS
    <2>2. /\ Sum(GLYPHS) = h(n)["."] + Sum(GLYPHS \ {"."})
          /\ Sum(GLYPHS \ {"."}) = h(n)["X"] + Sum((GLYPHS \ {"."}) \ {"X"})
          /\ Sum((GLYPHS \ {"."}) \ {"X"})
                = h(n)["s"] + Sum(((GLYPHS \ {"."}) \ {"X"}) \ {"s"})
          /\ Sum(((GLYPHS \ {"."}) \ {"X"}) \ {"s"})
                = h(n)["F"] + Sum((((GLYPHS \ {"."}) \ {"X"}) \ {"s"}) \ {"F"})
          /\ Sum((((GLYPHS \ {"."}) \ {"X"}) \ {"s"}) \ {"F"}) \in Nat
      BY <1>7, <2>1
    <2>3. /\ h(n)["."] = Having(s, n, ".") /\ h(n)["X"] = Having(s, n, "X")
          /\ h(n)["s"] = Having(s, n, "s") /\ h(n)["F"] = Having(s, n, "F")
          /\ \A g \in {".", "X", "s", "F"} : h(n)[g] \in Nat
      BY <1>3, <1>5, <2>1
    <2>4. Tests(s, n) = Sum(GLYPHS)
      BY <1>3, <1>5
    <2> HIDE DEF Sum
    <2> QED
      BY <2>2, <2>3, <2>4
  <1> QED
    BY <1>6, <1>8, <1>9 DEF F

\* How much of b is a.
Percent(a, b) == (100 * a) \div b

\* Of a part of something the percentage is at most 100, of all of it 100.
LEMMA Percentage ==
    ASSUME NEW a \in Nat, NEW b \in Nat, a <= b, b > 0
    PROVE  Percent(a, b) \in 0..100 /\ Percent(b, b) = 100
  BY DEF Percent

\* A session with groups has tests, so that its percentages are ones.
LEMMA PercentType ==
    ASSUME NEW s \in PytestSessions, NEW i \in 1..Len(s.groups)
    PROVE  /\ Percent(Tests(s, i), Tests(s, Len(s.groups))) \in 0..100
           /\ Percent(Tests(s, Len(s.groups)), Tests(s, Len(s.groups))) = 100
  <1>1. /\ Len(s.groups) \in 1..Len(s.groups) /\ Len(s.groups) \in 0..Len(s.groups)
        /\ i \in 0..Len(s.groups) /\ s.groups[Len(s.groups)] \in TestGroups
    BY DEF PytestSessions
  <1>2. PICK g \in GLYPHS : s.groups[Len(s.groups)][g] > 0
    BY <1>1 DEF TestGroups
  <1>3. Having(s, Len(s.groups), g) > 0 /\ Having(s, Len(s.groups), g) \in Nat
    <2>1. Len(s.groups) - 1 \in 0..Len(s.groups) /\ s.groups[Len(s.groups)][g] \in Nat
      BY <1>1 DEF TestGroups
    <2>2. /\ Having(s, Len(s.groups), g)
                = Having(s, Len(s.groups) - 1, g) + s.groups[Len(s.groups)][g]
          /\ Having(s, Len(s.groups), g) \in Nat /\ Having(s, Len(s.groups) - 1, g) \in Nat
      BY <1>1, <2>1, HavingNext
    <2> QED
      BY <1>2, <2>1, <2>2
  <1>4. /\ Tests(s, Len(s.groups)) \in Nat /\ Tests(s, Len(s.groups)) > 0
        /\ Tests(s, i) \in Nat /\ Tests(s, i) <= Tests(s, Len(s.groups))
    BY <1>1, <1>3, TestsCounted
  <1> QED
    BY <1>4, Percentage

-----------------------------------------------------------------------------
(* The lines of a session *)

\* Where the lines of two parts of a text are.
LEMMA JoinedAt ==
    ASSUME NEW a \in Seq(Lines), NEW b \in Seq(Lines)
    PROVE  /\ a \o b \in Seq(Lines) /\ Len(a \o b) = Len(a) + Len(b)
           /\ \A i \in 1..Len(a) : (a \o b)[i] = a[i]
           /\ \A i \in 1..Len(b) : (a \o b)[Len(a) + i] = b[i]
  <1>1. Len(a) \in Nat /\ Len(b) \in Nat
    OBVIOUS
  <1>2. /\ a \o b \in Seq(Lines) /\ Len(a \o b) = Len(a) + Len(b)
        /\ \A i \in 1..Len(a) + Len(b) : (a \o b)[i] =
                IF i <= Len(a) THEN a[i] ELSE b[i - Len(a)]
    BY ConcatProperties
  <1>3. \A i \in 1..Len(a) : i \in 1..Len(a) + Len(b) /\ i <= Len(a)
    BY <1>1
  <1>4. \A i \in 1..Len(b) : /\ Len(a) + i \in 1..Len(a) + Len(b) /\ ~(Len(a) + i <= Len(a))
                             /\ (Len(a) + i) - Len(a) = i
    BY <1>1
  <1> QED
    BY <1>2, <1>3, <1>4

\* The lines after the failures: a summary or none.
LastLines(s) == IF Summarized(s) THEN 1 ELSE 0

\* Which line of a session is which, and that all are lines.
LEMMA LineAt ==
    ASSUME NEW s \in PytestSessions
    PROVE  LET head == HeadLines(s)
               groups == Len(s.groups)
               failed == Having(s, groups, "F")
               lines == SessionLines(s)
           IN  /\ groups \in Nat /\ failed \in Nat
               /\ lines \in Seq(Lines) /\ Len(lines) = head + groups + failed + LastLines(s)
               /\ Listed(s) => lines[1] = CollectedLine(s)
               /\ \A i \in 1..groups : lines[head + i] = ProgressLine(s, i)
               /\ \A i \in 1..failed : lines[head + groups + i] = FailedLine
               /\ Summarized(s) => lines[head + groups + failed + 1] = SummaryLine(s)
  <1> DEFINE F == Len(s.groups)
             X == Having(s, F, "F")
             first == IF Listed(s) THEN <<CollectedLine(s)>> ELSE <<>>
             progress == [i \in 1..F |-> ProgressLine(s, i)]
             failures == [i \in 1..X |-> FailedLine]
             last == IF Summarized(s) THEN <<SummaryLine(s)>> ELSE <<>>
  <1>1. F \in Nat /\ F \in 0..F /\ s.groups \in Seq(TestGroups)
    BY DEF PytestSessions
  <1>2. \A g \in GLYPHS : Having(s, F, g) \in Nat
    BY <1>1, HavingNext
  <1>3. /\ X \in Nat /\ Having(s, F, ".") \in Nat /\ Having(s, F, "s") \in Nat
        /\ s.deselected \in Nat /\ s.skipped_files \in Nat /\ Tests(s, F) \in Nat
    BY <1>1, <1>2, TestsCounted DEF GLYPHS, PytestSessions
  <1>4. Blank \in Lines
    BY DEF Blank, Lines, NoCounts, Counts
  <1>5. CollectedLine(s) \in Lines
    <2>1. [NoCounts EXCEPT !.deselected = s.deselected, !.skipped = s.skipped_files]
                \in Counts
      BY <1>3 DEF NoCounts, Counts
    <2>2. Tests(s, Len(s.groups)) + s.deselected \in {None} \cup Nat
      BY <1>3
    <2> QED
      BY <1>4, <2>1, <2>2 DEF CollectedLine, Lines
  <1>6. ASSUME NEW i \in 1..F
        PROVE  ProgressLine(s, i) \in Lines
    <2> HIDE DEF X, first, progress, failures, last
    <2>1. Percent(Tests(s, i), Tests(s, F)) \in 0..100
      BY PercentType
    <2> DEFINE shown == IF s.verbosity > 0 THEN Blank.glyphs ELSE s.groups[i]
    <2>2. shown \in [GLYPHS -> Nat]
      <3>1. s.groups[i] \in TestGroups
        BY <1>1
      <3>2. Blank.glyphs \in [GLYPHS -> Nat]
        BY DEF Blank
      <3> QED
        BY <3>1, <3>2 DEF TestGroups
    <2>3. ProgressLine(s, i) = [Blank EXCEPT !.glyphs = shown,
                                            !.percent = Percent(Tests(s, i), Tests(s, F))]
      BY DEF ProgressLine, Percent
    <2> HIDE DEF shown
    <2> QED
      BY <1>4, <2>1, <2>2, <2>3 DEF Lines
  <1>7. FailedLine \in Lines
    BY <1>4 DEF FailedLine, Lines
  <1>8. SummaryLine(s) \in Lines
    <2>1. [passed |-> Having(s, F, "."), skipped |-> Having(s, F, "s") + s.skipped_files,
           failed |-> Having(s, F, "F"), deselected |-> s.deselected] \in Counts
      BY <1>3 DEF Counts
    <2> QED
      BY <1>4, <2>1 DEF SummaryLine, Lines
  <1> HIDE DEF F, X
  <1>9. /\ first \in Seq(Lines) /\ Len(first) = HeadLines(s)
        /\ Listed(s) => HeadLines(s) = 1 /\ first[1] = CollectedLine(s)
    BY <1>5 DEF HeadLines
  <1>10. /\ last \in Seq(Lines) /\ Len(last) = LastLines(s)
         /\ Summarized(s) => LastLines(s) = 1 /\ last[1] = SummaryLine(s)
    BY <1>8 DEF LastLines
  <1>11. /\ progress \in Seq(Lines) /\ Len(progress) = F
         /\ \A i \in 1..F : progress[i] = ProgressLine(s, i)
    BY <1>1, <1>6
  <1>12. /\ failures \in Seq(Lines) /\ Len(failures) = X
         /\ \A i \in 1..X : failures[i] = FailedLine
    BY <1>3, <1>7
  <1>13. SessionLines(s) = ((first \o progress) \o failures) \o last
    BY DEF SessionLines, F, X
  <1>14. HeadLines(s) \in Nat
    BY DEF HeadLines
  <1> HIDE DEF first, progress, failures, last
  <1> DEFINE front == first \o progress
             most == front \o failures
  <1>15. /\ front \in Seq(Lines) /\ Len(front) = HeadLines(s) + F
         /\ \A i \in 1..HeadLines(s) : front[i] = first[i]
         /\ \A i \in 1..F : front[HeadLines(s) + i] = progress[i]
    <2>1. /\ first \o progress \in Seq(Lines) /\ Len(first \o progress) = Len(first) + Len(progress)
          /\ \A i \in 1..Len(first) : (first \o progress)[i] = first[i]
          /\ \A i \in 1..Len(progress) : (first \o progress)[Len(first) + i] = progress[i]
      <3>1. first \in Seq(Lines) /\ progress \in Seq(Lines)
        BY <1>9, <1>11
      <3> QED
        BY <3>1, JoinedAt
    <2> QED
      BY <1>9, <1>11, <2>1
  <1> HIDE DEF front
  <1>16. /\ most \in Seq(Lines) /\ Len(most) = HeadLines(s) + F + X
         /\ \A i \in 1..HeadLines(s) + F : most[i] = front[i]
         /\ \A i \in 1..X : most[HeadLines(s) + F + i] = failures[i]
    <2>1. /\ front \o failures \in Seq(Lines) /\ Len(front \o failures) = Len(front) + Len(failures)
          /\ \A i \in 1..Len(front) : (front \o failures)[i] = front[i]
          /\ \A i \in 1..Len(failures) : (front \o failures)[Len(front) + i] = failures[i]
      <3>1. front \in Seq(Lines) /\ failures \in Seq(Lines)
        BY <1>12, <1>15
      <3> QED
        BY <3>1, JoinedAt
    <2> QED
      BY <1>12, <1>15, <2>1
  <1> HIDE DEF most
  <1> DEFINE lines == most \o last
  <1>17. /\ lines \in Seq(Lines) /\ Len(lines) = HeadLines(s) + F + X + LastLines(s)
         /\ \A i \in 1..HeadLines(s) + F + X : lines[i] = most[i]
         /\ \A i \in 1..LastLines(s) : lines[HeadLines(s) + F + X + i] = last[i]
    <2>1. /\ most \o last \in Seq(Lines) /\ Len(most \o last) = Len(most) + Len(last)
          /\ \A i \in 1..Len(most) : (most \o last)[i] = most[i]
          /\ \A i \in 1..Len(last) : (most \o last)[Len(most) + i] = last[i]
      <3>1. most \in Seq(Lines) /\ last \in Seq(Lines)
        BY <1>10, <1>16
      <3> QED
        BY <3>1, JoinedAt
    <2> QED
      BY <1>10, <1>16, <2>1
  <1>18. SessionLines(s) = lines
    BY <1>13 DEF front, most
  <1> HIDE DEF lines
  <1>19. \A i \in 1..HeadLines(s) : lines[i] = first[i]
    <2>1. \A i \in 1..HeadLines(s) : i \in 1..HeadLines(s) + F /\ i \in 1..HeadLines(s) + F + X
      BY <1>1, <1>3, <1>14
    <2> QED
      BY <1>15, <1>16, <1>17, <2>1
  <1>20. \A i \in 1..F : lines[HeadLines(s) + i] = progress[i]
    <2>1. \A i \in 1..F : /\ HeadLines(s) + i \in 1..HeadLines(s) + F
                          /\ HeadLines(s) + i \in 1..HeadLines(s) + F + X
      BY <1>1, <1>3, <1>14
    <2> QED
      BY <1>15, <1>16, <1>17, <2>1
  <1>21. \A i \in 1..X : lines[HeadLines(s) + F + i] = failures[i]
    <2>1. \A i \in 1..X : HeadLines(s) + F + i \in 1..HeadLines(s) + F + X
      BY <1>1, <1>3, <1>14
    <2> QED
      BY <1>16, <1>17, <2>1
  <1>22. Listed(s) => lines[1] = CollectedLine(s)
    BY <1>9, <1>19
  <1>23. Summarized(s) => lines[HeadLines(s) + F + X + 1] = SummaryLine(s)
    BY <1>10, <1>17
  <1> QED
    BY <1>1, <1>3, <1>11, <1>12, <1>17, <1>18, <1>20, <1>21, <1>22, <1>23 DEF F, X

\* How many lines there are before and after the tests, and which groups the
\* first lines show.
LEMMA LinesOfGroups ==
    ASSUME NEW s \in PytestSessions
    PROVE  LET head == HeadLines(s)
               groups == Len(s.groups)
           IN  /\ head \in {0, 1} /\ (head = 1 <=> Listed(s))
               /\ LastLines(s) \in {0, 1} /\ (LastLines(s) = 1 <=> Summarized(s))
               /\ \A n \in Nat : /\ GroupsRead(s, n) \in 0..groups
                                 /\ n <= head => GroupsRead(s, n) = 0
                                 /\ n >= head /\ n <= head + groups => GroupsRead(s, n) = n - head
                                 /\ n >= head + groups => GroupsRead(s, n) = groups
  <1>1. Len(s.groups) \in Nat
    BY DEF PytestSessions
  <1>2. HeadLines(s) \in {0, 1} /\ (HeadLines(s) = 1 <=> Listed(s))
    BY DEF HeadLines
  <1>3. LastLines(s) \in {0, 1} /\ (LastLines(s) = 1 <=> Summarized(s))
    BY DEF LastLines
  <1>4. ASSUME NEW n \in Nat
        PROVE  /\ GroupsRead(s, n) \in 0..Len(s.groups)
               /\ n <= HeadLines(s) => GroupsRead(s, n) = 0
               /\ n >= HeadLines(s) /\ n <= HeadLines(s) + Len(s.groups) =>
                    GroupsRead(s, n) = n - HeadLines(s)
               /\ n >= HeadLines(s) + Len(s.groups) => GroupsRead(s, n) = Len(s.groups)
    BY <1>1, <1>2 DEF GroupsRead
  <1> QED
    BY <1>2, <1>3, <1>4

\* What the progress lines have shown grows by what the next one shows, and
\* never goes beyond the tests of their groups.
LEMMA SeenNext ==
    ASSUME NEW s \in PytestSessions, NEW g \in GLYPHS
    PROVE  LET head == HeadLines(s)
               groups == Len(s.groups)
           IN  /\ \A n \in Nat : /\ Seen(s, n, g) \in Nat
                                 /\ Seen(s, n, g) <= Having(s, GroupsRead(s, n), g)
                                 /\ n <= head => Seen(s, n, g) = 0
                                 /\ n >= head + groups =>
                                        Seen(s, n, g) = Seen(s, head + groups, g)
               /\ \A i \in 1..groups : /\ ProgressLine(s, i).glyphs[g] \in Nat
                                       /\ Seen(s, head + i, g) = Seen(s, head + (i - 1), g)
                                            + ProgressLine(s, i).glyphs[g]
  <1> DEFINE h == HeadLines(s)
             F == Len(s.groups)
  <1>1. /\ F \in Nat /\ h \in Nat
        /\ \A n \in Nat : /\ GroupsRead(s, n) \in 0..F
                          /\ n <= h => GroupsRead(s, n) = 0
                          /\ n >= h /\ n <= h + F => GroupsRead(s, n) = n - h
                          /\ n >= h + F => GroupsRead(s, n) = F
    <2>1. h \in {0, 1} /\ F \in Nat
      BY LinesOfGroups DEF PytestSessions
    <2> QED
      BY <2>1, LinesOfGroups
  <1>2. /\ Having(s, 0, g) = 0
        /\ \A n \in 0..F : Having(s, n, g) \in Nat
        /\ \A n \in 1..F : Having(s, n, g) = Having(s, n - 1, g) + s.groups[n][g]
    BY HavingNext
  <1>3. \A i \in 1..F : s.groups[i][g] \in Nat
    BY DEF PytestSessions, TestGroups
  <1>4. \A i \in 1..F : ProgressLine(s, i).glyphs[g]
                            = IF s.verbosity > 0 THEN 0 ELSE s.groups[i][g]
    BY DEF ProgressLine, Blank
  <1>5. \A n : Seen(s, n, g) = IF s.verbosity > 0 THEN 0 ELSE Having(s, GroupsRead(s, n), g)
    BY DEF Seen
  <1> HIDE DEF h, F
  <1>6. ASSUME NEW n \in Nat
        PROVE  /\ Seen(s, n, g) \in Nat
               /\ Seen(s, n, g) <= Having(s, GroupsRead(s, n), g)
               /\ n <= h => Seen(s, n, g) = 0
               /\ n >= h + F => Seen(s, n, g) = Seen(s, h + F, g)
    <2>1. Having(s, GroupsRead(s, n), g) \in Nat
      BY <1>1, <1>2
    <2>2. h + F \in Nat /\ GroupsRead(s, h + F) = F
      BY <1>1
    <2> QED
      BY <1>1, <1>2, <1>5, <2>1, <2>2
  <1>7. ASSUME NEW i \in 1..F
        PROVE  /\ ProgressLine(s, i).glyphs[g] \in Nat
               /\ Seen(s, h + i, g) = Seen(s, h + (i - 1), g) + ProgressLine(s, i).glyphs[g]
    <2>1. h + i \in Nat /\ GroupsRead(s, h + i) = i
      BY <1>1
    <2>2. h + (i - 1) \in Nat /\ GroupsRead(s, h + (i - 1)) = i - 1
      BY <1>1
    <2> QED
      BY <1>2, <1>3, <1>4, <1>5, <2>1, <2>2
  <1> QED
    BY <1>6, <1>7 DEF h, F

\* The lines that are left, when one is read.
LEMMA NextLine ==
    ASSUME NEW lines \in Seq(Lines), NEW n \in 0..Len(lines), NEW m \in n..Len(lines)
    PROVE  LET left == SubSeq(lines, n + 1, m)
           IN  /\ left \in Seq(Lines) /\ Len(left) = m - n
               /\ left # <<>> => /\ n + 1 \in 1..Len(lines) /\ n + 1 <= m
                                 /\ Head(left) = lines[n + 1]
                                 /\ Tail(left) = SubSeq(lines, n + 2, m)
               /\ \A k \in 0..Len(left) : SubSeq(left, 1, k) = SubSeq(lines, n + 1, n + k)
  <1> DEFINE left == SubSeq(lines, n + 1, m)
  <1>1. /\ n \in Nat /\ m \in Nat /\ n <= m /\ Len(lines) \in Nat /\ m <= Len(lines)
    OBVIOUS
  <1>2. /\ left \in Seq(Lines) /\ Len(left) = m - n
        /\ \A i \in 1..m - n : left[i] = lines[n + i]
    BY <1>1, SubSeqProperties
  <1> HIDE DEF left
  <1>3. ASSUME left # <<>>
        PROVE  /\ n + 1 \in 1..Len(lines) /\ n + 1 <= m
               /\ Head(left) = lines[n + 1] /\ Tail(left) = SubSeq(lines, n + 2, m)
    <2>1. m - n > 0
      BY <1>1, <1>2, <1>3, EmptySeq
    <2>2. n + 1 \in 1..Len(lines) /\ n + 1 <= m /\ Head(left) = lines[n + 1]
      BY <1>1, <1>2, <1>3, <2>1
    <2>3. /\ Tail(left) \in Seq(Lines) /\ Len(Tail(left)) = m - n - 1
          /\ \A i \in 1..m - n - 1 : Tail(left)[i] = lines[n + 1 + i]
      BY <1>1, <1>2, <1>3, <2>1, HeadTailProperties
    <2>4. /\ SubSeq(lines, n + 2, m) \in Seq(Lines) /\ Len(SubSeq(lines, n + 2, m)) = m - n - 1
          /\ \A i \in 1..m - n - 1 : SubSeq(lines, n + 2, m)[i] = lines[n + 1 + i]
      BY <1>1, <2>1, SubSeqProperties
    <2>5. Tail(left) = SubSeq(lines, n + 2, m)
      BY <2>3, <2>4, SeqEqual
    <2> QED
      BY <2>2, <2>5
  <1>4. ASSUME NEW k \in 0..Len(left)
        PROVE  SubSeq(left, 1, k) = SubSeq(lines, n + 1, n + k)
    <2>1. /\ SubSeq(left, 1, k) \in Seq(Lines) /\ Len(SubSeq(left, 1, k)) = k
          /\ \A i \in 1..k : SubSeq(left, 1, k)[i] = lines[n + i]
      BY <1>1, <1>2, SubSeqProperties
    <2>2. /\ SubSeq(lines, n + 1, n + k) \in Seq(Lines)
          /\ Len(SubSeq(lines, n + 1, n + k)) = k
          /\ \A i \in 1..k : SubSeq(lines, n + 1, n + k)[i] = lines[n + i]
      BY <1>1, <1>2, SubSeqProperties
    <2> QED
      BY <2>1, <2>2, SeqEqual
  <1> QED
    BY <1>2, <1>3, <1>4 DEF left

-----------------------------------------------------------------------------
(* Reading a line *)

\* What capture_output_line makes of a row.
Parsed(row, line) ==
    _update_summary_counts(
        _update_collected_count(
            _update_failed_tests(_update_progress_and_counts(row, line), line), line), line)

\* Which fields of a row a line changes, and how.
LEMMA ParsedFields ==
    ASSUME NEW row \in LaneStates, NEW line \in Lines
    PROVE  LET r == Parsed(row, line)
               collected == IF line.collected = None THEN row.collected_count
                            ELSE line.collected
           IN  /\ r.passed_count = IF line.counts.passed > 0 THEN line.counts.passed
                                   ELSE IF line.percent = None THEN row.passed_count
                                   ELSE row.passed_count + line.glyphs["."] + line.glyphs["X"]
               /\ r.skipped_count = IF line.counts.skipped > 0 THEN line.counts.skipped
                                    ELSE IF line.percent = None THEN row.skipped_count
                                    ELSE row.skipped_count + line.glyphs["s"]
               /\ r.failed_tests = IF line.failed THEN row.failed_tests + 1
                                   ELSE row.failed_tests
               /\ r.collected_count =
                    IF line.counts.deselected > 0 /\ line.counts.passed > 0
                    THEN collected - line.counts.deselected ELSE collected
               /\ r.progress_percent = IF line.percent = None THEN row.progress_percent
                                       ELSE line.percent
               /\ r.status = row.status /\ r.started_at = row.started_at
               /\ r.duration = row.duration /\ r.exit_code = row.exit_code
               /\ r \in LaneStates
  <1> DEFINE r1 == _update_progress_and_counts(row, line)
             r2 == _update_failed_tests(r1, line)
             r3 == _update_collected_count(r2, line)
             r == _update_summary_counts(r3, line)
  <1>1. /\ line.counts.passed \in Nat /\ line.counts.skipped \in Nat
        /\ line.counts.deselected \in Nat /\ line.percent \in {None} \cup 0..100
        /\ line.collected \in {None} \cup Nat
        /\ line.glyphs["."] \in Nat /\ line.glyphs["X"] \in Nat /\ line.glyphs["s"] \in Nat
    BY DEF Lines, Counts, GLYPHS
  <1>2. /\ r1 \in LaneStates
        /\ r1.passed_count = IF line.percent = None THEN row.passed_count
                             ELSE row.passed_count + line.glyphs["."] + line.glyphs["X"]
        /\ r1.skipped_count = IF line.percent = None THEN row.skipped_count
                              ELSE row.skipped_count + line.glyphs["s"]
        /\ r1.progress_percent = IF line.percent = None THEN row.progress_percent
                                 ELSE line.percent
        /\ r1.failed_tests = row.failed_tests /\ r1.collected_count = row.collected_count
        /\ r1.status = row.status /\ r1.started_at = row.started_at
        /\ r1.duration = row.duration /\ r1.exit_code = row.exit_code
    <2>1. CASE line.percent = None
      BY <2>1 DEF _update_progress_and_counts
    <2>2. CASE line.percent # None
      <3>1. line.percent \in 0..100
        BY <1>1, <2>2
      <3> DEFINE passed == row.passed_count + line.glyphs["."] + line.glyphs["X"]
                 skipped == row.skipped_count + line.glyphs["s"]
      <3>2. passed \in Nat /\ skipped \in Nat
        <4>1. row.passed_count \in Nat /\ row.skipped_count \in Nat
          BY DEF LaneStates
        <4> QED
          BY <1>1, <4>1
      <3>3. r1 = [row EXCEPT !.progress_percent = line.percent, !.passed_count = passed,
                             !.skipped_count = skipped]
        BY <2>2 DEF _update_progress_and_counts, LaneStates
      <3>4. passed = row.passed_count + line.glyphs["."] + line.glyphs["X"]
            /\ skipped = row.skipped_count + line.glyphs["s"]
        OBVIOUS
      <3> HIDE DEF passed, skipped, r1
      <3>5. /\ r1 \in LaneStates /\ r1.passed_count = passed /\ r1.skipped_count = skipped
            /\ r1.progress_percent = line.percent
            /\ r1.failed_tests = row.failed_tests
            /\ r1.collected_count = row.collected_count
            /\ r1.status = row.status /\ r1.started_at = row.started_at
            /\ r1.duration = row.duration /\ r1.exit_code = row.exit_code
        BY <3>1, <3>2, <3>3 DEF LaneStates
      <3> QED
        BY <2>2, <3>4, <3>5
    <2> QED
      BY <2>1, <2>2
  <1> HIDE DEF r1
  <1>3. /\ r2 \in LaneStates
        /\ r2.failed_tests = IF line.failed THEN row.failed_tests + 1 ELSE row.failed_tests
        /\ r2.passed_count = r1.passed_count /\ r2.skipped_count = r1.skipped_count
        /\ r2.progress_percent = r1.progress_percent
        /\ r2.collected_count = row.collected_count
        /\ r2.status = row.status /\ r2.started_at = row.started_at
        /\ r2.duration = row.duration /\ r2.exit_code = row.exit_code
    <2>1. CASE ~line.failed
      BY <1>2, <2>1 DEF _update_failed_tests
    <2>2. CASE line.failed
      BY <1>2, <2>2 DEF _update_failed_tests, LaneStates
    <2> QED
      BY <2>1, <2>2
  <1> HIDE DEF r2
  <1>4. /\ r3 \in LaneStates
        /\ r3.collected_count = IF line.collected = None THEN row.collected_count
                                ELSE line.collected
        /\ r3.passed_count = r1.passed_count /\ r3.skipped_count = r1.skipped_count
        /\ r3.progress_percent = r1.progress_percent /\ r3.failed_tests = r2.failed_tests
        /\ r3.status = row.status /\ r3.started_at = row.started_at
        /\ r3.duration = row.duration /\ r3.exit_code = row.exit_code
    <2>1. CASE line.collected = None
      BY <1>3, <2>1 DEF _update_collected_count
    <2>2. CASE line.collected # None
      <3>1. line.collected \in Nat
        BY <1>1, <2>2
      <3> QED
        BY <1>3, <2>2, <3>1 DEF _update_collected_count, LaneStates
    <2> QED
      BY <2>1, <2>2
  <1> HIDE DEF r3
  <1>5. /\ r.passed_count = IF line.counts.passed > 0 THEN line.counts.passed
                            ELSE r3.passed_count
        /\ r.skipped_count = IF line.counts.skipped > 0 THEN line.counts.skipped
                             ELSE r3.skipped_count
        /\ r.collected_count = IF line.counts.deselected > 0 /\ line.counts.passed > 0
                               THEN r3.collected_count - line.counts.deselected
                               ELSE r3.collected_count
        /\ r.progress_percent = r3.progress_percent /\ r.failed_tests = r3.failed_tests
        /\ r.status = row.status /\ r.started_at = row.started_at
        /\ r.duration = row.duration /\ r.exit_code = row.exit_code
    BY <1>4 DEF _update_summary_counts, LaneStates
  <1>6. r \in LaneStates
    <2>1. /\ r.passed_count \in Nat /\ r.skipped_count \in Nat
          /\ r.collected_count \in Int
      BY <1>1, <1>4, <1>5 DEF LaneStates
    <2>2. r = [r3 EXCEPT !.passed_count = r.passed_count, !.skipped_count = r.skipped_count,
                         !.collected_count = r.collected_count]
      BY <1>4, <1>5 DEF _update_summary_counts, LaneStates
    <2> HIDE DEF r
    <2> QED
      BY <1>4, <2>1, <2>2 DEF LaneStates
  <1>7. Parsed(row, line) = r
    BY DEF Parsed, r1, r2, r3
  <1> HIDE DEF r
  <1> QED
    BY <1>1, <1>2, <1>3, <1>4, <1>5, <1>6, <1>7

\* A row that counts what the lines before say counts, when the next line is
\* parsed, what that says too.
LEMMA ReadOne ==
    ASSUME NEW s \in PytestSessions, NEW row \in LaneStates,
           NEW n \in 0..Len(SessionLines(s)) - 1, CountsRead(row, s, n)
    PROVE  LET r == Parsed(row, SessionLines(s)[n + 1])
               head == HeadLines(s)
               groups == Len(s.groups)
           IN  /\ r \in LaneStates /\ CountsRead(r, s, n + 1)
               /\ r.status = row.status /\ r.started_at = row.started_at
               /\ r.duration = row.duration /\ r.exit_code = row.exit_code
               /\ n + 1 = head + groups /\ groups > 0 => r.progress_percent = 100
               /\ n < head \/ n >= head + groups =>
                    r.progress_percent = row.progress_percent
  <1> DEFINE h == HeadLines(s)
             F == Len(s.groups)
             X == Having(s, F, "F")
             N == Len(SessionLines(s))
             t == LastLines(s)
             line == SessionLines(s)[n + 1]
             r == Parsed(row, line)
  <1>1. /\ F \in Nat /\ X \in Nat /\ N = h + F + X + t /\ SessionLines(s) \in Seq(Lines)
        /\ h \in {0, 1} /\ (h = 1 <=> Listed(s)) /\ t \in {0, 1} /\ (t = 1 <=> Summarized(s))
    BY LineAt, LinesOfGroups
  <1>2. /\ Having(s, F, ".") \in Nat /\ Having(s, F, "s") \in Nat
        /\ s.deselected \in Nat /\ s.skipped_files \in Nat
        /\ Tests(s, F) \in Nat
    <2>1. F \in 0..F
      BY <1>1
    <2>2. Tests(s, F) \in Nat
      BY <2>1, TestsCounted
    <2>3. \A g \in GLYPHS : Having(s, F, g) \in Nat
      BY <2>1, HavingNext
    <2> QED
      BY <2>2, <2>3 DEF GLYPHS, PytestSessions
  <1>3. line \in Lines /\ n \in Nat /\ n + 1 \in Nat /\ n + 1 \in 1..N
    <2>1. n + 1 \in 1..N
      BY <1>1
    <2> QED
      BY <1>1, <2>1
  <1>4. /\ None \notin Int
        /\ NoCounts.passed = 0 /\ NoCounts.skipped = 0 /\ NoCounts.deselected = 0
        /\ Blank.percent = None /\ Blank.collected = None /\ ~Blank.failed
        /\ Blank.counts = NoCounts
    BY ReporterAssumption DEF NoCounts, Blank
  <1>5. /\ row.passed_count \in Nat /\ row.skipped_count \in Nat /\ row.failed_tests \in Nat
        /\ row.collected_count \in Int
    BY DEF LaneStates
  <1> DEFINE listed(k) == Listed(s) /\ k > 0
             ended(k) == Summarized(s) /\ k = N
             summary(k) == ended(k) /\ Having(s, F, ".") > 0
             Counted(q, k) ==
                /\ q.passed_count = IF summary(k) THEN Having(s, F, ".")
                                    ELSE Seen(s, k, ".") + Seen(s, k, "X")
                /\ q.skipped_count = IF ended(k) THEN Having(s, F, "s") + s.skipped_files
                        ELSE Seen(s, k, "s") + IF listed(k) THEN s.skipped_files ELSE 0
                /\ q.failed_tests = IF k <= h + F THEN 0 ELSE IF ended(k) THEN X ELSE k - h - F
                /\ q.collected_count = (IF listed(k) THEN Tests(s, F) + s.deselected ELSE 0)
                                       - IF summary(k) THEN s.deselected ELSE 0
  <1>6. \A q, k : CountsRead(q, s, k) <=> Counted(q, k)
    BY DEF CountsRead
  <1>7. Counted(row, n)
    BY <1>6
  <1>8. \A k \in {n, n + 1} : \A g \in {".", "X", "s"} :
            /\ Seen(s, k, g) \in Nat
            /\ k <= h => Seen(s, k, g) = 0
            /\ k >= h + F => Seen(s, k, g) = Seen(s, h + F, g)
    <2>1. \A g \in {".", "X", "s"} : g \in GLYPHS
      BY DEF GLYPHS
    <2> HIDE DEF line, r, listed, ended, summary, Counted
    <2> QED
      BY <1>3, <2>1, SeenNext
  <1> HIDE DEF r, line
  <1>9. LET collected == IF line.collected = None THEN row.collected_count
                         ELSE line.collected
        IN  /\ r.passed_count = IF line.counts.passed > 0 THEN line.counts.passed
                                ELSE IF line.percent = None THEN row.passed_count
                                ELSE row.passed_count + line.glyphs["."] + line.glyphs["X"]
            /\ r.skipped_count = IF line.counts.skipped > 0 THEN line.counts.skipped
                                 ELSE IF line.percent = None THEN row.skipped_count
                                 ELSE row.skipped_count + line.glyphs["s"]
            /\ r.failed_tests = IF line.failed THEN row.failed_tests + 1
                                ELSE row.failed_tests
            /\ r.collected_count =
                 IF line.counts.deselected > 0 /\ line.counts.passed > 0
                 THEN collected - line.counts.deselected ELSE collected
            /\ r.progress_percent = IF line.percent = None THEN row.progress_percent
                                    ELSE line.percent
            /\ r.status = row.status /\ r.started_at = row.started_at
            /\ r.duration = row.duration /\ r.exit_code = row.exit_code
            /\ r \in LaneStates
    BY <1>3, ParsedFields DEF r
  <1> DEFINE Right ==
        /\ Counted(r, n + 1)
        /\ n + 1 = h + F /\ F > 0 => r.progress_percent = 100
        /\ n < h \/ n >= h + F => r.progress_percent = row.progress_percent
  <1> HIDE DEF h, F, X, N, t, listed, ended, summary
  <1>10. ASSUME n < h
         PROVE  Right
    <2>1. n = 0 /\ h = 1 /\ Listed(s) /\ N > 0 /\ n + 1 = 1
      BY <1>1, <1>3, <1>10
    <2>2. line = CollectedLine(s)
      BY <2>1, LineAt DEF line
    <2>3. /\ line.percent = None /\ ~line.failed /\ line.counts.passed = 0
          /\ line.collected = Tests(s, F) + s.deselected
          /\ line.counts.skipped = s.skipped_files
      BY <1>4, <2>2 DEF CollectedLine, Blank, NoCounts, F
    <2>4. line.collected # None
      BY <1>2, <1>4, <2>3
    <2>5. ~listed(n) /\ ~ended(n) /\ ~summary(n) /\ listed(n + 1)
      BY <2>1 DEF listed, ended, summary
    <2>6. ~ended(n + 1) /\ ~summary(n + 1)
      BY <1>1, <2>1 DEF ended, summary
    <2>7. /\ n <= h /\ n + 1 <= h /\ n <= h + F /\ n + 1 <= h + F
          /\ (n + 1 = h + F => F = 0)
      BY <1>1, <2>1
    <2>8. /\ Seen(s, n, ".") = 0 /\ Seen(s, n, "X") = 0 /\ Seen(s, n, "s") = 0
          /\ Seen(s, n + 1, ".") = 0 /\ Seen(s, n + 1, "X") = 0 /\ Seen(s, n + 1, "s") = 0
      BY <1>8, <2>7
    <2>9. row.passed_count = 0 /\ row.skipped_count = 0 /\ row.failed_tests = 0
      BY <1>7, <2>5, <2>7, <2>8
    <2>10. /\ r.passed_count = 0 /\ r.skipped_count = s.skipped_files /\ r.failed_tests = 0
           /\ r.collected_count = Tests(s, F) + s.deselected
           /\ r.progress_percent = row.progress_percent
      BY <1>2, <1>9, <2>3, <2>4, <2>9
    <2>11. Counted(r, n + 1)
      BY <1>2, <2>5, <2>6, <2>7, <2>8, <2>10
    <2> HIDE DEF Counted
    <2> QED
      BY <1>1, <2>7, <2>10, <2>11
  <1>11. ASSUME n >= h, n < h + F
         PROVE  Right
    <2> DEFINE i == (n + 1) - h
    <2>1. i \in 1..F /\ n + 1 = h + i /\ n = h + (i - 1)
      BY <1>1, <1>3, <1>11
    <2> HIDE DEF i
    <2>2. line = ProgressLine(s, i)
      BY <2>1, LineAt DEF line, h, F
    <2>3. /\ line.percent = Percent(Tests(s, i), Tests(s, F)) /\ ~line.failed
          /\ line.counts.passed = 0 /\ line.counts.skipped = 0
          /\ line.counts.deselected = 0 /\ line.collected = None
      BY <1>4, <2>2 DEF ProgressLine, Blank, NoCounts, Percent, F
    <2>4. line.percent # None /\ (i = F => line.percent = 100)
      <3>1. Percent(Tests(s, i), Tests(s, F)) \in 0..100 /\ Percent(Tests(s, F), Tests(s, F)) = 100
        BY <2>1, PercentType DEF F
      <3> QED
        BY <1>4, <2>3, <3>1
    <2>5. \A g \in {".", "X", "s"} :
            line.glyphs[g] \in Nat /\ Seen(s, n + 1, g) = Seen(s, n, g) + line.glyphs[g]
      <3>1. \A g \in {".", "X", "s"} : g \in GLYPHS
        BY DEF GLYPHS
      <3>2. \A g \in GLYPHS : /\ ProgressLine(s, i).glyphs[g] \in Nat
                              /\ Seen(s, h + i, g) = Seen(s, h + (i - 1), g)
                                    + ProgressLine(s, i).glyphs[g]
        BY <2>1, SeenNext DEF h, F
      <3> QED
        BY <2>1, <2>2, <3>1, <3>2
    <2>6. ~ended(n) /\ ~summary(n) /\ ~ended(n + 1) /\ ~summary(n + 1)
      BY <1>1, <1>3, <1>11 DEF ended, summary
    <2>7. listed(n) <=> listed(n + 1)
      BY <1>1, <1>3, <1>11 DEF listed
    <2>8. /\ n <= h + F /\ n + 1 <= h + F /\ ~(n < h) /\ ~(n >= h + F)
          /\ (n + 1 = h + F => i = F)
      BY <1>1, <1>3, <1>11, <2>1
    <2>9. r.passed_count = Seen(s, n + 1, ".") + Seen(s, n + 1, "X")
      <3>1. r.passed_count = row.passed_count + line.glyphs["."] + line.glyphs["X"]
        BY <1>9, <2>3, <2>4
      <3>2. row.passed_count = Seen(s, n, ".") + Seen(s, n, "X")
        BY <1>7, <2>6
      <3>3. /\ Seen(s, n + 1, ".") = Seen(s, n, ".") + line.glyphs["."]
            /\ Seen(s, n + 1, "X") = Seen(s, n, "X") + line.glyphs["X"]
            /\ line.glyphs["."] \in Nat /\ line.glyphs["X"] \in Nat
            /\ Seen(s, n, ".") \in Nat /\ Seen(s, n, "X") \in Nat
        BY <1>8, <2>5
      <3> DEFINE a == Seen(s, n, ".")
                 b == Seen(s, n, "X")
                 c == line.glyphs["."]
                 d == line.glyphs["X"]
      <3>4. r.passed_count = (a + b) + c + d
        BY <3>1, <3>2
      <3>5. /\ a \in Nat /\ b \in Nat /\ c \in Nat /\ d \in Nat
            /\ Seen(s, n + 1, ".") = a + c /\ Seen(s, n + 1, "X") = b + d
        BY <3>3
      <3> HIDE DEF a, b, c, d
      <3>6. (a + b) + c + d = (a + c) + (b + d)
        BY <3>5
      <3> QED
        BY <3>4, <3>5, <3>6
    <2>10. r.skipped_count = Seen(s, n + 1, "s") + IF listed(n + 1) THEN s.skipped_files ELSE 0
      <3>1. r.skipped_count = row.skipped_count + line.glyphs["s"]
        BY <1>9, <2>3, <2>4
      <3>2. row.skipped_count = Seen(s, n, "s") + IF listed(n + 1) THEN s.skipped_files ELSE 0
        BY <1>7, <2>6, <2>7
      <3>3. /\ Seen(s, n + 1, "s") = Seen(s, n, "s") + line.glyphs["s"]
            /\ line.glyphs["s"] \in Nat /\ Seen(s, n, "s") \in Nat
        BY <1>8, <2>5
      <3> QED
        BY <1>2, <3>1, <3>2, <3>3
    <2>11. /\ r.failed_tests = 0 /\ r.collected_count = row.collected_count
           /\ r.progress_percent = line.percent
      BY <1>7, <1>9, <2>3, <2>4, <2>8
    <2>12. row.collected_count = (IF listed(n + 1) THEN Tests(s, F) + s.deselected ELSE 0) - 0
      BY <1>7, <2>6, <2>7
    <2>13. Counted(r, n + 1)
      BY <2>6, <2>8, <2>9, <2>10, <2>11, <2>12
    <2> HIDE DEF Counted
    <2> QED
      BY <2>4, <2>8, <2>11, <2>13
  <1>12. ASSUME n >= h + F, n < h + F + X
         PROVE  Right
    <2>1. (n + 1) - h - F \in 1..X /\ h + F + ((n + 1) - h - F) = n + 1
      BY <1>1, <1>3, <1>12
    <2>2. line = FailedLine
      BY <2>1, LineAt DEF line, h, F, X
    <2>3. /\ line.percent = None /\ line.failed /\ line.counts.passed = 0
          /\ line.counts.skipped = 0 /\ line.collected = None
      BY <1>4, <2>2 DEF FailedLine, Blank, NoCounts
    <2>4. ~ended(n) /\ ~summary(n) /\ ~ended(n + 1) /\ ~summary(n + 1)
      BY <1>1, <1>3, <1>12 DEF ended, summary
    <2>5. listed(n) <=> listed(n + 1)
      BY <1>1, <1>3, <1>12 DEF listed
    <2>6. /\ ~(n < h) /\ ~(n + 1 <= h + F) /\ n + 1 # h + F /\ n + 1 >= h + F
          /\ (n <= h + F => n - h - F = 0) /\ (n - h - F) + 1 = (n + 1) - h - F
      BY <1>1, <1>3, <1>12
    <2>7. \A g \in {".", "X", "s"} : Seen(s, n + 1, g) = Seen(s, n, g)
      BY <1>8, <1>12, <2>6
    <2>8. r.failed_tests = (n + 1) - h - F
      BY <1>7, <1>9, <2>3, <2>4, <2>6
    <2>9. /\ r.passed_count = row.passed_count /\ r.skipped_count = row.skipped_count
          /\ r.collected_count = row.collected_count
          /\ r.progress_percent = row.progress_percent
      BY <1>9, <2>3
    <2>10. Counted(r, n + 1)
      <3>1. r.passed_count = Seen(s, n + 1, ".") + Seen(s, n + 1, "X")
        BY <1>7, <2>4, <2>7, <2>9
      <3>2. r.skipped_count = Seen(s, n + 1, "s") + IF listed(n + 1) THEN s.skipped_files ELSE 0
        BY <1>7, <2>4, <2>5, <2>7, <2>9
      <3>3. r.collected_count = (IF listed(n + 1) THEN Tests(s, F) + s.deselected ELSE 0) - 0
        BY <1>7, <2>4, <2>5, <2>9
      <3>4. r.failed_tests = IF n + 1 <= h + F THEN 0
                             ELSE IF ended(n + 1) THEN X ELSE (n + 1) - h - F
        BY <2>4, <2>6, <2>8
      <3>5. /\ r.passed_count = IF summary(n + 1) THEN Having(s, F, ".")
                                ELSE Seen(s, n + 1, ".") + Seen(s, n + 1, "X")
            /\ r.skipped_count = IF ended(n + 1) THEN Having(s, F, "s") + s.skipped_files
                    ELSE Seen(s, n + 1, "s") + IF listed(n + 1) THEN s.skipped_files ELSE 0
        BY <2>4, <3>1, <3>2
      <3>6. r.collected_count = (IF listed(n + 1) THEN Tests(s, F) + s.deselected ELSE 0)
                                - IF summary(n + 1) THEN s.deselected ELSE 0
        BY <2>4, <3>3
      <3> QED
        BY <3>4, <3>5, <3>6
    <2> HIDE DEF Counted
    <2> QED
      BY <2>6, <2>9, <2>10
  <1>13. ASSUME n >= h + F + X
         PROVE  Right
    <2>1. n = h + F + X /\ t = 1 /\ Summarized(s) /\ n + 1 = N
      BY <1>1, <1>3, <1>13
    <2>2. line = SummaryLine(s)
      BY <2>1, LineAt DEF line, h, F, X
    <2>3. /\ line.percent = None /\ ~line.failed /\ line.counts.passed = Having(s, F, ".")
          /\ line.counts.skipped = Having(s, F, "s") + s.skipped_files
          /\ line.counts.deselected = s.deselected /\ line.collected = None
      BY <1>4, <2>2 DEF SummaryLine, Blank, F
    <2>4. ~ended(n) /\ ~summary(n) /\ ended(n + 1) /\ (summary(n + 1) <=> Having(s, F, ".") > 0)
      BY <1>1, <1>3, <2>1 DEF ended, summary
    <2>5. listed(n) <=> listed(n + 1)
      BY <1>1, <1>3, <2>1 DEF listed
    <2>6. /\ ~(n < h) /\ ~(n + 1 <= h + F) /\ n + 1 # h + F /\ n >= h + F /\ n + 1 >= h + F
          /\ (n <= h + F => X = 0) /\ n - h - F = X
      BY <1>1, <1>3, <2>1
    <2>7. \A g \in {".", "X", "s"} : Seen(s, n + 1, g) = Seen(s, n, g)
      BY <1>8, <2>6
    <2>8. r.passed_count = IF summary(n + 1) THEN Having(s, F, ".")
                           ELSE Seen(s, n + 1, ".") + Seen(s, n + 1, "X")
      BY <1>7, <1>9, <2>3, <2>4, <2>7
    <2>9. r.skipped_count = Having(s, F, "s") + s.skipped_files
      <3>1. CASE Having(s, F, "s") + s.skipped_files > 0
        BY <1>9, <2>3, <3>1
      <3>2. CASE Having(s, F, "s") + s.skipped_files = 0
        <4>1. /\ r.skipped_count = row.skipped_count
              /\ Having(s, F, "s") = 0 /\ s.skipped_files = 0
          BY <1>2, <1>9, <2>3, <3>2
        <4>2. Seen(s, n, "s") = 0
          <5>1. "s" \in GLYPHS /\ GroupsRead(s, n) = F
            BY <1>3, <2>6, LinesOfGroups DEF GLYPHS, h, F
          <5>2. Seen(s, n, "s") \in Nat /\ Seen(s, n, "s") <= Having(s, F, "s")
            BY <1>3, <5>1, SeenNext
          <5> QED
            BY <4>1, <5>2
        <4>3. row.skipped_count = 0
          BY <1>7, <2>4, <4>1, <4>2
        <4> QED
          BY <3>2, <4>1, <4>3
      <3> QED
        BY <1>2, <3>1, <3>2
    <2>10. r.failed_tests = X /\ r.progress_percent = row.progress_percent
      BY <1>7, <1>9, <2>3, <2>4, <2>6
    <2>11. r.collected_count = (IF listed(n + 1) THEN Tests(s, F) + s.deselected ELSE 0)
                               - IF summary(n + 1) THEN s.deselected ELSE 0
      <3>1. row.collected_count = (IF listed(n + 1) THEN Tests(s, F) + s.deselected ELSE 0) - 0
        BY <1>7, <2>4, <2>5
      <3>2. r.collected_count = IF s.deselected > 0 /\ summary(n + 1)
                                THEN row.collected_count - s.deselected ELSE row.collected_count
        BY <1>9, <2>3, <2>4
      <3> QED
        BY <1>2, <1>5, <3>1, <3>2
    <2>12. Counted(r, n + 1)
      BY <2>4, <2>6, <2>8, <2>9, <2>10, <2>11
    <2> HIDE DEF Counted
    <2> QED
      BY <2>6, <2>10, <2>12
  <1>14. Right
    <2>1. h \in Nat /\ F \in Nat /\ X \in Nat /\ n \in Nat
      BY <1>1, <1>3
    <2>2. n < h \/ (n >= h /\ n < h + F) \/ (n >= h + F /\ n < h + F + X) \/ n >= h + F + X
      BY <2>1
    <2> HIDE DEF Right
    <2> QED
      BY <1>10, <1>11, <1>12, <1>13, <2>2
  <1> HIDE DEF Counted
  <1> QED
    BY <1>6, <1>9, <1>14 DEF r, line, h, F

-----------------------------------------------------------------------------
(* What a row counts, from line to line *)

\* A pending lane has read nothing, and none of its text is printed.
LEMMA PendingRead ==
    ASSUME NEW s \in PytestSessions
    PROVE  RowRead(Pending, s, <<>>)
  <1> DEFINE N == Len(SessionLines(s))
             F == Len(s.groups)
             X == Having(s, F, "F")
  <1>1. /\ F \in Nat /\ X \in Nat /\ N = HeadLines(s) + F + X + LastLines(s)
        /\ SessionLines(s) \in Seq(Lines)
    BY LineAt
  <1>2. /\ HeadLines(s) \in {0, 1} /\ LastLines(s) \in {0, 1}
        /\ (LastLines(s) = 1 <=> Summarized(s))
    BY LinesOfGroups
  <1>3. N \in Nat /\ (Summarized(s) => 0 # N) /\ 0 <= HeadLines(s) + F
    BY <1>1, <1>2
  <1>4. Seen(s, 0, ".") = 0 /\ Seen(s, 0, "X") = 0 /\ Seen(s, 0, "s") = 0
    <2>1. "." \in GLYPHS /\ "X" \in GLYPHS /\ "s" \in GLYPHS /\ 0 <= HeadLines(s)
      BY <1>2 DEF GLYPHS
    <2> QED
      BY <2>1, SeenNext
  <1>5. CountsRead(Pending, s, 0)
    BY <1>3, <1>4 DEF CountsRead, Pending
  <1>6. SubSeq(SessionLines(s), 0 + 1, 0) = <<>>
    BY <1>1, SubSeqProperties
  <1>7. 0 \in 0..N /\ 0 <= 0
    BY <1>3
  <1> QED
    BY <1>5, <1>6, <1>7 DEF RowRead, Pending, Finished

\* When a lane starts, all of its session is to be read.
LEMMA StartedRead ==
    ASSUME NEW s \in PytestSessions, NEW row \in LaneStates, NEW left,
           RowRead(row, s, left), row.status = "pending", now \in Nat
    PROVE  /\ mark_started(row) \in LaneStates
           /\ RowRead(mark_started(row), s, SessionLines(s))
  <1> DEFINE r == mark_started(row)
             N == Len(SessionLines(s))
  <1>1. N \in Nat /\ SessionLines(s) \in Seq(Lines)
    BY LineAt
  <1>2. /\ r \in LaneStates /\ r.status = "running"
        /\ r.passed_count = row.passed_count /\ r.skipped_count = row.skipped_count
        /\ r.failed_tests = row.failed_tests /\ r.collected_count = row.collected_count
    BY DEF mark_started, LaneStates
  <1>3. CountsRead(row, s, 0)
    <2>1. PICK n \in 0..N, m \in 0..N : n <= m /\ CountsRead(row, s, n) /\ m = 0
      BY DEF RowRead
    <2>2. n = 0
      BY <1>1, <2>1
    <2> QED
      BY <2>1, <2>2
  <1>4. CountsRead(r, s, 0)
    <2> HIDE DEF r
    <2> QED
      BY <1>2, <1>3 DEF CountsRead
  <1>5. SessionLines(s) = SubSeq(SessionLines(s), 0 + 1, N)
    <2>1. /\ SubSeq(SessionLines(s), 1, N) \in Seq(Lines)
          /\ Len(SubSeq(SessionLines(s), 1, N)) = N
          /\ \A i \in 1..N : SubSeq(SessionLines(s), 1, N)[i] = SessionLines(s)[i]
      BY <1>1, SubSeqProperties
    <2> QED
      BY <1>1, <2>1, SeqEqual
  <1>6. 0 \in 0..N /\ N \in 0..N /\ 0 <= N
    BY <1>1
  <1> HIDE DEF r
  <1>7. RowRead(r, s, SessionLines(s))
    BY <1>2, <1>4, <1>5, <1>6 DEF RowRead, Finished
  <1> QED
    BY <1>2, <1>7 DEF r

\* A captured line is the next one, and is counted.
LEMMA CapturedRead ==
    ASSUME NEW s \in PytestSessions, NEW row \in LaneStates, NEW left,
           RowRead(row, s, left), left # <<>>
    PROVE  LET r == Parsed(row, Head(left))
           IN  /\ r \in LaneStates /\ Tail(left) \in Seq(Lines)
               /\ RowRead(r, s, Tail(left))
               /\ r.status = row.status /\ r.started_at = row.started_at
               /\ r.duration = row.duration /\ r.exit_code = row.exit_code
  <1> DEFINE lines == SessionLines(s)
             N == Len(lines)
             F == Len(s.groups)
             h == HeadLines(s)
             r == Parsed(row, Head(left))
  <1>1. N \in Nat /\ lines \in Seq(Lines) /\ F \in Nat /\ h \in {0, 1}
    BY LineAt, LinesOfGroups
  <1>2. PICK n \in 0..N, m \in 0..N :
            /\ n <= m /\ left = SubSeq(lines, n + 1, m) /\ CountsRead(row, s, n)
            /\ row.status = "pending" => m = 0
            /\ row.status = "running" => m = N
            /\ row.status \in Finished =>
                /\ row.exit_code \in Int
                /\ row.exit_code >= 0 => m = N
                /\ row.status = "pass" => row.exit_code = 0
                /\ n \notin h + 1..h + F - 1 => row.progress_percent = 100
    BY DEF RowRead
  <1>3. /\ n + 1 \in 1..N /\ n + 1 <= m /\ Head(left) = lines[n + 1]
        /\ Tail(left) = SubSeq(lines, n + 2, m)
    <2>1. m \in n..N
      BY <1>1, <1>2
    <2> HIDE DEF lines
    <2> QED
      BY <1>1, <1>2, <2>1, NextLine
  <1>4. n \in 0..N - 1 /\ n + 1 \in 0..N /\ n + 2 = (n + 1) + 1
    BY <1>1, <1>3
  <1>5. /\ r \in LaneStates /\ CountsRead(r, s, n + 1)
        /\ r.status = row.status /\ r.started_at = row.started_at
        /\ r.duration = row.duration /\ r.exit_code = row.exit_code
        /\ n + 1 = h + F /\ F > 0 => r.progress_percent = 100
        /\ n < h \/ n >= h + F => r.progress_percent = row.progress_percent
    BY <1>2, <1>3, <1>4, ReadOne
  <1>6. Tail(left) \in Seq(Lines)
    <2>1. left \in Seq(Lines)
      <3>1. m \in n..N
        BY <1>1, <1>2
      <3> HIDE DEF lines
      <3> QED
        BY <1>1, <1>2, <3>1, NextLine
    <2> QED
      BY <2>1, HeadTailProperties
  <1> HIDE DEF r, lines, N, F, h
  <1>7. row.status \in Finished /\ n + 1 \notin h + 1..h + F - 1 => r.progress_percent = 100
    <2>1. n + 1 \notin h + 1..h + F - 1 =>
            (n + 1 = h + F /\ F > 0) \/ n < h \/ n >= h + F
      BY <1>1, <1>4
    <2>2. n < h \/ n >= h + F => n \notin h + 1..h + F - 1
      BY <1>1, <1>4
    <2> QED
      BY <1>2, <1>5, <2>1, <2>2
  <1>8. RowRead(r, s, Tail(left))
    <2>1. /\ n + 1 <= m /\ Tail(left) = SubSeq(lines, (n + 1) + 1, m)
          /\ CountsRead(r, s, n + 1)
          /\ r.status = "pending" => m = 0
          /\ r.status = "running" => m = N
          /\ r.status \in Finished =>
                /\ r.exit_code \in Int
                /\ r.exit_code >= 0 => m = N
                /\ r.status = "pass" => r.exit_code = 0
                /\ n + 1 \notin h + 1..h + F - 1 => r.progress_percent = 100
      BY <1>2, <1>3, <1>4, <1>5, <1>7
    <2>2. \E a, b \in 0..N :
            /\ a <= b /\ Tail(left) = SubSeq(lines, a + 1, b)
            /\ CountsRead(r, s, a)
            /\ r.status = "pending" => b = 0
            /\ r.status = "running" => b = N
            /\ r.status \in Finished =>
                /\ r.exit_code \in Int
                /\ r.exit_code >= 0 => b = N
                /\ r.status = "pass" => r.exit_code = 0
                /\ a \notin h + 1..h + F - 1 => r.progress_percent = 100
      <3>1. n + 1 \in 0..N /\ m \in 0..N
        BY <1>4
      <3> DEFINE k == n + 1
      <3> HIDE DEF k
      <3>2. k = n + 1
        BY DEF k
      <3> QED
        BY <2>1, <3>1, <3>2
    <2> QED
      BY <2>2 DEF RowRead, lines, N, F, h
  <1> QED
    BY <1>5, <1>6, <1>8 DEF r

\* The verdict changes no count; the text that is printed goes on being read.
LEMMA FinishedRead ==
    ASSUME NEW s \in PytestSessions, NEW row \in LaneStates, NEW left \in Seq(Lines),
           RowRead(row, s, left), row.status = "running", NEW code \in Int,
           now \in Nat, row.started_at \in 0..now
    PROVE  LET r == mark_finished(row, code)
           IN  /\ r \in LaneStates /\ r.status \in Finished /\ r.duration = now - row.started_at
               /\ RowRead(r, s, left)
               /\ code < 0 => \A k \in 0..Len(left) - 1 :
                    SubSeq(left, 1, k) \in Seq(Lines) /\ RowRead(r, s, SubSeq(left, 1, k))
  <1> DEFINE lines == SessionLines(s)
             N == Len(lines)
             F == Len(s.groups)
             r == mark_finished(row, code)
  <1>1. N \in Nat /\ lines \in Seq(Lines) /\ F \in Nat
    BY LineAt
  <1>2. PICK n \in 0..N, m \in 0..N :
            n <= m /\ left = SubSeq(lines, n + 1, m) /\ CountsRead(row, s, n) /\ m = N
    BY DEF RowRead
  <1>3. /\ r \in LaneStates /\ r.status \in Finished /\ r.exit_code = code
        /\ (r.status = "pass" => code = 0) /\ r.progress_percent = 100
        /\ r.duration = now - row.started_at
        /\ r.passed_count = row.passed_count /\ r.skipped_count = row.skipped_count
        /\ r.failed_tests = row.failed_tests /\ r.collected_count = row.collected_count
    <2>1. now - row.started_at \in Nat
      OBVIOUS
    <2>2. PICK status \in Finished : /\ status = IF code = 0 THEN "pass" ELSE "fail"
                                     /\ status = "pass" => code = 0
      BY DEF Finished
    <2>3. r = [row EXCEPT !.exit_code = code, !.status = status, !.progress_percent = 100,
                          !.duration = now - row.started_at]
      BY <2>2 DEF mark_finished
    <2>4. code \in {None} \cup Int /\ status \in {"pending", "running"} \cup Finished
          /\ 100 \in 0..100
      BY <2>2
    <2> HIDE DEF r
    <2> DEFINE duration == now - row.started_at
    <2> HIDE DEF duration
    <2>5. r \in LaneStates
      <3>1. /\ duration \in Nat
            /\ r = [row EXCEPT !.exit_code = code, !.status = status,
                               !.progress_percent = 100, !.duration = duration]
        BY <2>1, <2>3 DEF duration
      <3> QED
        BY <2>4, <3>1 DEF LaneStates
    <2>6. /\ r.status = status /\ r.exit_code = code /\ r.progress_percent = 100
          /\ r.duration = now - row.started_at
          /\ r.passed_count = row.passed_count /\ r.skipped_count = row.skipped_count
          /\ r.failed_tests = row.failed_tests /\ r.collected_count = row.collected_count
      BY <2>3 DEF LaneStates
    <2> QED
      BY <2>2, <2>5, <2>6
  <1>4. CountsRead(r, s, n)
    <2> HIDE DEF r
    <2> QED
      BY <1>2, <1>3 DEF CountsRead
  <1>5. r.status # "pending" /\ r.status # "running"
    BY <1>3 DEF Finished
  <1> HIDE DEF r
  <1>6. RowRead(r, s, left)
    BY <1>2, <1>3, <1>4, <1>5 DEF RowRead
  <1>7. ASSUME code < 0, NEW k \in 0..Len(left) - 1
        PROVE  SubSeq(left, 1, k) \in Seq(Lines) /\ RowRead(r, s, SubSeq(left, 1, k))
    <2>1. m \in n..N
      BY <1>1, <1>2
    <2> HIDE DEF lines
    <2>2. /\ Len(left) = m - n
          /\ \A i \in 0..Len(left) : SubSeq(left, 1, i) = SubSeq(lines, n + 1, n + i)
      BY <1>1, <1>2, <2>1, NextLine
    <2>3. k \in Nat /\ k \in 0..Len(left) /\ n + k \in 0..N /\ n <= n + k
      BY <1>1, <1>2, <2>2
    <2>4. SubSeq(left, 1, k) = SubSeq(lines, n + 1, n + k)
      BY <2>2, <2>3
    <2>5. SubSeq(left, 1, k) \in Seq(Lines)
      BY <2>3, SubSeqProperties
    <2>6. ~(r.exit_code >= 0)
      BY <1>3, <1>7
    <2>7. r.exit_code \in Int
      BY <1>3
    <2> QED
      BY <1>3, <1>4, <1>5, <2>3, <2>4, <2>5, <2>6, <2>7 DEF RowRead, lines
  <1> QED
    BY <1>3, <1>6, <1>7 DEF r

-----------------------------------------------------------------------------
(* What a row shows is honest *)

\* What a row shows, whatever part of its session was read.
LEMMA ReadHonest ==
    ASSUME NEW s \in PytestSessions, NEW row \in LaneStates, NEW left, RowRead(row, s, left)
    PROVE  LET all(g) == Having(s, Len(s.groups), g)
               done == row.passed_count + row.failed_tests + row.skipped_count
           IN  /\ done <= Tests(s, Len(s.groups)) + s.skipped_files
               /\ Listed(s) => done <= row.collected_count + s.skipped_files
               /\ row.status \in Finished /\ row.exit_code >= 0 /\ left = <<>> =>
                    /\ row.failed_tests = all("F")
                    /\ Summarized(s) => row.skipped_count = all("s") + s.skipped_files
                    /\ Summarized(s) /\ all(".") > 0 => row.passed_count = all(".")
                    /\ Listed(s) /\ all(".") > 0 =>
                        row.collected_count = Tests(s, Len(s.groups))
               /\ row.status = "pass" /\ left = <<>> => row.progress_percent = 100
  <1> DEFINE h == HeadLines(s)
             F == Len(s.groups)
             X == Having(s, F, "F")
             T == Tests(s, F)
             lines == SessionLines(s)
             N == Len(lines)
             t == LastLines(s)
  <1>1. /\ F \in Nat /\ X \in Nat /\ N = h + F + X + t /\ lines \in Seq(Lines)
        /\ h \in {0, 1} /\ (h = 1 <=> Listed(s)) /\ t \in {0, 1} /\ (t = 1 <=> Summarized(s))
    BY LineAt, LinesOfGroups
  <1>2. PICK n \in 0..N, m \in 0..N :
            /\ n <= m /\ left = SubSeq(lines, n + 1, m) /\ CountsRead(row, s, n)
            /\ row.status \in Finished =>
                /\ row.exit_code \in Int
                /\ row.exit_code >= 0 => m = N
                /\ row.status = "pass" => row.exit_code = 0
                /\ n \notin h + 1..h + F - 1 => row.progress_percent = 100
    BY DEF RowRead
  <1> DEFINE read == GroupsRead(s, n)
             listed == Listed(s) /\ n > 0
             ended == Summarized(s) /\ n = N
             summary == ended /\ Having(s, F, ".") > 0
  <1>3. /\ row.passed_count = IF summary THEN Having(s, F, ".")
                              ELSE Seen(s, n, ".") + Seen(s, n, "X")
        /\ row.skipped_count = IF ended THEN Having(s, F, "s") + s.skipped_files
                               ELSE Seen(s, n, "s") + IF listed THEN s.skipped_files ELSE 0
        /\ row.failed_tests = IF n <= h + F THEN 0 ELSE IF ended THEN X ELSE n - h - F
        /\ row.collected_count = (IF listed THEN T + s.deselected ELSE 0)
                                 - IF summary THEN s.deselected ELSE 0
    BY <1>2 DEF CountsRead
  <1>4. /\ n \in Nat /\ read \in 0..F /\ F \in 0..F /\ (n >= h + F => read = F)
    <2>1. n \in Nat /\ F \in 0..F
      BY <1>1, <1>2
    <2> QED
      BY <2>1, LinesOfGroups
  <1> DEFINE p(k) == Having(s, k, ".")
             x(k) == Having(s, k, "X")
             sk(k) == Having(s, k, "s")
             fl(k) == Having(s, k, "F")
  <1>5. \A k \in 0..F : /\ p(k) \in Nat /\ x(k) \in Nat /\ sk(k) \in Nat /\ fl(k) \in Nat
                        /\ p(k) + x(k) + sk(k) + fl(k) <= Tests(s, k)
                        /\ Tests(s, k) \in Nat /\ Tests(s, k) <= T
    <2> TAKE k \in 0..F
    <2>1. \A g \in GLYPHS : Having(s, k, g) \in Nat
      BY HavingNext
    <2>2. /\ Tests(s, k) \in Nat /\ Tests(s, k) <= T
          /\ p(k) + x(k) + sk(k) + fl(k) <= Tests(s, k)
      BY TestsCounted
    <2> QED
      BY <2>1, <2>2 DEF GLYPHS
  <1>6. \A g \in {".", "X", "s"} : /\ Seen(s, n, g) \in Nat
                                   /\ Seen(s, n, g) <= Having(s, read, g)
                                   /\ n <= h => Seen(s, n, g) = 0
    <2>1. \A g \in {".", "X", "s"} : g \in GLYPHS
      BY DEF GLYPHS
    <2> QED
      BY <1>4, <2>1, SeenNext
  <1>7. s.deselected \in Nat /\ s.skipped_files \in Nat
    BY DEF PytestSessions
  <1>8. X = fl(F)
    OBVIOUS
  <1>9. Listed(s) => Summarized(s)
    <2>1. s.verbosity \in Int
      BY DEF PytestSessions
    <2> QED
      BY <2>1 DEF Listed, Summarized
  <1>10. /\ ended => n > h + F /\ n > 0
         /\ row.failed_tests \in Nat /\ row.failed_tests <= fl(read)
    <2>1. ended => n > h + F /\ n > 0
      <3> HIDE DEF N, h, F, X, t
      <3> QED
        BY <1>1, <1>2
    <2>2. CASE n <= h + F
      <3>1. row.failed_tests = 0
        BY <1>3, <2>2
      <3> QED
        BY <1>4, <1>5, <2>1, <3>1
    <2>3. CASE n > h + F
      <3>1. read = F
        <4>1. n >= h + F
          BY <1>1, <1>4, <2>3
        <4> QED
          BY <1>4, <4>1
      <3>2. row.failed_tests = IF ended THEN X ELSE n - h - F
        <4> HIDE DEF N, h, F, X, ended
        <4> QED
          BY <1>1, <1>3, <1>4, <2>3
      <3>3. ~ended => n - h - F \in Nat /\ n - h - F <= X
        <4> HIDE DEF N, h, F, X, t
        <4> QED
          BY <1>1, <1>2, <1>4, <2>3
      <3> HIDE DEF N, h, F, X, ended
      <3>4. row.failed_tests \in Nat /\ row.failed_tests <= X
        BY <1>1, <3>2, <3>3
      <3> QED
        BY <1>8, <2>1, <3>1, <3>4
    <2> QED
      BY <1>1, <1>4, <2>2, <2>3
  <1> DEFINE done == row.passed_count + row.failed_tests + row.skipped_count
  <1> HIDE DEF listed, ended, summary, read, N, h, X, T, lines, t
  <1>11. /\ done <= T + s.skipped_files
         /\ Listed(s) => done <= row.collected_count + s.skipped_files
    <2>1. CASE summary
      <3>1. ended /\ p(F) > 0
        BY <2>1 DEF summary
      <3>2. /\ row.passed_count = p(F) /\ row.failed_tests = fl(F)
            /\ row.skipped_count = sk(F) + s.skipped_files
        <4>1. ~(n <= h + F)
          BY <1>1, <1>4, <1>10, <3>1
        <4> QED
          BY <1>3, <1>8, <2>1, <3>1, <4>1
      <3>3. Listed(s) => row.collected_count = (T + s.deselected) - s.deselected
        <4>1. Listed(s) => listed
          BY <1>10, <3>1 DEF listed
        <4> QED
          BY <1>3, <2>1, <4>1
      <3>4. /\ p(F) \in Nat /\ x(F) \in Nat /\ sk(F) \in Nat /\ fl(F) \in Nat /\ T \in Nat
            /\ p(F) + x(F) + sk(F) + fl(F) <= T
        BY <1>4, <1>5 DEF T
      <3> HIDE DEF F, p, x, sk, fl
      <3> QED
        BY <1>7, <3>2, <3>3, <3>4
    <2>2. CASE ~summary
      <3>1. /\ p(read) \in Nat /\ x(read) \in Nat /\ sk(read) \in Nat /\ fl(read) \in Nat
            /\ p(read) + x(read) + sk(read) + fl(read) <= Tests(s, read)
            /\ Tests(s, read) \in Nat /\ Tests(s, read) <= T /\ T \in Nat
        BY <1>4, <1>5 DEF T
      <3>2. row.passed_count \in Nat /\ row.passed_count <= p(read) + x(read)
        <4>1. row.passed_count = Seen(s, n, ".") + Seen(s, n, "X")
          BY <1>3, <2>2
        <4>2. /\ Seen(s, n, ".") \in Nat /\ Seen(s, n, ".") <= p(read)
              /\ Seen(s, n, "X") \in Nat /\ Seen(s, n, "X") <= x(read)
          BY <1>6
        <4> HIDE DEF F, p, x, sk, fl
        <4> QED
          BY <3>1, <4>1, <4>2
      <3>3. row.skipped_count \in Nat /\ row.skipped_count <= sk(read) + s.skipped_files
        <4>1. CASE ended
          <5>1. read = F
            BY <1>1, <1>4, <1>10, <4>1
          <5>2. row.skipped_count = sk(F) + s.skipped_files
            BY <1>3, <4>1
          <5> HIDE DEF F, p, x, sk, fl
          <5> QED
            BY <1>7, <3>1, <5>1, <5>2
        <4>2. CASE ~ended
          <5>1. row.skipped_count = Seen(s, n, "s") + IF listed THEN s.skipped_files ELSE 0
            BY <1>3, <4>2
          <5>2. Seen(s, n, "s") \in Nat /\ Seen(s, n, "s") <= sk(read)
            BY <1>6
          <5> HIDE DEF F, p, x, sk, fl
          <5> QED
            BY <1>7, <3>1, <5>1, <5>2
        <4> QED
          BY <4>1, <4>2
      <3>4. done <= Tests(s, read) + s.skipped_files
        <4> HIDE DEF F, p, x, sk, fl
        <4> QED
          BY <1>7, <1>10, <3>1, <3>2, <3>3
      <3>5. done <= T + s.skipped_files
        <4>1. done \in Nat
          BY <1>10, <3>2, <3>3
        <4> HIDE DEF done
        <4> QED
          BY <1>7, <3>1, <3>4, <4>1
      <3>6. ASSUME Listed(s)
            PROVE  done <= row.collected_count + s.skipped_files
        <4>1. CASE n > 0
          <5>1. listed
            BY <3>6, <4>1 DEF listed
          <5>2. row.collected_count = (T + s.deselected) - 0
            BY <1>3, <2>2, <5>1
          <5>3. done \in Nat
            BY <1>10, <3>2, <3>3
          <5> HIDE DEF done
          <5> QED
            BY <1>7, <3>1, <3>5, <5>2, <5>3
        <4>2. CASE n = 0
          <5>1. ~listed /\ ~ended
            BY <1>10, <4>2 DEF listed
          <5>2. n <= h /\ n <= h + F
            BY <1>1, <4>2
          <5>3. /\ row.passed_count = 0 /\ row.skipped_count = 0 /\ row.failed_tests = 0
                /\ row.collected_count = 0
            <6>1. /\ Seen(s, n, ".") = 0 /\ Seen(s, n, "X") = 0 /\ Seen(s, n, "s") = 0
              BY <1>6, <5>2
            <6> QED
              BY <1>3, <2>2, <5>1, <5>2, <6>1
          <5> QED
            BY <1>7, <5>3
        <4> QED
          BY <1>4, <4>1, <4>2
      <3> QED
        BY <3>5, <3>6
    <2> QED
      BY <2>1, <2>2
  <1>12. ASSUME row.status \in Finished, row.exit_code >= 0, left = <<>>
         PROVE  /\ row.failed_tests = X
                /\ Summarized(s) => row.skipped_count = sk(F) + s.skipped_files
                /\ Summarized(s) /\ p(F) > 0 => row.passed_count = p(F)
                /\ Listed(s) /\ p(F) > 0 => row.collected_count = T
                /\ n \notin h + 1..h + F - 1
    <2>1. m = N
      BY <1>2, <1>12
    <2>2. Len(left) = m - n
      <3>1. m \in n..Len(lines) /\ n \in 0..Len(lines)
        BY <1>2, <1>4 DEF N
      <3> QED
        BY <1>1, <1>2, <3>1, NextLine
    <2>3. n = N
      <3>1. Len(left) = 0 /\ N - n = 0
        BY <1>12, <2>1, <2>2
      <3>2. N \in Nat
        BY <1>1
      <3> QED
        BY <1>4, <3>1, <3>2
    <2>4. n \notin h + 1..h + F - 1
      <3> HIDE DEF F
      <3> QED
        BY <1>1, <2>3
    <2>5. ended <=> Summarized(s)
      BY <2>3 DEF ended
    <2>6. row.failed_tests = X
      <3> HIDE DEF F
      <3>1. CASE n <= h + F
        BY <1>1, <1>3, <2>3, <3>1
      <3>2. CASE ~(n <= h + F)
        <4>1. ~ended => n - h - F = X
          BY <1>1, <2>3, <2>5
        <4> QED
          BY <1>3, <3>2, <4>1
      <3> QED
        BY <3>1, <3>2
    <2>7. Summarized(s) => row.skipped_count = sk(F) + s.skipped_files
      BY <1>3, <2>5
    <2>8. Summarized(s) /\ p(F) > 0 => row.passed_count = p(F)
      BY <1>3, <2>5 DEF summary
    <2>9. ASSUME Listed(s), p(F) > 0
          PROVE  row.collected_count = T
      <3>1. summary /\ listed
        BY <1>9, <1>10, <2>5, <2>9 DEF summary, listed
      <3>2. row.collected_count = (T + s.deselected) - s.deselected
        BY <1>3, <3>1
      <3>3. T \in Nat
        BY <1>4, <1>5 DEF T
      <3> QED
        BY <1>7, <3>2, <3>3
    <2> QED
      BY <2>4, <2>6, <2>7, <2>8, <2>9
  <1>13. row.status = "pass" => row.status \in Finished /\ row.exit_code = 0
    BY <1>2 DEF Finished
  <1>14. row.status = "pass" /\ left = <<>> => row.progress_percent = 100
    <2> SUFFICES ASSUME row.status = "pass", left = <<>>
                 PROVE  row.progress_percent = 100
      OBVIOUS
    <2>1. row.exit_code >= 0
      BY <1>13
    <2>2. n \notin h + 1..h + F - 1
      BY <1>12, <1>13, <2>1
    <2> QED
      BY <1>2, <1>13, <2>2
  <1> QED
    BY <1>8, <1>11, <1>12, <1>14 DEF X, T

-----------------------------------------------------------------------------
(* The inductive invariant *)

\* Typed rows that count what was read, of lanes that started in time.
IInv == TypeOK /\ RowsRead /\ LanesTimed

\* There are finitely many lanes in any status.
LEMMA InStatusFinite ==
    \A statuses : /\ IsFiniteSet(InStatus(statuses)) /\ InStatus(statuses) \subseteq Lanes
                  /\ Cardinality(InStatus(statuses)) \in Nat
  <1> TAKE statuses
  <1>1. InStatus(statuses) \subseteq Lanes
    BY DEF InStatus
  <1> QED
    BY <1>1, ReporterAssumption, FS_Subset, FS_CardinalityType

\* The invariant is kept when the row of one lane changes, and the text that
\* is left of its session, to a row that counts what was read of it; and a
\* lane only starts to run on a free worker.
LEMMA RowChanges ==
    ASSUME IInv, NEW l \in Lanes, NEW row \in LaneStates, NEW left \in Seq(Lines),
           now' = now, session' = session,
           lane' = [lane EXCEPT ![l] = row], output' = [output EXCEPT ![l] = left],
           RowRead(row, session[l], left),
           row.status = "pending" => row.started_at = None,
           row.status = "running" =>
                /\ row.started_at \in 0..now
                /\ \/ lane[l].status = "running"
                   \/ Cardinality(InStatus({"running"})) < MaxWorkers
    PROVE  IInv'
  <1>1. /\ lane'[l] = row /\ output'[l] = left
        /\ \A k \in Lanes \ {l} : lane'[k] = lane[k] /\ output'[k] = output[k]
    BY DEF IInv, TypeOK
  <1>2. TypeOK'
    BY DEF IInv, TypeOK
  <1>3. RowsRead'
    <2> SUFFICES ASSUME NEW k \in Lanes
                 PROVE  RowRead(lane'[k], session'[k], output'[k])
      BY DEF RowsRead
    <2>1. CASE k = l
      BY <1>1, <2>1
    <2>2. CASE k # l
      BY <1>1, <2>2 DEF IInv, RowsRead
    <2> QED
      BY <2>1, <2>2
  <1>4. Cardinality(InStatus({"running"}))' <= MaxWorkers
    <2> DEFINE R == InStatus({"running"})
               Q == {k \in Lanes : lane'[k].status = "running"}
    <2>1. IsFiniteSet(R) /\ Cardinality(R) \in Nat /\ Cardinality(R) <= MaxWorkers
      BY InStatusFinite DEF IInv, LanesTimed
    <2>2. InStatus({"running"})' = Q
      BY DEF InStatus
    <2>3. Q \subseteq R \cup {l} /\ R = {k \in Lanes : lane[k].status = "running"}
      BY <1>1 DEF InStatus
    <2> HIDE DEF R, Q
    <2>4. MaxWorkers \in Nat
      BY ReporterAssumption
    <2>5. CASE Q \subseteq R
      <3>1. Cardinality(Q) <= Cardinality(R) /\ Cardinality(Q) \in Nat
        BY <2>1, <2>5, FS_Subset, FS_CardinalityType
      <3> QED
        BY <2>1, <2>2, <2>4, <3>1
    <2>6. CASE ~(Q \subseteq R)
      <3>1. l \in Q /\ l \notin R
        BY <2>3, <2>6
      <3>2. row.status = "running" /\ lane[l].status # "running"
        BY <1>1, <2>3, <3>1 DEF Q
      <3>3. Cardinality(R) < MaxWorkers
        BY <3>2 DEF R
      <3>4. /\ IsFiniteSet(R \cup {l}) /\ Cardinality(R \cup {l}) = Cardinality(R) + 1
        BY <2>1, <3>1, FS_AddElement
      <3>5. Cardinality(Q) <= Cardinality(R \cup {l}) /\ Cardinality(Q) \in Nat
        BY <2>3, <3>4, FS_Subset, FS_CardinalityType
      <3> QED
        BY <2>1, <2>2, <2>4, <3>3, <3>4, <3>5
    <2> QED
      BY <2>5, <2>6
  <1>5. ASSUME NEW k \in Lanes
        PROVE  /\ lane'[k].status = "pending" => lane'[k].started_at = None
               /\ lane'[k].status = "running" => lane'[k].started_at \in 0..now'
    <2>1. CASE k = l
      BY <1>1, <2>1
    <2>2. CASE k # l
      BY <1>1, <2>2 DEF IInv, LanesTimed
    <2> QED
      BY <2>1, <2>2
  <1> QED
    BY <1>2, <1>3, <1>4, <1>5 DEF IInv, LanesTimed

\* The invariant holds of the rows before any lane starts.
LEMMA InitInv == Init => IInv
  <1> SUFFICES ASSUME Init
               PROVE  IInv
    OBVIOUS
  <1>1. /\ now = 0 /\ output = [l \in Lanes |-> <<>>] /\ lane = [l \in Lanes |-> Pending]
        /\ session \in [Lanes -> PytestSessions]
    BY ReporterAssumption DEF Init
  <1>2. Pending \in LaneStates
    BY DEF Pending, LaneStates, Finished
  <1>3. now \in 0..MaxTime
    BY <1>1, ReporterAssumption
  <1>4. <<>> \in Seq(Lines)
    BY EmptySeq
  <1>5. TypeOK
    BY <1>1, <1>2, <1>3, <1>4 DEF TypeOK
  <1>6. RowsRead
    BY <1>1, PendingRead DEF RowsRead
  <1>7. InStatus({"running"}) = {} /\ \A l \in Lanes : lane[l].status = "pending"
    BY <1>1 DEF InStatus, Pending
  <1>8. Cardinality({}) = 0
    BY FS_EmptySet
  <1>9. LanesTimed
    <2>1. \A l \in Lanes : lane[l].started_at = None
      BY <1>1 DEF Pending
    <2>2. 0 <= MaxWorkers
      BY ReporterAssumption
    <2> QED
      BY <1>7, <1>8, <2>1, <2>2 DEF LanesTimed
  <1> QED
    BY <1>5, <1>6, <1>9 DEF IInv

\* What holds of the row of a lane.
LEMMA RowFacts ==
    ASSUME IInv, NEW l \in Lanes
    PROVE  /\ session[l] \in PytestSessions /\ lane[l] \in LaneStates
           /\ output[l] \in Seq(Lines) /\ RowRead(lane[l], session[l], output[l])
           /\ now \in Nat
           /\ lane[l].status = "pending" => lane[l].started_at = None
           /\ lane[l].status = "running" => lane[l].started_at \in 0..now
           /\ lane = [lane EXCEPT ![l] = lane[l]] /\ output = [output EXCEPT ![l] = output[l]]
  <1>1. now \in 0..MaxTime /\ MaxTime \in Nat
    BY ReporterAssumption DEF IInv, TypeOK
  <1>2. now \in Nat
    BY <1>1
  <1> QED
    BY <1>2 DEF IInv, TypeOK, RowsRead, LanesTimed

\* The start of a lane keeps the invariant.
LEMMA MarkStartedInv ==
    ASSUME IInv, NEW l \in Lanes, MarkStarted(l)
    PROVE  IInv'
  <1> DEFINE row == mark_started(lane[l])
             left == SessionLines(session[l])
  <1>1. row \in LaneStates /\ RowRead(row, session[l], left) /\ left \in Seq(Lines)
    BY RowFacts, StartedRead, LineAt DEF MarkStarted
  <1>2. row.status = "running" /\ row.started_at = now
    BY RowFacts DEF mark_started, LaneStates
  <1>3. now \in 0..now
    BY RowFacts
  <1>4. /\ lane' = [lane EXCEPT ![l] = row] /\ output' = [output EXCEPT ![l] = left]
        /\ now' = now /\ session' = session
        /\ Cardinality(InStatus({"running"})) < MaxWorkers
    BY DEF MarkStarted
  <1> HIDE DEF row, left
  <1> QED
    BY <1>1, <1>2, <1>3, <1>4, RowChanges

\* A captured line keeps the invariant.
LEMMA CaptureInv ==
    ASSUME IInv, NEW l \in Lanes, Capture(l)
    PROVE  IInv'
  <1> DEFINE row == Parsed(lane[l], Head(output[l]))
             left == Tail(output[l])
  <1>1. /\ row \in LaneStates /\ left \in Seq(Lines) /\ RowRead(row, session[l], left)
        /\ row.status = lane[l].status /\ row.started_at = lane[l].started_at
    BY RowFacts, CapturedRead DEF Capture
  <1>2. /\ row.status = "pending" => row.started_at = None
        /\ row.status = "running" => row.started_at \in 0..now /\ lane[l].status = "running"
    BY <1>1, RowFacts
  <1>3. /\ lane' = [lane EXCEPT ![l] = row] /\ output' = [output EXCEPT ![l] = left]
        /\ now' = now /\ session' = session
    BY DEF Capture, Parsed
  <1> HIDE DEF row, left
  <1> QED
    BY <1>1, <1>2, <1>3, RowChanges

\* A verdict keeps the invariant, however much of the text was printed.
LEMMA VerdictInv ==
    ASSUME IInv, NEW l \in Lanes, SessionEnds(l) \/ SessionKilled(l)
    PROVE  IInv'
  <1>1. PICK code \in Int, left \in Seq(Lines) :
            /\ RowRead(mark_finished(lane[l], code), session[l], left)
            /\ mark_finished(lane[l], code) \in LaneStates
            /\ mark_finished(lane[l], code).status \in Finished
            /\ lane' = [lane EXCEPT ![l] = mark_finished(lane[l], code)]
            /\ output' = [output EXCEPT ![l] = left]
    <2>1. CASE SessionEnds(l)
      <3>1. PICK code \in ExitCodes(session[l]) :
                lane' = [lane EXCEPT ![l] = mark_finished(@, code)]
        BY <2>1 DEF SessionEnds
      <3>2. code \in Int
        BY <3>1 DEF ExitCodes
      <3>3. output' = [output EXCEPT ![l] = output[l]] /\ lane[l].status = "running"
        BY <2>1, RowFacts DEF SessionEnds
      <3>4. /\ mark_finished(lane[l], code) \in LaneStates
            /\ mark_finished(lane[l], code).status \in Finished
            /\ RowRead(mark_finished(lane[l], code), session[l], output[l])
        BY <3>2, <3>3, RowFacts, FinishedRead
      <3>5. lane' = [lane EXCEPT ![l] = mark_finished(lane[l], code)]
        BY <3>1
      <3> QED
        BY <3>2, <3>3, <3>4, <3>5, RowFacts
    <2>2. CASE SessionKilled(l)
      <3>1. PICK n \in 0..Len(output[l]) - 1 : output' = [output EXCEPT ![l] = SubSeq(@, 1, n)]
        BY <2>2 DEF SessionKilled
      <3>2. -9 \in Int /\ -9 < 0
        OBVIOUS
      <3>3. /\ mark_finished(lane[l], -9) \in LaneStates
            /\ mark_finished(lane[l], -9).status \in Finished
            /\ SubSeq(output[l], 1, n) \in Seq(Lines)
            /\ RowRead(mark_finished(lane[l], -9), session[l], SubSeq(output[l], 1, n))
        <4>1. /\ session[l] \in PytestSessions /\ lane[l] \in LaneStates
              /\ output[l] \in Seq(Lines) /\ RowRead(lane[l], session[l], output[l])
              /\ now \in Nat /\ lane[l].started_at \in 0..now /\ lane[l].status = "running"
          BY <2>2, RowFacts DEF SessionKilled
        <4> QED
          BY <3>1, <3>2, <4>1, FinishedRead
      <3>4. lane' = [lane EXCEPT ![l] = mark_finished(lane[l], -9)]
        BY <2>2 DEF SessionKilled
      <3>5. output' = [output EXCEPT ![l] = SubSeq(output[l], 1, n)]
        BY <3>1
      <3> QED
        BY <3>2, <3>3, <3>4, <3>5
    <2> QED
      BY <2>1, <2>2
  <1>2. now' = now /\ session' = session
    BY DEF SessionEnds, SessionKilled
  <1>3. mark_finished(lane[l], code).status \notin {"pending", "running"}
    BY <1>1 DEF Finished
  <1> DEFINE row == mark_finished(lane[l], code)
  <1> HIDE DEF row
  <1>4. /\ RowRead(row, session[l], left) /\ row \in LaneStates
        /\ lane' = [lane EXCEPT ![l] = row] /\ output' = [output EXCEPT ![l] = left]
        /\ row.status # "pending" /\ row.status # "running"
    BY <1>1, <1>3 DEF row
  <1> QED
    BY <1>2, <1>4, RowChanges

\* The clock keeps the invariant.
LEMMA TickInv ==
    ASSUME IInv, Tick
    PROVE  IInv'
  <1>1. /\ now' = now + 1 /\ now < MaxTime
        /\ session' = session /\ output' = output /\ lane' = lane
    BY DEF Tick
  <1>2. now \in Nat /\ MaxTime \in Nat
    BY ReporterAssumption DEF IInv, TypeOK
  <1>3. now' \in 0..MaxTime
    BY <1>1, <1>2
  <1>4. TypeOK' /\ RowsRead'
    BY <1>1, <1>3 DEF IInv, TypeOK, RowsRead
  <1>5. InStatus({"running"})' = InStatus({"running"})
    BY <1>1 DEF InStatus
  <1>6. \A t \in 0..now : t \in 0..now'
    BY <1>1, <1>2
  <1>7. LanesTimed'
    BY <1>1, <1>5, <1>6 DEF IInv, LanesTimed
  <1> QED
    BY <1>4, <1>7 DEF IInv

\* Every step keeps the invariant.
LEMMA NextInv == IInv /\ [Next]_vars => IInv'
  <1> SUFFICES ASSUME IInv, [Next]_vars
               PROVE  IInv'
    OBVIOUS
  <1>1. ASSUME NEW l \in Lanes, MarkStarted(l)
        PROVE  IInv'
    BY <1>1, MarkStartedInv
  <1>2. ASSUME NEW l \in Lanes, Capture(l)
        PROVE  IInv'
    BY <1>2, CaptureInv
  <1>3. ASSUME NEW l \in Lanes, SessionEnds(l) \/ SessionKilled(l)
        PROVE  IInv'
    BY <1>3, VerdictInv
  <1>4. CASE Tick
    BY <1>4, TickInv
  <1>5. CASE UNCHANGED vars
    BY <1>5 DEF vars, IInv, TypeOK, RowsRead, LanesTimed, InStatus
  <1>6. CASE AllDone
    BY <1>5, <1>6 DEF AllDone
  <1> QED
    BY <1>1, <1>2, <1>3, <1>4, <1>5, <1>6 DEF Next

\* The rows of the reporter keep their types: no count of tests that ran and no
\* duration goes below zero, and the progress stays a percentage.
THEOREM TypeCorrect == Spec => []TypeOK
  <1>1. IInv => TypeOK
    BY DEF IInv
  <1> QED
    BY <1>1, InitInv, NextInv, PTL DEF Spec

\* What a lane's row shows of its tests is honest while it is read, whatever
\* the session prints of what it collected and of how it ended, and right when
\* it was read.
THEOREM CountsHonestHolds == Spec => []CountsHonest
  <1>1. IInv => CountsHonest
    <2> SUFFICES ASSUME IInv, NEW l \in Lanes
                 PROVE  LET s == session[l]
                            row == lane[l]
                            all(g) == Having(s, Len(s.groups), g)
                            done == row.passed_count + row.failed_tests + row.skipped_count
                        IN  /\ done <= Tests(s, Len(s.groups)) + s.skipped_files
                            /\ Listed(s) => done <= row.collected_count + s.skipped_files
                            /\ row.status \in Finished /\ row.exit_code >= 0
                                    /\ output[l] = <<>> =>
                                /\ row.failed_tests = all("F")
                                /\ Summarized(s) =>
                                    row.skipped_count = all("s") + s.skipped_files
                                /\ Summarized(s) /\ all(".") > 0 =>
                                    row.passed_count = all(".")
                                /\ Listed(s) /\ all(".") > 0 =>
                                    row.collected_count = Tests(s, Len(s.groups))
                            /\ row.status = "pass" /\ output[l] = <<>> =>
                                row.progress_percent = 100
      BY DEF CountsHonest
    <2> QED
      BY RowFacts, ReadHonest
  <1> QED
    BY <1>1, InitInv, NextInv, PTL DEF Spec

-----------------------------------------------------------------------------
(* The remaining time *)

\* Estimates are numbers, and so is the average of the finished lanes.
LEMMA EstimateType ==
    ASSUME IInv
    PROVE  /\ \A l \in Progressing : FromProgress(l) \in Int
           /\ InStatus(Finished) # {} => average_duration \in Int
           /\ \A l \in InStatus({"running"}) : Elapsed(l) \in Nat
           /\ _pending_lanes_expected_seconds \in Nat
  <1>1. \A l \in InStatus({"running"}) : Elapsed(l) \in Nat
    <2> TAKE l \in InStatus({"running"})
    <2>1. l \in Lanes /\ lane[l].status = "running"
      BY DEF InStatus
    <2>2. now \in Nat /\ lane[l].started_at \in 0..now
      BY <2>1, RowFacts
    <2> QED
      BY <2>2 DEF Elapsed
  <1>2. ASSUME NEW l \in Progressing
        PROVE  FromProgress(l) \in Int
    <2>1. l \in InStatus({"running"}) /\ l \in Lanes /\ lane[l].progress_percent > 0
      BY DEF Progressing, InStatus
    <2>2. lane[l].progress_percent \in 1..100
      <3>1. lane[l].progress_percent \in 0..100
        BY <2>1 DEF IInv, TypeOK, LaneStates
      <3> QED
        BY <2>1, <3>1
    <2>3. Elapsed(l) \in Nat
      BY <1>1, <2>1
    <2>4. (Elapsed(l) * 100) \div lane[l].progress_percent \in Int
      BY <2>2, <2>3
    <2> QED
      BY <2>3, <2>4 DEF FromProgress, AtLeastZero
  <1>3. InStatus(Finished) # {} => average_duration \in Int
    <2> SUFFICES ASSUME InStatus(Finished) # {}
                 PROVE  average_duration \in Int
      OBVIOUS
    <2> DEFINE D == InStatus(Finished)
               f == [l \in D |-> lane[l].duration]
    <2>1. IsFiniteSet(D) /\ Cardinality(D) \in Nat /\ Cardinality(D) # 0
      BY InStatusFinite, FS_EmptySet
    <2>2. \A l \in D : f[l] \in Int
      BY DEF InStatus, IInv, TypeOK, LaneStates
    <2>3. DOMAIN f = D
      OBVIOUS
    <2>4. average_duration = SumFunctionOnSet(f, D) \div Cardinality(D)
      BY <2>3, SumOfDomain DEF average_duration
    <2> HIDE DEF D, f
    <2>5. SumFunctionOnSet(f, D) \in Int
      BY <2>1, <2>2, SumType
    <2> QED
      BY <2>1, <2>4, <2>5
  <1>4. _pending_lanes_expected_seconds \in Nat
    <2> DEFINE P == InStatus({"pending"}) \cap DOMAIN Expected
    <2>1. IsFiniteSet(P)
      BY InStatusFinite, FS_Subset
    <2>2. \A l \in P : Expected[l] \in Nat
      BY ReporterAssumption
    <2> HIDE DEF P
    <2>3. SumFunctionOnSet(Expected, P) \in Nat
      BY <2>1, <2>2, SumNat
    <2> QED
      BY <2>3 DEF _pending_lanes_expected_seconds, P
  <1> QED
    BY <1>1, <1>2, <1>3, <1>4

\* The remaining time counts an estimate for each running lane that has one
\* exactly once, and what is recorded of the pending lanes.
THEOREM EtaCountsEachLaneOnceHolds == Spec => []EtaCountsEachLaneOnce
  <1>1. IInv => EtaCountsEachLaneOnce
    <2> SUFFICES ASSUME IInv
                 PROVE  EtaCountsEachLaneOnce
      OBVIOUS
    <2> DEFINE R == InStatus({"running"})
               D == InStatus(Finished)
               P == Progressing
               byAverage == IF D = {} THEN {} ELSE R \ P
               estimate(l) == IF l \in P THEN FromProgress(l)
                              ELSE AtLeastZero(average_duration - Elapsed(l))
               known == P \cup byAverage
               each == [l \in known |-> estimate(l)]
               early == [l \in P |-> FromProgress(l)]
               late == [l \in R \ P |-> AtLeastZero(average_duration - Elapsed(l))]
               expected == _pending_lanes_expected_seconds
               progress == _estimate_from_progress
               average == _estimate_from_average
    <2>1. /\ P \subseteq R /\ IsFiniteSet(R) /\ IsFiniteSet(P) /\ IsFiniteSet(R \ P)
      <3>1. P \subseteq R
        BY DEF Progressing
      <3> QED
        BY <3>1, InStatusFinite, FS_Subset
    <2>2. /\ \A l \in P : FromProgress(l) \in Int
          /\ D # {} => \A l \in R : AtLeastZero(average_duration - Elapsed(l)) \in Int
          /\ expected \in Nat /\ None \notin Int
      <3>1. D # {} => \A l \in R : average_duration \in Int /\ Elapsed(l) \in Nat
        BY EstimateType
      <3> QED
        BY <3>1, EstimateType, ReporterAssumption DEF AtLeastZero
    <2>3. progress = SumFunctionOnSet(early, P) /\ average = SumFunctionOnSet(late, R \ P)
      BY SumOfDomain DEF _estimate_from_progress, _estimate_from_average
    <2>4. SumFunction(each) = SumFunctionOnSet(each, known)
      BY SumOfDomain
    <2>5. /\ \A l \in P : early[l] \in Int /\ early[l] = FromProgress(l)
          /\ \A l \in known : each[l] = estimate(l)
          /\ \A l \in R \ P : late[l] = AtLeastZero(average_duration - Elapsed(l))
      BY <2>2
    <2>6. estimated_remaining_seconds =
            IF R = {} THEN expected
            ELSE IF P = R THEN progress + expected
            ELSE IF D # {} THEN progress + average + expected
            ELSE IF P # {} THEN progress + expected
            ELSE IF expected > 0 THEN expected ELSE None
      BY DEF estimated_remaining_seconds
    <2>7. EtaCountsEachLaneOnce <=>
            IF estimated_remaining_seconds = None THEN R # {} /\ known = {} /\ expected = 0
            ELSE estimated_remaining_seconds = SumFunction(each) + expected
      BY DEF EtaCountsEachLaneOnce
    <2>8. \A l \in known : estimate(l) = IF l \in P THEN FromProgress(l)
                                         ELSE AtLeastZero(average_duration - Elapsed(l))
      OBVIOUS
    <2> HIDE DEF R, D, P, each, early, late, expected, progress, average, estimate
    <2>9. progress \in Int
      BY <2>1, <2>3, <2>5, SumType
    <2>10. known = P => SumFunction(each) = progress
      <3> SUFFICES ASSUME known = P
                   PROVE  SumFunctionOnSet(each, P) = SumFunctionOnSet(early, P)
        BY <2>3, <2>4
      <3>1. \A l \in P : early[l] \in Int /\ each[l] = early[l]
        BY <2>5, <2>8
      <3> HIDE DEF known
      <3> QED
        BY <2>1, <3>1, SumSame
    <2>11. P = {} => progress = 0
      BY <2>3, SumOfNone
    <2>12. ASSUME D # {}
           PROVE  SumFunction(each) = progress + average /\ average \in Int
      <3>1. known = R
        BY <2>1, <2>12
      <3>2. \A l \in R : each[l] \in Int
        BY <2>2, <2>5, <2>8, <2>12, <3>1
      <3>3. /\ \A l \in P : each[l] = early[l]
            /\ \A l \in R \ P : late[l] = each[l] /\ late[l] \in Int
        BY <2>1, <2>2, <2>5, <2>8, <2>12, <3>1
      <3> HIDE DEF known, byAverage
      <3>4. SumFunctionOnSet(each, R)
                = SumFunctionOnSet(each, P) + SumFunctionOnSet(each, R \ P)
        BY <2>1, <3>2, SumSplit
      <3>5. SumFunctionOnSet(each, P) = SumFunctionOnSet(early, P)
        BY <2>1, <2>5, <3>3, SumSame
      <3>6. SumFunctionOnSet(each, R \ P) = SumFunctionOnSet(late, R \ P)
        BY <2>1, <3>3, SumSame
      <3>7. SumFunctionOnSet(late, R \ P) \in Int
        BY <2>1, <3>3, SumType
      <3> QED
        BY <2>3, <2>4, <3>1, <3>4, <3>5, <3>6, <3>7
    <2>13. D = {} => known = P
      OBVIOUS
    <2>14. P = R => known = P
      OBVIOUS
    <2> HIDE DEF known, byAverage
    <2>15. CASE R = {}
      <3>1. P = {} /\ P = R
        BY <2>1, <2>15
      <3>2. estimated_remaining_seconds = SumFunction(each) + expected
        BY <2>2, <2>6, <2>10, <2>11, <2>14, <2>15, <3>1
      <3>3. estimated_remaining_seconds # None
        BY <2>2, <2>6, <2>15
      <3> QED
        BY <2>7, <3>2, <3>3
    <2>16. CASE R # {} /\ P = R
      <3>1. estimated_remaining_seconds = SumFunction(each) + expected
        BY <2>6, <2>10, <2>14, <2>16
      <3>2. progress + expected \in Int
        BY <2>2, <2>9
      <3>3. estimated_remaining_seconds # None
        BY <2>2, <2>6, <2>16, <3>2
      <3> QED
        BY <2>7, <3>1, <3>3
    <2>17. CASE R # {} /\ P # R /\ D # {}
      <3>1. estimated_remaining_seconds = SumFunction(each) + expected
        BY <2>6, <2>12, <2>17
      <3>2. progress + average + expected \in Int
        BY <2>2, <2>9, <2>12, <2>17
      <3>3. estimated_remaining_seconds # None
        BY <2>2, <2>6, <2>17, <3>2
      <3> QED
        BY <2>7, <3>1, <3>3
    <2>18. CASE R # {} /\ P # R /\ D = {} /\ P # {}
      <3>1. estimated_remaining_seconds = SumFunction(each) + expected
        BY <2>6, <2>10, <2>13, <2>18
      <3>2. progress + expected \in Int
        BY <2>2, <2>9
      <3>3. estimated_remaining_seconds # None
        BY <2>2, <2>6, <2>18, <3>2
      <3> QED
        BY <2>7, <3>1, <3>3
    <2>19. CASE R # {} /\ P # R /\ D = {} /\ P = {}
      <3>1. known = {} /\ SumFunction(each) = 0
        BY <2>10, <2>11, <2>13, <2>19
      <3>2. estimated_remaining_seconds = IF expected > 0 THEN expected ELSE None
        BY <2>6, <2>19
      <3>3. CASE expected > 0
        <4>1. estimated_remaining_seconds # None
          BY <2>2, <3>2, <3>3
        <4> QED
          BY <2>2, <2>7, <3>1, <3>2, <3>3, <4>1
      <3>4. CASE ~(expected > 0)
        <4>1. expected = 0
          BY <2>2, <3>4
        <4> QED
          BY <2>7, <2>19, <3>1, <3>2, <3>4, <4>1
      <3> QED
        BY <3>3, <3>4
    <2> QED
      BY <2>15, <2>16, <2>17, <2>18, <2>19
  <1> QED
    BY <1>1, InitInv, NextInv, PTL DEF Spec

-----------------------------------------------------------------------------
(* The seconds of the workers *)

\* A lane is shown to have taken a natural number of seconds.
LEMMA ShownType ==
    ASSUME IInv, NEW l \in Lanes
    PROVE  /\ ShownSeconds(l) \in Nat
           /\ lane[l].status = "pending" => ShownSeconds(l) = 0
           /\ lane[l].status = "running" => ShownSeconds(l) = now - lane[l].started_at
           /\ lane[l].status \in Finished => ShownSeconds(l) = lane[l].duration
  <1>1. /\ now \in Nat /\ lane[l].duration \in Nat /\ None \notin Int
        /\ lane[l].status \in {"pending", "running"} \cup Finished
        /\ lane[l].status = "pending" => lane[l].started_at = None
        /\ lane[l].status = "running" => lane[l].started_at \in 0..now
    BY RowFacts, ReporterAssumption DEF LaneStates
  <1>2. /\ lane[l].status = "pending" => lane[l].status \notin Finished
        /\ lane[l].status = "running" => lane[l].status \notin Finished
    BY DEF Finished
  <1>3. CASE lane[l].status = "pending"
    BY <1>1, <1>2, <1>3 DEF ShownSeconds
  <1>4. CASE lane[l].status = "running"
    <2>1. lane[l].started_at # None /\ now - lane[l].started_at \in Nat
      BY <1>1, <1>4
    <2> QED
      BY <1>2, <1>4, <2>1 DEF ShownSeconds, Elapsed
  <1>5. CASE lane[l].status \in Finished
    BY <1>1, <1>2, <1>5 DEF ShownSeconds
  <1> QED
    BY <1>1, <1>3, <1>4, <1>5

\* The sum of the shown seconds, over the lanes.
LEMMA SumOfSeconds ==
    /\ sum_lane_seconds = SumFunctionOnSet([l \in Lanes |-> ShownSeconds(l)], Lanes)
    /\ sum_lane_seconds' = SumFunctionOnSet([l \in Lanes |-> ShownSeconds(l)'], Lanes)
  BY SumOfDomain DEF sum_lane_seconds

\* Whatever happens to a lane, the seconds it is shown to have taken stay; the
\* clock adds one to those of the running lanes.
LEMMA StepSeconds ==
    ASSUME IInv, IInv', Next
    PROVE  \/ now' = now /\ \A l \in Lanes : ShownSeconds(l)' = ShownSeconds(l)
           \/ /\ now' = now + 1
              /\ \A l \in Lanes : ShownSeconds(l)' =
                    ShownSeconds(l) + IF l \in InStatus({"running"}) THEN 1 ELSE 0
  <1> DEFINE Same == now' = now /\ \A l \in Lanes : ShownSeconds(l)' = ShownSeconds(l)
  <1>1. ASSUME now' = now, NEW l \in Lanes, ShownSeconds(l)' = ShownSeconds(l),
               \A k \in Lanes \ {l} : lane'[k] = lane[k]
        PROVE  Same
    <2>1. \A k \in Lanes \ {l} : ShownSeconds(k)' = ShownSeconds(k)
      BY <1>1 DEF ShownSeconds, Elapsed
    <2> QED
      BY <1>1, <2>1
  <1>2. ASSUME NEW l \in Lanes, MarkStarted(l)
        PROVE  Same
    <2>1. /\ now' = now /\ lane'[l] = mark_started(lane[l])
          /\ \A k \in Lanes \ {l} : lane'[k] = lane[k]
      BY <1>2 DEF MarkStarted, IInv, TypeOK
    <2>2. /\ lane[l].status = "pending" /\ lane'[l].status = "running"
          /\ lane'[l].started_at = now
      <3>1. lane[l].status = "pending" /\ lane[l] \in LaneStates
        BY <1>2, RowFacts DEF MarkStarted
      <3>2. mark_started(lane[l]).status = "running" /\ mark_started(lane[l]).started_at = now
        BY <3>1 DEF mark_started, LaneStates
      <3> QED
        BY <2>1, <3>1, <3>2
    <2>3. now \in Nat /\ now \in Int
      BY RowFacts
    <2>4. now # None
      BY <2>3, ReporterAssumption
    <2>5. lane'[l].status \notin Finished
      BY <2>2 DEF Finished
    <2>6. ShownSeconds(l)' = now' - lane'[l].started_at
      BY <2>2, <2>4, <2>5 DEF ShownSeconds, Elapsed
    <2>7. ShownSeconds(l)' = 0
      BY <2>1, <2>2, <2>3, <2>6
    <2>8. ShownSeconds(l) = 0
      BY <2>2, ShownType
    <2> QED
      BY <1>1, <2>1, <2>7, <2>8
  <1>3. ASSUME NEW l \in Lanes, Capture(l)
        PROVE  Same
    <2>1. /\ now' = now /\ lane'[l] = Parsed(lane[l], Head(output[l]))
          /\ \A k \in Lanes \ {l} : lane'[k] = lane[k]
      BY <1>3 DEF Capture, Parsed, IInv, TypeOK
    <2>2. /\ lane'[l].status = lane[l].status /\ lane'[l].started_at = lane[l].started_at
          /\ lane'[l].duration = lane[l].duration
      BY <1>3, <2>1, RowFacts, CapturedRead DEF Capture
    <2>3. ShownSeconds(l)' = ShownSeconds(l)
      BY <2>1, <2>2 DEF ShownSeconds, Elapsed
    <2> QED
      BY <1>1, <2>1, <2>3
  <1>4. ASSUME NEW l \in Lanes, SessionEnds(l) \/ SessionKilled(l)
        PROVE  Same
    <2>1. /\ now' = now /\ \A k \in Lanes \ {l} : lane'[k] = lane[k]
          /\ lane[l].status = "running"
      BY <1>4 DEF SessionEnds, SessionKilled, IInv, TypeOK
    <2>2. PICK code \in Int : lane'[l] = mark_finished(lane[l], code)
      <3>1. CASE SessionEnds(l)
        <4>1. \A code \in ExitCodes(session[l]) : code \in Int
          BY DEF ExitCodes
        <4> QED
          BY <3>1, <4>1 DEF SessionEnds, IInv, TypeOK
      <3>2. CASE SessionKilled(l)
        <4>1. lane'[l] = mark_finished(lane[l], -9)
          BY <3>2 DEF SessionKilled, IInv, TypeOK
        <4> QED
          BY <4>1
      <3> QED
        BY <1>4, <3>1, <3>2
    <2>3. lane'[l].status \in Finished /\ lane'[l].duration = now - lane[l].started_at
      BY <2>1, <2>2, RowFacts, FinishedRead
    <2>4. ShownSeconds(l)' = lane'[l].duration
      BY <2>3 DEF ShownSeconds
    <2>5. ShownSeconds(l) = now - lane[l].started_at
      BY <2>1, ShownType
    <2>6. ShownSeconds(l)' = ShownSeconds(l)
      BY <2>3, <2>4, <2>5
    <2> QED
      BY <1>1, <2>1, <2>6
  <1>5. ASSUME Tick
        PROVE  /\ now' = now + 1
               /\ \A l \in Lanes : ShownSeconds(l)' =
                    ShownSeconds(l) + IF l \in InStatus({"running"}) THEN 1 ELSE 0
    <2>1. now' = now + 1 /\ lane' = lane
      BY <1>5 DEF Tick
    <2>2. ASSUME NEW l \in Lanes
          PROVE  ShownSeconds(l)' =
                    ShownSeconds(l) + IF l \in InStatus({"running"}) THEN 1 ELSE 0
      <3>1. l \in InStatus({"running"}) <=> lane[l].status = "running"
        BY DEF InStatus
      <3>2. lane[l].status \in {"pending", "running"} \cup Finished
        BY RowFacts DEF LaneStates
      <3>3. ShownSeconds(l) \in Nat
        BY ShownType
      <3>4. CASE lane[l].status = "running"
        <4>1. now \in Nat /\ lane[l].started_at \in 0..now
          BY <3>4, RowFacts
        <4>2. lane'[l].started_at # None /\ lane'[l].status \notin Finished
          BY <2>1, <3>4, <4>1, ReporterAssumption DEF Finished
        <4>3. ShownSeconds(l)' = (now + 1) - lane[l].started_at
          BY <2>1, <4>2 DEF ShownSeconds, Elapsed
        <4>4. ShownSeconds(l) = now - lane[l].started_at
          BY <3>4, ShownType
        <4> QED
          BY <3>1, <3>4, <4>1, <4>3, <4>4
      <3>5. CASE lane[l].status = "pending"
        <4>1. lane'[l].started_at = None /\ lane'[l].status \notin Finished
          BY <2>1, <3>5, RowFacts DEF Finished
        <4>2. ShownSeconds(l)' = 0
          BY <4>1 DEF ShownSeconds
        <4>3. l \notin InStatus({"running"})
          BY <3>1, <3>5
        <4>4. ShownSeconds(l) = 0
          BY <3>5, ShownType
        <4> QED
          BY <4>2, <4>3, <4>4
      <3>6. CASE lane[l].status \in Finished
        <4>1. ShownSeconds(l)' = lane[l].duration
          BY <2>1, <3>6 DEF ShownSeconds
        <4>2. ShownSeconds(l) = lane[l].duration
          BY <3>6, ShownType
        <4>3. l \notin InStatus({"running"})
          BY <3>1, <3>6 DEF Finished
        <4> QED
          BY <3>3, <4>1, <4>2, <4>3
      <3> QED
        BY <3>2, <3>4, <3>5, <3>6
    <2> QED
      BY <2>1, <2>2
  <1>6. CASE AllDone
    BY <1>6 DEF AllDone, vars, ShownSeconds, Elapsed
  <1> QED
    BY <1>2, <1>3, <1>4, <1>5, <1>6 DEF Next

\* The seconds of the lanes are seconds of the workers: the parallelism the
\* summary shows is at most the number of workers.
THEOREM ParallelismWithinWorkersHolds == Spec => []ParallelismWithinWorkers
  <1>1. Init => ParallelismWithinWorkers
    <2> SUFFICES ASSUME Init
                 PROVE  ParallelismWithinWorkers
      OBVIOUS
    <2> DEFINE f == [l \in Lanes |-> ShownSeconds(l)]
    <2>1. \A l \in Lanes : f[l] = 0
      BY DEF Init, Pending, ShownSeconds, Finished
    <2>2. sum_lane_seconds = SumFunctionOnSet(f, Lanes)
      BY SumOfSeconds
    <2> HIDE DEF f
    <2>3. SumFunctionOnSet(f, Lanes) = 0
      BY <2>1, ReporterAssumption, SumOfZeros
    <2>4. now = 0 /\ MaxWorkers \in Nat
      BY ReporterAssumption DEF Init
    <2>5. MaxWorkers * 0 = 0
      BY <2>4
    <2> QED
      BY <2>2, <2>3, <2>4, <2>5 DEF ParallelismWithinWorkers
  <1>2. ASSUME IInv, IInv', ParallelismWithinWorkers, [Next]_vars
        PROVE  ParallelismWithinWorkers'
    <2> DEFINE f == [l \in Lanes |-> ShownSeconds(l)]
               g == [l \in Lanes |-> ShownSeconds(l)']
               R == InStatus({"running"})
               one == [l \in Lanes |-> IF l \in R THEN 1 ELSE 0]
    <2>1. sum_lane_seconds = SumFunctionOnSet(f, Lanes)
      BY SumOfSeconds
    <2>2. sum_lane_seconds' = SumFunctionOnSet(g, Lanes)
      BY SumOfSeconds
    <2>3. \A l \in Lanes : f[l] = ShownSeconds(l) /\ f[l] \in Int
      BY <1>2, ShownType
    <2>4. \A l \in Lanes : g[l] = ShownSeconds(l)' /\ one[l] = IF l \in R THEN 1 ELSE 0
      OBVIOUS
    <2>5. SumFunctionOnSet(f, Lanes) <= MaxWorkers * now
      BY <1>2, <2>1 DEF ParallelismWithinWorkers
    <2>6. /\ IsFiniteSet(Lanes) /\ MaxWorkers \in Nat /\ now \in Nat
          /\ R \subseteq Lanes /\ IsFiniteSet(R) /\ Cardinality(R) \in Nat
          /\ Cardinality(R) <= MaxWorkers
      <3>1. now \in 0..MaxTime /\ MaxTime \in Nat
        BY <1>2, ReporterAssumption DEF IInv, TypeOK
      <3>2. now \in Nat
        BY <3>1
      <3> QED
        BY <1>2, <3>2, ReporterAssumption, InStatusFinite DEF IInv, LanesTimed
    <2> HIDE DEF f, g, R, one
    <2>7. ASSUME now' = now, \A l \in Lanes : ShownSeconds(l)' = ShownSeconds(l)
          PROVE  ParallelismWithinWorkers'
      <3>1. \A l \in Lanes : f[l] \in Int /\ g[l] = f[l]
        BY <2>3, <2>4, <2>7
      <3>2. SumFunctionOnSet(g, Lanes) = SumFunctionOnSet(f, Lanes)
        BY <2>6, <3>1, SumSame
      <3> QED
        BY <2>2, <2>5, <2>7, <3>2 DEF ParallelismWithinWorkers
    <2>8. ASSUME now' = now + 1,
                 \A l \in Lanes : ShownSeconds(l)' = ShownSeconds(l) + IF l \in R THEN 1 ELSE 0
          PROVE  ParallelismWithinWorkers'
      <3>1. \A l \in Lanes : f[l] \in Int /\ one[l] \in Int /\ g[l] = f[l] + one[l]
        BY <2>3, <2>4, <2>8
      <3>2. SumFunctionOnSet(g, Lanes)
                = SumFunctionOnSet(f, Lanes) + SumFunctionOnSet(one, Lanes)
        BY <2>6, <3>1, SumOfSums
      <3>3. SumFunctionOnSet(one, Lanes)
                = SumFunctionOnSet(one, R) + SumFunctionOnSet(one, Lanes \ R)
        BY <2>6, <3>1, SumSplit
      <3>4. SumFunctionOnSet(one, R) = Cardinality(R)
        <4>1. \A l \in R : one[l] = 1
          BY <2>4, <2>6
        <4> QED
          BY <2>6, <4>1, SumOfOnes
      <3>5. SumFunctionOnSet(one, Lanes \ R) = 0
        <4>1. IsFiniteSet(Lanes \ R)
          BY <2>6, FS_Subset
        <4>2. \A l \in Lanes \ R : one[l] = 0
          BY <2>4
        <4> QED
          BY <4>1, <4>2, SumOfZeros
      <3>6. SumFunctionOnSet(f, Lanes) \in Int
        BY <2>3, <2>6, SumType
      <3>7. MaxWorkers * (now + 1) = MaxWorkers * now + MaxWorkers
            /\ MaxWorkers * now \in Int
        BY <2>6
      <3>8. SumFunctionOnSet(g, Lanes) = SumFunctionOnSet(f, Lanes) + Cardinality(R)
        BY <2>6, <3>2, <3>3, <3>4, <3>5, <3>6
      <3>9. SumFunctionOnSet(g, Lanes) <= MaxWorkers * now + MaxWorkers
        BY <2>5, <2>6, <3>6, <3>7, <3>8
      <3> QED
        BY <2>2, <2>8, <3>7, <3>9 DEF ParallelismWithinWorkers
    <2>9. CASE UNCHANGED vars
      <3>1. now' = now /\ \A l \in Lanes : ShownSeconds(l)' = ShownSeconds(l)
        BY <2>9 DEF vars, ShownSeconds, Elapsed
      <3> QED
        BY <2>7, <3>1
    <2>10. CASE Next
      BY <1>2, <2>7, <2>8, <2>10, StepSeconds DEF R
    <2> QED
      BY <1>2, <2>9, <2>10
  <1> QED
    BY <1>1, <1>2, InitInv, NextInv, PTL DEF Spec

=============================================================================
