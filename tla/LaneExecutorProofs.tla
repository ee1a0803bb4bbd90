------------------------- MODULE LaneExecutorProofs -------------------------
(***************************************************************************)
(* Theorems about LaneExecutor and their proofs: its types and the cap on  *)
(* workers, what it tells its caller, that it implements LaneRun, that it  *)
(* keeps the workers busy, and that no output is lost.                     *)
(***************************************************************************)
EXTENDS LaneExecutor, InductionLemmas, SequenceTheorems

-----------------------------------------------------------------------------
(* Type correctness *)

\* Appending to a queue keeps its elements' type.
LEMMA AppendType ==
    ASSUME NEW S, NEW s \in Seq(S), NEW e \in S
    PROVE  Append(s, e) \in Seq(S)
  OBVIOUS

\* So does taking its head off.
LEMMA HeadTailType ==
    ASSUME NEW S, NEW s \in Seq(S), s # <<>>
    PROVE  Head(s) \in S /\ Tail(s) \in Seq(S)
  OBVIOUS

\* The largest of the lanes' result codes is a code.
LEMMA ResultCodeType ==
    ASSUME TypeOK, NEW l \in Names
    PROVE  ResultCode(l) \in Codes
  BY DEF TypeOK, ResultCode, Codes

\* The steps that only move the main thread on: to another place, or along
\* the runs it sweeps.
LEMMA MovingOnKeepsTypes ==
    ASSUME TypeOK,
           \/ LeaveLoop \/ LaunchesDone \/ DrainEmpty \/ PollSkips \/ PollDone
           \/ JoinReader \/ JoinsDone \/ LoopRaises
    PROVE  TypeOK'
  <1>1. /\ UNCHANGED <<batch, runs, recorded, returned, workVars, childVars>>
        /\ UNCHANGED <<reader, outq, reporterVars>>
    BY DEF LeaveLoop, LaunchesDone, DrainEmpty, PollSkips, PollDone,
           JoinReader, JoinsDone, LoopRaises
  <1>2. at \in Nat \ {0}
    BY DEF TypeOK
  <1>3. at' \in Nat \ {0}
    BY <1>2 DEF LeaveLoop, LaunchesDone, DrainEmpty, PollSkips, PollDone,
                JoinReader, JoinsDone, LoopRaises
  <1>4. pc' \in {"loop", "launch", "drain", "poll", "finalDrain", "join",
                 "report", "done", "raising", "raised"}
    BY DEF LeaveLoop, LaunchesDone, DrainEmpty, PollSkips, PollDone,
           JoinReader, JoinsDone, LoopRaises
  <1> QED
    BY <1>1, <1>3, <1>4 DEF TypeOK, workVars, childVars, reporterVars

\* Each action of the main thread keeps every variable in its type.
LEMMA MainKeepsTypes ==
    ASSUME TypeOK, MainStep
    PROVE  TypeOK'
  <1> USE DEF TypeOK
  <1>1. CASE BeginIteration
    BY <1>1 DEF BeginIteration, ready_to_launch, workVars, childVars,
                reporterVars
  <1>2. CASE LeaveLoop
    BY <1>2, MovingOnKeepsTypes
  <1>3. CASE LaunchNext
    <2>1. PICK c \in batch :
            /\ batch' = batch \ {c}
            /\ runs' = Append(runs, c)
            /\ mark_launched(Declared[c])
            /\ proc' = [proc EXCEPT ![c] = "alive"]
            /\ \E n \in 0..MaxLines : toWrite' = [toWrite EXCEPT ![c] = n]
            /\ reader' = [reader EXCEPT ![c] = "reading"]
            /\ status' = [status EXCEPT ![Declared[c]] = "running"]
      BY <1>3 DEF LaunchNext
    <2>2. c \in Commands /\ Declared[c] \in Names
      BY <2>1 DEF Names
    <2>3. toWrite' \in [Commands -> Nat]
      <3>1. PICK n \in 0..MaxLines : toWrite' = [toWrite EXCEPT ![c] = n]
        BY <2>1
      <3>2. n \in Nat
        BY ExecutorAssumption
      <3> QED
        BY <2>2, <3>1, <3>2
    <2>4. runs' \in Seq(Commands)
      BY <2>1, <2>2, AppendType
    <2>5. /\ proc' \in [Commands -> {"unborn", "alive", "exited"}]
          /\ reader' \in [Commands -> {"none", "reading", "closed", "died"}]
          /\ status' \in [Names -> {"pending", "running", "pass", "fail"}]
      BY <2>1, <2>2
    <2>6. /\ batch' \subseteq Commands /\ pending' \subseteq Commands
          /\ running' \subseteq Names
      BY <2>1, <2>2 DEF mark_launched
    <2> QED
      BY <1>3, <2>3, <2>4, <2>5, <2>6 DEF LaunchNext
  <1>4. CASE LaunchesDone
    BY <1>4, MovingOnKeepsTypes
  <1>5. CASE DrainOne
    <2>1. /\ Head(outq) \in [lane : Names, line : Nat]
          /\ Tail(outq) \in Seq([lane : Names, line : Nat])
      BY <1>5, HeadTailType DEF DrainOne
    <2> DEFINE l == Head(outq).lane
               n == Head(outq).line
    <2>2. l \in Names /\ n \in Nat
      BY <2>1
    <2>3. Append(captured[l], n) \in Seq(Nat)
      BY <2>2, AppendType
    <2>4. captured' \in [Names -> Seq(Nat)]
      BY <1>5, <2>2, <2>3 DEF DrainOne
    <2> QED
      BY <1>5, <2>1, <2>4 DEF DrainOne, mainVars, workVars, childVars
  <1>6. CASE DrainEmpty
    BY <1>6, MovingOnKeepsTypes
  <1>7. CASE PollSkips
    BY <1>7, MovingOnKeepsTypes
  <1>8. CASE PollRecords
    <2> DEFINE c == runs[at]
               exit == Effective(c, code[c])
    <2>1. c \in Commands /\ Declared[c] \in Names
      BY <1>8 DEF PollRecords, Names
    <2>2. exit \in Codes \cup {NoCode}
      <3> HIDE DEF c
      <3> QED
        BY <2>1 DEF Effective, Codes
    <2>3. /\ recorded' = [recorded EXCEPT ![c] = exit]
          /\ give_verdict(Declared[c], exit)
          /\ mark_finished(Declared[c])
      BY <1>8 DEF PollRecords
    <2> HIDE DEF c, exit
    <2>4. /\ recorded' \in [Commands -> Codes \cup {NoCode}]
          /\ laneExit' \in [Names -> Codes \cup {NoCode}]
          /\ status' \in [Names -> {"pending", "running", "pass", "fail"}]
          /\ running' \subseteq Names /\ finished' \subseteq Names
      BY <2>1, <2>2, <2>3 DEF give_verdict, mark_finished
    <2>5. at' \in Nat \ {0}
      BY <1>8 DEF PollRecords
    <2>6. UNCHANGED <<pc, batch, runs, returned, pending, childVars, reader,
                      outq, captured, printed>>
      BY <1>8 DEF PollRecords
    <2> QED
      BY <2>4, <2>5, <2>6 DEF childVars
  <1>9. CASE PollDone
    BY <1>9, MovingOnKeepsTypes
  <1>10. CASE JoinReader
    BY <1>10, MovingOnKeepsTypes
  <1>11. CASE JoinsDone
    BY <1>11, MovingOnKeepsTypes
  <1>12. CASE Report
    <2>1. returned' \in Codes
      BY <1>12, ResultCodeType DEF Report, IsLargest, Codes
    <2> QED
      BY <1>12, <2>1 DEF Report, lanes_to_print, workVars, childVars
  <1> QED
    BY <1>1, <1>2, <1>3, <1>4, <1>5, <1>6, <1>7, <1>8, <1>9, <1>10, <1>11,
       <1>12 DEF MainStep

\* So does every step of a lane process.
LEMMA ChildKeepsTypes ==
    ASSUME TypeOK, NEW c \in Commands, ChildStep(c)
    PROVE  TypeOK'
  <1> USE DEF TypeOK, mainVars, workVars, reporterVars
  <1>1. CASE ChildWrite(c)
    <2>1. written[c] + 1 \in Nat /\ toWrite[c] - 1 \in Nat
      <3>1. written[c] \in Nat /\ toWrite[c] \in Nat
        OBVIOUS
      <3>2. toWrite[c] > 0
        BY <1>1 DEF ChildWrite
      <3> HIDE DEF TypeOK
      <3> QED
        BY <3>1, <3>2
    <2>2. Append(pipe[c], written[c] + 1) \in Seq(Nat)
      BY <2>1, AppendType
    <2>3. /\ pipe' \in [Commands -> Seq(Nat)]
          /\ written' \in [Commands -> Nat] /\ toWrite' \in [Commands -> Nat]
      BY <1>1, <2>1, <2>2 DEF ChildWrite
    <2>4. UNCHANGED <<mainVars, workVars, proc, code, reader, outq, reporterVars>>
      BY <1>1 DEF ChildWrite
    <2> QED
      BY <2>3, <2>4
  <1>2. CASE ChildExit(c)
    BY <1>2 DEF ChildExit, ChildEnds, Codes
  <1>3. CASE ChildCrash(c)
    BY <1>3 DEF ChildCrash, ChildEnds, Codes
  <1> QED
    BY <1>1, <1>2, <1>3 DEF ChildStep

\* And every step of a reader thread.
LEMMA ReaderKeepsTypes ==
    ASSUME TypeOK, NEW c \in Commands, ReaderStep(c)
    PROVE  TypeOK'
  <1> USE DEF TypeOK, mainVars, workVars, reporterVars
  <1>1. CASE ReaderRead(c)
    <2>1. /\ Head(pipe[c]) \in Nat /\ Tail(pipe[c]) \in Seq(Nat)
          /\ Declared[c] \in Names
      BY <1>1, HeadTailType DEF ReaderRead, Names
    <2>2. [lane |-> Declared[c], line |-> Head(pipe[c])]
            \in [lane : Names, line : Nat]
      BY <2>1
    <2>3. outq' \in Seq([lane : Names, line : Nat])
      BY <1>1, <2>2, AppendType DEF ReaderRead
    <2> QED
      BY <1>1, <2>1, <2>3 DEF ReaderRead
  <1>2. CASE ReaderDies(c)
    <2>1. Tail(pipe[c]) \in Seq(Nat)
      BY <1>2, HeadTailType DEF ReaderDies
    <2> QED
      BY <1>2, <2>1 DEF ReaderDies
  <1>3. CASE ReaderEOF(c)
    BY <1>3 DEF ReaderEOF, childVars
  <1> QED
    BY <1>1, <1>2, <1>3 DEF ReaderStep

\* The initial state is of the type.
LEMMA InitTypes == Init => TypeOK
  BY ExecutorAssumption DEF Init, TypeOK, Codes

\* Every step keeps the type.
LEMMA NextKeepsTypes == TypeOK /\ [Next]_vars => TypeOK'
  <1> SUFFICES ASSUME TypeOK, [Next]_vars
               PROVE  TypeOK'
    OBVIOUS
  <1>1. CASE LoopRaises
    BY <1>1, MovingOnKeepsTypes
  <1>2. CASE UNCHANGED vars
    BY <1>2 DEF TypeOK, vars, mainVars, workVars, childVars, reporterVars
  <1> QED
    BY <1>1, <1>2, MainKeepsTypes, ChildKeepsTypes, ReaderKeepsTypes
       DEF Next, Over

\* Type correctness: no reachable state of run_lane_commands leaves the
\* shapes TypeOK states, for any lanes, durations, cap and exit codes.
THEOREM TypeCorrect == Spec => []TypeOK
  BY InitTypes, NextKeepsTypes, PTL DEF Spec

-----------------------------------------------------------------------------
(* The launch order *)

\* The policies' order on distinct commands is strict and total.
LEMMA PrecedesIsOrder ==
    ASSUME NEW c \in Commands, NEW d \in Commands, NEW e \in Commands
    PROVE  /\ ~Precedes(c, c)
           /\ c # d => Precedes(c, d) \/ Precedes(d, c)
           /\ Precedes(c, d) /\ Precedes(d, e) => Precedes(c, e)
  <1>1. /\ ~Unrecorded(c) => Seconds(c) \in Nat
        /\ ~Unrecorded(d) => Seconds(d) \in Nat
        /\ ~Unrecorded(e) => Seconds(e) \in Nat
    BY ExecutorAssumption DEF Unrecorded, Seconds
  <1>2. c \in Nat /\ d \in Nat /\ e \in Nat
    BY DEF Commands
  <1> QED
    BY <1>1, <1>2 DEF Precedes

\* There are finitely many commands, and no more names than commands.
LEMMA FiniteNames ==
    /\ IsFiniteSet(Commands) /\ Cardinality(Commands) = Len(Declared)
    /\ IsFiniteSet(Names) /\ Cardinality(Names) <= Len(Declared)
  <1>1. Len(Declared) \in Nat /\ Declared \in [Commands -> Names]
    BY ExecutorAssumption DEF Commands, Names
  <1>2. IsFiniteSet(Commands) /\ Cardinality(Commands) = Len(Declared)
    <2>1. /\ IsFiniteSet(1..Len(Declared))
          /\ Cardinality(1..Len(Declared)) =
                 IF 1 > Len(Declared) THEN 0 ELSE Len(Declared) - 1 + 1
      BY <1>1, FS_Interval
    <2> QED BY <1>1, <2>1 DEF Commands
  <1>3. Declared \in Surjection(Commands, Names)
    BY <1>1 DEF Surjection, Names
  <1> QED
    BY <1>2, <1>3, FS_Surjection

\* A pending command has more commands before it than any it comes after.
LEMMA RankGrows ==
    ASSUME TypeOK, NEW c \in pending, NEW d \in pending, Precedes(c, d)
    PROVE  /\ Cardinality(Before(c, pending)) \in Nat
           /\ Cardinality(Before(d, pending)) \in Nat
           /\ Cardinality(Before(c, pending)) < Cardinality(Before(d, pending))
  <1>1. IsFiniteSet(pending) /\ c \in Commands /\ d \in Commands
    BY FiniteNames, FS_Subset DEF TypeOK
  <1>2. IsFiniteSet(Before(c, pending)) /\ IsFiniteSet(Before(d, pending))
    BY <1>1, FS_Subset DEF Before
  <1>3. Before(c, pending) \in SUBSET Before(d, pending)
    BY <1>1, PrecedesIsOrder DEF Before, TypeOK
  <1>4. c \in Before(d, pending) /\ c \notin Before(c, pending)
    BY <1>1, PrecedesIsOrder DEF Before
  <1> QED
    BY <1>2, <1>3, <1>4, FS_Subset, FS_CardinalityType

\* ready_to_launch never offers more commands than there are free slots: the
\* number of commands before it tells two pending commands apart.
LEMMA ReadyFits ==
    ASSUME TypeOK
    PROVE  /\ IsFiniteSet(ready_to_launch)
           /\ Cardinality(ready_to_launch) <= FreeSlots
           /\ FreeSlots \in Nat
  <1>1. IsFiniteSet(running) /\ Cardinality(running) \in Nat
    BY FiniteNames, FS_Subset, FS_CardinalityType DEF TypeOK
  <1>2. FreeSlots \in Nat
    BY <1>1, ExecutorAssumption DEF FreeSlots
  <1>3. IsFiniteSet(pending)
    BY FiniteNames, FS_Subset DEF TypeOK
  <1>4. \A c \in pending : /\ IsFiniteSet(Before(c, pending))
                            /\ Cardinality(Before(c, pending)) \in Nat
    BY <1>3, FS_Subset, FS_CardinalityType DEF Before
  <1> DEFINE rank == [c \in ready_to_launch |-> Cardinality(Before(c, pending))]
             slots == 0..(FreeSlots - 1)
  <1>5. rank \in [ready_to_launch -> slots]
    BY <1>2, <1>4 DEF ready_to_launch
  <1>6. ASSUME NEW c \in ready_to_launch, NEW d \in ready_to_launch,
               rank[c] = rank[d]
        PROVE  c = d
    <2>1. c \in pending /\ d \in pending /\ c \in Commands /\ d \in Commands
      BY DEF ready_to_launch, TypeOK
    <2>2. Precedes(c, d) => rank[c] < rank[d]
      BY <2>1, RankGrows
    <2>3. Precedes(d, c) => rank[d] < rank[c]
      BY <2>1, RankGrows
    <2>4. rank[c] \in Nat /\ rank[d] \in Nat
      BY <1>4, <2>1
    <2> HIDE DEF rank
    <2> QED
      BY <1>6, <2>1, <2>2, <2>3, <2>4, PrecedesIsOrder
  <1>7. rank \in Injection(ready_to_launch, slots)
    BY <1>5, <1>6 DEF Injection, IsInjective
  <1>8. IsFiniteSet(slots) /\ Cardinality(slots) = FreeSlots
    BY <1>2, FS_Interval
  <1> HIDE DEF rank, slots
  <1> QED
    BY <1>2, <1>7, <1>8, FS_Injection

\* The variables OrderKept reads, but for pc.
orderVars == <<runs, pending, batch>>

\* Every step keeps the launch order.
LEMMA NextKeepsOrder ==
    ASSUME TypeOK, OrderKept, [Next]_vars
    PROVE  OrderKept'
  <1> USE DEF workVars, childVars, mainVars, orderVars
  <1>1. CASE BeginIteration
    <2>1. batch' = ready_to_launch /\ UNCHANGED <<runs, pending>>
      BY <1>1 DEF BeginIteration
    <2>2. ASSUME NEW c \in ready_to_launch, NEW d \in pending \ ready_to_launch
          PROVE  Precedes(c, d)
      <3>1. c \in pending /\ c # d /\ c \in Commands /\ d \in Commands
        BY <2>2 DEF ready_to_launch, TypeOK
      <3>2. SUFFICES ASSUME Precedes(d, c)
                     PROVE  FALSE
        BY <3>1, PrecedesIsOrder
      <3>3. /\ Cardinality(Before(c, pending)) < FreeSlots
            /\ ~(Cardinality(Before(d, pending)) < FreeSlots)
        BY <2>2 DEF ready_to_launch
      <3> QED
        BY <3>1, <3>2, <3>3, RankGrows, ReadyFits
    <2> QED
      BY <2>1, <2>2 DEF OrderKept, Launched
  <1>2. CASE LaunchNext
    <2>1. PICK c \in batch : /\ Before(c, batch) = {}
                             /\ batch' = batch \ {c}
                             /\ runs' = Append(runs, c)
                             /\ pending' = {d \in pending :
                                              Declared[d] # Declared[c]}
      BY <1>2 DEF LaunchNext, mark_launched
    <2>2. Launched' = Launched \cup {c}
      <3>1. runs \in Seq(Commands) /\ c \in Commands
        BY <2>1 DEF TypeOK
      <3>2. /\ Len(runs') = Len(runs) + 1 /\ Len(runs) \in Nat
            /\ \A i \in 1..Len(runs) : runs'[i] = runs[i]
            /\ runs'[Len(runs) + 1] = c
        BY <2>1, <3>1
      <3> QED
        BY <3>2 DEF Launched
    <2>3. pc = "launch" /\ pc' = "launch"
      BY <1>2 DEF LaunchNext
    <2>4. \A d \in pending' : Precedes(c, d)
      <3> TAKE d \in pending'
      <3>1. d # c /\ d \in pending /\ c \in Commands /\ d \in Commands
        BY <2>1 DEF TypeOK
      <3>2. CASE d \in batch
        BY <2>1, <3>1, <3>2, PrecedesIsOrder DEF Before
      <3>3. CASE d \notin batch
        BY <2>3, <3>1, <3>3 DEF OrderKept
      <3> QED
        BY <3>2, <3>3
    <2> QED
      BY <2>1, <2>2, <2>3, <2>4 DEF OrderKept
  <1>3. ASSUME UNCHANGED orderVars, pc' = "launch" => pc = "launch"
        PROVE  OrderKept'
    BY <1>3 DEF OrderKept, Launched
  <1>4. CASE \/ LeaveLoop \/ LaunchesDone \/ DrainOne \/ DrainEmpty
             \/ PollSkips \/ PollRecords \/ PollDone \/ LoopRaises
             \/ JoinReader \/ JoinsDone \/ Report \/ UNCHANGED vars
    BY <1>3, <1>4
       DEF LeaveLoop, LaunchesDone, DrainOne, DrainEmpty, PollSkips,
           PollRecords, PollDone, LoopRaises, JoinReader, JoinsDone, Report,
           vars
  <1>5. ASSUME NEW c \in Commands, ChildStep(c) \/ ReaderStep(c)
        PROVE  OrderKept'
    BY <1>3, <1>5
       DEF ChildStep, ChildWrite, ChildExit, ChildCrash, ChildEnds,
           ReaderStep, ReaderRead, ReaderDies, ReaderEOF
  <1> QED
    BY <1>1, <1>2, <1>4, <1>5 DEF Next, MainStep, Over

\* The policy's order puts the longer record first.
LEMMA OrderMeansLongestFirst ==
    ASSUME TypeOK, OrderKept
    PROVE  LongestFirst
  <1> SUFFICES ASSUME NEW c \in Launched, NEW d \in pending
               PROVE  /\ Unrecorded(d) => Unrecorded(c)
                      /\ ~Unrecorded(c) /\ ~Unrecorded(d)
                           => Seconds(c) >= Seconds(d)
    BY DEF LongestFirst
  <1>1. Precedes(c, d)
    BY DEF OrderKept
  <1>2. ~Unrecorded(c) /\ ~Unrecorded(d)
          => Seconds(c) \in Nat /\ Seconds(d) \in Nat
    BY ExecutorAssumption DEF Unrecorded, Seconds
  <1> QED
    BY <1>1, <1>2 DEF Precedes

\* Longest recorded lane first, and lanes without a record before all: no
\* launch overtakes a lane that should have gone before it.
THEOREM LongestFirstHolds == Spec => []LongestFirst
  <1>1. Init => TypeOK /\ OrderKept
    BY InitTypes DEF Init, OrderKept, Launched
  <1>2. TypeOK /\ OrderKept /\ [Next]_vars => (TypeOK /\ OrderKept)'
    BY NextKeepsTypes, NextKeepsOrder
  <1>3. TypeOK /\ OrderKept => LongestFirst
    BY OrderMeansLongestFirst
  <1> QED
    BY <1>1, <1>2, <1>3, PTL DEF Spec

-----------------------------------------------------------------------------
(* The worker cap *)

\* The variables SlotsKept reads, but for pc.
slotVars == <<running, batch, proc>>

\* A step that leaves them alone and does not enter the launch loop is safe.
LEMMA SlotsUndisturbed ==
    ASSUME SlotsKept, UNCHANGED slotVars, pc' = "launch" => pc = "launch"
    PROVE  SlotsKept'
  BY DEF SlotsKept, slotVars

\* The running lanes and the batch can be counted.
LEMMA FiniteWork ==
    ASSUME TypeOK
    PROVE  /\ IsFiniteSet(running) /\ Cardinality(running) \in Nat
           /\ IsFiniteSet(batch) /\ Cardinality(batch) \in Nat
  BY FiniteNames, FS_Subset, FS_CardinalityType DEF TypeOK

\* Every step keeps running lanes and batch within the cap.
LEMMA NextKeepsSlots ==
    ASSUME Distinct, TypeOK, SlotsKept, [Next]_vars
    PROVE  SlotsKept'
  <1> USE DEF workVars, childVars, mainVars, slotVars
  <1>1. CASE BeginIteration
    <2>1. batch' = ready_to_launch /\ UNCHANGED <<running, proc>>
      BY <1>1 DEF BeginIteration
    <2>2. Cardinality(running) + Cardinality(batch') <= MaxWorkers
      <3>1. Cardinality(running) + FreeSlots = MaxWorkers
        BY FiniteWork, ExecutorAssumption DEF SlotsKept, FreeSlots
      <3>2. Cardinality(ready_to_launch) \in Nat
        BY ReadyFits, FS_CardinalityType
      <3> QED
        BY <2>1, <3>1, <3>2, ReadyFits, FiniteWork, ExecutorAssumption
    <2> QED
      BY <2>1, <2>2 DEF SlotsKept
  <1>2. CASE LaunchNext
    <2>1. PICK c \in batch : /\ batch' = batch \ {c}
                             /\ running' = running \cup {Declared[c]}
                             /\ proc' = [proc EXCEPT ![c] = "alive"]
      BY <1>2 DEF LaunchNext, mark_launched
    <2>2. /\ Cardinality(running') <= Cardinality(running) + 1
          /\ Cardinality(running') \in Nat
      <3>1. /\ IsFiniteSet(running \cup {Declared[c]})
            /\ Cardinality(running \cup {Declared[c]})
                 = IF Declared[c] \in running THEN Cardinality(running)
                                              ELSE Cardinality(running) + 1
        BY FiniteWork, FS_AddElement
      <3> QED
        BY <2>1, <3>1, FiniteWork
    <2>3. Cardinality(batch') = Cardinality(batch) - 1
      BY <2>1, FiniteWork, FS_RemoveElement
    <2>4. pc = "launch" /\ pc' = "launch"
      BY <1>2 DEF LaunchNext
    <2>5. Cardinality(batch') \in Nat
      BY <2>1, FiniteWork, FS_RemoveElement, FS_CardinalityType
    <2>6. Cardinality(running') + Cardinality(batch') <= MaxWorkers
      BY <2>2, <2>3, <2>4, <2>5, FiniteWork, ExecutorAssumption DEF SlotsKept
    <2>7. \A d \in Commands : proc'[d] = "alive" => Declared[d] \in running'
      BY <2>1 DEF SlotsKept, TypeOK
    <2> QED
      BY <2>2, <2>5, <2>6, <2>7, ExecutorAssumption DEF SlotsKept
  <1>3. CASE PollRecords
    <2>1. PICK c \in Commands : /\ proc[c] = "exited"
                                /\ running' = running \ {Declared[c]}
                                /\ UNCHANGED <<batch, proc, pc>>
                                /\ pc = "poll"
      <3>1. runs[at] \in Commands
        BY <1>3 DEF PollRecords, TypeOK
      <3> QED
        BY <1>3, <3>1 DEF PollRecords, mark_finished
    <2>2. Cardinality(running') <= Cardinality(running)
          /\ Cardinality(running') \in Nat
      <3>1. running' \in SUBSET running
        BY <2>1
      <3> QED
        BY <3>1, FiniteWork, FS_Subset, FS_CardinalityType
    <2>3. Cardinality(running') <= MaxWorkers
      BY <2>2, FiniteWork, ExecutorAssumption DEF SlotsKept
    <2>4. \A d \in Commands : proc'[d] = "alive" => Declared[d] \in running'
      BY <2>1 DEF SlotsKept, Distinct
    <2>5. pc' # "launch"
      BY <2>1
    <2> QED
      BY <2>3, <2>4, <2>5 DEF SlotsKept
  <1>4. ASSUME NEW c \in Commands, ChildExit(c) \/ ChildCrash(c)
        PROVE  SlotsKept'
    BY <1>4 DEF ChildExit, ChildCrash, ChildEnds, SlotsKept, TypeOK
  <1>5. ASSUME NEW c \in Commands, ChildWrite(c) \/ ReaderStep(c)
        PROVE  SlotsKept'
    BY <1>5, SlotsUndisturbed
       DEF ChildWrite, ReaderStep, ReaderRead, ReaderDies, ReaderEOF
  <1>6. CASE \/ LeaveLoop \/ LaunchesDone \/ DrainOne \/ DrainEmpty
             \/ PollSkips \/ PollDone \/ LoopRaises \/ JoinReader
             \/ JoinsDone \/ Report \/ UNCHANGED vars
    BY <1>6, SlotsUndisturbed
       DEF LeaveLoop, LaunchesDone, DrainOne, DrainEmpty, PollSkips, PollDone,
           LoopRaises, JoinReader, JoinsDone, Report, vars
  <1> QED
    BY <1>1, <1>2, <1>3, <1>4, <1>5, <1>6
       DEF Next, MainStep, ChildStep, Over

\* No slot is taken yet.
LEMMA InitSlots == Init => SlotsKept
  BY FS_EmptySet, ExecutorAssumption DEF Init, SlotsKept, Commands

\* One process per running lane: the cap on lanes is a cap on processes.
LEMMA SlotsCapWorkers ==
    ASSUME Distinct, TypeOK, SlotsKept
    PROVE  WorkerCap
  <1> DEFINE laneOf == [c \in Alive |-> Declared[c]]
  <1>1. laneOf \in Injection(Alive, running)
    BY DEF Injection, IsInjective, Alive, SlotsKept, Distinct
  <1>2. IsFiniteSet(Alive) /\ Cardinality(Alive) <= Cardinality(running)
    BY <1>1, FiniteWork, FS_Injection
  <1>3. Cardinality(Alive) \in Nat
    BY <1>2, FS_CardinalityType
  <1> QED
    BY <1>2, <1>3, FiniteWork, ExecutorAssumption DEF WorkerCap, SlotsKept

\* With distinct lane names, never more than max_workers lane subprocesses
\* live at the same time.
THEOREM WorkerCapHolds == Distinct /\ Spec => []WorkerCap
  <1> SUFFICES ASSUME Distinct
               PROVE  Spec => []WorkerCap
    OBVIOUS
  <1>1. Init => TypeOK /\ SlotsKept
    BY InitTypes, InitSlots
  <1>2. TypeOK /\ SlotsKept /\ [Next]_vars => (TypeOK /\ SlotsKept)'
    BY NextKeepsTypes, NextKeepsSlots
  <1>3. TypeOK /\ SlotsKept => WorkerCap
    BY SlotsCapWorkers
  <1> QED
    BY <1>1, <1>2, <1>3, PTL DEF Spec

-----------------------------------------------------------------------------
(* Verdicts *)

\* The variables VerdictsKept reads, but for pc and batch.
verdictVars ==
    <<pending, running, finished, proc, code, status, laneExit, returned>>

\* A step that leaves them alone keeps VerdictsKept unless it enters the
\* launch loop, leaves the scheduling loop or returns.
LEMMA VerdictsUndisturbed ==
    ASSUME VerdictsKept, UNCHANGED verdictVars,
           pc' = "launch" => pc = "launch" /\ UNCHANGED batch,
           pc' = "done" => pc = "done",
           pc' \in {"finalDrain", "join", "report"}
             => pc \in {"finalDrain", "join", "report"},
           pc # "done"
    PROVE  VerdictsKept'
  <1>1. \A l \in Names : ResultCode(l)' = ResultCode(l)
    BY DEF verdictVars, ResultCode
  <1> QED
    BY <1>1 DEF VerdictsKept, verdictVars, Effective

\* Leaving the loop, every lane is finished: there are no more names than
\* commands.
LEMMA DoneMeansAll ==
    ASSUME TypeOK, is_done
    PROVE  finished = Names
  <1>1. finished \in SUBSET Names
    BY DEF TypeOK
  <1>2. /\ Cardinality(finished) <= Cardinality(Names)
        /\ Cardinality(Names) = Cardinality(finished) => Names = finished
    BY <1>1, FiniteNames, FS_Subset
  <1>3. Cardinality(Names) \in Nat /\ Cardinality(finished) \in Nat
    BY <1>1, FiniteNames, FS_Subset, FS_CardinalityType
  <1>4. Len(Declared) \in Nat
    BY ExecutorAssumption
  <1> QED
    BY <1>2, <1>3, <1>4, FiniteNames DEF is_done

\* A launch takes its command off the pending list, and has no verdict yet.
LEMMA LaunchKeepsVerdicts ==
    ASSUME Distinct, TypeOK, VerdictsKept, LaunchNext
    PROVE  VerdictsKept'
  <1>1. PICK c \in batch :
          /\ batch' = batch \ {c}
          /\ pending' = {d \in pending : Declared[d] # Declared[c]}
          /\ running' = running \cup {Declared[c]}
          /\ proc' = [proc EXCEPT ![c] = "alive"]
          /\ status' = [status EXCEPT ![Declared[c]] = "running"]
    BY DEF LaunchNext, mark_launched
  <1>2. /\ pc = "launch" /\ pc' = "launch"
        /\ UNCHANGED <<returned, finished, code, laneExit>>
    BY DEF LaunchNext
  <1>3. c \in pending /\ c \in Commands /\ Declared[c] \in Names
    BY <1>1, <1>2 DEF VerdictsKept, TypeOK, Names
  <1>4. proc[c] = "unborn" /\ Declared[c] \notin finished
    BY <1>3 DEF VerdictsKept
  <1>5. batch' \subseteq pending'
    BY <1>1, <1>2, <1>3 DEF VerdictsKept, TypeOK, Distinct
  <1>6. \A d \in pending' :
          proc'[d] = "unborn" /\ status'[Declared[d]] = "pending"
    BY <1>1, <1>3 DEF VerdictsKept, TypeOK, Names
  <1>7. \A d \in Commands : Declared[d] \in finished' =>
          /\ proc'[d] = "exited"
          /\ laneExit'[Declared[d]] = Effective(d, code'[d])
    BY <1>1, <1>2, <1>4 DEF VerdictsKept, TypeOK
  <1>8. \A l \in Names :
          /\ status'[l] = "running" <=> l \in running'
          /\ status'[l] \in {"pass", "fail"} <=> l \in finished'
          /\ l \in finished' => (status'[l] = "pass" <=> laneExit'[l] = 0)
    BY <1>1, <1>2, <1>3, <1>4 DEF VerdictsKept, TypeOK
  <1>9. \A d \in Commands : proc'[d] = "exited" => code'[d] \in Codes
    BY <1>1, <1>2 DEF VerdictsKept, TypeOK
  <1> QED
    BY <1>2, <1>5, <1>6, <1>7, <1>8, <1>9 DEF VerdictsKept, Effective

\* The poll gives the verdict of a process that has ended.
LEMMA PollKeepsVerdicts ==
    ASSUME Distinct, TypeOK, VerdictsKept, PollRecords
    PROVE  VerdictsKept'
  <1> DEFINE c == runs[at]
             l == Declared[c]
             exit == Effective(c, code[c])
  <1>1. /\ proc[c] = "exited"
        /\ laneExit' = [laneExit EXCEPT ![l] = exit]
        /\ status' = [status EXCEPT ![l] = IF exit = 0 THEN "pass" ELSE "fail"]
        /\ running' = running \ {l}
        /\ finished' = finished \cup {l}
    BY DEF PollRecords, give_verdict, mark_finished
  <1>2. /\ pc = "poll" /\ pc' = "poll"
        /\ UNCHANGED <<pending, proc, code, returned>>
    BY DEF PollRecords, childVars
  <1>3. c \in Commands /\ l \in Names
    <2>1. c \in Commands
      BY DEF PollRecords, TypeOK
    <2> QED
      BY <2>1 DEF Names
  <1> HIDE DEF c, exit
  <1>4. \A d \in pending : Declared[d] # l
    BY <1>1, <1>3 DEF VerdictsKept, TypeOK, Distinct
  <1>5. \A d \in pending' :
          proc'[d] = "unborn" /\ status'[Declared[d]] = "pending"
    BY <1>1, <1>2, <1>4 DEF VerdictsKept, TypeOK, Names
  <1>6. ASSUME NEW d \in Commands, Declared[d] \in finished'
        PROVE  /\ proc'[d] = "exited"
               /\ laneExit'[Declared[d]] = Effective(d, code'[d])
    <2>1. CASE d = c
      BY <1>1, <1>2, <1>3, <2>1 DEF TypeOK, exit
    <2>2. CASE d # c
      <3>1. Declared[d] # l /\ Declared[d] \in Names
        BY <1>3, <2>2 DEF Distinct, Names
      <3> QED
        BY <1>1, <1>2, <1>6, <3>1 DEF VerdictsKept, TypeOK
    <2> QED
      BY <2>1, <2>2
  <1>7. ASSUME NEW k \in Names
        PROVE  /\ status'[k] = "running" <=> k \in running'
               /\ status'[k] \in {"pass", "fail"} <=> k \in finished'
               /\ k \in finished' => (status'[k] = "pass" <=> laneExit'[k] = 0)
    <2>1. CASE k = l
      BY <1>1, <1>3, <2>1 DEF TypeOK
    <2>2. CASE k # l
      BY <1>1, <1>3, <2>2 DEF VerdictsKept, TypeOK
    <2> QED
      BY <2>1, <2>2
  <1> QED
    BY <1>2, <1>5, <1>6, <1>7 DEF VerdictsKept, Effective

\* The report returns the largest of the verdicts.
LEMMA ReportKeepsVerdicts ==
    ASSUME TypeOK, VerdictsKept, Report
    PROVE  VerdictsKept'
  <1> DEFINE codes == {ResultCode(l) : l \in Names}
  <1>1. /\ pc = "report" /\ pc' = "done"
        /\ UNCHANGED <<pending, running, finished, proc, code, status, laneExit>>
    BY DEF Report, workVars, childVars
  <1>2. codes = {} => Names = {}
    OBVIOUS
  <1>3. \/ returned' = 0 /\ Names = {}
        \/ IsLargest(returned', codes)
    BY <1>2 DEF Report
  <1>4. codes' = codes
    BY <1>1 DEF ResultCode
  <1>5. /\ pc' # "done" => returned' = NoCode
        /\ pc' = "done" => \/ returned' = 0 /\ Names = {}
                           \/ IsLargest(returned', codes')
    BY <1>1, <1>3, <1>4
  <1> HIDE DEF codes
  <1>6. /\ pc' = "launch" => batch' \subseteq pending'
        /\ \A c \in pending' :
             proc'[c] = "unborn" /\ status'[Declared[c]] = "pending"
        /\ \A c \in Commands : proc'[c] = "exited" => code'[c] \in Codes
        /\ \A c \in Commands : Declared[c] \in finished' =>
             /\ proc'[c] = "exited"
             /\ laneExit'[Declared[c]] = Effective(c, code'[c])
        /\ finished' = Names
        /\ \A l \in Names :
             /\ status'[l] = "running" <=> l \in running'
             /\ status'[l] \in {"pass", "fail"} <=> l \in finished'
             /\ l \in finished' => (status'[l] = "pass" <=> laneExit'[l] = 0)
    BY <1>1 DEF VerdictsKept
  <1> QED
    BY <1>5, <1>6 DEF VerdictsKept, Effective, codes

\* Every step keeps verdicts and processes in agreement.
LEMMA NextKeepsVerdicts ==
    ASSUME Distinct, TypeOK, VerdictsKept, [Next]_vars
    PROVE  VerdictsKept'
  <1> USE DEF workVars, childVars, mainVars, reporterVars, verdictVars
  <1>1. CASE BeginIteration
    <2>1. /\ batch' \subseteq pending' /\ pc = "loop" /\ pc' = "launch"
          /\ UNCHANGED verdictVars
      BY <1>1 DEF BeginIteration, ready_to_launch
    <2> QED
      BY <2>1 DEF VerdictsKept, Effective
  <1>2. CASE LeaveLoop
    <2>1. /\ finished = Names /\ pc = "loop" /\ pc' = "finalDrain"
          /\ UNCHANGED verdictVars
      BY <1>2, DoneMeansAll DEF LeaveLoop
    <2> QED
      BY <2>1 DEF VerdictsKept, Effective
  <1>3. CASE LaunchNext
    BY <1>3, LaunchKeepsVerdicts
  <1>4. CASE PollRecords
    BY <1>4, PollKeepsVerdicts
  <1>5. CASE Report
    BY <1>5, ReportKeepsVerdicts
  <1>6. CASE \/ LaunchesDone \/ DrainEmpty \/ PollSkips \/ PollDone
             \/ LoopRaises \/ JoinReader \/ JoinsDone
    BY <1>6, VerdictsUndisturbed
       DEF LaunchesDone, DrainEmpty, PollSkips, PollDone, LoopRaises,
           JoinReader, JoinsDone
  <1>7. CASE DrainOne
    BY <1>7, VerdictsUndisturbed DEF DrainOne
  <1>8. ASSUME NEW c \in Commands, ChildExit(c) \/ ChildCrash(c)
        PROVE  VerdictsKept'
    <2>1. PICK exit \in Codes :
            /\ proc[c] = "alive"
            /\ proc' = [proc EXCEPT ![c] = "exited"]
            /\ code' = [code EXCEPT ![c] = exit]
      BY <1>8 DEF ChildExit, ChildCrash, ChildEnds, Codes
    <2>2. UNCHANGED <<pc, batch, pending, running, finished, status, laneExit,
                      returned>>
      BY <1>8 DEF ChildExit, ChildCrash, ChildEnds
    <2>3. Declared[c] \notin finished /\ c \notin pending
      BY <2>1 DEF VerdictsKept
    <2>4. \A l \in Names : ResultCode(l)' = ResultCode(l)
      BY <2>2 DEF ResultCode
    <2>5. \A d \in pending' :
            proc'[d] = "unborn" /\ status'[Declared[d]] = "pending"
      BY <2>1, <2>2, <2>3 DEF VerdictsKept, TypeOK
    <2>6. \A d \in Commands : proc'[d] = "exited" => code'[d] \in Codes
      BY <2>1 DEF VerdictsKept, TypeOK
    <2>7. \A d \in Commands : Declared[d] \in finished' =>
            /\ proc'[d] = "exited"
            /\ laneExit'[Declared[d]] = Effective(d, code'[d])
      BY <2>1, <2>2, <2>3 DEF VerdictsKept, TypeOK
    <2>8. {ResultCode(l) : l \in Names}' = {ResultCode(l) : l \in Names}
      BY <2>4
    <2>9. /\ pc' # "done" => returned' = NoCode
          /\ pc' = "done" => \/ returned' = 0 /\ Names = {}
                             \/ IsLargest(returned, {ResultCode(l) : l \in Names}')
      BY <2>2, <2>8 DEF VerdictsKept
    <2> HIDE DEF verdictVars
    <2> QED
      BY <2>2, <2>5, <2>6, <2>7, <2>9 DEF VerdictsKept, Effective
  <1>9. ASSUME NEW c \in Commands, ChildWrite(c) \/ ReaderStep(c)
        PROVE  VerdictsKept'
    <2>1. UNCHANGED <<verdictVars, pc, batch>>
      BY <1>9 DEF ChildWrite, ReaderStep, ReaderRead, ReaderDies, ReaderEOF
    <2> QED
      BY <2>1 DEF VerdictsKept, Effective, ResultCode
  <1>10. CASE UNCHANGED vars
    BY <1>10 DEF vars, VerdictsKept, Effective, ResultCode
  <1> QED
    BY <1>1, <1>2, <1>3, <1>4, <1>5, <1>6, <1>7, <1>8, <1>9, <1>10
       DEF Next, MainStep, ChildStep, Over

\* Nothing is launched yet.
LEMMA InitVerdicts == Init => VerdictsKept
  BY ExecutorAssumption DEF Init, VerdictsKept, Names

\* The state a run can be in, with distinct lane names.
LEMMA VerdictsInvariant == Distinct /\ Spec => [](TypeOK /\ VerdictsKept)
  <1> SUFFICES ASSUME Distinct
               PROVE  Spec => [](TypeOK /\ VerdictsKept)
    OBVIOUS
  <1>1. Init => TypeOK /\ VerdictsKept
    BY InitTypes, InitVerdicts
  <1>2. TypeOK /\ VerdictsKept /\ [Next]_vars => (TypeOK /\ VerdictsKept)'
    BY NextKeepsTypes, NextKeepsVerdicts
  <1> QED
    BY <1>1, <1>2, PTL DEF Spec

\* What is kept past the loop is what ReturnsAfterAll says.
LEMMA VerdictsMeanAllReturned ==
    ASSUME VerdictsKept
    PROVE  ReturnsAfterAll
  BY DEF VerdictsKept, ReturnsAfterAll, Names

\* The largest of codes that are not negative is 0 only if all are.
LEMMA LargestTellsFailures ==
    ASSUME ExitCodes \subseteq Nat, CrashCodes \subseteq Nat,
           TypeOK, VerdictsKept
    PROVE  ExitCodeHonest
  <1> SUFFICES ASSUME pc = "done"
               PROVE  returned = 0 <=> \A c \in Commands : ~Failed(c)
    BY DEF ExitCodeHonest
  <1>1. \A c \in Commands : Declared[c] \in finished
    BY DEF VerdictsKept, Names
  <1>2. \A c \in Commands :
          /\ ResultCode(Declared[c]) = Effective(c, code[c])
          /\ ResultCode(Declared[c]) \in Nat
          /\ Failed(c) <=> ResultCode(Declared[c]) # 0
    <2> TAKE c \in Commands
    <2>1. /\ proc[c] = "exited" /\ code[c] \in Codes
          /\ laneExit[Declared[c]] = Effective(c, code[c])
      BY <1>1 DEF VerdictsKept
    <2>2. Effective(c, code[c]) \in Nat /\ Effective(c, code[c]) # NoCode
      <3>1. code[c] \in Nat
        <4>1. ExitCodes \cup CrashCodes \cup {0} \subseteq Nat
          OBVIOUS
        <4> QED
          BY <2>1, <4>1 DEF Codes
      <3>2. Effective(c, code[c]) \in Nat
        BY <3>1 DEF Effective
      <3>3. NoCode \notin Nat
        BY ExecutorAssumption
      <3> QED
        BY <3>2, <3>3
    <2> QED
      BY <2>1, <2>2 DEF ResultCode, Failed
  <1>3. CASE Names = {}
    <2>1. Commands = {} /\ returned = 0
      BY <1>3 DEF Names, VerdictsKept, IsLargest
    <2> QED
      BY <2>1
  <1>4. CASE IsLargest(returned, {ResultCode(l) : l \in Names})
    <2>1. PICK c \in Commands : returned = ResultCode(Declared[c])
      BY <1>4 DEF IsLargest, Names
    <2>2. \A d \in Commands : ResultCode(Declared[d]) <= returned
      BY <1>4 DEF IsLargest, Names
    <2> QED
      BY <1>2, <2>1, <2>2
  <1> QED
    BY <1>3, <1>4 DEF VerdictsKept

\* run_lane_commands returns only when every lane's process has ended, and
\* each lane's verdict is its process's exit code.
THEOREM ReturnsAfterAllHolds == Distinct /\ Spec => []ReturnsAfterAll
  <1> SUFFICES ASSUME Distinct
               PROVE  Spec => []ReturnsAfterAll
    OBVIOUS
  <1>1. TypeOK /\ VerdictsKept => ReturnsAfterAll
    BY VerdictsMeanAllReturned
  <1> QED
    BY <1>1, VerdictsInvariant, PTL

\* Where poll() reports no negative codes, the parent's exit code is 0
\* exactly when no lane failed.
THEOREM ExitCodeHonestHolds ==
    /\ Distinct /\ ExitCodes \subseteq Nat /\ CrashCodes \subseteq Nat
    /\ Spec
    => []ExitCodeHonest
  <1> SUFFICES ASSUME Distinct, ExitCodes \subseteq Nat, CrashCodes \subseteq Nat
               PROVE  Spec => []ExitCodeHonest
    OBVIOUS
  <1>1. TypeOK /\ VerdictsKept => ExitCodeHonest
    BY LargestTellsFailures
  <1> QED
    BY <1>1, VerdictsInvariant, PTL

-----------------------------------------------------------------------------
(* The executor implements LaneRun *)

\* The variables RunsKept reads.
runVars == <<runs, recorded, status>>

\* A launched command is running until its exit code is recorded.
LEMMA NextKeepsRuns ==
    ASSUME Distinct, TypeOK, VerdictsKept, RunsKept, [Next]_vars
    PROVE  RunsKept'
  <1> USE DEF workVars, childVars, mainVars, reporterVars, runVars
  <1>1. CASE LaunchNext
    <2>1. PICK c \in batch :
            /\ runs' = Append(runs, c)
            /\ status' = [status EXCEPT ![Declared[c]] = "running"]
      BY <1>1 DEF LaunchNext
    <2>2. c \in Commands /\ Declared[c] \in Names /\ recorded' = recorded
      BY <1>1, <2>1 DEF LaunchNext, TypeOK, Names
    <2>3. Launched' \subseteq Launched \cup {c}
      BY <2>1, <2>2 DEF Launched, TypeOK
    <2>4. \A d \in Launched : d \in Commands /\ Declared[d] \in Names
      <3>1. \A d \in Launched : d \in Commands
        BY DEF Launched, TypeOK
      <3> QED
        BY <3>1 DEF Names
    <2> QED
      BY <2>1, <2>2, <2>3, <2>4 DEF RunsKept, TypeOK
  <1>2. CASE PollRecords
    <2> DEFINE c == runs[at]
               exit == Effective(c, code[c])
    <2>1. c \in Commands /\ Declared[c] \in Names
      <3>1. c \in Commands
        BY <1>2 DEF PollRecords, TypeOK
      <3> QED
        BY <3>1 DEF Names
    <2>2. /\ proc[c] = "exited" /\ runs' = runs
          /\ recorded' = [recorded EXCEPT ![c] = exit]
          /\ status' = [status EXCEPT
                          ![Declared[c]] = IF exit = 0 THEN "pass" ELSE "fail"]
      BY <1>2 DEF PollRecords, give_verdict
    <2> HIDE DEF c
    <2>3. exit # NoCode
      <3>1. code[c] \in Codes
        BY <2>1, <2>2 DEF VerdictsKept
      <3>2. code[c] \in Int
        <4>1. ExitCodes \cup CrashCodes \cup {0} \subseteq Int
          BY ExecutorAssumption
        <4> QED
          BY <3>1, <4>1 DEF Codes
      <3>3. exit \in Int
        BY <3>2 DEF Effective
      <3> QED
        BY <3>3, ExecutorAssumption
    <2> HIDE DEF exit
    <2>4. ASSUME NEW d \in Launched, recorded'[d] = NoCode
          PROVE  status'[Declared[d]] = "running"
      <3>1. d \in Commands /\ Declared[d] \in Names
        BY DEF Launched, TypeOK, Names
      <3>2. d # c
        BY <2>1, <2>2, <2>3, <2>4 DEF TypeOK
      <3>3. Declared[d] # Declared[c]
        BY <2>1, <3>1, <3>2 DEF Distinct
      <3> QED
        BY <2>1, <2>2, <2>4, <3>1, <3>2, <3>3 DEF RunsKept, TypeOK
    <2>5. Launched' = Launched
      BY <2>2 DEF Launched
    <2> QED
      BY <2>4, <2>5 DEF RunsKept
  <1>3. ASSUME UNCHANGED runVars
        PROVE  RunsKept'
    BY <1>3 DEF RunsKept, Launched
  <1>4. CASE \/ BeginIteration \/ LeaveLoop \/ LaunchesDone \/ DrainOne
             \/ DrainEmpty \/ PollSkips \/ PollDone \/ LoopRaises
             \/ JoinReader \/ JoinsDone \/ Report \/ UNCHANGED vars
    BY <1>3, <1>4
       DEF BeginIteration, LeaveLoop, LaunchesDone, DrainOne, DrainEmpty,
           PollSkips, PollDone, LoopRaises, JoinReader, JoinsDone, Report, vars
  <1>5. ASSUME NEW c \in Commands, ChildStep(c) \/ ReaderStep(c)
        PROVE  RunsKept'
    BY <1>3, <1>5
       DEF ChildStep, ChildWrite, ChildExit, ChildCrash, ChildEnds,
           ReaderStep, ReaderRead, ReaderDies, ReaderEOF
  <1> QED
    BY <1>1, <1>2, <1>4, <1>5 DEF Next, MainStep, Over

\* A launch is a Start: the lane was pending, and it fits the cap.
LEMMA LaunchIsStart ==
    ASSUME Distinct, TypeOK, SlotsKept, VerdictsKept, LaunchNext
    PROVE  \E c \in Commands : Promise!Start(c)
  <1>1. PICK c \in batch :
          status' = [status EXCEPT ![Declared[c]] = "running"]
    BY DEF LaunchNext
  <1>2. pc = "launch" /\ pc' = "launch"
    BY DEF LaunchNext
  <1>3. c \in Commands /\ Declared[c] \in Names /\ c \in pending
    BY <1>1, <1>2 DEF TypeOK, Names, VerdictsKept
  <1>4. LaneView[c] = "pending"
    BY <1>3 DEF LaneView, VerdictsKept
  <1>5. LaneView' = [LaneView EXCEPT ![c] = "running"]
    BY <1>1, <1>3 DEF LaneView, TypeOK, Names, Distinct
  <1>6. OutcomeView = "open" /\ OutcomeView' = "open"
    BY <1>2 DEF OutcomeView
  <1> DEFINE Busy == {d \in Commands : LaneView[d] = "running"}
             laneOf == [d \in Busy |-> Declared[d]]
  <1>7. laneOf \in Injection(Busy, running)
    BY DEF Injection, IsInjective, LaneView, VerdictsKept, Distinct, Names
  <1>8. /\ IsFiniteSet(Busy) /\ Cardinality(Busy) <= Cardinality(running)
        /\ Cardinality(Busy) \in Nat
    <2> HIDE DEF Busy, laneOf
    <2> QED
      BY <1>7, FiniteWork, FS_Injection, FS_CardinalityType
  <1>9. Cardinality(batch) # 0
    BY <1>1, FiniteWork, FS_EmptySet
  <1>10. Cardinality(Busy) < MaxWorkers
    BY <1>2, <1>8, <1>9, FiniteWork, ExecutorAssumption DEF SlotsKept
  <1>11. Promise!Start(c)
    <2>1. Promise!RunningLanes = Busy
      BY DEF Promise!RunningLanes
    <2> HIDE DEF Busy, laneOf
    <2>2. Promise!Cardinality(Busy) = Cardinality(Busy)
      BY DEF Promise!Cardinality, Cardinality
    <2> QED
      BY <1>4, <1>5, <1>6, <1>10, <2>1, <2>2 DEF Promise!Start
  <1> QED
    BY <1>3, <1>11

\* Recording an exit code is a Finish.
LEMMA PollIsFinish ==
    ASSUME Distinct, TypeOK, RunsKept, PollRecords
    PROVE  \E c \in Commands, verdict \in Promise!Verdicts :
             Promise!Finish(c, verdict)
  <1> DEFINE c == runs[at]
             verdict == IF Effective(c, code[c]) = 0 THEN "pass" ELSE "fail"
  <1>1. c \in Commands /\ c \in Launched
    BY DEF PollRecords, TypeOK, Launched
  <1>2. /\ recorded[c] = NoCode /\ pc = "poll" /\ pc' = "poll"
        /\ status' = [status EXCEPT ![Declared[c]] = verdict]
    BY DEF PollRecords, give_verdict
  <1>3. verdict \in Promise!Verdicts
    BY DEF Promise!Verdicts
  <1> HIDE DEF c, verdict
  <1>4. LaneView[c] = "running"
    BY <1>1, <1>2 DEF LaneView, RunsKept
  <1>5. LaneView' = [LaneView EXCEPT ![c] = verdict]
    BY <1>1, <1>2 DEF LaneView, TypeOK, Names, Distinct
  <1>6. OutcomeView = "open" /\ OutcomeView' = "open"
    BY <1>2 DEF OutcomeView
  <1>7. Promise!Finish(c, verdict)
    BY <1>4, <1>5, <1>6 DEF Promise!Finish
  <1> QED
    BY <1>1, <1>3, <1>7

\* Returning is Conclude: green exactly when every lane passed.
LEMMA ReportIsConclude ==
    ASSUME ExitCodes \subseteq Nat, CrashCodes \subseteq Nat,
           TypeOK, TypeOK', VerdictsKept, VerdictsKept', Report
    PROVE  Promise!Conclude
  <1>1. pc = "report" /\ pc' = "done" /\ status' = status /\ finished = Names
    BY DEF Report, VerdictsKept
  <1>2. OutcomeView = "open"
    BY <1>1 DEF OutcomeView
  <1>3. OutcomeView' = IF returned' = 0 THEN "green" ELSE "red"
    BY <1>1 DEF OutcomeView
  <1>4. LaneView' = LaneView
    BY <1>1 DEF LaneView
  <1>5. \A c \in Commands : LaneView[c] \in {"pass", "fail"}
    BY <1>1 DEF LaneView, VerdictsKept, Names
  <1>6. ExitCodeHonest'
    <2>1. (TypeOK /\ VerdictsKept => ExitCodeHonest)'
      BY LargestTellsFailures, PTL
    <2> QED
      BY <2>1
  <1>7. \A c \in Commands : ~Failed(c)' <=> LaneView[c] = "pass"
    <2> TAKE c \in Commands
    <2>1. /\ proc' = proc /\ code' = code
          /\ proc[c] = "exited" /\ Declared[c] \in finished
          /\ laneExit[Declared[c]] = Effective(c, code[c])
      BY <1>1 DEF Report, childVars, VerdictsKept, Names
    <2>2. status[Declared[c]] = "pass" <=> laneExit[Declared[c]] = 0
      BY <2>1 DEF VerdictsKept, TypeOK
    <2> QED
      BY <2>1, <2>2 DEF Failed, Effective, LaneView
  <1>8. returned' = 0 <=> \A c \in Commands : LaneView[c] = "pass"
    BY <1>1, <1>6, <1>7 DEF ExitCodeHonest
  <1> QED
    BY <1>2, <1>3, <1>4, <1>5, <1>8 DEF Promise!Conclude, Promise!Verdicts

\* Every step of the executor is a step of LaneRun or leaves it unchanged.
LEMMA StepIsPromised ==
    ASSUME Distinct, ExitCodes \subseteq Nat, CrashCodes \subseteq Nat,
           TypeOK, TypeOK', VerdictsKept, VerdictsKept',
           SlotsKept, RunsKept, [Next]_vars
    PROVE  [Promise!Next]_Promise!vars
  <1> USE DEF workVars, childVars, mainVars, reporterVars
  <1>1. CASE LaunchNext
    BY <1>1, LaunchIsStart DEF Promise!Next
  <1>2. CASE PollRecords
    BY <1>2, PollIsFinish DEF Promise!Next
  <1>3. CASE Report
    BY <1>3, ReportIsConclude DEF Promise!Next
  <1>4. ASSUME status' = status, OutcomeView' = OutcomeView
        PROVE  UNCHANGED Promise!vars
    BY <1>4 DEF LaneView, Promise!vars
  <1>5. CASE JoinsDone
    <2>1. status' = status
      BY <1>5 DEF JoinsDone
    <2>2. CASE pc = "raising"
      <3>1. OutcomeView = "open" /\ OutcomeView' = "raised"
        BY <1>5, <2>2 DEF JoinsDone, OutcomeView
      <3>2. LaneView' = LaneView
        BY <2>1 DEF LaneView
      <3> QED
        BY <3>1, <3>2 DEF Promise!Next, Promise!Raise
    <2>3. CASE pc = "join"
      <3>1. OutcomeView' = OutcomeView
        BY <1>5, <2>3 DEF JoinsDone, OutcomeView
      <3> QED
        BY <1>4, <2>1, <3>1
    <2> QED
      BY <1>5, <2>2, <2>3 DEF JoinsDone
  <1>6. CASE \/ BeginIteration \/ LeaveLoop \/ LaunchesDone \/ DrainOne
             \/ DrainEmpty \/ PollSkips \/ PollDone \/ LoopRaises
             \/ JoinReader
    <2>1. /\ pc # "done" /\ pc # "raised" /\ pc' # "done" /\ pc' # "raised"
          /\ status' = status
      BY <1>6 DEF BeginIteration, LeaveLoop, LaunchesDone, DrainOne,
                  DrainEmpty, PollSkips, PollDone, LoopRaises, JoinReader
    <2> QED
      BY <1>4, <2>1 DEF OutcomeView
  <1>7. ASSUME UNCHANGED <<pc, returned, status>>
        PROVE  UNCHANGED Promise!vars
    BY <1>4, <1>7 DEF OutcomeView
  <1>8. ASSUME NEW c \in Commands, ChildStep(c) \/ ReaderStep(c)
        PROVE  UNCHANGED Promise!vars
    BY <1>7, <1>8
       DEF ChildStep, ChildWrite, ChildExit, ChildCrash, ChildEnds,
           ReaderStep, ReaderRead, ReaderDies, ReaderEOF
  <1>9. CASE UNCHANGED vars
    BY <1>7, <1>9 DEF vars
  <1> QED
    BY <1>1, <1>2, <1>3, <1>5, <1>6, <1>8, <1>9 DEF Next, MainStep, Over

\* The executor keeps every promise of LaneRun: started once, within the cap,
\* judged once, and green exactly when every lane is green.
THEOREM ExecutorImplementsLaneRun ==
    /\ Distinct /\ ExitCodes \subseteq Nat /\ CrashCodes \subseteq Nat
    /\ Spec
    => ImplementsLaneRun
  <1> SUFFICES ASSUME Distinct, ExitCodes \subseteq Nat, CrashCodes \subseteq Nat
               PROVE  Spec => Promise!Spec
    BY DEF ImplementsLaneRun
  <1> DEFINE IInv == TypeOK /\ SlotsKept /\ VerdictsKept /\ RunsKept
  <1>1. Init => IInv
    BY InitTypes, InitSlots, InitVerdicts DEF Init, RunsKept, Launched
  <1>2. IInv /\ [Next]_vars => IInv'
    BY NextKeepsTypes, NextKeepsSlots, NextKeepsVerdicts, NextKeepsRuns
  <1>3. Init => Promise!Init
    BY DEF Init, Promise!Init, LaneView, OutcomeView, Names
  <1>4. IInv /\ IInv' /\ [Next]_vars => [Promise!Next]_Promise!vars
    BY StepIsPromised
  <1> QED
    BY <1>1, <1>2, <1>3, <1>4, PTL DEF Spec, Promise!Spec

-----------------------------------------------------------------------------
(* Slots *)

\* ready_to_launch leaves no slot free while a command is left behind: the
\* first one left behind has as many before it as there are free slots, and
\* all of those are offered.
LEMMA ReadyFills ==
    ASSUME TypeOK, ready_to_launch # pending
    PROVE  Cardinality(ready_to_launch) >= FreeSlots
  <1> DEFINE rank(c) == Cardinality(Before(c, pending))
             behind == pending \ ready_to_launch
             ranks == {rank(c) : c \in behind}
  <1>1. /\ IsFiniteSet(pending) /\ pending \subseteq Commands
        /\ ready_to_launch \subseteq pending
    BY FiniteNames, FS_Subset DEF TypeOK, ready_to_launch
  <1>2. \A c \in pending : IsFiniteSet(Before(c, pending)) /\ rank(c) \in Nat
    BY <1>1, FS_Subset, FS_CardinalityType DEF Before
  <1>3. PICK least \in ranks : \A k \in ranks : least <= k
    <2>1. ranks \in SUBSET Nat
      BY <1>2
    <2>2. ranks # {}
      BY <1>1
    <2> HIDE DEF ranks
    <2> QED
      BY <2>1, <2>2, LeastNat
  <1>4. PICK d \in behind : least = rank(d)
    BY <1>3
  <1>5. d \in pending /\ rank(d) >= FreeSlots
    BY <1>2, <1>4, ReadyFits DEF ready_to_launch
  <1>6. Before(d, pending) \subseteq ready_to_launch
    <2> SUFFICES ASSUME NEW c \in pending, Precedes(c, d), c \notin ready_to_launch
                 PROVE  FALSE
      BY DEF Before
    <2>1. rank(c) < rank(d) /\ rank(c) \in Nat /\ rank(d) \in Nat
      BY <1>5, RankGrows
    <2>2. rank(d) <= rank(c)
      BY <1>3, <1>4
    <2> HIDE DEF rank
    <2> QED
      BY <2>1, <2>2
  <1>7. /\ Cardinality(ready_to_launch) >= rank(d)
        /\ Cardinality(ready_to_launch) \in Nat
    BY <1>6, ReadyFits, FS_Subset, FS_CardinalityType
  <1> QED
    BY <1>2, <1>5, <1>7, ReadyFits

\* Every launch takes the slot it was offered.
LEMMA NextKeepsSlotsFilled ==
    ASSUME Distinct, TypeOK, SlotsKept, VerdictsKept, SlotsFilled, [Next]_vars
    PROVE  SlotsFilled'
  <1> USE DEF workVars, childVars, mainVars, slotVars
  <1>1. CASE BeginIteration
    <2>1. /\ batch' = ready_to_launch /\ UNCHANGED <<running, pending>>
          /\ pc' = "launch"
      BY <1>1 DEF BeginIteration
    <2>2. Cardinality(running) + FreeSlots = MaxWorkers
      BY FiniteWork, ExecutorAssumption DEF SlotsKept, FreeSlots
    <2>3. Cardinality(ready_to_launch) \in Nat
      BY ReadyFits, FS_CardinalityType
    <2>4. ready_to_launch # pending
            => Cardinality(running) + Cardinality(ready_to_launch) >= MaxWorkers
      BY <2>2, <2>3, ReadyFills, ReadyFits, FiniteWork, ExecutorAssumption
    <2> QED
      BY <2>1, <2>4 DEF SlotsFilled
  <1>2. CASE LaunchNext
    <2>1. PICK c \in batch :
            /\ batch' = batch \ {c}
            /\ running' = running \cup {Declared[c]}
            /\ pending' = {d \in pending : Declared[d] # Declared[c]}
      BY <1>2 DEF LaunchNext, mark_launched
    <2>2. pc = "launch" /\ pc' = "launch"
      BY <1>2 DEF LaunchNext
    <2>3. c \in pending /\ c \in Commands /\ Declared[c] \in Names
      BY <2>1, <2>2 DEF VerdictsKept, TypeOK, Names
    <2>4. Declared[c] \notin running
      BY <2>3 DEF VerdictsKept
    <2>5. pending' = pending \ {c}
      BY <2>1, <2>3 DEF Distinct, TypeOK
    <2>6. Cardinality(running') = Cardinality(running) + 1
      BY <2>1, <2>4, FiniteWork, FS_AddElement
    <2>7. Cardinality(batch') = Cardinality(batch) - 1
      BY <2>1, FiniteWork, FS_RemoveElement
    <2> QED
      BY <2>1, <2>2, <2>5, <2>6, <2>7, FiniteWork, ExecutorAssumption
         DEF SlotsFilled
  <1>3. CASE LaunchesDone
    <2>1. /\ pc = "launch" /\ pc' = "drain" /\ batch = {}
          /\ UNCHANGED <<running, pending>>
      BY <1>3 DEF LaunchesDone
    <2> QED
      BY <2>1, FS_EmptySet, FiniteWork, ExecutorAssumption DEF SlotsFilled
  <1>4. ASSUME UNCHANGED <<pending, batch, running>>,
               pc' \in {"launch", "drain"} => pc' = pc
        PROVE  SlotsFilled'
    BY <1>4 DEF SlotsFilled
  <1>5. CASE \/ LeaveLoop \/ DrainOne \/ DrainEmpty \/ PollSkips \/ PollDone
             \/ LoopRaises \/ JoinReader \/ JoinsDone \/ Report \/ UNCHANGED vars
    BY <1>4, <1>5
       DEF LeaveLoop, DrainOne, DrainEmpty, PollSkips, PollDone, LoopRaises,
           JoinReader, JoinsDone, Report, vars
  <1>6. CASE PollRecords
    BY <1>6 DEF PollRecords, SlotsFilled
  <1>7. ASSUME NEW c \in Commands, ChildStep(c) \/ ReaderStep(c)
        PROVE  SlotsFilled'
    BY <1>4, <1>7
       DEF ChildStep, ChildWrite, ChildExit, ChildCrash, ChildEnds,
           ReaderStep, ReaderRead, ReaderDies, ReaderEOF
  <1> QED
    BY <1>1, <1>2, <1>3, <1>5, <1>6, <1>7 DEF Next, MainStep, Over

\* With distinct lane names, no worker slot stands idle while a lane waits.
THEOREM NoIdleSlotHolds == Distinct /\ Spec => []NoIdleSlot
  <1> SUFFICES ASSUME Distinct
               PROVE  Spec => []NoIdleSlot
    OBVIOUS
  <1> DEFINE IInv == TypeOK /\ SlotsKept /\ VerdictsKept /\ SlotsFilled
  <1>1. Init => IInv
    BY InitTypes, InitSlots, InitVerdicts DEF Init, SlotsFilled
  <1>2. IInv /\ [Next]_vars => IInv'
    BY NextKeepsTypes, NextKeepsSlots, NextKeepsVerdicts, NextKeepsSlotsFilled
  <1>3. IInv => NoIdleSlot
    BY DEF SlotsFilled, NoIdleSlot
  <1> QED
    BY <1>1, <1>2, <1>3, PTL DEF Spec

-----------------------------------------------------------------------------
(* Lines on their way *)

\* The variables OutputAccounted and ReadersKept read.
outputVars == <<proc, written, pipe, reader, outq, captured>>

\* What OutputAccounted says of one command.
LinesOf(c) ==
    LET l == Declared[c]
        got == Len(captured[l])
        sent == written[c] - Len(pipe[c])
    IN  /\ got <= sent
        /\ captured[l] = [n \in 1..got |-> n]
        /\ {outq[i].line : i \in QueuedAt(l)} = (got + 1)..sent
        /\ \A i, j \in QueuedAt(l) : i < j => outq[i].line < outq[j].line
        /\ pipe[c] = [n \in 1..Len(pipe[c]) |-> sent + n]

\* OutputAccounted, command by command.
LEMMA AccountedByCommand ==
    OutputAccounted <=> \A c \in Commands : reader[c] # "died" => LinesOf(c)
  BY DEF OutputAccounted, LinesOf

\* A sequence that counts up from m still does with one more.
LEMMA CountOn ==
    ASSUME NEW s \in Seq(Nat), NEW m \in Int, s = [n \in 1..Len(s) |-> m + n]
    PROVE  LET t == Append(s, m + Len(s) + 1)
           IN  t = [n \in 1..Len(t) |-> m + n]
  OBVIOUS

\* Its head and its tail.
LEMMA CountOff ==
    ASSUME NEW s \in Seq(Nat), NEW m \in Int, s = [n \in 1..Len(s) |-> m + n],
           s # <<>>
    PROVE  /\ Head(s) = m + 1 /\ Len(Tail(s)) = Len(s) - 1
           /\ Tail(s) = [n \in 1..Len(Tail(s)) |-> (m + 1) + n]
  <1>1. /\ Len(s) \in Nat /\ Len(s) >= 1 /\ Len(Tail(s)) = Len(s) - 1
        /\ Head(s) = s[1]
        /\ Tail(s) = [n \in 1..(Len(s) - 1) |-> s[n + 1]]
    <2>1. Len(s) \in Nat /\ Len(s) >= 1
      OBVIOUS
    <2>2. Head(s) = s[1]
      OBVIOUS
    <2>3. Tail(s) \in Seq(Nat) /\ Len(Tail(s)) = Len(s) - 1
      BY <2>1
    <2>4. \A n \in 1..(Len(s) - 1) : Tail(s)[n] = s[n + 1]
      BY <2>1
    <2>5. Tail(s) \in [1..(Len(s) - 1) -> Nat]
      <3>1. Tail(s) \in [1..Len(Tail(s)) -> Nat]
        BY <2>3, LenProperties
      <3> QED
        BY <2>3, <3>1
    <2> QED
      BY <2>1, <2>2, <2>3, <2>4, <2>5
  <1>2. \A n \in 1..(Len(s) - 1) : s[n + 1] = (m + 1) + n
    <2> TAKE n \in 1..(Len(s) - 1)
    <2>1. n + 1 \in 1..Len(s)
      BY <1>1
    <2>2. s[n + 1] = m + (n + 1)
      BY <2>1
    <2> QED
      BY <2>1, <2>2
  <1> QED
    BY <1>1, <1>2

\* A step that leaves a command's lines where they are.
LEMMA LinesUndisturbed ==
    ASSUME NEW c \in Commands, LinesOf(c), UNCHANGED outq,
           written'[c] = written[c], pipe'[c] = pipe[c],
           captured'[Declared[c]] = captured[Declared[c]]
    PROVE  LinesOf(c)'
  BY DEF LinesOf, QueuedAt

\* The reader moves a line from the head of the pipe to the end of the queue.
LEMMA LineEnters ==
    ASSUME Distinct, TypeOK, NEW c \in Commands, ReaderRead(c), LinesOf(c)
    PROVE  LinesOf(c)'
  <1> DEFINE l == Declared[c]
             line == Head(pipe[c])
             entry == [lane |-> l, line |-> line]
             got == Len(captured[l])
             sent == written[c] - Len(pipe[c])
             k == Len(outq) + 1
  <1>1. /\ pipe[c] \in Seq(Nat) /\ pipe[c] # <<>> /\ written[c] \in Nat
        /\ l \in Names /\ captured[l] \in Seq(Nat)
        /\ outq \in Seq([lane : Names, line : Nat])
    BY DEF ReaderRead, TypeOK, Names
  <1>2. sent \in Int /\ got \in Nat
    BY <1>1
  <1> HIDE DEF sent
  <1>13. pipe[c] = [n \in 1..Len(pipe[c]) |-> sent + n]
    BY DEF LinesOf, sent
  <1>3. line = sent + 1 /\ line \in Nat
    <2>1. line = sent + 1
      BY <1>1, <1>2, <1>13, CountOff
    <2> QED
      BY <1>1, <2>1, HeadTailType
  <1>4. /\ Tail(pipe[c]) = [n \in 1..Len(Tail(pipe[c])) |-> (sent + 1) + n]
        /\ written[c] - Len(Tail(pipe[c])) = sent + 1
    <2>1. /\ Tail(pipe[c]) = [n \in 1..Len(Tail(pipe[c])) |-> (sent + 1) + n]
          /\ Len(Tail(pipe[c])) = Len(pipe[c]) - 1
      BY <1>1, <1>2, <1>13, CountOff
    <2> QED
      BY <1>1, <2>1 DEF sent
  <1>5. /\ pipe'[c] = Tail(pipe[c]) /\ outq' = Append(outq, entry)
        /\ UNCHANGED <<written, captured>>
    BY DEF ReaderRead, TypeOK, childVars, reporterVars
  <1>6. entry \in [lane : Names, line : Nat]
    BY <1>1, <1>3
  <1>7. /\ DOMAIN outq' = DOMAIN outq \cup {k} /\ k \notin DOMAIN outq
        /\ \A i \in DOMAIN outq : outq'[i] = outq[i] /\ i < k
        /\ outq'[k] = entry
    BY <1>1, <1>5, <1>6
  <1> HIDE DEF entry, k
  <1>8. QueuedAt(l)' = QueuedAt(l) \cup {k}
    BY <1>7 DEF QueuedAt, entry
  <1>9. {outq'[i].line : i \in QueuedAt(l)'} = (got + 1)..(sent + 1)
    <2>1. {outq'[i].line : i \in QueuedAt(l)'}
            = {outq[i].line : i \in QueuedAt(l)} \cup {line}
      BY <1>7, <1>8 DEF QueuedAt, entry
    <2>2. {outq[i].line : i \in QueuedAt(l)} = (got + 1)..sent /\ got <= sent
      BY DEF LinesOf, sent
    <2> HIDE DEF got, line
    <2>3. (got + 1)..(sent + 1) = ((got + 1)..sent) \cup {sent + 1}
      BY <1>2, <2>2
    <2> QED
      BY <1>3, <2>1, <2>2, <2>3
  <1>10. \A i, j \in QueuedAt(l)' : i < j => outq'[i].line < outq'[j].line
    <2>1. \A i \in QueuedAt(l) : outq[i].line \in (got + 1)..sent
      BY DEF LinesOf, sent
    <2>2. \A i \in QueuedAt(l) : i \in DOMAIN outq /\ i \in Nat
      BY <1>1 DEF QueuedAt
    <2>3. \A i, j \in QueuedAt(l) : i < j => outq[i].line < outq[j].line
      BY DEF LinesOf
    <2>4. outq'[k].line = sent + 1
      BY <1>3, <1>7 DEF entry
    <2>5. k \in Nat
      BY <1>1 DEF k
    <2> HIDE DEF got, line
    <2> QED
      BY <1>2, <1>7, <1>8, <2>1, <2>2, <2>3, <2>4, <2>5
  <1>11. got <= sent + 1 /\ captured[l] = [n \in 1..got |-> n]
    BY <1>2 DEF LinesOf, sent
  <1> QED
    BY <1>4, <1>5, <1>9, <1>10, <1>11, ZenonT(30) DEF LinesOf

\* A line of another lane in the queue changes nothing.
LEMMA OtherLineEnters ==
    ASSUME Distinct, TypeOK, NEW c \in Commands, NEW d \in Commands, d # c,
           ReaderRead(d), LinesOf(c)
    PROVE  LinesOf(c)'
  <1> DEFINE l == Declared[c]
             entry == [lane |-> Declared[d], line |-> Head(pipe[d])]
             k == Len(outq) + 1
  <1>1. /\ UNCHANGED <<written, captured>> /\ pipe'[c] = pipe[c]
        /\ outq' = Append(outq, entry)
    BY DEF ReaderRead, TypeOK, reporterVars
  <1>2. Declared[d] # l
    BY DEF Distinct
  <1>3. outq \in Seq([lane : Names, line : Nat]) /\ entry.lane # l
    BY <1>2 DEF TypeOK
  <1>4. /\ DOMAIN outq' = DOMAIN outq \cup {k}
        /\ \A i \in DOMAIN outq : outq'[i] = outq[i]
        /\ k \notin DOMAIN outq /\ outq'[k] = entry
    <2> HIDE DEF entry
    <2> QED
      BY <1>1, <1>3
  <1>5. QueuedAt(l)' = QueuedAt(l)
    BY <1>3, <1>4 DEF QueuedAt
  <1>6. \A i \in QueuedAt(l) : outq'[i] = outq[i]
    BY <1>4 DEF QueuedAt
  <1>7. /\ {outq'[i].line : i \in QueuedAt(l)'} = {outq[i].line : i \in QueuedAt(l)}
        /\ \A i, j \in QueuedAt(l)' : i < j => outq'[i].line < outq'[j].line
    BY <1>5, <1>6 DEF LinesOf
  <1> QED
    BY <1>1, <1>7 DEF LinesOf

\* The drain moves a line from the head of the queue to the captured lines:
\* if it is of this lane, the least one queued.
LEMMA LineLeaves ==
    ASSUME Distinct, TypeOK, NEW c \in Commands, DrainOne, LinesOf(c)
    PROVE  LinesOf(c)'
  <1> DEFINE l == Declared[c]
             got == Len(captured[l])
             sent == written[c] - Len(pipe[c])
             lane == Head(outq).lane
             line == Head(outq).line
  <1>1. /\ pipe[c] \in Seq(Nat) /\ written[c] \in Nat
        /\ l \in Names /\ captured[l] \in Seq(Nat)
        /\ outq \in Seq([lane : Names, line : Nat]) /\ outq # <<>>
    BY DEF DrainOne, TypeOK, Names
  <1>2. sent \in Int /\ got \in Nat /\ lane \in Names /\ line \in Nat
    <2>1. Head(outq) \in [lane : Names, line : Nat]
      BY <1>1, HeadTailType
    <2> QED
      BY <1>1, <2>1
  <1>3. /\ outq' = Tail(outq) /\ UNCHANGED <<written, pipe>>
        /\ captured' = [captured EXCEPT ![lane] = Append(@, line)]
    BY DEF DrainOne, childVars
  <1>4. /\ outq[1].lane = lane /\ outq[1].line = line /\ 1 \in DOMAIN outq
        /\ \A i \in DOMAIN outq : i \in Nat /\ i >= 1
        /\ \A i \in DOMAIN outq' : i + 1 \in DOMAIN outq /\ outq'[i] = outq[i + 1]
                                    /\ i \in Nat /\ i >= 1
        /\ \A i \in DOMAIN outq : i # 1 => i - 1 \in DOMAIN outq' /\ i - 1 + 1 = i
    BY <1>1, <1>3
  <1>5. \A i \in QueuedAt(l) : outq[i].line \in (got + 1)..sent
    BY DEF LinesOf
  <1>6. \A i, j \in QueuedAt(l) : i < j => outq[i].line < outq[j].line
    BY DEF LinesOf
  <1>7. \A n \in (got + 1)..sent : \E i \in QueuedAt(l) : outq[i].line = n
    BY DEF LinesOf
  <1>8. got <= sent /\ captured[l] = [n \in 1..got |-> n]
    BY DEF LinesOf
  <1>9. \A i \in QueuedAt(l)' : i + 1 \in QueuedAt(l) /\ i + 1 # 1 /\ i \in Nat
    <2> TAKE i \in QueuedAt(l)'
    <2>1. i \in DOMAIN outq' /\ outq'[i].lane = l
      BY DEF QueuedAt
    <2> QED
      BY <1>4, <2>1 DEF QueuedAt
  <1>10. \A i \in QueuedAt(l) : i # 1 => i - 1 \in QueuedAt(l)' /\ outq'[i - 1] = outq[i]
    BY <1>4 DEF QueuedAt
  <1>11. pipe'[c] = [n \in 1..Len(pipe'[c]) |-> sent + n]
    BY <1>3 DEF LinesOf
  <1>12. \A i, j \in QueuedAt(l)' : i < j => outq'[i].line < outq'[j].line
    BY <1>4, <1>6, <1>9 DEF QueuedAt
  <1>13. CASE lane # l
    <2>1. captured'[l] = captured[l] /\ 1 \notin QueuedAt(l)
      BY <1>1, <1>2, <1>3, <1>4, <1>13 DEF TypeOK, QueuedAt
    <2>2. {outq'[i].line : i \in QueuedAt(l)'} = (got + 1)..sent
      <3>1. \A i \in QueuedAt(l)' : outq'[i].line \in (got + 1)..sent
        BY <1>4, <1>5, <1>9 DEF QueuedAt
      <3>2. \A n \in (got + 1)..sent : \E i \in QueuedAt(l)' : outq'[i].line = n
        BY <1>7, <1>10, <2>1
      <3> QED
        BY <3>1, <3>2
    <2> QED
      BY <1>3, <1>8, <1>11, <1>12, <2>1, <2>2 DEF LinesOf
  <1>14. CASE lane = l
    <2>1. 1 \in QueuedAt(l)
      BY <1>4, <1>14 DEF QueuedAt
    <2>2. line = got + 1 /\ got + 1 <= sent
      <3>1. line \in (got + 1)..sent
        BY <1>4, <1>5, <2>1
      <3>2. PICK i \in QueuedAt(l) : outq[i].line = got + 1
        <4>1. got + 1 \in (got + 1)..sent
          <5>1. line \in Int /\ got + 1 <= line /\ line <= sent
            BY <1>2, <3>1
          <5> HIDE DEF line, got, sent
          <5> QED
            BY <1>2, <5>1
        <4> QED
          BY <1>7, <4>1
      <3>3. i = 1 \/ line < got + 1
        BY <1>4, <1>6, <2>1, <3>2 DEF QueuedAt
      <3> HIDE DEF line, got, sent
      <3> QED
        BY <1>2, <1>4, <3>1, <3>2, <3>3
    <2>3. captured'[l] = Append(captured[l], got + 1)
      BY <1>1, <1>3, <1>14, <2>2 DEF TypeOK
    <2>4. Len(captured'[l]) = got + 1 /\ captured'[l] = [n \in 1..(got + 1) |-> n]
      BY <1>1, <1>2, <1>8, <2>3
    <2>5. \A i \in QueuedAt(l)' : outq'[i].line \in (got + 2)..sent
      <3> TAKE i \in QueuedAt(l)'
      <3>1. /\ i + 1 \in QueuedAt(l) /\ outq'[i].line = outq[i + 1].line
            /\ 1 < i + 1
        BY <1>4, <1>9 DEF QueuedAt
      <3>2. outq[1].line < outq[i + 1].line
        BY <1>6, <2>1, <3>1
      <3>3. outq[i + 1].line \in (got + 1)..sent
        BY <1>5, <3>1
      <3> HIDE DEF line, got, sent
      <3> QED
        BY <1>2, <1>4, <2>2, <3>1, <3>2, <3>3
    <2>6. \A n \in (got + 2)..sent : \E i \in QueuedAt(l)' : outq'[i].line = n
      <3> TAKE n \in (got + 2)..sent
      <3>1. PICK i \in QueuedAt(l) : outq[i].line = n
        BY <1>2, <1>7
      <3>2. i # 1
        BY <1>2, <1>4, <2>2, <3>1
      <3> QED
        BY <1>10, <3>1, <3>2
    <2>7. {outq'[i].line : i \in QueuedAt(l)'} = (got + 2)..sent
      BY <2>5, <2>6
    <2>8. (got + 1) + 1 = got + 2
      BY <1>2
    <2> HIDE DEF got, sent
    <2> QED
      BY <1>3, <1>11, <1>12, <2>2, <2>4, <2>7, <2>8 DEF LinesOf, sent
  <1> QED
    BY <1>13, <1>14

\* The process adds a line at the end of the pipe.
LEMMA LineWritten ==
    ASSUME TypeOK, NEW c \in Commands, ChildWrite(c), LinesOf(c)
    PROVE  LinesOf(c)'
  <1> DEFINE l == Declared[c]
             sent == written[c] - Len(pipe[c])
  <1>1. /\ pipe[c] \in Seq(Nat) /\ written[c] \in Nat
        /\ pipe'[c] = Append(pipe[c], written[c] + 1)
        /\ written'[c] = written[c] + 1
        /\ UNCHANGED <<outq, captured>>
    BY DEF ChildWrite, TypeOK, reporterVars
  <1>2. /\ sent \in Int /\ written[c] = sent + Len(pipe[c])
        /\ pipe[c] = [n \in 1..Len(pipe[c]) |-> sent + n]
    BY <1>1 DEF LinesOf
  <1>3. /\ pipe'[c] = [n \in 1..Len(pipe'[c]) |-> sent + n]
        /\ written'[c] - Len(pipe'[c]) = sent
    <2> HIDE DEF sent
    <2>1. Append(pipe[c], written[c] + 1)
            = [n \in 1..Len(Append(pipe[c], written[c] + 1)) |-> sent + n]
      BY <1>1, <1>2, CountOn
    <2> QED
      BY <1>1, <1>2, <2>1
  <1>4. QueuedAt(l)' = QueuedAt(l)
    BY <1>1 DEF QueuedAt
  <1>5. /\ {outq'[i].line : i \in QueuedAt(l)'} = (Len(captured[l]) + 1)..sent
        /\ \A i, j \in QueuedAt(l)' : i < j => outq'[i].line < outq'[j].line
    BY <1>1, <1>4 DEF LinesOf
  <1>6. /\ Len(captured[l]) <= sent
        /\ captured[l] = [n \in 1..Len(captured[l]) |-> n]
    BY DEF LinesOf
  <1> HIDE DEF sent
  <1> QED
    BY <1>1, <1>3, <1>5, <1>6 DEF LinesOf

\* Every step keeps the lines of every lane accounted for.
LEMMA NextKeepsLines ==
    ASSUME Distinct, TypeOK, VerdictsKept, ReadersKept, OutputAccounted,
           [Next]_vars
    PROVE  OutputAccounted'
  <1> SUFFICES ASSUME NEW c \in Commands, reader'[c] # "died"
               PROVE  LinesOf(c)'
    BY DEF OutputAccounted, LinesOf
  <1> USE DEF childVars, reporterVars
  <1>1. reader[c] # "died" => LinesOf(c)
    BY AccountedByCommand
  <1>2. CASE LaunchNext
    <2>1. PICK d \in batch : reader' = [reader EXCEPT ![d] = "reading"]
      BY <1>2 DEF LaunchNext
    <2>2. d \in Commands /\ reader[d] = "none"
      BY <1>2, <2>1 DEF LaunchNext, VerdictsKept, ReadersKept, TypeOK
    <2>3. reader[c] # "died"
      BY <2>1, <2>2 DEF TypeOK
    <2>4. UNCHANGED <<outq, written, pipe, captured>>
      BY <1>2 DEF LaunchNext
    <2> QED
      BY <1>1, <2>3, <2>4, LinesUndisturbed
  <1>3. CASE DrainOne
    <2>1. UNCHANGED reader
      BY <1>3 DEF DrainOne
    <2> QED
      BY <1>1, <1>3, <2>1, LineLeaves
  <1>4. ASSUME UNCHANGED outputVars, UNCHANGED reader
        PROVE  LinesOf(c)'
    BY <1>1, <1>4, LinesUndisturbed DEF outputVars
  <1>5. CASE \/ BeginIteration \/ LeaveLoop \/ LaunchesDone \/ DrainEmpty
             \/ PollSkips \/ PollRecords \/ PollDone \/ LoopRaises
             \/ JoinReader \/ JoinsDone \/ Report \/ UNCHANGED vars
    BY <1>4, <1>5
       DEF BeginIteration, LeaveLoop, LaunchesDone, DrainEmpty, PollSkips,
           PollRecords, PollDone, LoopRaises, JoinReader, JoinsDone, Report,
           vars, outputVars
  <1>6. ASSUME NEW d \in Commands, ChildExit(d) \/ ChildCrash(d)
        PROVE  LinesOf(c)'
    <2>1. UNCHANGED <<outq, written, pipe, captured, reader>>
      BY <1>6 DEF ChildExit, ChildCrash, ChildEnds
    <2> QED
      BY <1>1, <2>1, LinesUndisturbed
  <1>7. ASSUME NEW d \in Commands, ChildWrite(d)
        PROVE  LinesOf(c)'
    <2>1. /\ UNCHANGED <<outq, captured, reader>>
          /\ d # c => written'[c] = written[c] /\ pipe'[c] = pipe[c]
      BY <1>7 DEF ChildWrite, TypeOK
    <2> QED
      BY <1>1, <1>7, <2>1, LineWritten, LinesUndisturbed
  <1>8. ASSUME NEW d \in Commands, ReaderRead(d)
        PROVE  LinesOf(c)'
    <2>1. UNCHANGED reader
      BY <1>8 DEF ReaderRead
    <2>2. CASE d = c
      BY <1>1, <1>8, <2>1, <2>2, LineEnters
    <2>3. CASE d # c
      BY <1>1, <1>8, <2>1, <2>3, OtherLineEnters
    <2> QED
      BY <2>2, <2>3
  <1>9. ASSUME NEW d \in Commands, ReaderDies(d)
        PROVE  LinesOf(c)'
    <2>1. /\ UNCHANGED <<outq, captured, written>>
          /\ d # c /\ reader[c] # "died" /\ pipe'[c] = pipe[c]
      BY <1>9 DEF ReaderDies, TypeOK
    <2> QED
      BY <1>1, <2>1, LinesUndisturbed
  <1>10. ASSUME NEW d \in Commands, ReaderEOF(d)
         PROVE  LinesOf(c)'
    <2>1. UNCHANGED <<outq, captured, written, pipe>> /\ reader[c] # "died"
      BY <1>10 DEF ReaderEOF, TypeOK
    <2> QED
      BY <1>1, <2>1, LinesUndisturbed
  <1> QED
    BY <1>2, <1>3, <1>5, <1>6, <1>7, <1>8, <1>9, <1>10
       DEF Next, MainStep, ChildStep, ReaderStep, Over

\* Readers begin with their processes and end after them.
LEMMA NextKeepsReaders ==
    ASSUME TypeOK, VerdictsKept, ReadersKept, [Next]_vars
    PROVE  ReadersKept'
  <1> USE DEF childVars, reporterVars
  <1>1. CASE LaunchNext
    <2>1. PICK d \in batch : /\ reader' = [reader EXCEPT ![d] = "reading"]
                             /\ proc' = [proc EXCEPT ![d] = "alive"]
                             /\ UNCHANGED pipe
      BY <1>1 DEF LaunchNext
    <2>2. d \in Commands /\ reader[d] = "none"
      BY <1>1, <2>1 DEF LaunchNext, VerdictsKept, ReadersKept, TypeOK
    <2> QED
      BY <2>1, <2>2 DEF ReadersKept, TypeOK
  <1>2. ASSUME UNCHANGED <<proc, reader, pipe>>
        PROVE  ReadersKept'
    BY <1>2 DEF ReadersKept
  <1>3. CASE \/ BeginIteration \/ LeaveLoop \/ LaunchesDone \/ DrainEmpty
             \/ DrainOne \/ PollSkips \/ PollRecords \/ PollDone \/ LoopRaises
             \/ JoinReader \/ JoinsDone \/ Report \/ UNCHANGED vars
    BY <1>2, <1>3
       DEF BeginIteration, LeaveLoop, LaunchesDone, DrainEmpty, DrainOne,
           PollSkips, PollRecords, PollDone, LoopRaises, JoinReader, JoinsDone,
           Report, vars
  <1>4. ASSUME NEW d \in Commands, ChildStep(d)
        PROVE  ReadersKept'
    BY <1>4 DEF ChildStep, ChildWrite, ChildExit, ChildCrash, ChildEnds,
                ReadersKept, TypeOK
  <1>5. ASSUME NEW d \in Commands, ReaderStep(d)
        PROVE  ReadersKept'
    BY <1>5 DEF ReaderStep, ReaderRead, ReaderDies, ReaderEOF, ReadersKept, TypeOK
  <1> QED
    BY <1>1, <1>3, <1>4, <1>5 DEF Next, MainStep, Over

\* What a run keeps of its output, an inductive invariant.
LinesInv == TypeOK /\ VerdictsKept /\ ReadersKept /\ OutputAccounted

\* Nothing is written yet.
LEMMA InitLines == Init => LinesInv
  <1> SUFFICES ASSUME Init
               PROVE  LinesInv
    OBVIOUS
  <1>1. TypeOK /\ VerdictsKept /\ ReadersKept
    BY InitTypes, InitVerdicts DEF Init, ReadersKept
  <1>2. ASSUME NEW c \in Commands
        PROVE  LinesOf(c)
    <2>1. /\ Declared[c] \in Names
          /\ captured[Declared[c]] = <<>> /\ written[c] = 0 /\ pipe[c] = <<>>
          /\ outq = <<>>
      BY DEF Init, Names
    <2>2. QueuedAt(Declared[c]) = {}
      BY <2>1 DEF QueuedAt
    <2>3. Len(<<>>) = 0 /\ 1..0 = {} /\ (0 + 1)..(0 - 0) = {}
      OBVIOUS
    <2> QED
      BY <2>1, <2>2, <2>3 DEF LinesOf
  <1> QED
    BY <1>1, <1>2, AccountedByCommand DEF LinesInv

\* The invariant holds throughout.
LEMMA LinesInvariant == Distinct /\ Spec => []LinesInv
  <1> SUFFICES ASSUME Distinct
               PROVE  Spec => []LinesInv
    OBVIOUS
  <1>1. LinesInv /\ [Next]_vars => LinesInv'
    BY NextKeepsTypes, NextKeepsVerdicts, NextKeepsReaders, NextKeepsLines
       DEF LinesInv
  <1> QED
    BY <1>1, InitLines, PTL DEF Spec

\* With distinct lane names, no line is lost, doubled or swapped on its way
\* from a lane's process to the reporter while its reader thread lives.
THEOREM OutputAccountedHolds == Distinct /\ Spec => []OutputAccounted
  <1> SUFFICES ASSUME Distinct
               PROVE  Spec => []OutputAccounted
    OBVIOUS
  <1>1. LinesInv => OutputAccounted
    BY DEF LinesInv
  <1> QED
    BY <1>1, LinesInvariant, PTL

\* With distinct lane names, the last drain leaves the reporter with all that
\* a lane wrote, if the lane's reader was at the end of the pipe by then.
THEOREM FinalDrainIsWholeHolds == Distinct /\ Spec => FinalDrainIsWhole
  <1> SUFFICES ASSUME Distinct
               PROVE  Spec => FinalDrainIsWhole
    OBVIOUS
  <1>1. ASSUME LinesInv, pc = "finalDrain", pc' = "join", [Next]_vars,
               NEW c \in Commands, reader[c] = "closed"
        PROVE  Len(captured[Declared[c]]) = written[c]
    <2>1. outq = <<>>
      BY <1>1 DEF Next, MainStep, BeginIteration, LeaveLoop, LaunchNext,
                  LaunchesDone, DrainOne, DrainEmpty, PollSkips, PollRecords,
                  PollDone, LoopRaises, JoinReader, JoinsDone, Report, ChildStep,
                  ChildWrite, ChildExit, ChildCrash, ChildEnds, ReaderStep,
                  ReaderRead, ReaderDies, ReaderEOF, Over, vars, mainVars
    <2>2. QueuedAt(Declared[c]) = {}
      BY <2>1 DEF QueuedAt
    <2>3. pipe[c] = <<>> /\ LinesOf(c)
      BY <1>1, AccountedByCommand DEF LinesInv, ReadersKept
    <2>4. written[c] \in Nat /\ Len(captured[Declared[c]]) \in Nat
      BY <1>1 DEF LinesInv, TypeOK, Names
    <2>5. written[c] - Len(pipe[c]) = written[c]
      BY <2>3, <2>4
    <2>6. /\ Len(captured[Declared[c]]) <= written[c]
          /\ (Len(captured[Declared[c]]) + 1)..written[c] = {}
      BY <2>2, <2>3, <2>5 DEF LinesOf
    <2> QED
      BY <2>4, <2>6
  <1>2. LinesInv /\ [Next]_vars =>
          [pc = "finalDrain" /\ pc' = "join" =>
              \A c \in Commands : reader[c] = "closed" =>
                  Len(captured[Declared[c]]) = written[c]]_vars
    BY <1>1
  <1> QED
    BY <1>2, LinesInvariant, PTL DEF Spec, FinalDrainIsWhole

=============================================================================
