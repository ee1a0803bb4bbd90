-------------------------- MODULE RunHistoryProofs --------------------------
(***************************************************************************)
(* A run executes every test file, and one that stays in its lane exactly  *)
(* once, for any lanes, any files and any history of runs.                 *)
(***************************************************************************)
EXTENDS RunHistory, TLAPS

\* Files that stay in their lane.
Settled == Files \ Movable

\* The first shard exists, and belongs to the lane that is split.
PlanOwned ==
    plan.lane # "" => /\ plan.first \subseteq disk
                      /\ \A f \in plan.first : f \in Settled => owner[f] = plan.lane

\* What a job measured belongs to its lane.
MeasuredOwned ==
    \A j \in Jobs : \A f \in measured[j] : f \in Settled => owner[f] = j[1]

\* What a job that has not ended selects was not executed yet.
LeftUnrun == \A j \in left : \A f \in Settled : f \in Collected(j) => ran[f] = 0

\* The ended jobs executed and measured what they selected, unless one was
\* disturbed.
EndedWhole ==
    undisturbed => \A j \in Scheduled(plan) \ left :
        /\ measured[j] = Collected(j)
        /\ \A f \in Files : f \in Collected(j) => ran[f] >= 1

RunInv ==
    /\ PlanOwned /\ left \subseteq Scheduled(plan)
    /\ MeasuredOwned /\ LeftUnrun /\ EndedWhole
    /\ \A f \in Files \ disk : ran[f] = 0

HistoryInv ==
    /\ TypeOK /\ RecordsOwned /\ NeverTwice
    /\ stage = "running" => RunInv
    /\ stage = "idle" => left = {}

-----------------------------------------------------------------------------
(* Plans and jobs *)

\* A plan is typed, and its first shard is made of recorded files that exist.
LEMMA PlanFromRecord ==
    ASSUME TypeOK, NEW p \in Plans
    PROVE  /\ p \in PlanType
           /\ p.lane # "" => p.first \subseteq known[p.lane] \cap disk
<1>1. CASE p = Unsplit
  <2>1. [lane |-> "", first |-> {}] \in PlanType
    BY DEF PlanType
  <2> QED BY <1>1, <2>1 DEF Unsplit
<1>2. CASE p # Unsplit
  <2>a. PICK l \in Lanes : \E c \in FreshCuts(l) \cup KeptCuts(l) :
            p = [lane |-> l, first |-> c]
    BY <1>2 DEF Plans
  <2>1. PICK c \in FreshCuts(l) \cup KeptCuts(l) : p = [lane |-> l, first |-> c]
    BY <2>a
  <2>2. c \subseteq known[l] \cap disk
    <3>1. CASE c \in FreshCuts(l)
      BY <3>1 DEF FreshCuts, Existing
    <3>2. CASE c \in KeptCuts(l)
      BY <3>2 DEF KeptCuts, Existing
    <3> QED BY <2>1, <3>1, <3>2
  <2>3. known[l] \subseteq Files
    BY DEF TypeOK
  <2> QED BY <2>1, <2>2, <2>3 DEF PlanType
<1> QED BY <1>1, <1>2

\* A plan schedules jobs.
LEMMA ScheduledType ==
    ASSUME NEW p \in PlanType
    PROVE  Scheduled(p) \subseteq Jobs
BY DEF Scheduled

\* The files a scheduled job selects exist and belong to its lane.
LEMMA CollectedOwned ==
    ASSUME TypeOK, PlanOwned, NEW j \in Scheduled(plan), NEW f \in Collected(j)
    PROVE  f \in disk /\ (f \in Settled => owner[f] = j[1])
<1>1. CASE j[2] = 0
  BY <1>1 DEF Collected, Own
<1>2. CASE j[2] = 1
  <2>1. j[1] = plan.lane /\ j[1] \in Lanes
    BY <1>2 DEF Scheduled, Jobs
  <2>2. plan.lane # ""
    BY <2>1, HistoryAssumption DEF HistoryAssumption
  <2> QED BY <1>2, <2>1, <2>2 DEF Collected, Own, PlanOwned
<1>3. CASE j[2] = 2
  BY <1>3 DEF Collected, Own
<1>4. j[2] \in {0, 1, 2}
  BY DEF Scheduled, Jobs
<1> QED BY <1>1, <1>2, <1>3, <1>4

\* No file that stays in its lane is selected by two scheduled jobs.
LEMMA JobsDisjoint ==
    ASSUME TypeOK, PlanOwned,
           NEW j \in Scheduled(plan), NEW k \in Scheduled(plan), j # k,
           NEW f \in Collected(j), f \in Settled
    PROVE  f \notin Collected(k)
<1> SUFFICES ASSUME f \in Collected(k) PROVE FALSE
  OBVIOUS
<1>1. j[1] = k[1]
  BY CollectedOwned
<1>2. j = <<j[1], j[2]>> /\ k = <<k[1], k[2]>>
  BY DEF Scheduled, Jobs
<1>3. j[2] # k[2] /\ (j[2] = 0 <=> k[2] = 0)
  BY <1>1, <1>2 DEF Scheduled
<1>4. j[2] \in {0, 1, 2} /\ k[2] \in {0, 1, 2}
  BY DEF Scheduled, Jobs
<1> QED BY <1>3, <1>4 DEF Collected

\* A lane and the number of its shard, or zero, are a job.
LEMMA JobParts ==
    ASSUME NEW l \in Lanes, NEW i \in {0, 1, 2}
    PROVE  <<l, i>> \in Jobs /\ <<l, i>>[1] = l /\ <<l, i>>[2] = i
BY DEF Jobs

\* Every file that exists is selected by a scheduled job.
LEMMA JobsCover ==
    ASSUME TypeOK, NEW f \in disk
    PROVE  \E j \in Scheduled(plan) : f \in Collected(j)
<1>1. PICK l \in Lanes : owner[f] = l
  BY DEF TypeOK
<1>2. f \in Own(l)
  BY <1>1 DEF Own
<1>3. PICK i \in {0, 1, 2} : /\ i = 0 <=> l # plan.lane
                             /\ i = 1 => f \in plan.first
                             /\ i = 2 => f \notin plan.first
  <2>1. CASE l # plan.lane
    BY <2>1
  <2>2. CASE l = plan.lane /\ f \in plan.first
    BY <2>2
  <2>3. CASE l = plan.lane /\ f \notin plan.first
    BY <2>3
  <2> QED BY <2>1, <2>2, <2>3
<1> DEFINE j == <<l, i>>
<1>4. j \in Jobs /\ j[1] = l /\ j[2] = i
  BY JobParts
<1> HIDE DEF j
<1>5. j \in Scheduled(plan)
  BY <1>3, <1>4 DEF Scheduled
<1>6. f \in Collected(j)
  BY <1>2, <1>3, <1>4 DEF Collected
<1> QED BY <1>5, <1>6

-----------------------------------------------------------------------------
(* Types *)

\* A run starts with a typed plan.
LEMMA StartType ==
    ASSUME HistoryAssumption, TypeOK, NEW p \in Plans, StartRun(p)
    PROVE  TypeOK'
<1>1. p \in PlanType
  BY PlanFromRecord
<1>2. left' \subseteq Jobs
  BY <1>1, ScheduledType DEF StartRun
<1>3. persisted' \in PlanType
  BY <1>1 DEF StartRun, TypeOK
<1>4. measured' \in [Jobs -> SUBSET Files] /\ ran' \in [Files -> Nat]
  BY DEF StartRun
<1> QED BY <1>1, <1>2, <1>3, <1>4 DEF StartRun, TypeOK, projectVars

\* A job selects files.
LEMMA CollectedType ==
    ASSUME TypeOK, NEW j \in Jobs
    PROVE  Collected(j) \subseteq Files
<1>1. plan.first \subseteq Files /\ Own(j[1]) \subseteq Files
  BY DEF TypeOK, PlanType, Own
<1>2. j[2] \in {0, 1, 2}
  BY DEF Jobs
<1> QED BY <1>1, <1>2 DEF Collected

\* Whatever a job executes, files are counted.
LEMMA ExecuteType ==
    ASSUME TypeOK, NEW files, Execute(files)
    PROVE  ran' \in [Files -> Nat]
BY DEF Execute, TypeOK

\* What a lane's shards measured are files.
LEMMA MergedType ==
    ASSUME HistoryAssumption, TypeOK, NEW l \in Lanes
    PROVE  Merged(l) \subseteq Files
<1>1. \A i \in {0, 1, 2} : measured[<<l, i>>] \subseteq Files
  BY DEF TypeOK, Jobs
<1> QED BY <1>1 DEF Merged

\* Every step keeps the types.
LEMMA StepType ==
    ASSUME HistoryAssumption, TypeOK, [Next]_vars
    PROVE  TypeOK'
<1>1. ASSUME NEW p \in Plans, StartRun(p) PROVE TypeOK'
  BY <1>1, StartType
<1>2. ASSUME NEW j \in left, JobEnds(j) PROVE TypeOK'
  <2>1. j \in Jobs
    BY DEF TypeOK
  <2>2. Collected(j) \subseteq Files
    BY <2>1, CollectedType
  <2>3. ran' \in [Files -> Nat]
    BY <1>2, ExecuteType DEF JobEnds
  <2> QED BY <1>2, <2>2, <2>3 DEF JobEnds, TypeOK, projectVars, cacheVars
<1>3. ASSUME NEW j \in left, NEW files \in SUBSET Collected(j), JobStopsEarly(j, files)
      PROVE  TypeOK'
  <2>1. j \in Jobs
    BY DEF TypeOK
  <2>2. files \subseteq Files
    BY <2>1, CollectedType
  <2>3. ran' \in [Files -> Nat]
    BY <1>3, ExecuteType DEF JobStopsEarly
  <2> QED BY <1>3, <2>2, <2>3 DEF JobStopsEarly, TypeOK, projectVars, cacheVars
<1>4. ASSUME NEW j \in left, NEW files \in SUBSET Collected(j), JobKilled(j, files)
      PROVE  TypeOK'
  <2>1. ran' \in [Files -> Nat]
    BY <1>4, ExecuteType DEF JobKilled
  <2> QED BY <1>4, <2>1 DEF JobKilled, TypeOK, projectVars, cacheVars
<1>5. ASSUME EndRun PROVE TypeOK'
  <2>1. known' \in [Lanes -> SUBSET Files]
    BY <1>5, MergedType DEF EndRun
  <2> QED BY <1>5, <2>1 DEF EndRun, TypeOK, projectVars
<1>6. ASSUME Abort PROVE TypeOK'
  BY <1>6 DEF Abort, TypeOK, projectVars, cacheVars
<1>7. ASSUME NEW f \in Files, AddFile(f) \/ RemoveFile(f) PROVE TypeOK'
  BY <1>7 DEF AddFile, RemoveFile, TypeOK, cacheVars, runVars
<1>8. ASSUME NEW f \in Files, NEW l \in Lanes, Reclassify(f, l) PROVE TypeOK'
  BY <1>8 DEF Reclassify, TypeOK, cacheVars, runVars
<1>9. ASSUME ForgetRecords \/ ForgetCut PROVE TypeOK'
  <2>1. Unsplit \in PlanType
    BY DEF Unsplit, PlanType
  <2> QED BY <1>9, <2>1 DEF ForgetRecords, ForgetCut, TypeOK, projectVars, runVars
<1>10. ASSUME UNCHANGED vars PROVE TypeOK'
  BY <1>10 DEF vars, projectVars, cacheVars, runVars, TypeOK
<1> QED
  BY <1>1, <1>2, <1>3, <1>4, <1>5, <1>6, <1>7, <1>8, <1>9, <1>10 DEF Next

\* The types hold at first.
LEMMA InitType == ASSUME HistoryAssumption, Init PROVE TypeOK
<1>1. Unsplit \in PlanType
  BY DEF Unsplit, PlanType
<1> QED BY <1>1 DEF HistoryAssumption, Init, TypeOK

\* The variables of the history keep their types for any lanes, files and
\* classification, and any sequence of runs and edits.
THEOREM TypeCorrect == Spec => []TypeOK
BY HistoryAssumption, InitType, StepType, PTL DEF Spec

-----------------------------------------------------------------------------
(* Exactly once *)

\* What has not run has not run twice.
LEMMA NothingRan ==
    ASSUME NEW r, r = [f \in Files |-> 0]
    PROVE  \A f \in Files : r[f] <= 1
OBVIOUS

\* A run starts with nothing executed and a first shard of recorded files.
LEMMA StartInv ==
    ASSUME HistoryAssumption, HistoryInv, NEW p \in Plans, StartRun(p)
    PROVE  HistoryInv'
<1>1. p \in PlanType /\ (p.lane # "" => p.first \subseteq known[p.lane] \cap disk)
  BY PlanFromRecord DEF HistoryInv
<1>2. TypeOK'
  BY StartType DEF HistoryInv
<1>3. RecordsOwned'
  BY DEF HistoryInv, RecordsOwned, StartRun, projectVars
<1>4. \A f \in Files : ran'[f] = 0
  BY DEF StartRun
<1>5. NeverTwice'
  <2>1. ran' = [f \in Files |-> 0]
    BY DEF StartRun
  <2> QED BY <2>1, NothingRan DEF NeverTwice
<1>6. PlanOwned'
  <2> SUFFICES ASSUME p.lane # ""
               PROVE  /\ p.first \subseteq disk
                      /\ \A f \in p.first : f \in Settled => owner[f] = p.lane
    BY DEF PlanOwned, StartRun, projectVars
  <2>1. p.lane \in Lanes
    BY <1>1 DEF PlanType
  <2> QED BY <1>1, <2>1 DEF HistoryInv, RecordsOwned, Settled
<1>7. left' = Scheduled(plan')
  BY DEF StartRun
<1>8. MeasuredOwned'
  BY DEF StartRun, MeasuredOwned
<1>9. LeftUnrun'
  BY <1>4 DEF LeftUnrun, Settled
<1>10. EndedWhole'
  BY <1>7 DEF EndedWhole
<1>11. RunInv'
  BY <1>4, <1>6, <1>7, <1>8, <1>9, <1>10 DEF RunInv
<1> QED BY <1>2, <1>3, <1>5, <1>11 DEF HistoryInv, StartRun

\* A job that executes some of the files it selects, and measures them or not.
LEMMA JobInv ==
    ASSUME HistoryInv, TypeOK',
           NEW j \in left, NEW files \in SUBSET Collected(j),
           left' = left \ {j}, Execute(files),
           measured' \in {measured, [measured EXCEPT ![j] = files]},
           undisturbed' => /\ undisturbed /\ files = Collected(j)
                           /\ measured' = [measured EXCEPT ![j] = files],
           UNCHANGED <<projectVars, cacheVars, stage, plan>>
    PROVE  HistoryInv'
<1>1. stage = "running" /\ RunInv /\ TypeOK
  BY DEF HistoryInv, TypeOK
<1>2. j \in Scheduled(plan) /\ j \in Jobs
  BY <1>1 DEF RunInv, TypeOK
<1>3. \A k : Collected(k)' = Collected(k)
  BY DEF Collected, Own, projectVars
<1>4. Scheduled(plan)' = Scheduled(plan)
  BY DEF Scheduled
<1>5. \A f \in Files : ran[f] \in Nat /\ ran'[f] = IF f \in files THEN ran[f] + 1 ELSE ran[f]
  BY <1>1 DEF Execute, TypeOK
<1>6. \A f \in Settled : f \in files => ran[f] = 0
  BY <1>1 DEF RunInv, LeftUnrun
<1>7. RecordsOwned'
  BY DEF HistoryInv, RecordsOwned, projectVars, cacheVars
<1>8. NeverTwice'
  BY <1>5, <1>6 DEF HistoryInv, NeverTwice, Settled
<1>9. PlanOwned'
  BY <1>1 DEF RunInv, PlanOwned, projectVars
<1>10. left' \subseteq Scheduled(plan)'
  BY <1>1, <1>4 DEF RunInv
<1>11. MeasuredOwned'
  <2>1. \A f \in files : f \in Settled => owner[f] = j[1]
    BY <1>1, <1>2, CollectedOwned DEF RunInv
  <2>2. \A k \in Jobs : measured'[k] = measured[k] \/ (k = j /\ measured'[k] = files)
    BY <1>1 DEF TypeOK
  <2> QED BY <1>1, <2>1, <2>2 DEF RunInv, MeasuredOwned, projectVars
<1>12. LeftUnrun'
  <2> SUFFICES ASSUME NEW k \in left', NEW f \in Settled, f \in Collected(k)
               PROVE  ran'[f] = 0
    BY <1>3 DEF LeftUnrun
  <2>1. k \in left /\ k # j /\ k \in Scheduled(plan)
    BY <1>1 DEF RunInv
  <2>2. f \notin Collected(j)
    BY <1>1, <1>2, <2>1, JobsDisjoint DEF RunInv
  <2> QED BY <1>1, <1>5, <2>1, <2>2 DEF RunInv, LeftUnrun, Settled
<1>13. EndedWhole'
  <2> SUFFICES ASSUME undisturbed', NEW k \in Scheduled(plan) \ left'
               PROVE  /\ measured'[k] = Collected(k)
                      /\ \A f \in Files : f \in Collected(k) => ran'[f] >= 1
    BY <1>3, <1>4 DEF EndedWhole
  <2>1. CASE k = j
    BY <1>1, <1>2, <1>5, <2>1 DEF TypeOK
  <2>2. CASE k # j
    <3>1. k \in Scheduled(plan) \ left /\ k \in Jobs
      BY <2>2 DEF Scheduled
    <3>2. measured'[k] = measured[k]
      BY <1>1, <2>2, <3>1 DEF TypeOK
    <3> QED BY <1>1, <1>5, <3>1, <3>2 DEF RunInv, EndedWhole
  <2> QED BY <2>1, <2>2
<1>14. \A f \in Files \ disk : ran'[f] = 0
  <2>1. \A f \in files : f \in disk
    BY <1>1, <1>2, CollectedOwned DEF RunInv
  <2> QED BY <1>1, <1>5, <2>1 DEF RunInv
<1>15. RunInv'
  BY <1>9, <1>10, <1>11, <1>12, <1>13, <1>14 DEF RunInv, projectVars
<1> QED BY <1>1, <1>7, <1>8, <1>15 DEF HistoryInv

\* Every step keeps the invariant.
LEMMA StepInv ==
    ASSUME HistoryAssumption, HistoryInv, [Next]_vars
    PROVE  HistoryInv'
<1>0. TypeOK'
  BY StepType DEF HistoryInv
<1>1. ASSUME NEW p \in Plans, StartRun(p) PROVE HistoryInv'
  BY <1>1, StartInv
<1>2. ASSUME NEW j \in left, JobEnds(j) PROVE HistoryInv'
  <2>1. Collected(j) \in SUBSET Collected(j)
    OBVIOUS
  <2> QED BY <1>0, <1>2, <2>1, JobInv DEF JobEnds
<1>3. ASSUME NEW j \in left, NEW files \in SUBSET Collected(j), JobStopsEarly(j, files)
      PROVE  HistoryInv'
  BY <1>0, <1>3, JobInv DEF JobStopsEarly
<1>4. ASSUME NEW j \in left, NEW files \in SUBSET Collected(j), JobKilled(j, files)
      PROVE  HistoryInv'
  BY <1>0, <1>4, JobInv DEF JobKilled
<1>5. ASSUME EndRun PROVE HistoryInv'
  <2>1. MeasuredOwned
    BY <1>5 DEF EndRun, HistoryInv, RunInv
  <2>2. ASSUME NEW l \in Lanes, NEW f \in Merged(l), f \in Settled
        PROVE  owner[f] = l
    <3>1. PICK i \in {0, 1, 2} : f \in measured[<<l, i>>]
      BY <2>2 DEF Merged
    <3> QED BY <2>1, <2>2, <3>1, JobParts DEF MeasuredOwned
  <2>3. \A l \in Lanes : Merged(l) \subseteq Files
    BY MergedType DEF HistoryInv
  <2>4. RecordsOwned'
    BY <1>5, <2>2, <2>3 DEF EndRun, RecordsOwned, Settled, projectVars
  <2> QED BY <1>0, <1>5, <2>4 DEF EndRun, HistoryInv, NeverTwice
<1>6. ASSUME Abort PROVE HistoryInv'
  BY <1>0, <1>6 DEF Abort, HistoryInv, RecordsOwned, NeverTwice, projectVars, cacheVars
<1>7. ASSUME NEW f \in Files, AddFile(f) \/ RemoveFile(f) PROVE HistoryInv'
  BY <1>0, <1>7
  DEF AddFile, RemoveFile, HistoryInv, RecordsOwned, NeverTwice, cacheVars, runVars
<1>8. ASSUME NEW f \in Files, NEW l \in Lanes, Reclassify(f, l) PROVE HistoryInv'
  <2>1. \A g \in Settled : owner'[g] = owner[g]
    BY <1>8 DEF Reclassify, Settled, HistoryInv, TypeOK
  <2>2. \A k \in Lanes : known[k] \subseteq Files
    BY DEF HistoryInv, TypeOK
  <2>3. RecordsOwned'
    BY <1>8, <2>1, <2>2 DEF Reclassify, HistoryInv, RecordsOwned, Settled, cacheVars
  <2> QED BY <1>0, <1>8, <2>3 DEF Reclassify, HistoryInv, NeverTwice, cacheVars, runVars
<1>9. ASSUME ForgetRecords \/ ForgetCut PROVE HistoryInv'
  BY <1>0, <1>9
  DEF ForgetRecords, ForgetCut, HistoryInv, RecordsOwned, NeverTwice, projectVars, runVars
<1>10. ASSUME UNCHANGED vars PROVE HistoryInv'
  <2>1. UNCHANGED <<disk, owner, known, stage, plan, left, measured, ran, undisturbed>>
    BY <1>10 DEF vars, projectVars, cacheVars, runVars
  <2>2. (\A k : Collected(k)' = Collected(k)) /\ Scheduled(plan)' = Scheduled(plan)
    BY <2>1 DEF Collected, Own, Scheduled
  <2>3. RunInv => RunInv'
    BY <2>1, <2>2
    DEF RunInv, PlanOwned, Own, MeasuredOwned, LeftUnrun, EndedWhole
  <2> QED BY <1>0, <2>1, <2>3 DEF HistoryInv, RecordsOwned, NeverTwice
<1> QED
  BY <1>1, <1>2, <1>3, <1>4, <1>5, <1>6, <1>7, <1>8, <1>9, <1>10 DEF Next

\* The invariant holds at first.
LEMMA InitInv == ASSUME HistoryAssumption, Init PROVE HistoryInv
<1>1. TypeOK
  BY InitType
<1>2. NeverTwice
  <2>1. ran = [f \in Files |-> 0]
    BY DEF Init
  <2> QED BY <2>1, NothingRan DEF NeverTwice
<1> QED BY <1>1, <1>2 DEF Init, HistoryInv, RecordsOwned

\* When all jobs of a run have ended undisturbed, every file that exists was
\* executed once.
LEMMA InvExactlyOnce == ASSUME HistoryInv PROVE ExactlyOnce
<1> SUFFICES ASSUME stage = "running", left = {}, undisturbed, NEW f \in Files
             PROVE  /\ f \notin disk => ran[f] = 0
                    /\ f \in disk => ran[f] >= 1 /\ (f \notin Movable => ran[f] = 1)
  BY DEF ExactlyOnce
<1>1. RunInv /\ TypeOK
  BY DEF HistoryInv
<1>2. CASE f \in disk
  <2>1. PICK j \in Scheduled(plan) : f \in Collected(j)
    BY <1>1, <1>2, JobsCover
  <2>2. ran[f] >= 1
    BY <1>1, <2>1 DEF RunInv, EndedWhole
  <2>3. ran[f] \in Nat /\ (f \notin Movable => ran[f] <= 1)
    BY <1>1 DEF TypeOK, HistoryInv, NeverTwice
  <2> QED BY <1>2, <2>2, <2>3
<1>3. CASE f \notin disk
  BY <1>1, <1>3 DEF RunInv
<1> QED BY <1>2, <1>3

\* An undisturbed run executes every test file, and one that stays in its lane
\* exactly once, whatever earlier runs recorded and were planned.
THEOREM ExactlyOnceHolds == Spec => []ExactlyOnce
BY HistoryAssumption, InitInv, StepInv, InvExactlyOnce, PTL DEF Spec

\* And no run, disturbed or not, executes a file twice that stays in its lane.
THEOREM NeverTwiceHolds == Spec => []NeverTwice
<1>1. HistoryInv => NeverTwice
  BY DEF HistoryInv
<1> QED BY <1>1, HistoryAssumption, InitInv, StepInv, PTL DEF Spec

\* No record names a file that is settled in another lane, whatever was killed,
\* aborted, lost or moved in between.
THEOREM RecordsOwnedHolds == Spec => []RecordsOwned
<1>1. HistoryInv => RecordsOwned
  BY DEF HistoryInv
<1> QED BY <1>1, HistoryAssumption, InitInv, StepInv, PTL DEF Spec

\* A run whose jobs have all ended undisturbed is given up or recorded, with the
\* files each lane has.
LEMMA EndRecordsWhole ==
    ASSUME HistoryInv, Next, stage = "running", left = {}, undisturbed', NEW l \in Lanes
    PROVE  Own(l) \subseteq known'[l] /\ known'[l] \subseteq Own(l) \cup Movable
<1>1. RunInv /\ TypeOK
  BY DEF HistoryInv
<1>2. EndRun /\ undisturbed
  BY DEF Next, EndRun, StartRun, Abort, AddFile, RemoveFile, Reclassify,
         ForgetRecords, ForgetCut
<1>3. known'[l] = Merged(l)
  BY <1>2 DEF EndRun
<1>4. \A i \in {0, 1, 2} :
          (i = 0 <=> l # plan.lane) => measured[<<l, i>>] = Collected(<<l, i>>)
  <2> SUFFICES ASSUME NEW i \in {0, 1, 2}, i = 0 <=> l # plan.lane
               PROVE  measured[<<l, i>>] = Collected(<<l, i>>)
    OBVIOUS
  <2> DEFINE j == <<l, i>>
  <2>1. j \in Jobs /\ j[1] = l /\ j[2] = i
    BY JobParts
  <2> HIDE DEF j
  <2>2. j \in Scheduled(plan) \ left
    BY <2>1 DEF Scheduled
  <2>3. measured[j] = Collected(j)
    BY <1>1, <1>2, <2>2 DEF RunInv, EndedWhole
  <2> QED BY <2>3 DEF j
<1>5. /\ Collected(<<l, 0>>) = Own(l)
      /\ Collected(<<l, 1>>) = plan.first
      /\ Collected(<<l, 2>>) = Own(l) \ plan.first
  BY DEF Collected
<1>6. CASE l # plan.lane
  BY <1>3, <1>4, <1>5, <1>6 DEF Merged
<1>7. CASE l = plan.lane
  <2>1. plan.lane # ""
    BY <1>7, HistoryAssumption DEF HistoryAssumption
  <2>2. plan.first \subseteq Own(l) \cup Movable
    <3>1. plan.first \subseteq Files
      BY <1>1 DEF TypeOK, PlanType
    <3> QED BY <1>1, <1>7, <2>1, <3>1 DEF RunInv, PlanOwned, Own, Settled
  <2> QED BY <1>3, <1>4, <1>5, <1>7, <2>2 DEF Merged
<1> QED BY <1>6, <1>7

\* An undisturbed run leaves records with all files of each lane, split or not,
\* and with none that stays in another lane.
THEOREM RecordsWholeHolds == Spec => RecordsWhole
<1>1. HistoryInv /\ [Next]_vars =>
          [stage = "running" /\ left = {} /\ undisturbed' =>
              \A l \in Lanes : /\ Own(l) \subseteq known'[l]
                               /\ known'[l] \subseteq Own(l) \cup Movable]_vars
  BY EndRecordsWhole
<1> QED
  BY <1>1, HistoryAssumption, InitInv, StepInv, PTL DEF Spec, RecordsWhole

=============================================================================
