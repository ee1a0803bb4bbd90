----------------------------- MODULE RunHistory -----------------------------
(***************************************************************************)
(* A suite over many orchestrated runs: the lanes' records of earlier runs *)
(* (durations.py), the persisted shard cut (sharding.py), what a run plans *)
(* from them (hooks.py), which test files its subprocesses execute, and    *)
(* what it writes back (executor.py).  Between runs files come and go and  *)
(* the configuration may give a file to another lane.                      *)
(*                                                                         *)
(* Durations are left out: whether a split pays, which divisible lane is   *)
(* the longest and whether a cut is balanced are arbitrary choices here    *)
(* (ShardPlanning has them in full).  A lane's subprocess_paths are        *)
(* directories, so that --ignore removes the files it names.               *)
(***************************************************************************)
EXTENDS Integers, FiniteSets

CONSTANTS
    Lanes,          \* lane names
    Files,          \* test files; numbers, ordered as the paths are
    ConfiguredOwner,\* the lane the first configuration gives a file to
    Divisible,      \* lanes with divisible = files
    Movable         \* files that a later configuration may give to another lane

ASSUME HistoryAssumption ==
    /\ "" \notin Lanes
    /\ Files \subseteq Nat
    /\ ConfiguredOwner \in [Files -> Lanes]
    /\ Divisible \subseteq Lanes
    /\ Movable \subseteq Files

VARIABLES
    \* the project
    disk,       \* the test files that exist
    owner,      \* the lane a file belongs to
    \* .pytest_cache/v/pytest-lanes
    recorded,   \* lanes with a record in lane_durations.json
    known,      \* known[l]: the files of lane l's record
    persisted,  \* shard_plan.json: a lane and its first shard
    \* the run under way
    stage,      \* "idle" or "running"
    plan,       \* the lane that is split, if any, and its first shard
    left,       \* jobs that have not ended
    measured,   \* measured[j]: the files in the measurements job j wrote
    ran,        \* ran[f]: how often file f was executed
    undisturbed \* no job was killed or stopped early

projectVars == <<disk, owner>>
cacheVars == <<recorded, known, persisted>>
runVars == <<stage, plan, left, measured, ran, undisturbed>>
vars == <<projectVars, cacheVars, runVars>>

\* <<l, 0>> is the subprocess of the whole lane l, <<l, 1>> and <<l, 2>>
\* are those of its shards.
Jobs == Lanes \X {0, 1, 2}

Unsplit == [lane |-> "", first |-> {}]
PlanType == [lane : Lanes \cup {""}, first : SUBSET Files]

Own(l) == {f \in disk : owner[f] = l}

-----------------------------------------------------------------------------
(* Planning *)

\* The recorded files of the lane for which file_exists.
Existing(l) == known[l] \cap disk

\* The conditions under which plan_shards considers splitting l.
MaySplit(l) ==
    /\ l \in Divisible
    /\ recorded = Lanes
    /\ Cardinality(Existing(l)) >= 2

FreshCuts(l) ==
    {{g \in Existing(l) : g <= f} : f \in Existing(l)} \ {Existing(l)}

\* Mutant: the persisted cut may be another lane's.
KeptCuts_AnyLane(l) == {persisted.first} \ {{}}

\* The persisted cut, where _choose_cut may keep it.
KeptCuts(l) ==
    {c \in {persisted.first} :
        /\ persisted.lane = l
        /\ c \subseteq Existing(l) /\ c # {} /\ c # Existing(l)}

Plans ==
    {Unsplit} \cup UNION
        {{[lane |-> l, first |-> c] : c \in FreshCuts(l) \cup KeptCuts(l)} :
            l \in {k \in Lanes : MaySplit(k)}}

\* Mutant: the shards are numbered from 2.
Scheduled_OffByOne(p) == {j \in Lanes \X {0, 2, 3} : j[2] = 0 <=> j[1] # p.lane}

\* _with_replacement: two jobs for the lane that is split, one for any other.
Scheduled(p) == {j \in Jobs : j[2] = 0 <=> j[1] # p.lane}

\* hooks.pytest_cmdline_main: plan, persist the cut, start the lanes.
StartRun(p) ==
    /\ stage = "idle"
    /\ p \in Plans
    /\ plan' = p
    /\ persisted' = IF p.lane = "" THEN persisted ELSE p
    /\ stage' = "running"
    /\ left' = Scheduled(p)
    /\ measured' = [j \in Jobs |-> {}]
    /\ ran' = [f \in Files |-> 0]
    /\ undisturbed' = TRUE
    /\ UNCHANGED <<projectVars, recorded, known>>

-----------------------------------------------------------------------------
(* The lanes' subprocesses *)

\* Mutant: the second shard ignores nothing.
Collected_NothingIgnored(j) == IF j[2] = 1 THEN plan.first ELSE Own(j[1])

\* Mutant: the second shard is given what is left of the recorded files.
Collected_RecordedFiles(j) ==
    IF j[2] = 1 THEN plan.first
    ELSE IF j[2] = 2 THEN Existing(j[1]) \ plan.first ELSE Own(j[1])

\* The files a job's arguments select (_shard_commands): the first shard's by
\* name; otherwise the lane's, without those if it is the second shard.
Collected(j) ==
    IF j[2] = 1 THEN plan.first
    ELSE Own(j[1]) \ (IF j[2] = 2 THEN plan.first ELSE {})

Execute(files) == ran' = [f \in Files |-> IF f \in files THEN ran[f] + 1 ELSE ran[f]]

JobEnds(j) ==
    /\ j \in left
    /\ left' = left \ {j}
    /\ Execute(Collected(j))
    /\ measured' = [measured EXCEPT ![j] = Collected(j)]
    /\ UNCHANGED <<projectVars, cacheVars, stage, plan, undisturbed>>

\* pytest stops early (-x, an interrupted session) but still finishes the
\* session: the files executed so far are measured.
JobStopsEarly(j, files) ==
    /\ j \in left /\ files \subseteq Collected(j)
    /\ left' = left \ {j}
    /\ Execute(files)
    /\ measured' = [measured EXCEPT ![j] = files]
    /\ undisturbed' = FALSE
    /\ UNCHANGED <<projectVars, cacheVars, stage, plan>>

\* The subprocess is killed, and leaves no measurements.
JobKilled(j, files) ==
    /\ j \in left /\ files \subseteq Collected(j)
    /\ left' = left \ {j}
    /\ Execute(files)
    /\ undisturbed' = FALSE
    /\ UNCHANGED <<projectVars, cacheVars, stage, plan, measured>>

-----------------------------------------------------------------------------
(* The end of a run *)

\* Mutant: the shards' measurements replace one another.
Merged_LastShard(l) ==
    IF l = plan.lane THEN measured[<<l, 2>>] ELSE measured[<<l, 0>>]

\* _record_run_durations: a lane's record has the files its subprocess
\* measured, a split lane's those of both shards.
Merged(l) ==
    IF l = plan.lane THEN measured[<<l, 1>>] \cup measured[<<l, 2>>]
    ELSE measured[<<l, 0>>]

EndRun ==
    /\ stage = "running" /\ left = {}
    /\ stage' = "idle"
    /\ recorded' = Lanes
    /\ known' = [l \in Lanes |-> Merged(l)]
    /\ UNCHANGED <<projectVars, persisted, plan, left, measured, ran, undisturbed>>

\* Ctrl-C, a lane that cannot be started, or an error when the lanes' outputs
\* are printed and their reports are merged: run_lane_commands raises before it
\* records anything.
Abort ==
    /\ stage = "running"
    /\ stage' = "idle"
    /\ left' = {} /\ undisturbed' = FALSE
    /\ UNCHANGED <<projectVars, cacheVars, plan, measured, ran>>

-----------------------------------------------------------------------------
(* Between runs *)

AddFile(f) ==
    /\ stage = "idle" /\ f \notin disk
    /\ disk' = disk \cup {f}
    /\ UNCHANGED <<owner, cacheVars, runVars>>

RemoveFile(f) ==
    /\ stage = "idle" /\ f \in disk
    /\ disk' = disk \ {f}
    /\ UNCHANGED <<owner, cacheVars, runVars>>

Reclassify(f, l) ==
    /\ stage = "idle" /\ f \in Movable
    /\ owner' = [owner EXCEPT ![f] = l]
    /\ UNCHANGED <<disk, cacheVars, runVars>>

\* A record or plan file that is missing or cannot be parsed reads as nothing.
ForgetRecords ==
    /\ stage = "idle"
    /\ recorded' = {} /\ known' = [l \in Lanes |-> {}]
    /\ UNCHANGED <<projectVars, persisted, runVars>>

ForgetCut ==
    /\ stage = "idle"
    /\ persisted' = Unsplit
    /\ UNCHANGED <<projectVars, recorded, known, runVars>>

-----------------------------------------------------------------------------

Init ==
    /\ disk \in SUBSET Files /\ owner = ConfiguredOwner
    /\ recorded = {} /\ known = [l \in Lanes |-> {}] /\ persisted = Unsplit
    /\ stage = "idle" /\ plan = Unsplit /\ left = {}
    /\ measured = [j \in Jobs |-> {}]
    /\ ran = [f \in Files |-> 0]
    /\ undisturbed = TRUE

Next ==
    \/ \E p \in Plans : StartRun(p)
    \/ \E j \in left : JobEnds(j)
    \/ \E j \in left : \E files \in SUBSET Collected(j) :
          JobStopsEarly(j, files) \/ JobKilled(j, files)
    \/ EndRun
    \/ Abort
    \/ \E f \in Files : AddFile(f) \/ RemoveFile(f)
    \/ \E f \in Files, l \in Lanes : Reclassify(f, l)
    \/ ForgetRecords
    \/ ForgetCut

Spec == Init /\ [][Next]_vars

-----------------------------------------------------------------------------
(* Properties *)

\* Every variable of the history keeps its type.
TypeOK ==
    /\ disk \subseteq Files /\ owner \in [Files -> Lanes]
    /\ recorded \subseteq Lanes /\ known \in [Lanes -> SUBSET Files]
    /\ persisted \in PlanType
    /\ stage \in {"idle", "running"}
    /\ plan \in PlanType /\ left \subseteq Jobs
    /\ measured \in [Jobs -> SUBSET Files]
    /\ ran \in [Files -> Nat] /\ undisturbed \in BOOLEAN

\* No file that stays in its lane is executed twice in a run, at any moment
\* and however jobs end.
NeverTwice == \A f \in Files \ Movable : ran[f] <= 1

\* Whatever the records and the persisted cut remember of earlier runs, and
\* whatever was added, removed or reclassified since, a run executes every
\* file that exists, in the shards or in another lane, and one that stays in
\* its lane exactly once.
ExactlyOnce ==
    stage = "running" /\ left = {} /\ undisturbed =>
        \A f \in Files :
            /\ f \notin disk => ran[f] = 0
            /\ f \in disk => ran[f] >= 1 /\ (f \notin Movable => ran[f] = 1)

\* After a run that neither lost a job nor was given up itself, the record of
\* every lane, split or not, has all of the lane's files and none that stays in
\* another lane.
RecordsWhole ==
    [][stage = "running" /\ left = {} /\ undisturbed' =>
          \A l \in Lanes : /\ Own(l) \subseteq known'[l]
                           /\ known'[l] \subseteq Own(l) \cup Movable]_vars

\* A record never names a file that stays in another lane.
RecordsOwned == \A l \in Lanes : \A f \in known[l] \ Movable : owner[f] = l

=============================================================================
