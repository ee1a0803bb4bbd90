--------------------------- MODULE ShardedSchedule ---------------------------
(***************************************************************************)
(* A planned run against the clock: the commands of plan_shards go through *)
(* the LaneWorkQueue (scheduler.py), longest recorded lane first, and each *)
(* lane or shard takes exactly the time the planner projected for it.  What *)
(* differs from the projection is then the planner's replay, not chance.   *)
(* The delay between two polls of the scheduling loop is left out.         *)
(***************************************************************************)
EXTENDS ShardPlanning

VARIABLES
    queue,    \* the pending jobs in launch order; <<l, 0>> is lane l whole,
              \* <<l, 1>> and <<l, 2>> are its shards
    running,  \* the running jobs, each with the time it ends
    now,      \* half-seconds since the run began
    stage     \* "idle" before the run, then "running"

schedVars == <<vars, queue, running, now, stage>>

-----------------------------------------------------------------------------

\* _with_replacement: the shards take the place of the lane.
commands(p) ==
    FlattenSeq([i \in DOMAIN Order |->
        IF Order[i] = p.sharded_lane THEN <<<<Order[i], 1>>, <<Order[i], 2>>>>
        ELSE <<<<Order[i], 0>>>>])

\* Records are kept under lane names, so a shard has none.
Recorded(job) == job[2] = 0 /\ job[1] \in DOMAIN records

\* Mutant: shorter lanes first.
GoesBefore_Shortest(cmds, i, j) ==
    LET t(k) == IF Recorded(cmds[k]) THEN records[cmds[k][1]].total ELSE 0
    IN  t(i) < t(j) \/ (t(i) = t(j) /\ i < j)

\* LongestFirstPolicy on positions of the declared order: no record counts as
\* infinitely long, ties stay as declared.
GoesBefore(cmds, i, j) ==
    LET known(k) == Recorded(cmds[k])
        t(k) == records[cmds[k][1]].total
    IN  \/ ~known(i) /\ (known(j) \/ i < j)
        \/ known(i) /\ known(j) /\ (t(i) > t(j) \/ (t(i) = t(j) /\ i < j))

launch_order(cmds) ==
    LET places == 1..Len(cmds)
    IN  sorted(cmds, {p \in places \X places : GoesBefore(cmds, p[1], p[2])})

Length(job) ==
    IF job[2] = 0 THEN 2 * records[job[1]].total ELSE plan.projected[job[2]]

Ends(job) == now + Length(job)

\* Mutant: one worker is never used.
FreeSlots_OneShort == MaxWorkers - 1 - Cardinality(DOMAIN running)

FreeSlots == MaxWorkers - Cardinality(DOMAIN running)

-----------------------------------------------------------------------------

SchedInit ==
    /\ Init
    /\ queue = <<>> /\ running = <<>> /\ now = 0 /\ stage = "idle"

RunOver == stage = "running" /\ queue = <<>> /\ running = <<>>

\* Once every lane has a record, it is known how long the jobs take.
StartRun ==
    /\ stage = "idle" \/ RunOver
    /\ PlanRun
    /\ IF Lanes \subseteq DOMAIN records
       THEN queue' = launch_order(commands(plan')) /\ stage' = "running"
       ELSE UNCHANGED <<queue, stage>>
    /\ now' = 0
    /\ UNCHANGED running

\* The launch loop fills the free slots; nothing is launched after that until
\* the next jobs end.
Launch ==
    LET count == Min({Len(queue), FreeSlots})
        launched == Range(SubSeq(queue, 1, count))
    IN  /\ count > 0
        /\ running' = [j \in DOMAIN running \cup launched |->
                          IF j \in launched THEN Ends(j) ELSE running[j]]
        /\ queue' = SubSeq(queue, count + 1, Len(queue))
        /\ UNCHANGED <<vars, now, stage>>

Finish ==
    /\ queue = <<>> \/ FreeSlots = 0
    /\ running # <<>>
    /\ now' = Min(Range(running))
    /\ running' = Restrict(running, {j \in DOMAIN running : running[j] # now'})
    /\ UNCHANGED <<vars, queue, stage>>

SchedNext == StartRun \/ Launch \/ Finish

SchedSpec == SchedInit /\ [][SchedNext]_schedVars

-----------------------------------------------------------------------------
(* Properties *)

Jobs == Range(commands(plan))

\* The time the planner compared against shard_min_saving.
ProjectedMakespan ==
    LET whole == simulate_makespan([i \in DOMAIN Order |-> Total(Order[i])])
    IN  whole - plan.gain

\* simulate_makespan of the recorded totals is exactly the time the work
\* queue takes for a run that is not split.
WholeLanesReplayed == RunOver /\ ~Sharded => now = ProjectedMakespan

\* Split or not, and although shards have no record to be ordered by, the queue
\* keeps the workers busy: a run never takes longer than a fair share of the
\* work plus the waiting for its longest job (Graham's bound).
GrahamBound ==
    RunOver =>
        MaxWorkers * now <= SumFunction([j \in Jobs |-> Length(j)])
                              + (MaxWorkers - 1) * Max({0} \cup {Length(j) : j \in Jobs})

=============================================================================
