---------------------------- MODULE ShardPlanning ----------------------------
(***************************************************************************)
(* plan_shards (sharding.py): before a run, split the longest divisible    *)
(* lane in two when replaying the pool says that this saves enough time.   *)
(*                                                                         *)
(* A file is a number, ordered as the paths are.  The files of a record    *)
(* are a function from files to seconds; a half is a set of files.  A      *)
(* shard is charged half of the lane's unexplained time, so that projected *)
(* durations are counted in half-seconds.                                  *)
(***************************************************************************)
EXTENDS Integers, FiniteSets, Sequences, SequencesExt

CONSTANTS
    Order,           \* the mode's subprocess order: a sequence of lane names
    Divisible,       \* lanes with divisible = files
    Xdist,           \* lanes with lane_numprocesses
    MaxWorkers,      \* resolve_max_workers' answer
    ShardMinSaving,  \* shard_min_saving, in seconds
    Files,           \* the test files of the suite
    Disks,           \* sets of files that may be on disk
    Cuts,            \* what shard_plan.json may hold from an earlier run
    Histories        \* what recorded_lane_records may answer

Lanes == Range(Order)

LaneRecord(r) ==
    /\ r.total \in Nat /\ r.startup \in Nat /\ r.collect \in Nat
    /\ DOMAIN r.files \subseteq Files
    /\ \A f \in DOMAIN r.files : r.files[f] \in Nat \ {0}

ASSUME PlanningAssumption ==
    /\ Order \in Seq(Lanes) /\ IsInjective(Order) /\ "" \notin Lanes
    /\ MaxWorkers \in Nat \ {0} /\ ShardMinSaving \in Nat
    /\ Files \subseteq Nat /\ IsFiniteSet(Files) /\ Disks \subseteq SUBSET Files
    /\ Cuts \subseteq [lane : Lanes, first : (SUBSET Files) \ {{}}]
    /\ \A h \in Histories : \A l \in DOMAIN h : LaneRecord(h[l])

VARIABLES
    records,    \* the duration store: a function on the lanes recorded
    existing,   \* the files that are on disk
    persisted,  \* shard_plan.json
    plan        \* the ShardPlan of the last run

vars == <<records, existing, persisted, plan>>

\* load_persisted_plan's None.
NoCut == [lane |-> "", first |-> {}]

Whole == [sharded_lane |-> "", first |-> {}, second |-> {},
          projected |-> <<>>, gain |-> 0, recut |-> FALSE]

-----------------------------------------------------------------------------
(* The cut *)

Seconds(files, S) == SumFunctionOnSet(files, S)
Rest(files, first) == DOMAIN files \ first

Imbalance(files, first) ==
    LET a == Seconds(files, first)
        b == Seconds(files, Rest(files, first))
    IN  Max({a - b, b - a})

UpTo(files, f) == {g \in DOMAIN files : g <= f}

\* Mutant: a later cut that is as good replaces an earlier one.
BetterCut_LastWins(files, f, best) ==
    Imbalance(files, UpTo(files, f)) <= Imbalance(files, UpTo(files, best))

BetterCut(files, f, best) ==
    Imbalance(files, UpTo(files, f)) < Imbalance(files, UpTo(files, best))

\* The first half of contiguous_halves: the loop tries a cut after every
\* file but the last, in order; best[f] is the best one it has found at f.
contiguous_halves(files) ==
    LET cuts == DOMAIN files \ {Max(DOMAIN files)}
        earlier(f) == {g \in cuts : g < f}
        best[f \in cuts] ==
            IF earlier(f) = {} \/ BetterCut(files, f, best[Max(earlier(f))])
            THEN f ELSE best[Max(earlier(f))]
    IN  UpTo(files, best[Max(cuts)])

\* At most SHARD_REBALANCE_IMBALANCE_RATIO = 0.20 of the longer half.
Balanced(files, first) ==
    5 * Imbalance(files, first)
        <= Max({Seconds(files, first), Seconds(files, Rest(files, first))})

\* _choose_cut keeps a persisted cut of known files that leaves both halves
\* something to run and is still balanced.
Usable(files, cut) ==
    /\ cut \subseteq DOMAIN files
    /\ cut # {} /\ cut # DOMAIN files
    /\ Balanced(files, cut)

-----------------------------------------------------------------------------
(* What a plan is expected to take, in half-seconds *)

\* Mutant: a shard does not pay the lane's startup again.
Fixed_NoStartup(r) ==
    LET known == r.startup + r.collect + Seconds(r.files, DOMAIN r.files)
    IN  2 * r.collect + Max({r.total - known, 0})

\* The part of _projected_shard_seconds both shards pay.
Fixed(r) ==
    LET known == r.startup + r.collect + Seconds(r.files, DOMAIN r.files)
    IN  2 * (r.startup + r.collect) + Max({r.total - known, 0})

projected_shard_seconds(r, half) == Fixed(r) + 2 * Seconds(r.files, half)

\* Python's sorted, of the positions by what is before what.
sorted(s, before) ==
    [k \in 1..Len(s) |->
        s[CHOOSE i \in 1..Len(s) :
            Cardinality({j \in 1..Len(s) : <<j, i>> \in before}) = k - 1]]

\* The longest first, and of equal ones the first.
Longer(durations) ==
    LET places == 1..Len(durations)
    IN  {p \in places \X places :
            \/ durations[p[1]] > durations[p[2]]
            \/ durations[p[1]] = durations[p[2]] /\ p[1] < p[2]}

\* The head of the heap.
NextFree(running) ==
    CHOOSE w \in DOMAIN running : \A v \in DOMAIN running : running[w] <= running[v]

simulate_makespan(durations) ==
    LET queued == sorted(durations, Longer(durations))
        place(running, d) ==
            IF Len(running) < MaxWorkers THEN Append(running, d)
            ELSE LET w == NextFree(running)
                 IN  [running EXCEPT ![w] = @ + d]
        heap[n \in 0..Len(durations)] ==
            IF n = 0 THEN <<>> ELSE place(heap[n - 1], queued[n])
    IN  IF durations = <<>> THEN 0 ELSE Max(Range(heap[Len(durations)]))

-----------------------------------------------------------------------------
(* plan_shards *)

\* The lanes _shard_candidate considers.
Splittable(recs) ==
    {l \in (Lanes \cap Divisible \cap DOMAIN recs) \ Xdist :
        Cardinality(DOMAIN recs[l].files) >= 2}

DeclaredAt(l) == CHOOSE i \in DOMAIN Order : Order[i] = l

\* max() keeps the first of the candidates with the longest record.
Outranks(recs, l, k) ==
    \/ recs[l].total > recs[k].total
    \/ recs[l].total = recs[k].total /\ DeclaredAt(l) < DeclaredAt(k)

shard_candidate(recs) ==
    CHOOSE l \in Splittable(recs) :
        \A k \in Splittable(recs) \ {l} : Outranks(recs, l, k)

\* Mutant: the lanes declared after the split one are forgotten.
OtherTotals_Before(recs, l) ==
    [i \in 1..(DeclaredAt(l) - 1) |-> 2 * recs[Order[i]].total]

\* The projected durations of the lanes that stay whole.
OtherTotals(recs, l) ==
    LET others == RemoveAt(Order, DeclaredAt(l))
    IN  [i \in DOMAIN others |-> 2 * recs[others[i]].total]

\* Mutant: recorded files that are gone count too.
existing_files_Recorded(recs, l, present) == DOMAIN recs[l].files

existing_files(recs, l, present) == DOMAIN recs[l].files \cap present

\* The split of lane l of which only the files in known are still there.
Split(recs, l, known, cut) ==
    LET files == Restrict(recs[l].files, known)
        held == IF cut.lane = l THEN cut.first ELSE {}
        kept == cut.lane = l /\ Usable(files, held)
        first == IF kept THEN held ELSE contiguous_halves(files)
        second == Rest(files, first)
        projected == <<projected_shard_seconds(recs[l], first),
                       projected_shard_seconds(recs[l], second)>>
        whole == simulate_makespan([i \in DOMAIN Order |-> 2 * recs[Order[i]].total])
    IN  [sharded_lane |-> l, first |-> first, second |-> second,
         projected |-> projected,
         gain |-> whole - simulate_makespan(OtherTotals(recs, l) \o projected),
         recut |-> cut.lane = l /\ ~kept]

MayShard(recs) == MaxWorkers >= 2 /\ Lanes \subseteq DOMAIN recs

plan_shards(recs, present, cut) ==
    IF Splittable(recs) = {} \/ ~MayShard(recs) THEN Whole
    ELSE LET l == shard_candidate(recs)
             known == existing_files(recs, l, present)
             split == Split(recs, l, known, cut)
         IN  IF Cardinality(known) >= 2 /\ split.gain >= 2 * ShardMinSaving
             THEN split ELSE Whole

-----------------------------------------------------------------------------

Init ==
    /\ records \in Histories
    /\ existing \in Disks
    /\ persisted \in {NoCut} \cup Cuts
    /\ plan = Whole

\* Mutant: the persisted cut is the other shard's.
persist_first_shard_Second(p) ==
    persisted' = [lane |-> p.sharded_lane, first |-> p.second]

persist_first_shard(p) ==
    persisted' = [lane |-> p.sharded_lane, first |-> p.first]

\* An orchestrated run: plan, and remember the cut if there is one.
PlanRun ==
    /\ plan' = plan_shards(records, existing, persisted)
    /\ IF plan'.sharded_lane # "" THEN persist_first_shard(plan')
       ELSE UNCHANGED persisted
    /\ UNCHANGED <<records, existing>>

Next == PlanRun

Spec == Init /\ [][Next]_vars

-----------------------------------------------------------------------------
(* Properties *)

Total(l) == 2 * records[l].total
Known(l) == Restrict(records[l].files, DOMAIN records[l].files \cap existing)
Sharded == plan.sharded_lane # ""

\* contiguous_halves leaves no half empty, no cut between two neighbouring
\* files balances the lane better, and no earlier one as well.
CutIsBest ==
    \A l \in DOMAIN records :
        LET files == Known(l)
            h == contiguous_halves(files)
        IN  Cardinality(DOMAIN files) >= 2 =>
                /\ h # {} /\ h # DOMAIN files
                /\ \A f \in DOMAIN files \ {Max(DOMAIN files)} :
                    LET other == UpTo(files, f) IN
                    \/ h \subseteq other /\ Imbalance(files, h) <= Imbalance(files, other)
                    \/ other \subseteq h /\ Imbalance(files, h) < Imbalance(files, other)
                    \/ h = other

\* The two shards of a plan have every recorded file that is still there,
\* each in one of them, and neither shard is idle, whatever cut was on file.
HalvesPartition ==
    Sharded =>
        /\ plan.first \cup plan.second = DOMAIN Known(plan.sharded_lane)
        /\ plan.first \cap plan.second = {}
        /\ plan.first # {} /\ plan.second # {}

\* "Each shard re-paying its measured startup + collect": together the shards
\* are charged the lane's whole time, less the files that are gone, and its
\* startup and collection once more.
ShardsPayFixedTwice ==
    Sharded =>
        LET r == records[plan.sharded_lane]
            tests == Seconds(r.files, DOMAIN r.files)
            gone == Seconds(r.files, DOMAIN r.files \ existing)
        IN  plan.projected[1] + plan.projected[2] + 2 * gone
                = 2 * Max({r.total, r.startup + r.collect + tests})
                    + 2 * (r.startup + r.collect)

\* A split is planned only for a lane that holds the run up: every other lane
\* and each of the shards would end shard_min_saving before the unsplit run.
WorthSplitting ==
    Sharded =>
        LET whole == simulate_makespan([i \in DOMAIN Order |-> Total(Order[i])])
            parts == Range(plan.projected)
                        \cup {Total(k) : k \in Lanes \ {plan.sharded_lane}}
        IN  \A t \in parts : t + 2 * ShardMinSaving <= whole

\* The plan is sticky: planning again from the same records and files splits
\* the same lane at the same place.
StickyPlan ==
    [][Sharded => /\ plan'.sharded_lane = plan.sharded_lane
                  /\ plan'.first = plan.first
                  /\ plan'.gain = plan.gain]_vars

=============================================================================
