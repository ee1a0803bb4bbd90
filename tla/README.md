# A TLA+ model of pytest-lanes

pytest-lanes is a pytest plugin.  A *lane* is a named part of a test suite;
`pytest .` becomes a parent that runs one pytest subprocess per lane, a bounded
number of them at a time, and merges what they report.  This directory holds
TLA+ specifications of that program, the TLC configurations that check them on
small instances, and TLAPS proofs of the theorems that matter most.  All paths
below are relative to `src/src/pytest_lanes/` unless they begin with `docs/`.

## 1. Inventory

| Component | State it keeps | Operations | What is hard | What makes it correct |
|---|---|---|---|---|
| Lane executor (`executor.py`) | runs, reader threads, output queue | launch, drain, poll, join, print, return | threads, pipes and processes interleave; spawn failure, Ctrl-C, killed lanes, a dead reader | every lane is run and judged once; output is neither lost nor reordered; the exit code tells whether a lane failed; the loop ends |
| Lane scheduler (`scheduler.py`) | pending list, running and finished sets | `ready_to_launch`, `mark_launched`, `mark_finished`, `is_done` | slots counted by name, batches, ties | at most `max_workers` at once, longest first, no idle slot |
| Progress reporter (`reporter.py`) | one `LaneState` per lane | `mark_started`, `capture_output_line`, `mark_finished`, results, remaining time | output captured after the verdict; counts rebuilt from text | the row of a lane agrees with its session; each lane counts once in the remaining time |
| Classification and commands (`lanes.py`, `lane_selection.py`) | none | first-match rules, `build_lane_commands`, `other_lane_ignores`, `--lane` | rules and paths are two descriptions of a lane | every test runs in exactly one subprocess, its lane's |
| Ad-hoc lanes (`adhoc.py`) | none | `--lanes-auto`, `--lane-def` | nested directories, names that collide | the generated lanes partition the suite |
| Balanced partition (`balance.py`) | none | pool, pack, name, render | ties, nested directories, tests newer than the records | each file in one lane, no lane much heavier than its share |
| Shard planner (`sharding.py`) | persisted cut (`shard_plan.json`) | `plan_shards`, `_choose_cut`, `simulate_makespan` | stale records and cuts; the replay against the real schedule | the two shards partition the lane; a split pays off |
| Duration history (`durations.py`, `recording.py`) | `lane_durations.json`, a measurement file per child | record, read, merge shards | crashes half-way, concurrent runs, torn files | a record describes a whole lane; none is lost |
| Report and coverage merge (`report_aggregation.py`, `report_merge.py`, `coverage_support.py`) | staged files per lane | rewrite arguments, merge, report | two spellings of a flag, killed lanes, two lanes staged to one file | every lane's results once in the merged report |
| pytest hooks (`hooks.py`, `plugin.py`) | `_lane_config`, `_child_recorder`, the environment saved with an item | command line, configure, session start and finish, setup, teardown | sessions nest in tests, in their process or below it | tests see their lane's environment and it is restored; a child never fans out |
| Invocation and mode (`invocation.py`, `mode.py`) | none | decide whether to fan out, pass arguments on | words are read without pytest's parser | a run fans out exactly for the whole suite |
| Configuration (`config.py`, `config_discovery.py`, `pyproject_config.py`) | none | find, load, validate | precedence | the first file that declares lanes counts |
| Suggest, explain, constants | none | text | - | - |

How they interact.  `pytest_cmdline_main` (hooks) decides from the invocation
whether to orchestrate, resolves the configuration, reads the duration history,
lets the shard planner replace one lane by two shards, and calls
`run_lane_commands`.  The executor redirects the lanes' reports, asks the
scheduler what to launch, starts subprocesses and one reader thread each, and
feeds the reporter from the queue the readers share.  When all lanes are
finished it prints, merges the staged reports, writes the history that the next
run's scheduler and shard planner will read, and returns the largest exit code.
A child is the same plugin with `PYTEST_LANES_CHILD=1`: it does not
orchestrate, it measures.

The hazards that follow from this, each at its line, are listed in
`PROJECT.json` with the properties that cover them.

## 2. The modules

| Module | Models | Builds on |
|---|---|---|
| `LaneRun` | abstract: what one run promises its caller | |
| `LaneExecutor` | scheduling loop, work queue, subprocesses, pipes, reader threads, verdicts | implements `LaneRun` |
| `LaneReporter` | what the table knows of the lanes, line by line, and the remaining time | |
| `ShardPlanning` | `plan_shards`: cut, projection, replay, persisted cut | |
| `ShardedSchedule` | a planned run through the work queue, against the clock | extends `ShardPlanning` |
| `RunHistory` | plans, shards, records and the persisted cut over many runs | |
| `DurationStore` | the history file between overlapping and killed runs | |
| `LaneClassification` | rules, arguments and ignores, `--lane` selections | |
| `GeneratedLanes` | `--lane-def`, `--lanes-auto`, the balanced suggestion | extends `LaneClassification` |
| `LanePartition` | where the configuration comes from, and which session runs which test | extends `GeneratedLanes` |
| `LaneSessions` | command lines, children, nested sessions, environments, measurements | |
| `ReportStaging` | redirected arguments, staged reports under kills, merge | |
| `InductionLemmas` | nothing: induction by a least counterexample, sums over functions | |
| `LaneExecutorProofs`, `RunHistoryProofs`, `DurationStoreProofs`, `LaneSessionsProofs`, `LaneReporterProofs`, `ShardedScheduleProofs`, `LanePartitionProofs` | theorems (section 6) | extend what they prove, and `InductionLemmas` where they count or add |

Each `MC` module instantiates one of these.

Every invariant that a passing run checks is also a theorem, but for the three of
`ReportStaging` (section 6 says why).

## 3. The modules and the code

### LaneRun

Two variables: how far each lane is (pending, running, pass, fail) and what the
caller was told (nothing, green, red, an exception).  A lane starts once and
within the cap, is judged once, and the answer is green exactly when all lanes
passed.

### LaneExecutor

`pc` is where the main thread stands in `run_lane_commands`:

| `pc` | Code |
|---|---|
| `loop` | the test of `while not work_queue.is_done()` (`executor.py:180`) |
| `launch` | `for command in work_queue.ready_to_launch()`; `LaunchNext` is one turn: Popen, `mark_started`, reader thread, `mark_launched` (`executor.py:200-216`) |
| `drain`, `finalDrain` | `drain_lane_output_queue`, one `get_nowait` per step |
| `poll` | `_record_finished_lanes`, one run per step |
| `join`, `raising` | the `finally`: `reader.join(timeout=0.2)`, which may return before the reader ends |
| `report`, `done` | print outputs, `max(exit_codes)` |
| `raised` | an exception left the function |

Commands are numbered by declared order and carry their lane's name, because
the work queue and the reporter know lanes by name only.  The pending list is a
set: the policy's order is total, so the list's first *k* entries are the
commands with fewer than *k* before them.  A line is its number; the pipe is a
bounded sequence, the queue of the readers an unbounded one.  A child writes,
exits or crashes between any two steps of the parent; a reader moves one line
at a time, or dies on a line that cannot be decoded.  Not modelled: the live
display, wall-clock durations, the sleep between two sweeps (a stutter), and
exceptions or Ctrl-C while the readers are joined, the output is printed, the
reports are merged or the durations recorded (`executor.py:89-105`), which
leave the function without a result.

### LaneReporter

A lane runs one of a few *sessions*: the glyphs of the tests of each progress
line, tests deselected, files skipped as a whole, the verbosity, and whether
xdist's workers run it.  `SessionLines` is what pytest prints for it
(collection, progress lines, one line per failure, the summary),
each line as the parsers of `reporter.py` read it, so that, for instance, the
"skipped" of the collection line sets the skipped count.  `Capture` reads one
line; `SessionEnds` and `SessionKilled` give the verdict from the process, with
lines still unread, which is what the executor does.  The options passed on to
the lanes decide what is printed: with `-q`, or under xdist, no line says how
many tests were collected, with `-qq` there is no summary, and with `-v` a
progress line has a word and no glyphs.  Assumed of the sessions: progress is
printed as a percentage and failed tests as lines of their own (pytest's
defaults), all selected tests are run (no `-x`, no error while collecting); a
session under xdist may deselect tests here, which pytest would not report.
A clock makes elapsed seconds; the remaining time is translated branch by
branch, with integer division for the code's.  Tests are counted and estimates
added by sums over functions of the glyphs, progress lines and lanes.  `RowRead`
says in closed form what a row shows after the first *n* lines of its session,
`LanesTimed` that running lanes are no more than the workers and started in the
past.

### ShardPlanning

`PlanRun` is the planning part of `pytest_cmdline_main`: `plan_shards` on the
records, the files on disk and the persisted cut, then `persist_first_shard`.
The planner is translated operator by operator: the loop of
`contiguous_halves` is the recursive function `best` over the cuts in file
order, `Usable` and `Balanced` are the tests of `_choose_cut`, `sorted` puts
each position at the number of those before it, the loop of
`simulate_makespan` is the recursive function `heap` over the sorted durations,
with the heap's ends as a sequence, and `shard_candidate` takes the first
longest lane.  Seconds
are integers; projections are in half-seconds because a shard is charged half
of the unexplained time.  Notes and reproduce lines are left out.

### ShardedSchedule

Extends `ShardPlanning` with a clock.  `StartRun` plans and queues the commands
in the order of `LongestFirstPolicy`, where a shard is a lane without record;
`Launch` fills free slots, `Finish` advances to the next end.  Lanes and shards
take exactly what was projected for them.

### RunHistory

Many runs of one suite.  `StartRun` plans (a lane that may be split, any fresh
cut or the persisted one where `_choose_cut` may keep it) and persists the cut;
a job (`<<lane, 0>>` whole, `<<lane, 1>>` and `<<lane, 2>>` shards) executes
the files its arguments select, wholly, in part, or is killed without
measurements; `EndRun` records; `Abort` is a run that raised, in the loop or
while it printed and merged after it, and so recorded nothing.  Between runs
files appear and vanish, the configuration may give a file of `Movable` to
another lane, and the store or the cut may turn unreadable.  Durations are
arbitrary here: any cut may be the best one and any split may pay, which
includes whatever `ShardPlanning` computes.  Not modelled: lanes whose paths
are single files (pytest's `--ignore` does not remove an explicitly named
file), lanes narrowed by node ids, and overlapping paths (all three are in
`LanePartition`, without shards).

### DurationStore

The lanes, the values that stand for them and the documents found at the start
are constants.  The file is a sequence of entries, the last of which closes the
document.
`BeginRecord` is `record()` up to the write: it reads the file anew and merges;
`Truncate` and `Write` are the open and the write of `write_text`.  Runs start,
record and are killed at any step, so that another run reads an empty file, or
writes into one that holds more than it writes (`Overwritten`).  A value that
is no record is dropped, and a file that is no document has no records, as
`recorded_lane_records` does.  A run reads the file once, when it starts; the
code reads it twice, to plan (`hooks.py:237`) and to order the lanes
(`executor.py:66`), and another run may write in between.  Measurements are numbered, so that a mixture of
two runs' records is visible.  `promised` is a history variable: the records
that no overlap of two writers and no crash within a write has endangered.

### LaneClassification, GeneratedLanes, LanePartition

A path is the sequence of its parts, so that a prefix is a sequence prefix; a
test has a path, a name, its class's bases and the suffixes it matches; a lane
is the part of a `LaneSpec` that says which tests it claims and what its
subprocess is asked to collect.  Paths are canonical: the code compares rules
and paths as strings (`lanes.py:88-104`), so that a lane given as `./a` is
asked to collect `a` and claims none of it; such spellings are left out.  `lane_for_item` is the classification: the sets
of the lanes that claim a test by class (`ByClass`), by path (`ByPath`) and as a
fallback, of which the first lane counts.  `build_lane_commands` gives arguments
and ignores; `Reaches` and `Collected` (external) are what pytest makes of them:
everything below an argument, but nothing at or below an ignored path or a
directory pytest does not descend into, unless the argument itself lies there.
`NoRecurse` has those directories, and is also what `_is_lane_candidate`
(`adhoc.py:93-97`) passes over; pytest's `norecursedirs` has a few more by
default and can be configured, the code's list cannot.
`sorted` puts each element at the number of those before it, so that a key
function of the code becomes the set of ordered pairs.

`GeneratedLanes` has the configurations nobody wrote: lane definitions with
their fallback, the lanes of the rootdir's directories, and the balanced
partition with packing, naming and prefixes, as the configuration its printed
block becomes.  The loop of `_longest_processing_time_pack` is the recursive
function `bins` over the sorted units, the loop of `_unique_names` the recursive
function `names`.

`LanePartition` lets tests come and go, pastes suggestions over the project's
configuration, and runs: `Orchestrate` fans out in either mode, `SelectLanes` is
`--lane=<names>` in one session.  Runs leave nothing behind that the next one
reads here (that is `RunHistory`), so each is looked at on its own.  Written
configurations are what `config.py` accepts (`Accepted`); of the file system is
assumed that test files are no directories and that `Lexical` lists all files
and directories (`OnDisk`); and names made by numbering differ when the numbers
do (`NamesAssumption`), because strings are opaque.

### LaneSessions

Sessions form a stack: the user's, the child of a lane, and sessions that tests
start, as a process of their own (which inherits the environment) or within
their process (which shares `_lane_config`, `_child_recorder` and
`os.environ`).  `Begin` is what `pytest_cmdline_main`, `pytest_configure` and
`pytest_sessionstart` make of a command line: `Decision` combines
`orchestration_mode` and the configuration, which is looked up in the files of
`DISCOVERY_ORDER` unless the options define lanes.  `SpawnLane` builds the
child's environment and arguments, from which the child decides again.
`pytest_runtest_setup` and `_teardown` apply and restore the environment;
`FinishSession` writes the measurements to the path in the environment; `Kill`
ends a process and the sessions in it.  (The code takes that path from the
environment when the session starts, `hooks.py:306`, which is a different one
only if a lane's own environment sets that variable; and it adds up a file's
time phase by phase, the model at teardown.)  Children run side by side but share
nothing modelled here, so one lane is followed at a time.  An argument carries
its flag and value as one; flags whose value is a word of its own, which turn
orchestration off, and clusters of short options are left out.

### ReportStaging

The argument list is rewritten for each lane (`_prepared`).  A lane saves its
coverage data when its tests have run, then opens, writes and closes its report,
and may be killed at any point, leaving nothing, an empty file, or a torn one,
which may even end within a character.  Then the parent merges the reports,
combines the data and runs one command for each supported coverage report.
Combining and each of these commands may fail; the commands after it are run
nevertheless (`_run_reports`).  A document is its suites, or unreadable, or not
even text; a suite has a name, a lane and a count.

## 4. Runs

| Run | Instance | States | Shows |
|---|---|---|---|
| `schedule` | three lanes, two workers; one lane without record, one tolerating "no tests"; exit codes 0, 1, 5, crash code 3; exceptions | 51598 | `TypeOK`, `WorkerCap`, `NoIdleSlot`, `LongestFirst`, `ReturnsAfterAll`, `ExitCodeHonest`, `ImplementsLaneRun` |
| `execution` | two lanes, two lines each, pipe of one, last line of lane 1 undecodable, exceptions, crashes | 146153 | `OutputAccounted`, `FinalDrainIsWhole`; `Terminates` under `FairSpec` |
| `reporter` | three lanes on two workers, sessions with passes, failures, errors, unexpected passes, skips, deselected tests, a skipped file, no tests; quiet, without summary, with `-v`, under xdist | 1574181 | `TypeOK`, `CountsHonest`, `EtaCountsEachLaneOnce`, `ParallelismWithinWorkers` |
| `sharding` | five lanes (one under xdist), two workers, up to four files in a lane, persisted cuts, files gone, planned and run again and again | 30751 | `CutIsBest`, `HalvesPartition`, `ShardsPayFixedTwice`, `WorthSplitting`, `WholeLanesReplayed`, `GrahamBound`, `StickyPlan` |
| `history` | two divisible lanes, four files of which one may change lanes, any number of runs | 820472 | `TypeOK`, `ExactlyOnce`, `NeverTwice`, `RecordsOwned`, `RecordsWhole` |
| `store` | two places that run, three lanes, three measurements, three initial files | 862442 | `ReadsWhole`, `RecordsKept` |
| `partition` | eight tests (hidden, nested, in the rootdir, of a non-default name), three written configurations, five lane definitions, six histories | 69392 | `TypeOK`, `ExactlyOneLane`, `LaneReproduces`, `NothingLost`, `LanesBalanced` |
| `sessions` | four projects, eight command lines, sessions three deep | 235660 | `ChildRunsItsLane`, `EnvApplied`, `EnvRestored`, `MeasurementsWhole` |
| `reports` | four lanes, two of one file name, a suite named like a numbered one, five argument lists | 92264 | `ArgvRedirected`, `MergedReportWhole`, `CoverageReportsWhole` |
| `signal_exit` | two lanes, crash code -9 | violation | `ExitCodeHonest` |
| `tail_output` | two lanes, one line each | violation | `FailedOutputComplete` |
| `reproduce` | as `partition` | violation | `ReproduceLineRuns` |

Why the bounds are enough.

- Three lanes on two workers is the least that has a lane waiting behind a full
  pool while another ends, a batch of two launches and a batch of one, and all
  comparisons of the order.  Two lines through a pipe of one block a child,
  reorder if anything can, and interleave with the other lane's.
- In the reporter the clock stops at 2, enough for lanes that take longer and
  shorter than the average, and for one that waits; lanes with and without
  progress, finished lanes and records meet in all combinations.  Each lane has
  two sessions, which between them have every verbosity and a lane under xdist.
- For the cut, durations 4 and 5 are exactly balanced at the 20% limit and 1
  and 4 are not; four files give cuts at every distance from the middle, and the
  persisted cuts include files that are gone and files of no record.  Five
  lanes make the order of a split run differ from the projected one; a lane of
  30 seconds beside the divisible ones bounds what a split can save, one of 1
  second leaves the decision to the lanes that can be split.
- In the history a lane of three files has two cuts, so that a kept cut can
  differ from a fresh one; the number of runs is unbounded, as the state space
  is finite.
- Two writers are the least that overlap; a third measurement lets a run heal
  what two have damaged.
- The tree has a directory within a lane's directory, two directories of one
  last part, one called like a number would make it (`a_2`), one called
  `other`, and tests each rule reaches alone.  `MaxSelected` = 2 lanes are the
  least that can disturb each other.
- Depth three is a test's session below a child below the user's.

Deadlock is checked except in `reports`, where the merge really ends.

### Fairness

`FairSpec` is weakly fair for the main thread, for each reader thread and for a
child that can write or has nothing left to write.  The first two are what the
operating system gives to threads that can run; a child blocked on a full pipe
is not helped.  That a lane's own pytest ends is an assumption about the tests:
the executor has no timeout.  Nothing forces a crash, an exception or Ctrl-C.

## 5. Findings and observations

Each finding is a run that TLC refutes; the property states what the
documentation promises.

1. `signal_exit`: a lane killed by a signal has a negative exit code, `max`
   over the codes hides it, and the run returns 0 (`executor.py:108`).
2. `tail_output`: the output queue is drained a last time before the readers
   are joined, and never after (`executor.py:195`, `90-91`): a failing lane's
   last lines may be missing.
3. `reproduce`: the reproduce line of a lane made by `--lane-def` or
   `--lanes-auto` leaves the option out; the command does not know the lane
   (`reporter.py:351`).

Observed while modelling, without a run of their own:

- A line that is not text in the locale kills the reader thread; if the lane
  goes on writing it blocks on the pipe and the run never ends
  (`executor.py:273`).  The run `execution` therefore has the undecodable line
  last.
- A lane named twice in `subprocess_order_*` is accepted (`config.py:286-297`);
  `is_done` compares the distinct finished names with the number of commands,
  so such a run never ends.
- The planner queues shards by projected durations, the scheduler launches them
  first as lanes without record (`scheduler.py:55`).  A split accepted for a
  projected gain may take longer than no split: on two workers, a lane of 8
  seconds (1 of startup, files of 1 and 6) beside lanes of 7, 6, 4 and 4 takes
  16 unsplit, is projected to take 15 split, and takes 17.
  `docs/GUIDE.md:512-515` says that the planner replays the real scheduler.
  `GrahamBound` is what does hold.
- A first shard is cut from recorded files without asking whether they still
  belong to the lane (`sharding.py:104`); after a file changed lanes it runs in
  both, once (`docs/GUIDE.md:507-508`).  `ExactlyOnce` excepts `Movable` files.
- A killed shard's files vanish from the parent lane's record
  (`executor.py:142`; `docs/GUIDE.md:535-536`).
- The ceiling `min(T/2, D1-D2)` of `docs/GUIDE.md:547-553` is not one when
  lanes wait for workers: three lanes of 8s on two workers take 16s unsplit and
  12s with one of them split.  A lane whose best cut is itself more than 20%
  out of balance is announced as re-cut in every run (`sharding.py:228`).
- `--lane=a,b` collects the union of the arguments but also of the ignores: if
  `b` takes the rest, it ignores paths of `a` (`lane_selection.py:48-60`).
- The first JUnit flag of an argument list is the target, while pytest takes
  the last (`report_merge.py:31`).  One torn report gives up the whole merge,
  and an older report stays at the target.  One torn within a character is not
  caught at all (`report_aggregation.py:88-92` reads before its `try`): the run
  ends with a `UnicodeDecodeError`, and neither are the coverage data combined
  nor the durations recorded.
- Suites that share their name are numbered, and may then be called as another
  suite is: of `pytest`, `pytest-1`, `pytest`, the first becomes `pytest-1`
  (`report_merge.py:109-116`).
- The collected count stays 0 in a lane whose session does not print it, under
  `-q` or xdist, while its passed count rises; if tests were deselected under
  `-q`, it becomes minus their number (`reporter.py:220-236`).  The picture in
  the documentation shows it: `docs/lane-run.svg` has a lane with 0 collected
  and 21 passed, and a total of 27 collected and 48 passed.
- An override listed twice for a lane saves the first override as the value to
  restore (`hooks.py:373`); `EnvRestored` excepts such lanes.
- A session run within a test's process replaces `_lane_config` and
  `_child_recorder` for good: later tests of the outer session lose their
  lane's environment and their measurements.  `EnvApplied` and
  `MeasurementsWhole` except sessions so disturbed.
- `docs/GUIDE.md:394` says that `PYTEST_LANES_CHILD=1` disables the plugin;
  it disables orchestration, and environment and selection still apply.
- `--lane-def` and `subprocess_paths` accept `.` and node ids.  The lane that
  takes the rest then ignores everything, or not what the node id selects, and
  tests run twice or their lane's rules do not match what it is given
  (`adhoc.py:45`, `lanes.py:157`).  `Separate` excludes them, and paths of one
  lane below those of another, which the code accepts as well.
- Ad-hoc definitions are not passed to the children, which classify by the
  file's configuration; a `.` given as an option's value is dropped, and
  options from `addopts` are not seen by `invocation.py`.

## 6. Proofs

All theorems hold for any values of the constants that satisfy the modules'
assumptions.

Induction over numbers, over finite sets and over the steps of a loop is done
without the library's induction theorems, which take an operator: the set of
the numbers for which a claim fails is a set like any other, and if it is not
empty it has a least element (`LeastNat`), which the claim for the number before
refutes.  `SetInduction` is the same over subsets of a finite set,
`IterationExists` gives a recursive function its defining equation, and the
`Sum...` lemmas are what the modules need of `SumFunctionOnSet`.

`LaneExecutorProofs`:

| Theorem | States | Further assumptions |
|---|---|---|
| `TypeCorrect` | `[]TypeOK` | none |
| `LongestFirstHolds` | `[]LongestFirst` | none |
| `WorkerCapHolds` | `[]WorkerCap` | distinct lane names |
| `NoIdleSlotHolds` | `[]NoIdleSlot` | distinct lane names |
| `ReturnsAfterAllHolds` | `[]ReturnsAfterAll` | distinct lane names |
| `ExitCodeHonestHolds` | `[]ExitCodeHonest` | distinct names, no negative codes |
| `ExecutorImplementsLaneRun` | `Spec => Promise!Spec` | distinct names, no negative codes |
| `OutputAccountedHolds` | `[]OutputAccounted` | distinct lane names |
| `FinalDrainIsWholeHolds` | `FinalDrainIsWhole` | distinct lane names |

The assumptions are those the code needs: names are all the scheduler knows,
and finding 1 is what happens with negative codes.  The inductive invariant is
made of `TypeOK`, `SlotsKept`, `SlotsFilled`, `VerdictsKept`, `ReadersKept`,
`RunsKept` and `OrderKept` (the end of `LaneExecutor`).  `WorkerCap` is not
inductive because it speaks of processes: `SlotsKept` adds that every living
process is a running name, and that a batch still to be launched fits beside the
running ones.  `ReturnsAfterAll` needs
`VerdictsKept`: a finished name's process has ended with the exit code recorded
for it, and past the loop every name is finished, which follows from `is_done`
only because distinct names are as many as commands.  `OrderKept` is
`LongestFirst` for the total order, with the batch between the launched and the
pending commands.  The refinement maps every step to a step or a stutter of
`LaneRun`; the launch needs `SlotsKept` for the abstract guard, and the report
needs `VerdictsKept`.  For `NoIdleSlot`, `SlotsFilled` adds that a batch takes
all that is pending or fills the workers.  For the output, `OutputAccounted` is
strengthened by `ReadersKept`: a reader begins with its process and closes only
after the process has exited and the pipe is empty, so that nothing is written
that no one can read.

`RunHistoryProofs`:

| Theorem | States |
|---|---|
| `TypeCorrect` | `[]TypeOK` |
| `NeverTwiceHolds` | `[]NeverTwice` |
| `ExactlyOnceHolds` | `[]ExactlyOnce` |
| `RecordsOwnedHolds` | `[]RecordsOwned` |
| `RecordsWholeHolds` | `RecordsWhole` |

The invariant is `HistoryInv`: `TypeOK`, `RecordsOwned`, `NeverTwice`, and
during a run `RunInv`.  A plan's first shard comes from a record, so it belongs
to the lane only because records name none of another lane's settled files
(`RecordsOwned`), which in turn holds because a job measures only what it
selects (`MeasuredOwned`).  Two scheduled jobs select disjoint settled files
(`JobsDisjoint`) and together all files (`JobsCover`); `LeftUnrun` and
`EndedWhole` carry this through the jobs' ends.  Files of `Movable` are the
exception the code makes.

`DurationStoreProofs`:

| Theorem | States |
|---|---|
| `TypeCorrect` | `[]TypeOK` |
| `ReadsWholeHolds` | `[]ReadsWhole` |
| `RecordsKeptHolds` | `[]RecordsKept` |

The invariant adds `ContentWhole`, `ClashesKnown` and `MergeKeeps` (the end of
`DurationStore`).  `ReadsWhole` follows from `ContentWhole`, and that from the
lemma that a document written into a longer file leaves either the whole
document or none: what stands behind the entry that closes a document makes the
file unreadable (`OverwrittenIsRead`).  `RecordsKept` is not
inductive because it does not see what a run is about to write: `MergeKeeps`
says that a run which records alone holds every promised record but those of
the lanes it has just measured.

`LaneSessionsProofs`:

| Theorem | States | Further assumptions |
|---|---|---|
| `TypeCorrect` | `[]TypeOK` | none |
| `EnvRestoredHolds` | `[]EnvRestored` | none |
| `EnvAppliedHolds` | `[]EnvApplied` | none |
| `ChildRunsItsLaneHolds` | `[]ChildRunsItsLane` | no lane sets `PYTEST_LANES_CHILD` or `PYTEST_LANES_DURATIONS_OUT` |
| `MeasurementsWholeHolds` | `MeasurementsWhole` | the same |

The hypothesis is `ChildKeysFree`.  The code does not forbid a configuration to
set the two variables, and one that does can turn a child into a parent.
(`EnvRestored` itself excepts projects that list an override twice for a lane,
an observation of section 5.)  The stack is what makes the proof: `Stacked` says
which sessions wait for which and who shares a process, `EnvKept` that every
session, however deep, can get back to the environment it began with, through
what the session above it will restore first, and `SettingsKept` that an
undisturbed session finds its configuration and its test's environment in its
process.  `ChildKept` carries the two variables from a child down to every
process below it; `RecorderKept` says that the recorder has the files of the
tests that have ended.

`LaneReporterProofs`:

| Theorem | States |
|---|---|
| `TypeCorrect` | `[]TypeOK` |
| `CountsHonestHolds` | `[]CountsHonest` |
| `EtaCountsEachLaneOnceHolds` | `[]EtaCountsEachLaneOnce` |
| `ParallelismWithinWorkersHolds` | `[]ParallelismWithinWorkers` |

The sessions are any that `PytestSessions` has: any tests, any verbosity, under
xdist or not; that the collected count is at least what was done is claimed only
of sessions that print it.  `CountsHonest` compares a row with its session, and
a step changes the row by what one line says; `RowsRead` relates them at every
line in between, so that each kind of line is one case.  `ParallelismWithinWorkers` is itself an
invariant about a sum: a tick of the clock adds a second to the running lanes,
of which there are no more than workers (`LanesTimed`).

`ShardedScheduleProofs`:

| Theorem | States |
|---|---|
| `StickyPlanHolds` | `StickyPlan` |
| `CutIsBestHolds` | `[]CutIsBest` |
| `HalvesPartitionHolds` | `[]HalvesPartition` |
| `ShardsPayFixedTwiceHolds` | `[]ShardsPayFixedTwice` |
| `WorthSplittingHolds` | `[]WorthSplitting` |
| `WholeLanesReplayedHolds` | `[]WholeLanesReplayed` |
| `GrahamBoundHolds` | `[]GrahamBound` |

For any lanes, records, files, cuts on file and number of workers.  Three
invariants build on each other.

- `PlanInv`: a plan with a split is what `Split` makes of the present records,
  and its cut is the one on file.  The first five theorems follow from what
  `plan_shards` computes: that the loop of `contiguous_halves` keeps the first
  of the most even cuts it has seen; that a usable cut on file leaves neither
  half empty; that planning again finds its own cut on file and either keeps it
  or, if it is not balanced, computes the same one; and that no replay ends
  before its longest duration.
- `ClockInv` is about the run.  Its part `Busy` is Graham's argument: as long as
  jobs wait, the workers' time, the work that waits and what is left of the
  running jobs add up to the work of the whole run, so a job is launched before
  its fair share has passed; when none waits, every running job keeps the bound
  it was launched with.
- `ReplayInv` relates an unsplit run to `simulate_makespan`, step by step: the
  queue is what the replay has still to place, the replay's heap has the ends of
  the running jobs (`Seated`, one worker each), and a worker without a job is
  free now.  A job that is launched therefore replaces the least end of the
  heap, and when the run is over the largest end is now.  `sorted` by rank and
  `launch_order` are shown to be the same order for recorded lanes, as both put
  the longest first and leave ties as declared.

`LanePartitionProofs`:

| Theorem | States |
|---|---|
| `TypeCorrect` | `[]TypeOK` |
| `ExactlyOneLaneHolds` | `[]ExactlyOneLane` |
| `LaneReproducesHolds` | `[]LaneReproduces` |
| `NothingLostHolds` | `[]NothingLost` |
| `LanesBalancedHolds` | `[]LanesBalanced` |

For any tests, directories, written configurations, definitions, recorded
seconds and number of lanes.  The steps are simple and the inductive invariant
`IInv` is short: what is pasted in the file is what the recorded seconds give
(`FileInv`), and the last run was made from the present tests and the present
file (`RunInv`).  The work is in what the operators compute.

- Classification and collection are two descriptions of a lane, and the proof is
  that they agree.  In a `Partition` every lane but the last is a `Claimant`
  (it is given the paths its rules claim, none of them the rootdir or a node
  id), two of them are `Apart` (no path of one below a path of the other), and
  the last takes the rest.  A test below a path of a lane is then classified to
  it (`ClassifiedOnce`), and each lane collects of the tests pytest would run
  just those classified to it (`LaneCollects`): the last one because its ignores
  are the other lanes' paths, prefix by prefix.
- Every generated configuration is a `Partition`.  For definitions this is what
  `Separate` says; the directories of `--lanes-auto` are different single parts,
  and the fallback's name is free (`AutoPartition`).  For a suggestion, a whole
  directory holds no file of another lane and a listed file lies below none
  (`OwnPaths`), so lanes that share no file are `Apart` (`OwnersApart`), and
  numbering gives different names, since among as many candidates as there are
  taken names and one more, one is free (`FreeName`, `UniqueNames`).
- For the balance, `Packing` carries `Bins` through the loop: the files placed
  so far are each in one bin, and what a bin holds exceeds an even share of the
  whole by no more than one unit, since the unit went where there was least
  (`PlaceUnit`).  A unit is one file, or a directory of no more than 1.3 shares
  (`Light`).  Sums over disjoint sets of files add up (`DisjointWeights`).
- `NothingLost` is about written configurations too.  A test that the lane which
  takes the rest does not collect lies below an ignored path, that path below
  an argument of the lane it is ignored for, and that lane ignores nothing
  (`SomeLaneCollects`).  A test of two lanes lies below paths of both, one of
  which is then a prefix of the other, or was given by a node id
  (`TwiceByNodeId`).

`sorted` is what all of this goes through: ranks by a strict total order of a
finite set are a bijection (`RankOf`), so the result lists the set in order
(`SortedLists`).

Only model-checked:

- `Terminates`, a liveness property, which the prover does not reach.
- The invariants of `ReportStaging`.  They are about filtering and folding
  argument lists and documents (`SelectSeq`, folds over sequences), operators
  that take an operator, which no installed prover can instantiate, and about
  staged file names composed of strings and numbers, which are opaque to the
  provers.
- The three runs that show a violation.

## 7. Not modelled

- Rendering: the live table and the presenters, the summary's layout, notes,
  suggestions by static analysis (`suggest.py`) and explanations
  (`explain.py`).  They turn decided values into text and keep no state.
- Parsing of configuration values (`config.py`, `pyproject_config.py`): which
  values are refused is data; that a refused file stops the run is in
  `LaneSessions`.
- Option registration, the check for xdist, `resolve_max_workers` and
  `detected_cpu_count`: their results are constants.
- In-lane xdist: a lane under xdist is one process here; its exclusion from
  sharding and what its session does not print are modelled.
- Exceptions after the scheduling loop are in `RunHistory` (`Abort`) and, for a
  report that is not text, in `ReportStaging`, but not in `LaneExecutor`.
