---------------------------- MODULE LaneReporter ----------------------------
(***************************************************************************)
(* LaneProgressReporter (reporter.py): what the parent knows of its lanes, *)
(* rebuilt line by line from the text of their pytest sessions.  A line is *)
(* what the parsers find in it; a session is the text a pytest run of some *)
(* test files prints.  A lane's verdict comes from its process, so lines   *)
(* may still be captured after it, and a killed process stops mid-text.    *)
(***************************************************************************)
EXTENDS Integers, Sequences, FiniteSets, Functions

CONSTANTS
    Lanes,
    Sessions,     \* the sessions each lane may run
    MaxWorkers,
    Expected,     \* recorded seconds of some lanes
    MaxTime,      \* bound: the clock stops there
    None

\* What pytest prints for a test that passed, was skipped, failed, had an
\* error, or was expected to fail and passed or failed.
GLYPHS == {".", "s", "F", "E", "X", "x"}

\* A session: how many tests of each progress line got which glyph, how many
\* tests were deselected and files skipped as a whole, its verbosity (-qq is
\* -2), and whether xdist's workers run it (lane_numprocesses).  A progress line
\* is about the tests of a file or of a part of a long one; with -q or under
\* xdist about as many as fit, with -v about one.
TestGroups == {counts \in [GLYPHS -> Nat] : \E g \in GLYPHS : counts[g] > 0}
PytestSessions ==
    [groups : Seq(TestGroups), deselected : Nat, skipped_files : Nat,
     verbosity : -2..1, workers : BOOLEAN]

ASSUME ReporterAssumption ==
    /\ IsFiniteSet(Lanes)
    /\ MaxWorkers \in Nat \ {0}
    /\ MaxTime \in Nat
    /\ \A l \in Lanes : Sessions[l] \subseteq PytestSessions
    /\ DOMAIN Expected \subseteq Lanes /\ \A l \in DOMAIN Expected : Expected[l] \in Nat
    /\ None \notin Int

VARIABLES
    now,
    session,  \* the session each lane runs
    output,   \* lines of each lane that are printed and not yet captured
    lane      \* the LaneState of each lane

vars == <<now, session, output, lane>>

Finished == {"pass", "fail"}

-----------------------------------------------------------------------------
(* What pytest prints. *)

\* The tests of the first n groups: those with a glyph, and all of them.
Having(s, n, g) == SumFunction([i \in 1..n |-> s.groups[i][g]])
Tests(s, n) == SumFunction([g \in GLYPHS |-> Having(s, n, g)])

\* Of what there is none, a line has no count.
NoCounts == [passed |-> 0, skipped |-> 0, failed |-> 0, deselected |-> 0]

Blank == [percent |-> None, glyphs |-> [g \in GLYPHS |-> 0], collected |-> None,
          failed |-> FALSE, counts |-> NoCounts]

\* A quiet session does not say what it collected, nor does one under xdist,
\* which prints "2 workers [3 items]"; with -qq there is no summary either.
Listed(s) == s.verbosity >= 0 /\ ~s.workers
Summarized(s) == s.verbosity >= -1

\* "collected 3 items / 1 deselected / 1 skipped / 2 selected"
CollectedLine(s) ==
    [Blank EXCEPT !.collected = Tests(s, Len(s.groups)) + s.deselected,
                  !.counts = [NoCounts EXCEPT !.deselected = s.deselected,
                                              !.skipped = s.skipped_files]]

\* "tests/test_a.py .sF   [ 50%]"; with -v "tests/test_a.py::test PASSED [ 50%]"
ProgressLine(s, i) ==
    [Blank EXCEPT !.glyphs = IF s.verbosity > 0 THEN @ ELSE s.groups[i],
                  !.percent = (100 * Tests(s, i)) \div Tests(s, Len(s.groups))]

\* "FAILED tests/test_a.py::test - reason", one for each failed test
FailedLine == [Blank EXCEPT !.failed = TRUE]

\* "1 failed, 2 passed, 1 skipped, 1 deselected in 0.12s"
SummaryLine(s) ==
    LET all(g) == Having(s, Len(s.groups), g)
    IN  [Blank EXCEPT !.counts =
            [passed |-> all("."), skipped |-> all("s") + s.skipped_files,
             failed |-> all("F"), deselected |-> s.deselected]]

SessionLines(s) ==
    (IF Listed(s) THEN <<CollectedLine(s)>> ELSE <<>>)
    \o [i \in 1..Len(s.groups) |-> ProgressLine(s, i)]
    \o [i \in 1..Having(s, Len(s.groups), "F") |-> FailedLine]
    \o (IF Summarized(s) THEN <<SummaryLine(s)>> ELSE <<>>)

-----------------------------------------------------------------------------
(* capture_output_line *)

_update_progress_and_counts(state, line) ==
    IF line.percent = None THEN state
    ELSE [state EXCEPT
            !.progress_percent = line.percent,
            !.passed_count = @ + line.glyphs["."] + line.glyphs["X"],
            !.skipped_count = @ + line.glyphs["s"]]

_update_failed_tests(state, line) ==
    IF line.failed THEN [state EXCEPT !.failed_tests = @ + 1] ELSE state

_update_collected_count(state, line) ==
    IF line.collected = None THEN state
    ELSE [state EXCEPT !.collected_count = line.collected]

\* Mutant: the summary's counts come on top of the counted glyphs.
_update_summary_counts_Added(state, line) ==
    [state EXCEPT !.passed_count = @ + line.counts.passed,
                  !.skipped_count = @ + line.counts.skipped]

\* The summary's counts replace the counted glyphs.
_update_summary_counts(state, line) ==
    [state EXCEPT
        !.passed_count = IF line.counts.passed > 0 THEN line.counts.passed ELSE @,
        !.skipped_count = IF line.counts.skipped > 0 THEN line.counts.skipped ELSE @,
        !.collected_count = IF line.counts.deselected > 0 /\ line.counts.passed > 0
                            THEN @ - line.counts.deselected ELSE @]

Capture(l) ==
    /\ output[l] # <<>>
    /\ LET line == Head(output[l])
           parsed == _update_collected_count(
                        _update_failed_tests(
                            _update_progress_and_counts(lane[l], line), line), line)
       IN  lane' = [lane EXCEPT ![l] = _update_summary_counts(parsed, line)]
    /\ output' = [output EXCEPT ![l] = Tail(@)]
    /\ UNCHANGED <<now, session>>

-----------------------------------------------------------------------------
(* The life of a lane. *)

Pending == [status |-> "pending", started_at |-> None, duration |-> 0,
            exit_code |-> None, progress_percent |-> 0, failed_tests |-> 0,
            collected_count |-> 0, passed_count |-> 0, skipped_count |-> 0]

InStatus(statuses) == {l \in Lanes : lane[l].status \in statuses}

Init ==
    /\ now = 0
    /\ session \in [Lanes -> UNION {Sessions[l] : l \in Lanes}]
    /\ \A l \in Lanes : session[l] \in Sessions[l]
    /\ output = [l \in Lanes |-> <<>>]
    /\ lane = [l \in Lanes |-> Pending]

\* Mutant: a lane's time runs from the beginning of the run.
mark_started_AtOnce(state) == [state EXCEPT !.status = "running", !.started_at = 0]

mark_started(state) == [state EXCEPT !.status = "running", !.started_at = now]

MarkStarted(l) ==
    /\ lane[l].status = "pending"
    /\ Cardinality(InStatus({"running"})) < MaxWorkers
    /\ lane' = [lane EXCEPT ![l] = mark_started(@)]
    /\ output' = [output EXCEPT ![l] = SessionLines(session[l])]
    /\ UNCHANGED <<now, session>>

\* Mutant: the start is taken from the end the wrong way round.
mark_finished_Swapped(state, code) ==
    [state EXCEPT !.exit_code = code,
                  !.status = IF code = 0 THEN "pass" ELSE "fail",
                  !.progress_percent = 100,
                  !.duration = state.started_at - now]

mark_finished(state, code) ==
    [state EXCEPT !.exit_code = code,
                  !.status = IF code = 0 THEN "pass" ELSE "fail",
                  !.progress_percent = 100,
                  !.duration = now - state.started_at]

\* A session without tests exits with 5, which a tolerant lane turns into 0.
ExitCodes(s) ==
    IF Having(s, Len(s.groups), "F") + Having(s, Len(s.groups), "E") > 0 THEN {1}
    ELSE IF s.groups = <<>> THEN {0, 5} ELSE {0}

SessionEnds(l) ==
    /\ lane[l].status = "running"
    /\ \E code \in ExitCodes(session[l]) :
        lane' = [lane EXCEPT ![l] = mark_finished(@, code)]
    /\ UNCHANGED <<now, session, output>>

\* A signal ends the process: the rest of its text is never printed.
SessionKilled(l) ==
    /\ lane[l].status = "running"
    /\ \E n \in 0..Len(output[l]) - 1 :
        output' = [output EXCEPT ![l] = SubSeq(@, 1, n)]
    /\ lane' = [lane EXCEPT ![l] = mark_finished(@, -9)]
    /\ UNCHANGED <<now, session>>

Tick ==
    /\ now < MaxTime
    /\ InStatus({"running"}) # {}
    /\ now' = now + 1
    /\ UNCHANGED <<session, output, lane>>

AllDone ==
    /\ InStatus(Finished) = Lanes
    /\ \A l \in Lanes : output[l] = <<>>
    /\ UNCHANGED vars

Next ==
    \/ \E l \in Lanes : MarkStarted(l) \/ Capture(l) \/ SessionEnds(l) \/ SessionKilled(l)
    \/ Tick
    \/ AllDone

Spec == Init /\ [][Next]_vars

-----------------------------------------------------------------------------
(* estimated_remaining_seconds, divisions rounded down *)

AtLeastZero(x) == IF x < 0 THEN 0 ELSE x
Elapsed(l) == now - lane[l].started_at
Progressing == {l \in InStatus({"running"}) : lane[l].progress_percent > 0}
FromProgress(l) ==
    AtLeastZero((Elapsed(l) * 100) \div lane[l].progress_percent - Elapsed(l))

_estimate_from_progress == SumFunction([l \in Progressing |-> FromProgress(l)])

average_duration ==
    SumFunction([l \in InStatus(Finished) |-> lane[l].duration])
        \div Cardinality(InStatus(Finished))

\* Mutant: lanes that show progress are estimated a second time.
_estimate_from_average_All ==
    SumFunction([l \in InStatus({"running"}) |-> AtLeastZero(average_duration - Elapsed(l))])

_estimate_from_average ==
    SumFunction([l \in InStatus({"running"}) \ Progressing |->
                    AtLeastZero(average_duration - Elapsed(l))])

_pending_lanes_expected_seconds ==
    SumFunctionOnSet(Expected, InStatus({"pending"}) \cap DOMAIN Expected)

estimated_remaining_seconds ==
    LET running == InStatus({"running"})
        expected == _pending_lanes_expected_seconds
    IN  IF running = {} THEN expected
        ELSE IF Progressing = running THEN _estimate_from_progress + expected
        ELSE IF InStatus(Finished) # {}
            THEN _estimate_from_progress + _estimate_from_average + expected
        ELSE IF Progressing # {} THEN _estimate_from_progress + expected
        ELSE IF expected > 0 THEN expected ELSE None

\* lane_results and live_rows: what the table and the summary show of a lane.
ShownSeconds(l) ==
    IF lane[l].status \in Finished THEN lane[l].duration
    ELSE IF lane[l].started_at # None THEN Elapsed(l) ELSE 0

sum_lane_seconds == SumFunction([l \in Lanes |-> ShownSeconds(l)])

-----------------------------------------------------------------------------
(* Properties *)

Counts == [passed : Nat, skipped : Nat, failed : Nat, deselected : Nat]

Lines ==
    [percent : {None} \cup 0..100, glyphs : [GLYPHS -> Nat], collected : {None} \cup Nat,
     failed : BOOLEAN, counts : Counts]

LaneStates ==
    [status : {"pending", "running"} \cup Finished, started_at : {None} \cup Nat,
     duration : Nat, exit_code : {None} \cup Int, progress_percent : 0..100,
     failed_tests : Nat, collected_count : Int, passed_count : Nat, skipped_count : Nat]

\* The reporter's records keep their types: no count of tests that ran and no
\* duration goes below zero, and the progress stays a percentage.  (What was
\* collected does go below zero, where deselected tests are taken off a count
\* that no line gave.)
TypeOK ==
    /\ now \in 0..MaxTime
    /\ session \in [Lanes -> PytestSessions]
    /\ output \in [Lanes -> Seq(Lines)]
    /\ lane \in [Lanes -> LaneStates]

\* However far the text of a lane has been read, its table row never shows
\* more tests done than the session has, nor, if the session said how many it
\* collected, more than that, files skipped as a whole set aside.  When a
\* session was read to its end, the row shows what its tests did, as far as a
\* summary was printed: without one unexpected passes count as passed, and so
\* they do where no test passed, because that summary has no " passed".  The
\* last lines are captured after the verdict and set the progress again: once
\* they all are, a passed lane still shows 100%.
CountsHonest ==
    \A l \in Lanes :
        LET s == session[l]
            row == lane[l]
            all(g) == Having(s, Len(s.groups), g)
            done == row.passed_count + row.failed_tests + row.skipped_count
        IN  /\ done <= Tests(s, Len(s.groups)) + s.skipped_files
            /\ Listed(s) => done <= row.collected_count + s.skipped_files
            /\ row.status \in Finished /\ row.exit_code >= 0 /\ output[l] = <<>> =>
                /\ row.failed_tests = all("F")
                /\ Summarized(s) => row.skipped_count = all("s") + s.skipped_files
                /\ Summarized(s) /\ all(".") > 0 => row.passed_count = all(".")
                /\ Listed(s) /\ all(".") > 0 => row.collected_count = Tests(s, Len(s.groups))
            /\ row.status = "pass" /\ output[l] = <<>> => row.progress_percent = 100

\* The remaining time is the sum of an estimate for each lane that has one,
\* by its progress or else by the average of the finished lanes, and of what
\* is recorded for the pending lanes; it is unknown only if no lane has one.
\* No running lane is counted twice.
EtaCountsEachLaneOnce ==
    LET byAverage == IF InStatus(Finished) = {} THEN {} ELSE InStatus({"running"}) \ Progressing
        estimate(l) == IF l \in Progressing THEN FromProgress(l)
                       ELSE AtLeastZero(average_duration - Elapsed(l))
        known == Progressing \cup byAverage
    IN  IF estimated_remaining_seconds = None
        THEN InStatus({"running"}) # {} /\ known = {} /\ _pending_lanes_expected_seconds = 0
        ELSE estimated_remaining_seconds =
                SumFunction([l \in known |-> estimate(l)]) + _pending_lanes_expected_seconds

\* The seconds the lanes are said to have taken never exceed what the workers
\* had: the parallelism ratio of the summary is at most max_workers.
ParallelismWithinWorkers == sum_lane_seconds <= MaxWorkers * now

-----------------------------------------------------------------------------
(* The parts of the inductive invariant (proved in LaneReporterProofs) *)

\* The lines before the progress lines, and the progress lines among the
\* first n lines.
HeadLines(s) == IF Listed(s) THEN 1 ELSE 0
GroupsRead(s, n) ==
    LET read == n - HeadLines(s)
    IN  IF read <= 0 THEN 0 ELSE IF read <= Len(s.groups) THEN read ELSE Len(s.groups)

\* The tests with a glyph that the progress lines of the first n lines show.
Seen(s, n, g) == IF s.verbosity > 0 THEN 0 ELSE Having(s, GroupsRead(s, n), g)

\* What a row counts when the first n lines of a session were read.
CountsRead(row, s, n) ==
    LET groups == Len(s.groups)
        listed == Listed(s) /\ n > 0
        ended == Summarized(s) /\ n = Len(SessionLines(s))
        summary == ended /\ Having(s, groups, ".") > 0
    IN  /\ row.passed_count = IF summary THEN Having(s, groups, ".")
                              ELSE Seen(s, n, ".") + Seen(s, n, "X")
        /\ row.skipped_count = IF ended THEN Having(s, groups, "s") + s.skipped_files
                               ELSE Seen(s, n, "s") + IF listed THEN s.skipped_files ELSE 0
        /\ row.failed_tests = IF n <= HeadLines(s) + groups THEN 0
                              ELSE IF ended THEN Having(s, groups, "F")
                              ELSE n - HeadLines(s) - groups
        /\ row.collected_count = (IF listed THEN Tests(s, groups) + s.deselected ELSE 0)
                                 - IF summary THEN s.deselected ELSE 0

\* A row counts what was read of a session, of which the next lines are left:
\* all, unless the lane is pending or was killed.
RowRead(row, s, left) ==
    LET all == Len(SessionLines(s))
        first == HeadLines(s) + 1
    IN  \E n, m \in 0..all :
        /\ n <= m /\ left = SubSeq(SessionLines(s), n + 1, m)
        /\ CountsRead(row, s, n)
        /\ row.status = "pending" => m = 0
        /\ row.status = "running" => m = all
        /\ row.status \in Finished =>
            /\ row.exit_code \in Int
            /\ row.exit_code >= 0 => m = all
            /\ row.status = "pass" => row.exit_code = 0
            /\ n \notin first..HeadLines(s) + Len(s.groups) - 1 => row.progress_percent = 100

RowsRead == \A l \in Lanes : RowRead(lane[l], session[l], output[l])

\* Lanes run one to a worker, and have since they started.
LanesTimed ==
    /\ Cardinality(InStatus({"running"})) <= MaxWorkers
    /\ \A l \in Lanes :
        /\ lane[l].status = "pending" => lane[l].started_at = None
        /\ lane[l].status = "running" => lane[l].started_at \in 0..now

=============================================================================
