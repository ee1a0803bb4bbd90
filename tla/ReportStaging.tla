---------------------------- MODULE ReportStaging ----------------------------
(***************************************************************************)
(* --junitxml and --cov across lanes (report_aggregation.py,               *)
(* report_merge.py, coverage_support.py): every lane's argv is redirected  *)
(* to files of its own in a staging directory, and when the lanes have     *)
(* ended the parent merges what is there.  A lane may be killed before or  *)
(* after coverage saves its data, and before, while or after it writes its *)
(* report; each of the parent's coverage commands may fail.                *)
(*                                                                         *)
(* A token of an argv is <<flag>>, <<flag, value>> for "flag=value", or    *)
(* <<word>> for anything else.                                             *)
(***************************************************************************)
EXTENDS Integers, Sequences, FiniteSets, FiniteSetsExt, SequencesExt, TLC

CONSTANTS
    Order,      \* the lane names, in the order of the commands
    Token,      \* _filename_token of each name
    Argvs,      \* what the user may pass through to the lanes
    Suite,      \* the <testsuite> of each lane: its name and its counts
    Old,        \* the report that an earlier run left at the target
    None

Lanes == Range(Order)
JUNIT_FLAGS == {"--junitxml", "--junit-xml"}
SupportedReports == {"term", "xml", "html"}

ASSUME StagingAssumption ==
    /\ Order # <<>>
    /\ DOMAIN Token = Lanes /\ DOMAIN Suite = Lanes

VARIABLES
    argv,      \* the tokens every lane's command starts with
    plan,      \* LaneReportPlan: what the parent owes the user
    step,      \* how far each lane got: "runs", "measured", "opened", "written",
               \* "ended" or "killed"
    saved,     \* lanes that have written their report, and their coverage data
    staged,    \* the report file of each filename token, or None
    data,      \* the coverage data file of each filename token, or None
    target,    \* the merged report, or Old
    combined,  \* lanes whose measurements are in the combined data, or None
    reports,   \* coverage reports, each with the lanes it shows, or None if it failed
    stage      \* "lanes", "merge", "combine", "report", "done" or "raised"

vars == <<argv, plan, step, saved, staged, data, target, combined, reports, stage>>

-----------------------------------------------------------------------------
(* Reading and redirecting an argv. *)

IsJunit(token) == token[1] \in JUNIT_FLAGS
ValueAt(args, i) == IF Len(args[i]) = 2 THEN args[i][2] ELSE args[i + 1][1]

\* Positions of the values that bare flags take from the next token.
Taken(args, IsFlag(_)) ==
    {i + 1 : i \in {i \in DOMAIN args : IsFlag(args[i]) /\ Len(args[i]) = 1}}

Without(args, dropped) ==
    FoldLeftDomain(LAMBDA kept, i : IF i \in dropped THEN kept ELSE Append(kept, args[i]),
                   <<>>, args)

junit_target_path(args) ==
    LET flags == {i \in DOMAIN args : IsJunit(args[i])}
    IN  IF flags = {} THEN None ELSE ValueAt(args, Min(flags))

\* Mutant: the flag that names the target is redirected, and no other.
args_with_lane_junit_path_First(args, lane) ==
    LET first == Min({i \in DOMAIN args : IsJunit(args[i])})
    IN  [args EXCEPT ![first] = <<args[first][1], Token[lane]>>]

\* Every occurrence is redirected, in the "flag=value" form.
args_with_lane_junit_path(args, lane) ==
    Without([i \in DOMAIN args |->
                IF IsJunit(args[i]) THEN <<args[i][1], Token[lane]>> ELSE args[i]],
            Taken(args, IsJunit))

IsReportRequest(token) == token[1] = "--cov-report"
is_coverage_requested(args) ==
    \E i \in DOMAIN args : args[i][1] \in {"--cov", "--cov-report", "--cov-branch"}

\* In the order they were written; "" asks for no report.
requested_coverage_reports(args) ==
    LET asked(i) == IsReportRequest(args[i]) /\ ValueAt(args, i) # ""
    IN  FoldLeftDomain(LAMBDA values, i : IF asked(i) THEN Append(values, ValueAt(args, i))
                                          ELSE values,
                       <<>>, args)

args_without_coverage_reports(args) ==
    Without(args, {i \in DOMAIN args : IsReportRequest(args[i])}
                    \cup Taken(args, IsReportRequest))

\* prepare_lane_reports reads the first command and redirects them all.
prepare_lane_reports(args) ==
    [junit_target |-> junit_target_path(args),
     coverage_requested |-> is_coverage_requested(args),
     coverage_reports |-> requested_coverage_reports(args)]

_prepared(lane) ==
    LET redirected == IF plan.junit_target = None THEN argv
                      ELSE args_with_lane_junit_path(argv, lane)
    IN  IF plan.coverage_requested
        THEN Append(args_without_coverage_reports(redirected), <<"--cov-report", "">>)
        ELSE redirected

-----------------------------------------------------------------------------
(* The lanes' processes write. *)

Init ==
    /\ argv \in Argvs /\ plan = prepare_lane_reports(argv)
    /\ step = [l \in Lanes |-> "runs"]
    /\ saved = [junit |-> {}, coverage |-> {}]
    /\ staged = [t \in Range(Token) |-> None]
    /\ data = [t \in Range(Token) |-> None]
    /\ target = Old /\ combined = None /\ reports = <<>>
    /\ stage = "lanes"

Blank == [root |-> "blank", suites |-> <<>>]
Truncated == [root |-> "invalid", suites |-> <<>>]
SplitCharacter == [root |-> "undecodable", suites |-> <<>>]
Report(l) == [root |-> "testsuites", suites |-> <<Suite[l]>>]

Unmerged == UNCHANGED <<argv, plan, target, combined, reports, stage>>

\* pytest-cov saves when the tests have run, before the report is opened.
SaveCoverage(l) ==
    /\ step[l] = "runs" /\ plan.coverage_requested
    /\ step' = [step EXCEPT ![l] = "measured"]
    /\ data' = [data EXCEPT ![Token[l]] = {l}]
    /\ saved' = [saved EXCEPT !.coverage = @ \cup {l}]
    /\ UNCHANGED staged /\ Unmerged

TestsDone == IF plan.coverage_requested THEN "measured" ELSE "runs"

OpenReport(l) ==
    /\ step[l] = TestsDone /\ plan.junit_target # None
    /\ step' = [step EXCEPT ![l] = "opened"]
    /\ staged' = [staged EXCEPT ![Token[l]] = Blank]
    /\ UNCHANGED <<saved, data>> /\ Unmerged

WriteReport(l) ==
    /\ step[l] = "opened"
    /\ step' = [step EXCEPT ![l] = "written"]
    /\ staged' = [staged EXCEPT ![Token[l]] = Report(l)]
    /\ saved' = [saved EXCEPT !.junit = @ \cup {l}]
    /\ UNCHANGED data /\ Unmerged

EndLane(l) ==
    /\ step[l] = IF plan.junit_target = None THEN TestsDone ELSE "written"
    /\ step' = [step EXCEPT ![l] = "ended"]
    /\ UNCHANGED <<saved, staged, data>> /\ Unmerged

\* A lane that is killed while it writes leaves an empty or a torn file, which
\* may end within a character.
KillLane(l) ==
    /\ step[l] \in {"runs", "measured", "opened", "written"}
    /\ step' = [step EXCEPT ![l] = "killed"]
    /\ IF step[l] = "opened"
       THEN \E torn \in {Blank, Truncated, SplitCharacter} :
                staged' = [staged EXCEPT ![Token[l]] = torn]
       ELSE UNCHANGED staged
    /\ UNCHANGED <<saved, data>> /\ Unmerged

LanesEnd ==
    /\ stage = "lanes"
    /\ \A l \in Lanes : step[l] \in {"ended", "killed"}
    /\ stage' = "merge"
    /\ UNCHANGED <<argv, plan, step, saved, staged, data, target, combined, reports>>

-----------------------------------------------------------------------------
(* The parent merges. *)

\* The reports that exist, in the order of the lanes.
Documents ==
    LET named == [i \in DOMAIN Order |-> staged[Token[Order[i]]]]
    IN  SelectSeq(named, LAMBDA document : document # None)

Undecodable(document) == document.root = "undecodable"
Unreadable(document) == document.root = "invalid"

\* Mutant: suites that share their name keep it.
_named_distinctly_Kept(suites) == suites

\* Suites that share their name are numbered by position.
_named_distinctly(suites) ==
    LET collides(i) == \E j \in DOMAIN suites : j # i /\ suites[j].name = suites[i].name
    IN  [i \in DOMAIN suites |->
            IF collides(i) THEN [suites[i] EXCEPT !.name = @ \o "-" \o ToString(i)]
            ELSE suites[i]]

merged_junit_document(documents) ==
    LET suites == _named_distinctly(FlattenSeq([i \in DOMAIN documents |-> documents[i].suites]))
    IN  [suites |-> suites,
         tests |-> FoldLeft(LAMBDA sum, suite : sum + suite.tests, 0, suites)]

\* Nothing is written if nothing was staged or one report cannot be read.
Mergeable(documents) ==
    documents # <<>> /\ \A i \in DOMAIN documents : ~Unreadable(documents[i])

\* All reports are read before one is parsed, and only a parse error is caught.
_merge_junit_reports ==
    /\ stage = "merge"
    /\ IF plan.junit_target # None /\ \E i \in DOMAIN Documents : Undecodable(Documents[i])
       THEN stage' = "raised" /\ UNCHANGED target
       ELSE /\ stage' = "combine"
            /\ target' = IF plan.junit_target # None /\ Mergeable(Documents)
                         THEN merged_junit_document(Documents) ELSE target
    /\ UNCHANGED <<argv, plan, step, saved, staged, data, combined, reports>>

Measured == {data[t] : t \in DOMAIN data} \ {None}

\* coverage combine fails without data, and may fail otherwise.
_combine_coverage ==
    /\ stage = "combine"
    /\ \/ /\ plan.coverage_requested /\ Measured # {}
          /\ combined' = UNION Measured
          /\ stage' = "report"
       \/ UNCHANGED combined /\ stage' = "done"
    /\ UNCHANGED <<argv, plan, step, saved, staged, data, target, reports>>

\* Unsupported reports are said to be so and skipped.
Supported(requested) == SelectSeq(requested, LAMBDA report : report \in SupportedReports)

\* What the commands leave, of which those in failed fail.
Produced(commands, failed) ==
    [i \in DOMAIN commands |->
        [report |-> commands[i], lanes |-> IF i \in failed THEN None ELSE combined]]

\* Mutant: no report is run after one that fails, as none is after combine.
_run_reports_UntilFailure ==
    /\ stage = "report"
    /\ LET commands == Supported(plan.coverage_reports)
       IN  \E failed \in SUBSET DOMAIN commands :
            reports' = SubSeq(Produced(commands, failed), 1, Min(failed \cup {Len(commands)}))
    /\ stage' = "done"
    /\ UNCHANGED <<argv, plan, step, saved, staged, data, target, combined>>

\* Each command may fail (for one, below the fail_under of the project).
_run_reports ==
    /\ stage = "report"
    /\ LET commands == Supported(plan.coverage_reports)
       IN  \E failed \in SUBSET DOMAIN commands : reports' = Produced(commands, failed)
    /\ stage' = "done"
    /\ UNCHANGED <<argv, plan, step, saved, staged, data, target, combined>>

Next ==
    \/ \E l \in Lanes : \/ SaveCoverage(l) \/ OpenReport(l) \/ WriteReport(l)
                       \/ EndLane(l) \/ KillLane(l)
    \/ LanesEnd \/ _merge_junit_reports \/ _combine_coverage \/ _run_reports

Spec == Init /\ [][Next]_vars

-----------------------------------------------------------------------------
(* Properties *)

\* argparse lets the last occurrence win.
Effective(args, IsFlag(_)) ==
    LET flags == {i \in DOMAIN args : IsFlag(args[i])}
    IN  IF flags = {} THEN None ELSE ValueAt(args, Max(flags))

Plain(args) ==
    LET reporting(token) == IsJunit(token) \/ IsReportRequest(token)
    IN  Without(args, {i \in DOMAIN args : reporting(args[i])} \cup Taken(args, reporting))

\* Whatever mixture of spellings asks for reports, each lane's pytest writes
\* its report to the lane's own file only and no coverage report, and sees
\* every other argument as it was given.
ArgvRedirected ==
    \A l \in Lanes :
        /\ plan.junit_target # None => Effective(_prepared(l), IsJunit) = Token[l]
        /\ plan.coverage_requested => Effective(_prepared(l), IsReportRequest) = ""
        /\ Plain(_prepared(l)) = Plain(argv)

Alone(l) == \A other \in Lanes \ {l} : Token[other] # Token[l]

\* A merged report is never partial: if one is written at all, each lane that
\* wrote its report and shares its file with no other is in it exactly once,
\* no lane that wrote none is, and the totals are the sums.  Suites that
\* shared a name are told apart; only a suite whose own name looks numbered can
\* still be taken for one of them.
MergedReportWhole ==
    target # Old =>
        LET suites == target.suites
            of(l) == {i \in DOMAIN suites : suites[i].lane = l}
            own(i) == Suite[suites[i].lane].name
        IN  /\ \A l \in Lanes : Alone(l) =>
                Cardinality(of(l)) = IF l \in saved.junit THEN 1 ELSE 0
            /\ target.tests = MapThenSumSet(LAMBDA i : suites[i].tests, DOMAIN suites)
            /\ \A i, j \in DOMAIN suites :
                i # j /\ own(i) = own(j) => suites[i].name # suites[j].name

\* If the data was combined, every supported coverage report is run, in the
\* order asked for and whichever of them fail, and none otherwise; each that
\* succeeds shows all lanes that saved their data in a file of their own, however
\* they ended.
CoverageReportsWhole ==
    stage = "done" =>
        /\ combined = None => reports = <<>>
        /\ combined # None =>
            LET supported == {i \in DOMAIN plan.coverage_reports :
                                plan.coverage_reports[i] \in SupportedReports}
                place(i) == Cardinality({k \in supported : k <= i})
            IN  /\ {l \in saved.coverage : Alone(l)} \subseteq combined
                /\ combined \subseteq saved.coverage
                /\ Len(reports) = Cardinality(supported)
                /\ \A i \in supported :
                    /\ reports[place(i)].report = plan.coverage_reports[i]
                    /\ reports[place(i)].lanes \in {None, combined}

=============================================================================
