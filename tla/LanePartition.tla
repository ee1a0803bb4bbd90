--------------------------- MODULE LanePartition ---------------------------
(***************************************************************************)
(* Where a project's lanes come from and what runs: the configuration is   *)
(* written by hand or pasted from --lanes-suggest, tests come and go, and  *)
(* each run resolves the configuration anew (--lane-def and --lanes-auto   *)
(* before the file) and either fans out or runs --lane=<name> in-process.  *)
(***************************************************************************)
EXTENDS GeneratedLanes

CONSTANTS
    AllTests,      \* the tests that may exist
    HandWritten,   \* configurations written by hand
    Definitions,   \* what --lane-def may say; <<>> if it is not given
    Durations,     \* records of per-file seconds a suggestion may start from
    LaneCount,     \* detected_cpu_count, at most MAX_SUGGESTED_LANES
    MaxSelected    \* bound: lanes named by --lane

\* What config.py reads: a name stands for one section, at most one lane
\* ignores the others' paths, and the orders name lanes.
Accepted(config) ==
    /\ config \in LaneConfig
    /\ \A i, j \in DOMAIN config.lanes :
        /\ config.lanes[i].name = config.lanes[j].name => config.lanes[i] = config.lanes[j]
        /\ config.lanes[i].subprocess_ignore_other_lanes
           /\ config.lanes[j].subprocess_ignore_other_lanes => i = j
    /\ Range(config.order_standard) \cup Range(config.order_full)
        \subseteq Range(Names(config.lanes))

\* Files that are tests are no directories; all directories are listed.
OnDisk(t) ==
    /\ t.path \in Range(Lexical) \ {<<>>} /\ t.name \in STRING /\ None \notin t.suffixes
    /\ \A n \in 0..Len(t.path) : SubSeq(t.path, 1, n) \in Range(Lexical)
    /\ \A n \in 1..Len(t.path) - 1 : t.path[n] \in DOMAIN Token
    /\ \A u \in AllTests : IsPrefix(t.path, u.path) => t.path = u.path

ASSUME PartitionAssumption ==
    /\ LaneCount \in Nat \ {0} /\ MaxSelected \in Nat
    /\ Lexical \in Seq(Path) /\ IsInjective(Lexical)
    /\ \A t \in AllTests : OnDisk(t)
    /\ \A config \in HandWritten : Accepted(config)
    /\ <<>> \in Definitions
    /\ Definitions \subseteq Seq([name : STRING, paths : (SUBSET Path) \ {{}}])
    /\ \A records \in Durations :
        /\ records \in Seq(Range(records)) /\ _pooled_files(records) # None
        /\ \A r \in Range(records) : \A file \in DOMAIN r : r[file] \in Nat

ASSUME NamesAssumption ==
    /\ \A m, n \in 0..Len(Lexical) : OtherName[m] = OtherName[n] => m = n
    /\ \A name \in {"lane"} \cup Range(Token), m, n \in 1..LaneCount + 2 :
        NumberedName(name, m) = NumberedName(name, n) => m = n

VARIABLES
    tests,    \* the tests that exist
    ini,      \* the configuration in the project's file, or None
    balance,  \* the recorded seconds it was suggested from, or None
    run       \* the last run, or NoRun

vars == <<tests, ini, balance, run>>

\* A run knows its configuration, where that came from, the selected lanes
\* (none: it fans out) and, for each of its sessions, the tests that ran.
NoRun == [config |-> None, origin |-> "none", selected |-> {}, sessions |-> <<>>]

Origin(definitions, lanes_auto) ==
    IF definitions # <<>> THEN "definitions"
    ELSE IF lanes_auto /\ auto_lane_config_or_none(tests) # None THEN "auto"
    ELSE IF balance # None THEN "balanced" ELSE "file"

Init ==
    /\ tests \in {AllTests, {t \in AllTests : t.standard_name}}
    /\ ini \in HandWritten \cup {None}
    /\ balance = None
    /\ run = NoRun

\* A test file appears or disappears; the configuration stays.
AddTest ==
    /\ \E t \in AllTests \ tests : tests' = tests \cup {t}
    /\ UNCHANGED <<ini, balance>> /\ run' = NoRun

RemoveTest ==
    /\ \E t \in tests : tests' = tests \ {t}
    /\ UNCHANGED <<ini, balance>> /\ run' = NoRun

\* What --lanes-suggest prints for each history of recorded seconds.
Suggestions ==
    {[seconds |-> _pooled_files(records),
      config |-> BalancedConfig(_pooled_files(records), LaneCount)] : records \in Durations}

\* --lanes-suggest with recorded seconds of existing files, and its block
\* pasted into the file.
PasteSuggestion ==
    /\ \E suggestion \in Suggestions :
        /\ DOMAIN suggestion.seconds \subseteq {t.path : t \in tests}
        /\ suggestion.config # None
        /\ ini' = suggestion.config
        /\ balance' = suggestion.seconds
    /\ UNCHANGED tests /\ run' = NoRun

\* The mode chooses the order; refused and missing configurations, and empty
\* orders, do not fan out.  Which tests a run executes does not depend on
\* earlier runs, so each is looked at on its own.
Orchestrate ==
    \E definitions \in Definitions, lanes_auto \in BOOLEAN, mode \in {"standard", "full"} :
        LET config == resolve_lane_config_or_none(definitions, lanes_auto, tests, ini)
            commands == build_lane_commands(config, mode)
        IN  /\ run = NoRun
            /\ config \notin {None, Refused}
            /\ commands # <<>>
            /\ run' = [config |-> config, origin |-> Origin(definitions, lanes_auto),
                       selected |-> {},
                       sessions |-> [i \in DOMAIN commands |->
                           [lane |-> commands[i].name,
                            tests |-> SubprocessTests(commands[i], tests)]]]
            /\ UNCHANGED <<tests, ini, balance>>

\* --lane=<name>,... of known lanes: one session in this process.
SelectLanes ==
    \E definitions \in Definitions, lanes_auto \in BOOLEAN :
        LET config == resolve_lane_config_or_none(definitions, lanes_auto, tests, ini)
        IN  /\ run = NoRun
            /\ config \notin {None, Refused}
            /\ \E selected \in UNION {kSubset(n, Range(Names(config.lanes))) : n \in 1..MaxSelected} :
                run' = [config |-> config, origin |-> Origin(definitions, lanes_auto),
                        selected |-> selected,
                        sessions |-> <<[lane |-> "selected",
                            tests |-> SelectedTests(config, selected, tests)]>>]
            /\ UNCHANGED <<tests, ini, balance>>

Next == AddTest \/ RemoveTest \/ PasteSuggestion \/ Orchestrate \/ SelectLanes

Spec == Init /\ [][Next]_vars

-----------------------------------------------------------------------------
(* Properties *)

FannedOut == run.config # None /\ run.selected = {}
SessionsOf(t) == {i \in DOMAIN run.sessions : t \in run.sessions[i].tests}

\* What plain pytest would run.
PlainTests == Collected({}, {}, tests)

\* The lanes' paths are files and directories below the rootdir (neither the
\* rootdir nor node ids), and none of one lane lies below one of another.
Separate(config) ==
    /\ \A s \in Range(config.lanes) :
        /\ <<>> \notin s.subprocess_paths
        /\ \A t \in AllTests : Append(t.path, t.name) \notin s.subprocess_paths
    /\ \A r, s \in Range(config.lanes) : r # s =>
        ~\E p \in r.subprocess_paths, q \in s.subprocess_paths : IsPrefix(p, q)

\* Each lane is run once, one of them takes what the others are not given, and
\* the others are given all that their path rules claim.
Complete(config) ==
    LET rest == {s \in Range(config.lanes) : Arguments(s) = {}}
        lanes == [i \in DOMAIN run.sessions |-> run.sessions[i].lane]
    IN  /\ Range(Names(config.lanes)) = Range(lanes) /\ IsInjective(lanes)
        /\ Cardinality(rest) = 1
        /\ \A s \in rest : s.subprocess_ignore_other_lanes
        /\ \A s \in Range(config.lanes) : s.subprocess_ignore = {}
        /\ \A s \in Range(config.lanes) \ rest :
            \A p \in s.classifier_paths \cup s.classifier_path_prefixes :
                \E q \in s.subprocess_paths : IsPrefix(q, p)

\* Lanes that are listed, names that are unique, one session for a selection.
TypeOK ==
    /\ tests \subseteq AllTests
    /\ ini = None \/ Range(ini.order_standard) \subseteq Range(Names(ini.lanes))
    /\ balance # None => IsInjective(Names(ini.lanes))
    /\ \A i \in DOMAIN run.sessions : run.sessions[i].tests \subseteq tests
    /\ run.selected # {} => Len(run.sessions) = 1

\* With generated lanes (those given by --lane-def must be separate), each
\* test plain pytest would run is run by exactly one lane's subprocess, the
\* lane that claims it, also if it is newer than the partition.  (--lanes-auto
\* knows tests by the default file names only.)
ExactlyOneLane ==
    FannedOut /\ run.origin # "file" /\ (run.origin = "definitions" => Separate(run.config)) =>
        \A t \in {t \in PlainTests : run.origin = "auto" => t.standard_name} :
            \E i \in DOMAIN run.sessions :
                /\ SessionsOf(t) = {i}
                /\ run.sessions[i].lane = lane_for_item(run.config, t).name

\* The command printed for a failed lane, --lane=<name>, runs the tests the
\* lane's subprocess ran, no more and no fewer.
LaneReproduces ==
    Cardinality(run.selected) = 1 /\ run.origin # "file" /\ (run.origin = "definitions" => Separate(run.config)) =>
        LET spec == lane_by_name(run.config, CHOOSE name \in run.selected : TRUE)
        IN  run.sessions[1].tests
                = Collected(Arguments(spec), Ignores(run.config, spec), tests)

\* A complete configuration, written by hand or not, loses no test plain
\* pytest would run; and one runs twice only if it is given to a lane by a
\* node id, which the lane that takes the rest does not ignore, or lies on
\* the paths of two lanes.
NothingLost ==
    FannedOut /\ Complete(run.config) =>
        \A t \in PlainTests :
            /\ SessionsOf(t) # {}
            /\ Cardinality(SessionsOf(t)) > 1 /\ Separate(run.config) =>
                \E s \in Range(run.config.lanes) : \E id \in s.subprocess_nodeids :
                    IsPrefix(id, Append(t.path, t.name))

\* A balanced partition puts every recorded file into one lane, the heaviest
\* lane first, and no lane exceeds an even share by more than the longest
\* file or the 1.3 shares a directory may weigh.
LanesBalanced ==
    balance # None =>
        LET count == Max({1, Min({LaneCount, Cardinality(DOMAIN balance)})})
            packed == balanced_partition(balance, LaneCount)
            load(i) == _total_seconds(balance, packed[i])
            total == _total_seconds(balance, DOMAIN balance)
        IN  /\ \A f \in DOMAIN balance : \E i \in DOMAIN packed :
                {j \in DOMAIN packed : f \in packed[j]} = {i}
            /\ \A i \in DOMAIN packed :
                /\ i > 1 => load(i) <= load(i - 1)
                /\ 10 * count * load(i) <= 10 * total
                    + Max({13 * total, 10 * count * Max(Range(balance))})

\* docs/GUIDE.md:403 of a lane's reproduce line: "the exact command to re-run
\* that lane in isolation".  The command, pytest --lane=<name>, finds a lane
\* of that name.
ReproduceLineRuns ==
    FannedOut =>
        LET config == resolve_lane_config_or_none(<<>>, FALSE, tests, ini)
        IN  \A i \in DOMAIN run.sessions :
                /\ config \notin {None, Refused}
                /\ run.sessions[i].lane \in Range(Names(config.lanes))

=============================================================================
