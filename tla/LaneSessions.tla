----------------------------- MODULE LaneSessions -----------------------------
(***************************************************************************)
(* pytest sessions with the plugin's hooks (hooks.py): what a command line *)
(* becomes (invocation.py, mode.py, config_discovery.py), the process a    *)
(* lane is started in (executor.py, _spawn_lane_subprocess), the           *)
(* environment each test gets, and the measurements a lane's child writes  *)
(* (recording.py).                                                         *)
(*                                                                         *)
(* A test may itself start a session, in a process of its own or within    *)
(* its process (pytester's runpytest), so sessions form a stack of which   *)
(* the topmost acts.  Lanes run side by side but share nothing modelled    *)
(* here: one is followed at a time.                                        *)
(***************************************************************************)
EXTENDS Integers, Sequences, FiniteSets, FiniteSetsExt, SequencesExt

CONSTANTS
    Tests,       \* the tests of the project
    FileOf,      \* the file of each test
    Projects,    \* what the files of the rootdir may declare
    AdHoc,       \* the configuration --lane-def or --lanes-auto makes
    Invocations, \* command lines, as sequences of arguments
    Nested,      \* those of the sessions that tests start
    Keys,        \* the variables of an environment
    Values,      \* and what they may be set to; None: not set
    StartEnvs,   \* environments the user may start pytest in
    MaxDepth,    \* bound: sessions within sessions
    None,
    Broken       \* a file with an invalid lane configuration

DISCOVERY_ORDER == <<"pytest.ini", "pyproject.toml", "tox.ini", "setup.cfg">>
CHILD == "PYTEST_LANES_CHILD"
DURATIONS_OUT == "PYTEST_LANES_DURATIONS_OUT"

VARIABLES
    project,   \* the configuration each file of the rootdir declares
    procs,     \* the processes that live, each started by the one before
    sessions,  \* the sessions under way, each started by the one before
    out        \* the measurement file of each lane: the tests' files, or None

vars == <<project, procs, sessions, out>>

\* A configuration gives each test its lane and each lane its environment;
\* its orders list the lanes that get a subprocess.
LanesOf(config) == DOMAIN config.env
DistinctKeys(config) ==
    \A l \in LanesOf(config) : IsInjective([i \in DOMAIN config.env[l] |-> config.env[l][i][1]])

Configs(files) == ({AdHoc} \cup Range(files)) \ {None, Broken}
AllConfigs == UNION {Configs(files) : files \in Projects}
AllLanes == UNION {LanesOf(config) : config \in AllConfigs}

\* What a command line is made of; a lane is named to its child by a path.
Path(l) == <<"", l>>
Arguments ==
    (UNION {Range(args) : args \in Invocations \cup Nested}) \cup {Path(l) : l \in AllLanes}

NoMeasurements == [l \in AllLanes |-> None]

\* Ad-hoc lanes have no environment (adhoc.py).
ASSUME SessionsAssumption ==
    /\ MaxDepth \in Nat
    /\ Invocations \cup Nested \subseteq Seq(Arguments)
    /\ \A files \in Projects : DOMAIN files = Range(DISCOVERY_ORDER)
    /\ \A config \in AllConfigs :
        /\ Range(config.standard) \cup Range(config.full) \subseteq LanesOf(config)
        /\ \A t \in Tests : config.lane[t] \in LanesOf(config)
        /\ \A l \in LanesOf(config) : config.env[l] \in Seq(Keys \X Values)
    /\ \A l \in LanesOf(AdHoc) : AdHoc.env[l] = <<>>
    /\ {CHILD, DURATIONS_OUT} \subseteq Keys
    /\ StartEnvs \subseteq [Keys -> Values]
    /\ AllLanes \cup {"1", None} \subseteq Values
    /\ None \notin AllLanes \cup Tests
    /\ DOMAIN FileOf = Tests /\ \A files \in SUBSET Range(FileOf) : files # None

-----------------------------------------------------------------------------
(* Configuration: --lane-def and --lanes-auto come before the files, of    *)
(* which the first that declares lanes counts.                             *)

discover_lane_config(files) ==
    LET declaring == {i \in DOMAIN DISCOVERY_ORDER : files[DISCOVERY_ORDER[i]] # None}
    IN  IF declaring = {} THEN None ELSE files[DISCOVERY_ORDER[Min(declaring)]]

DefinesLanes(arg) == arg[1] \in {"--lane-def", "--lanes-auto"}

resolve_lane_config_or_none(args, files) ==
    IF \E i \in DOMAIN args : DefinesLanes(args[i]) THEN AdHoc
    ELSE discover_lane_config(files)

-----------------------------------------------------------------------------
(* The command line.  An argument is <<flag>>, <<flag, value>> for a flag  *)
(* and its value in one, or <<"", path>> for a positional.                 *)

SELECTION_FLAGS == {"-k", "-m", "--lf", "--ff", "--last-failed", "--failed-first"}

Has(args, flag) == \E i \in DOMAIN args : args[i][1] = flag

has_custom_selection(args) ==
    \E i \in DOMAIN args : args[i][1] \in SELECTION_FLAGS \cup {"--lane"}

\* The value after a bare --lane-def is no path.
has_targeted_paths(args) ==
    \E i \in DOMAIN args :
        /\ args[i][1] = "" /\ args[i][2] # "."
        /\ i = 1 \/ args[i - 1] # <<"--lane-def">>

\* Of positionals, "." and the values after --lane-def are left then.
passthrough_args_for_lanes(args) ==
    LET passed[n \in 0..Len(args)] ==
            IF n = 0 THEN <<>>
            ELSE IF DefinesLanes(args[n]) \/ args[n][1] = "" THEN passed[n - 1]
            ELSE Append(passed[n - 1], args[n])
    IN  passed[Len(args)]

orchestration_mode(env, args) ==
    IF \/ env[CHILD] = "1" \/ has_custom_selection(args) \/ has_targeted_paths(args)
       \/ Has(args, "--lanes-explain")
    THEN None
    ELSE IF Has(args, "--lanes-full") THEN "full" ELSE "standard"

Order(config, mode) ==
    IF mode = "full" /\ config.full # <<>> THEN config.full ELSE config.standard

\* --lane of a project without lanes, or of a lane that is not known.
Refuses(config, args) ==
    \E i \in DOMAIN args :
        args[i][1] = "--lane" /\ (config = None \/ args[i][2] \notin LanesOf(config))

\* What pytest_cmdline_main and pytest_configure make of a command line.
Decision(env, args, files) ==
    LET mode == orchestration_mode(env, args)
        config == resolve_lane_config_or_none(args, files)
    IN  IF Has(args, "--lanes-suggest") /\ env[CHILD] # "1" THEN "suggests"
        ELSE IF config = Broken THEN "refused"
        ELSE IF mode # None /\ config # None /\ Order(config, mode) # <<>> THEN "lanes"
        ELSE IF Refuses(config, args) THEN "refused" ELSE "plain"

-----------------------------------------------------------------------------
(* Sessions begin. *)

Top == Len(sessions)
Session == sessions[Top]
Proc == procs[Session.proc]

Process(env) == [env |-> env, lane_config |-> None, recorder |-> None]

\* The lanes a session has to run, or the tests: those of the named lane, or
\* all it is given; none are run for --lanes-explain.
Queue(kind, config, env, args, within) ==
    LET named == {args[i][2] : i \in {i \in DOMAIN args : args[i][1] = "--lane"}}
    IN  IF kind = "lanes" THEN Range(Order(config, orchestration_mode(env, args)))
        ELSE IF Has(args, "--lanes-explain") THEN {}
        ELSE {t \in within : named = {} \/ config.lane[t] \in named}

\* A session begins in the last process of ps: pytest_cmdline_main, or
\* pytest_configure and pytest_sessionstart with the process's globals
\* _lane_config and _child_recorder.  Suggestions and refusals end at once.
Begin(under, ps, args, files, within, lane) ==
    LET p == Len(ps)
        env == ps[p].env
        config == resolve_lane_config_or_none(args, files)
        kind == Decision(env, args, files)
        configured == IF kind \in {"lanes", "suggests"} \/ config = Broken THEN ps
                      ELSE [ps EXCEPT ![p].lane_config = config]
        recording == kind = "plain" /\ env[DURATIONS_OUT] # None
        begun == [proc |-> p, kind |-> kind, config |-> config,
                  args |-> IF kind = "lanes" THEN args ELSE <<>>,
                  queue |-> Queue(kind, config, env, args, within), lane |-> lane,
                  before |-> env, item |-> None, saved |-> None, ran |-> {},
                  disturbed |-> FALSE]
    IN  IF kind \in {"suggests", "refused"}
        THEN /\ sessions' = under
             /\ procs' = SubSeq(configured, 1, Len(procs))
             /\ UNCHANGED out
        ELSE /\ sessions' = Append(under, begun)
             /\ procs' = IF recording THEN [configured EXCEPT ![p].recorder = {}]
                         ELSE configured
             /\ out' = IF kind = "lanes" THEN NoMeasurements ELSE out

Init ==
    /\ project \in Projects
    /\ procs = <<>> /\ sessions = <<>>
    /\ out = NoMeasurements

\* The user's command.
Invoke ==
    /\ sessions = <<>>
    /\ \E args \in Invocations, env \in StartEnvs :
        Begin(<<>>, <<Process(env)>>, args, project, Tests, None)
    /\ UNCHANGED project

Listed(key, pairs) == {i \in DOMAIN pairs : pairs[i][1] = key}

\* The pairs are set one after the other.
WithPairs(env, pairs) ==
    [key \in DOMAIN env |->
        IF Listed(key, pairs) = {} THEN env[key]
        ELSE pairs[Max(Listed(key, pairs))][2]]

\* Mutant: the child is not told that it is one.
ChildEnv_Unmarked(env, config, l) ==
    WithPairs([env EXCEPT ![DURATIONS_OUT] = l], config.env[l])

\* The lane's own settings come last.
ChildEnv(env, config, l) ==
    WithPairs([env EXCEPT ![CHILD] = "1", ![DURATIONS_OUT] = l], config.env[l])

\* The lane that takes the rest is given no path.
LaneArgs(config, args, l) ==
    passthrough_args_for_lanes(args) \o IF l = config.rest THEN <<>> ELSE <<Path(l)>>

LaneTests(config, l) == {t \in Tests : config.lane[t] = l}

\* _spawn_lane_subprocess: the child resolves the configuration anew.
SpawnLane ==
    /\ Top > 0 /\ Top < MaxDepth /\ Session.kind = "lanes"
    /\ \E l \in Session.queue :
        LET config == Session.config
        IN  Begin([sessions EXCEPT ![Top].queue = @ \ {l}],
                  Append(procs, Process(ChildEnv(Proc.env, config, l))),
                  LaneArgs(config, Session.args, l), project, LaneTests(config, l), l)
    /\ UNCHANGED project

\* A test starts a session, on the project or in a directory without lanes.
Bare == [f \in Range(DISCOVERY_ORDER) |-> None]

NestProcess ==
    /\ Top > 0 /\ Top < MaxDepth /\ Session.item # None
    /\ \E args \in Nested, files \in {project, Bare} :
        Begin(sessions, Append(procs, Process(Proc.env)), args, files, Tests, None)
    /\ UNCHANGED project

NestWithin ==
    /\ Top > 0 /\ Top < MaxDepth /\ Session.item # None
    /\ \E args \in Nested, files \in {project, Bare} :
        Begin([sessions EXCEPT ![Top].disturbed = TRUE], procs, args, files, Tests, None)
    /\ UNCHANGED project

-----------------------------------------------------------------------------
(* A session runs its tests and ends. *)

\* _env_overrides_for_item: by the configuration of the process.
Overrides(t) ==
    IF Proc.lane_config = None THEN <<>>
    ELSE Proc.lane_config.env[Proc.lane_config.lane[t]]

\* Mutant: a lane's child has its environment already.
AppliedPairs_NotInChild(env, pairs) == IF env[CHILD] = "1" THEN <<>> ELSE pairs

AppliedPairs(env, pairs) == pairs

\* Mutant: what is restored is read when everything is set.
Saved_Late(env, pairs) ==
    [key \in {pairs[i][1] : i \in DOMAIN pairs} |-> WithPairs(env, pairs)[key]]

\* Of a key that is listed twice, the value before the last is kept.
Saved(env, pairs) ==
    LET before(key) == Max(Listed(key, pairs)) - 1
    IN  [key \in {pairs[i][1] : i \in DOMAIN pairs} |->
            WithPairs(env, SubSeq(pairs, 1, before(key)))[key]]

pytest_runtest_setup ==
    /\ Top > 0 /\ Session.kind = "plain" /\ Session.item = None
    /\ \E t \in Session.queue :
        LET pairs == AppliedPairs(Proc.env, Overrides(t))
        IN  /\ sessions' = [sessions EXCEPT ![Top].item = t, ![Top].queue = @ \ {t},
                                            ![Top].ran = @ \cup {t},
                                            ![Top].saved = Saved(Proc.env, pairs)]
            /\ procs' = [procs EXCEPT ![Session.proc].env = WithPairs(@, pairs)]
    /\ UNCHANGED <<project, out>>

Restored(env, saved) ==
    [key \in DOMAIN env |-> IF key \in DOMAIN saved THEN saved[key] ELSE env[key]]

\* Teardown, and the report of the test's duration to the recorder.
pytest_runtest_teardown ==
    /\ Top > 0 /\ Session.item # None
    /\ sessions' = [sessions EXCEPT ![Top].item = None, ![Top].saved = None]
    /\ procs' = [procs EXCEPT
          ![Session.proc].env = Restored(@, Session.saved),
          ![Session.proc].recorder =
              IF @ = None THEN None ELSE @ \cup {FileOf[Session.item]}]
    /\ UNCHANGED <<project, out>>

\* Mutant: measurements that are there are kept.
Measurements_Kept(l, files) == IF out[l] = None THEN files ELSE out[l]

Measurements(l, files) == files

\* A process ends with its first session.
Leave ==
    /\ sessions' = Front(sessions)
    /\ procs' = IF \E k \in 1..Top - 1 : sessions[k].proc = Session.proc
                THEN procs ELSE Front(procs)

\* pytest_sessionfinish, when all tests have run or earlier (-x).
FinishSession ==
    /\ Top > 0 /\ Session.kind = "plain" /\ Session.item = None
    /\ Leave
    /\ out' = IF Proc.recorder = None THEN out
              ELSE LET l == Proc.env[DURATIONS_OUT]
                   IN  [out EXCEPT ![l] = Measurements(l, Proc.recorder)]
    /\ UNCHANGED project

\* run_lane_commands returns when the last lane has ended; the directory of
\* the measurements is removed.
FinishLanes ==
    /\ Top > 0 /\ Session.kind = "lanes" /\ Session.queue = {}
    /\ Leave
    /\ out' = NoMeasurements
    /\ UNCHANGED project

\* The process at the top is killed, and its sessions with it.
Kill ==
    /\ Top > 0
    /\ \E first \in 1..Top :
        /\ \A k \in 1..Top : k >= first <=> sessions[k].proc = Session.proc
        /\ sessions' = SubSeq(sessions, 1, first - 1)
    /\ procs' = Front(procs)
    /\ out' = IF \E k \in DOMAIN sessions' : sessions'[k].kind = "lanes" THEN out
              ELSE NoMeasurements
    /\ UNCHANGED project

Next ==
    \/ Invoke \/ SpawnLane \/ NestProcess \/ NestWithin
    \/ pytest_runtest_setup \/ pytest_runtest_teardown
    \/ FinishSession \/ FinishLanes \/ Kill

Spec == Init /\ [][Next]_vars

-----------------------------------------------------------------------------
(* Properties *)

\* No session below a lane's child fans out, whatever its command line, and
\* the child itself runs the whole lane: a command line that selects tests
\* or lanes (which each child would apply again) did not fan out.
ChildRunsItsLane ==
    \A i \in DOMAIN sessions : sessions[i].lane # None =>
        /\ \A k \in i..Top : sessions[k].kind = "plain"
        /\ LET config == sessions[i - 1].config
               given == sessions[i].queue \cup sessions[i].ran
           IN  given = LaneTests(config, sessions[i].lane)

\* docs/GUIDE.md:352, subprocess_env_set: "injected into the subprocess env
\* and applied per-test in single-process mode".  Every test of a lane runs
\* in the lane's environment: in the lane's child, in-process, and in a
\* session below the child of another lane.  (Not after a session was run
\* within the process: it has replaced the configuration.)
EnvApplied ==
    Top > 0 /\ Session.item # None /\ ~Session.disturbed /\ Session.config # None =>
        LET pairs == Session.config.env[Session.config.lane[Session.item]]
        IN  Proc.env = WithPairs(Proc.env, pairs)

SetsKeysOnce ==
    LET config == discover_lane_config(project)
    IN  config \in {None, Broken} \/ DistinctKeys(config)

\* Between its tests, and when it ends, a session's environment is the one
\* it began with, also if sessions were nested within its process.  (A key
\* that a lane lists twice is left behind.)
EnvRestored ==
    Top > 0 /\ Session.kind = "plain" /\ Session.item = None /\ SetsKeysOnce =>
        Proc.env = Session.before

\* A child that ends leaves the measurements of the tests it ran, of which
\* the scheduler plans the next run, although sessions started by its tests
\* inherit the path and write their own there.
MeasurementsWhole ==
    [][\A i \in DOMAIN sessions :
        /\ sessions[i].lane # None /\ ~sessions[i].disturbed
        /\ i = Top /\ FinishSession
        => out'[sessions[i].lane] = {FileOf[t] : t \in sessions[i].ran}]_vars

-----------------------------------------------------------------------------
(* The parts of the inductive invariants (proved in LaneSessionsProofs) *)

Environments == [Keys -> Values]
Savings == UNION {[keys -> Values] : keys \in SUBSET Keys}

ProcessRecords ==
    [env : Environments, lane_config : AllConfigs \cup {None},
     recorder : {None} \cup SUBSET Range(FileOf)]

SessionRecords ==
    [proc : Nat, kind : {"plain", "lanes"}, config : AllConfigs \cup {None},
     args : Seq(Arguments), queue : SUBSET (Tests \cup AllLanes),
     lane : AllLanes \cup {None}, before : Environments, item : Tests \cup {None},
     saved : Savings \cup {None}, ran : SUBSET Tests, disturbed : BOOLEAN]

\* Every variable has the shape the code gives it.
TypeOK ==
    /\ project \in Projects
    /\ procs \in Seq(ProcessRecords)
    /\ sessions \in Seq(SessionRecords)
    /\ out \in [AllLanes -> {None} \cup SUBSET Range(FileOf)]

\* Processes are started in the order of the stack; whatever is below the top
\* waits for a lane or within a test, and is disturbed by what it shares its
\* process with.
Stacked ==
    /\ \A k \in 1..Top : sessions[k].proc \in 1..Len(procs)
    /\ \A j, k \in 1..Top : j <= k => sessions[j].proc <= sessions[k].proc
    /\ \A p \in 1..Len(procs) : \E k \in 1..Top : sessions[k].proc = p
    /\ \A k \in 1..Top : sessions[k].kind = "plain" => sessions[k].queue \subseteq Tests
    /\ \A k \in 1..Top : sessions[k].kind = "lanes" =>
        /\ sessions[k].item = None /\ sessions[k].config # None
        /\ sessions[k].queue \subseteq LanesOf(sessions[k].config)
    /\ \A k \in 1..Top : sessions[k].item # None => sessions[k].saved \in Savings
    /\ \A k \in 1..Top - 1 : sessions[k].item = None => sessions[k].kind = "lanes"
    /\ \A k \in 1..Top - 1 : sessions[k + 1].proc = sessions[k].proc =>
        sessions[k].kind = "plain" /\ sessions[k].disturbed

\* The environment a session has now or will find when it goes on.
Facing(k) ==
    IF k < Top /\ sessions[k + 1].proc = sessions[k].proc THEN sessions[k + 1].before
    ELSE procs[sessions[k].proc].env

\* Every session can get back to the environment it began with.
EnvKept ==
    /\ \A p \in DOMAIN procs :
        procs[p].lane_config \in {None, AdHoc, discover_lane_config(project)}
    /\ SetsKeysOnce => \A k \in DOMAIN sessions :
        sessions[k].before = IF sessions[k].item = None THEN Facing(k)
                             ELSE Restored(Facing(k), sessions[k].saved)

\* A session that shares its process with no later one has its configuration
\* and its test's environment in it.
SettingsKept ==
    \A k \in DOMAIN sessions :
        LET s == sessions[k]
            p == procs[s.proc]
        IN  s.kind = "plain" /\ ~s.disturbed =>
            /\ p.lane_config = s.config
            /\ s.item # None /\ s.config # None =>
                p.env = WithPairs(p.env, s.config.env[s.config.lane[s.item]])

\* No lane sets what the plugin tells its children by.
ChildKeysFree ==
    \A config \in AllConfigs : \A l \in LanesOf(config) : \A i \in DOMAIN config.env[l] :
        config.env[l][i][1] \notin {CHILD, DURATIONS_OUT}

\* A lane's child knows that it is one and where its measurements go, and so
\* do the processes started below it.
ChildKept ==
    /\ \A k \in DOMAIN sessions :
        /\ sessions[k].kind = "lanes" =>
            ~Has(sessions[k].args, "--lane") /\ ~Has(sessions[k].args, "--lanes-explain")
        /\ sessions[k].item # None =>
            {CHILD, DURATIONS_OUT} \cap DOMAIN sessions[k].saved = {}
    /\ \A k \in DOMAIN sessions : sessions[k].lane # None =>
        /\ k > 1 /\ sessions[k - 1].kind = "lanes"
        /\ \A p \in sessions[k].proc..Len(procs) : procs[p].env[CHILD] = "1"
        /\ procs[sessions[k].proc].env[DURATIONS_OUT] = sessions[k].lane

\* A test runs once, and the recorder has the files of those that have ended.
RecorderKept ==
    \A k \in DOMAIN sessions :
        /\ sessions[k].queue \cap sessions[k].ran = {}
        /\ sessions[k].item \in sessions[k].ran \cup {None}
        /\ sessions[k].lane # None /\ ~sessions[k].disturbed =>
            procs[sessions[k].proc].recorder
                = {FileOf[t] : t \in sessions[k].ran \ {sessions[k].item}}

=============================================================================
