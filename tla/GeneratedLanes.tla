--------------------------- MODULE GeneratedLanes ---------------------------
(***************************************************************************)
(* Configurations nobody wrote: --lane-def and --lanes-auto (adhoc.py) and *)
(* the balanced partition that --lanes-suggest computes from the recorded  *)
(* seconds of the test files (balance.py), as the configuration the        *)
(* printed block becomes when it is pasted into the INI file.              *)
(***************************************************************************)
EXTENDS LaneClassification, Functions, TLC

CONSTANTS
    Lexical,     \* every file and directory, sorted as strings
    Refused,     \* a usage error instead of a configuration
    Token        \* what _marker_safe makes of a directory's last part

LexicalIndex(p) == CHOOSE i \in DOMAIN Lexical : Lexical[i] = p
InOrder(paths) ==
    sorted(paths, {p \in paths \X paths : LexicalIndex(p[1]) < LexicalIndex(p[2])})

-----------------------------------------------------------------------------
(* adhoc.py *)

_fallback_lane(name) ==
    [LaneNamed(name) EXCEPT !.classifier_fallback = TRUE,
                            !.subprocess_ignore_other_lanes = TRUE]

PathLane(name, paths) ==
    [LaneNamed(name) EXCEPT !.classifier_path_prefixes = paths,
                            !.subprocess_paths = paths]

Config(lanes, order) ==
    [lanes |-> lanes, order_standard |-> order, order_full |-> <<>>]

\* "other" is reserved and no name may come twice; Refused is UsageError.
lane_config_from_definitions(definitions) ==
    LET lanes == [i \in DOMAIN definitions |->
                    PathLane(definitions[i].name, definitions[i].paths)]
        all == Append(lanes, _fallback_lane("other"))
    IN  IF "other" \in Range(Names(lanes)) \/ ~IsInjective(Names(lanes))
        THEN Refused ELSE Config(all, Names(all))

\* "other" with "_files" appended n times.
OtherName[n \in Nat] == IF n = 0 THEN "other" ELSE OtherName[n - 1] \o "_files"

_unclaimed_name(taken) ==
    OtherName[Min({n \in 0..Cardinality(taken) : OtherName[n] \notin taken})]

\* One lane for each directory of the rootdir that holds a file named like a
\* test, hidden ones and virtual environments excepted.
auto_lane_config_or_none(tests) ==
    LET named == {t \in tests : t.standard_name}
        dirs == {t.path[1] : t \in {t \in named : Len(t.path) > 1}} \ NoRecurse
        paths == InOrder({<<d>> : d \in dirs})
        ordered == [i \in DOMAIN paths |-> paths[i][1]]
        lanes == [i \in DOMAIN ordered |-> PathLane(ordered[i], {<<ordered[i]>>})]
        fallback == _fallback_lane(_unclaimed_name(dirs))
        stray == \E t \in named : Len(t.path) = 1
    IN  IF Cardinality(dirs) < 2 THEN None
        ELSE Config(Append(lanes, fallback),
                    IF stray THEN Append(ordered, fallback.name) ELSE ordered)

\* CLI definitions first, then the auto partition, then the file.
resolve_lane_config_or_none(definitions, lanes_auto, tests, discovered) ==
    LET auto == IF lanes_auto THEN auto_lane_config_or_none(tests) ELSE None
    IN  IF definitions # <<>> THEN lane_config_from_definitions(definitions)
        ELSE IF auto # None THEN auto ELSE discovered

-----------------------------------------------------------------------------
(* balance.py: seconds is a function from the recorded files. *)

\* _pooled_files: the slowest measurement of each file.
_pooled_files(records) ==
    LET measured(file) == {r \in Range(records) : file \in DOMAIN r}
    IN  [file \in UNION {DOMAIN r : r \in Range(records)} |->
            Max({r[file] : r \in measured(file)})]

_total_seconds(seconds, files) == SumFunctionOnSet(seconds, files)

\* The pairs of S of which the first is heavier, or is placed earlier on a tie.
HeaviestFirst(S, load, place) ==
    {p \in S \X S : \/ load[p[1]] > load[p[2]]
                    \/ load[p[1]] = load[p[2]] /\ place[p[1]] < place[p[2]]}

\* The directory of files that lie in one directory.
_parent_directory(files) == Front(CHOOSE f \in files : TRUE)

_files_by_directory(files) ==
    {{f \in files : Front(f) = d} : d \in {Front(f) : f \in files}}

\* _PackingUnit: files that stay together.
PackingUnit(key, seconds, files) ==
    [key |-> key, files |-> files, seconds |-> _total_seconds(seconds, files)]

\* Mutant: every directory stays whole.
_packing_units_Whole(seconds, bins) ==
    {PackingUnit(_parent_directory(d), seconds, d) : d \in _files_by_directory(DOMAIN seconds)}

\* Directories stay whole unless heavier than 1.3 times a lane's share.
_packing_units(seconds, bins) ==
    LET total == _total_seconds(seconds, DOMAIN seconds)
        dirs == _files_by_directory(DOMAIN seconds)
        oversized == {d \in dirs : 10 * bins * _total_seconds(seconds, d) > 13 * total}
    IN  {PackingUnit(_parent_directory(d), seconds, d) : d \in dirs \ oversized}
        \cup {PackingUnit(f, seconds, {f}) : f \in UNION oversized}

\* The first lane of those with the least seconds.
lightest(bins) ==
    Min({i \in DOMAIN bins : \A j \in DOMAIN bins : bins[i].seconds <= bins[j].seconds})

Placed(bins, unit) ==
    [bins EXCEPT ![lightest(bins)] = [files |-> @.files \cup unit.files,
                                      seconds |-> @.seconds + unit.seconds]]

\* Heaviest unit first, ties by key; each goes into the lightest lane.
_longest_processing_time_pack(units, count) ==
    LET order == sorted(units, HeaviestFirst(units, [u \in units |-> u.seconds],
                                             [u \in units |-> LexicalIndex(u.key)]))
        bins[n \in 0..Len(order)] ==
            IF n = 0 THEN [i \in 1..count |-> [files |-> {}, seconds |-> 0]]
            ELSE Placed(bins[n - 1], order[n])
        packed == bins[Len(order)]
    IN  [i \in 1..count |-> packed[i].files]

\* A lane's preferred name is its heaviest directory's.
_lane_name(seconds, files) ==
    LET dirs == _files_by_directory(files)
        heavier == HeaviestFirst(dirs, [d \in dirs |-> _total_seconds(seconds, d)],
                        [d \in dirs |-> LexicalIndex(_parent_directory(d))])
        parent == _parent_directory(sorted(dirs, heavier)[1])
    IN  IF parent = <<>> THEN "lane" ELSE Token[Last(parent)]

NumberedName(name, n) == IF n = 1 THEN name ELSE name \o "_" \o ToString(n)

\* Mutant: duplicates are numbered without looking at the names taken.
_unique_names_Numbered(preferred) ==
    [i \in DOMAIN preferred |->
        LET earlier == {j \in 1..i - 1 : preferred[j] = preferred[i]}
        IN  IF earlier = {} THEN preferred[i]
            ELSE NumberedName(preferred[i], Cardinality(earlier) + 1)]

\* Duplicates get the first free of _2, _3, ...; "rest" is never free.
_unique_names(preferred) ==
    LET free(taken, name) ==
            NumberedName(name, Min({n \in 1..Cardinality(taken) + 1 :
                                        NumberedName(name, n) \notin taken}))
        names[n \in 0..Len(preferred)] ==
            IF n = 0 THEN <<>>
            ELSE Append(names[n - 1], free(Range(names[n - 1]) \cup {"rest"}, preferred[n]))
    IN  names[Len(preferred)]

\* Mutant: only the directory's own files count, not those below it.
_whole_directories_Flat(seconds, files) ==
    {d \in {Front(f) : f \in files} \ {<<>>} :
        \A f \in DOMAIN seconds : Front(f) = d => f \in files}

\* Directories of which the lane has every recorded file, outermost ones.
_whole_directories(seconds, files) ==
    LET below(d) == {f \in DOMAIN seconds : IsPrefix(d, Front(f))}
        whole == {d \in {Front(f) : f \in files} \ {<<>>} : below(d) \subseteq files}
    IN  {d \in whole : ~\E e \in whole : e # d /\ IsPrefix(e, d)}

\* _lane_section: whole directories by prefix, other files one by one.
BalancedLane(name, seconds, files) ==
    LET whole == _whole_directories(seconds, files)
        listed == {f \in files : ~\E d \in whole : IsPrefix(d, Front(f))}
    IN  [LaneNamed(name) EXCEPT !.classifier_path_prefixes = whole,
                                !.classifier_paths = listed,
                                !.subprocess_paths = whole \cup listed]

\* Bins that got files, the heaviest first, ties by their first file.
_lanes_heaviest_first(seconds, bins) ==
    LET filled == Range(bins) \ {{}}
    IN  sorted(filled, HeaviestFirst(filled,
            [files \in filled |-> _total_seconds(seconds, files)],
            [files \in filled |-> Min({LexicalIndex(f) : f \in files})]))

\* balanced_partition: the files of each lane; none for fewer than two files.
balanced_partition(seconds, lane_count) ==
    LET count == Max({1, Min({lane_count, Cardinality(DOMAIN seconds)})})
    IN  IF Cardinality(DOMAIN seconds) < 2 THEN <<>>
        ELSE _lanes_heaviest_first(seconds,
                _longest_processing_time_pack(_packing_units(seconds, count), count))

\* format_balanced_suggestion, pasted: the lanes and the catch-all "rest".
BalancedConfig(seconds, lane_count) ==
    LET packed == balanced_partition(seconds, lane_count)
        names == _unique_names([i \in DOMAIN packed |-> _lane_name(seconds, packed[i])])
        lanes == [i \in DOMAIN packed |-> BalancedLane(names[i], seconds, packed[i])]
        all == Append(lanes, _fallback_lane("rest"))
    IN  IF packed = <<>> THEN None ELSE Config(all, Names(all))

=============================================================================
