------------------------- MODULE LaneClassification -------------------------
(***************************************************************************)
(* Which lane claims a test (lanes.py), what each lane's subprocess is     *)
(* asked to collect, and what --lane=<name>,... collects and skips         *)
(* (lane_selection.py).                                                    *)
(*                                                                         *)
(* A path is the sequence of its parts below the rootdir.  A test has the  *)
(* path of its file, its name, the names of its class's bases, and the     *)
(* suffixes its path ends with.  A lane is a LaneSpec of config.py.        *)
(***************************************************************************)
EXTENDS Integers, Sequences, FiniteSets, FiniteSetsExt, SequencesExt

CONSTANTS
    None,
    NoRecurse    \* names of directories pytest does not descend into

-----------------------------------------------------------------------------
(* The configuration. *)

Path == Seq(STRING)

LaneSpec ==
    [name : STRING, classifier_paths : SUBSET Path, classifier_path_prefixes : SUBSET Path,
     classifier_path_suffix : STRING \cup {None}, classifier_class_base_names : SUBSET STRING,
     classifier_fallback : BOOLEAN, subprocess_paths : SUBSET Path,
     subprocess_nodeids : SUBSET Path, subprocess_ignore : SUBSET Path,
     subprocess_ignore_other_lanes : BOOLEAN]

LaneConfig ==
    [lanes : Seq(LaneSpec), order_standard : Seq(STRING), order_full : Seq(STRING)]

LaneNamed(name) ==
    [name |-> name, classifier_paths |-> {}, classifier_path_prefixes |-> {},
     classifier_path_suffix |-> None, classifier_class_base_names |-> {},
     classifier_fallback |-> FALSE, subprocess_paths |-> {},
     subprocess_nodeids |-> {}, subprocess_ignore |-> {},
     subprocess_ignore_other_lanes |-> FALSE]

Indices(config, P(_)) == {i \in DOMAIN config.lanes : P(config.lanes[i])}

FirstOf(config, indices) ==
    IF indices = {} THEN None ELSE config.lanes[Min(indices)]

Names(lanes) == [i \in DOMAIN lanes |-> lanes[i].name]

lane_by_name(config, name) == FirstOf(config, Indices(config, LAMBDA s : s.name = name))

\* Python's sorted, of the elements of S by what is before what.
sorted(S, before) ==
    [k \in 1..Cardinality(S) |->
        CHOOSE x \in S : Cardinality({y \in S : <<y, x>> \in before}) = k - 1]

\* Names that no lane has are left out.
_lanes_in_order(config, order) ==
    LET known == {i \in DOMAIN order : order[i] \in Range(Names(config.lanes))}
        places == sorted(known, {p \in known \X known : p[1] < p[2]})
    IN  [k \in DOMAIN places |-> lane_by_name(config, order[places[k]])]

subprocess_lanes(config, mode) ==
    _lanes_in_order(config, IF mode = "full" /\ config.order_full # <<>>
                            THEN config.order_full ELSE config.order_standard)

-----------------------------------------------------------------------------
(* Classification: class bases of any lane first, then lane by lane. *)

\* Mutant: a prefix claims the files directly in the directory only.
PathClaims_OneLevel(spec, t) ==
    \/ t.path \in spec.classifier_paths
    \/ spec.classifier_path_suffix \in t.suffixes
    \/ \E prefix \in spec.classifier_path_prefixes : prefix = Front(t.path)

\* _path_rule_assignment: a prefix claims the path itself and all below it.
PathClaims(spec, t) ==
    \/ t.path \in spec.classifier_paths
    \/ spec.classifier_path_suffix \in t.suffixes
    \/ \E prefix \in spec.classifier_path_prefixes : IsPrefix(prefix, t.path)

ByClass(config, t) ==
    Indices(config, LAMBDA s : s.classifier_class_base_names \cap t.bases # {})
ByPath(config, t) == Indices(config, LAMBDA s : PathClaims(s, t))
Fallbacks(config) == Indices(config, LAMBDA s : s.classifier_fallback)

\* None where the code raises LookupError.
lane_for_item(config, t) ==
    FirstOf(config, IF ByClass(config, t) # {} THEN ByClass(config, t)
                    ELSE IF ByPath(config, t) # {} THEN ByPath(config, t)
                    ELSE Fallbacks(config))

-----------------------------------------------------------------------------
(* Collection. *)

\* Mutant: only what the other lanes' rules claim is left to them.
other_lane_ignores_Claims(config, excluded) ==
    UNION {s.classifier_paths \cup s.classifier_path_prefixes :
              s \in {s \in Range(config.lanes) : s.name # excluded.name}}

other_lane_ignores(config, excluded) ==
    UNION {s.subprocess_paths \cup s.classifier_paths \cup s.classifier_path_prefixes :
              s \in {s \in Range(config.lanes) : s.name # excluded.name}}

Arguments(spec) == spec.subprocess_paths \cup spec.subprocess_nodeids

Ignores(config, spec) ==
    spec.subprocess_ignore
    \cup (IF spec.subprocess_ignore_other_lanes
          THEN other_lane_ignores(config, spec) ELSE {})

build_lane_commands(config, mode) ==
    LET specs == subprocess_lanes(config, mode)
    IN  [i \in DOMAIN specs |-> [name |-> specs[i].name,
                                 args |-> Arguments(specs[i]),
                                 ignores |-> Ignores(config, specs[i])]]

\* What a pytest session collects: everything below its arguments, or below
\* the rootdir if there are none.  An argument is collected even if it, or a
\* directory above it, is ignored or not descended into.
Reaches(a, ignores, t) ==
    /\ IsPrefix(a, Append(t.path, t.name))
    /\ \A n \in Len(a) + 1 .. Len(t.path) :
        /\ SubSeq(t.path, 1, n) \notin ignores
        /\ n < Len(t.path) => t.path[n] \notin NoRecurse

Collected(args, ignores, tests) ==
    {t \in tests : \E a \in IF args = {} THEN {<<>>} ELSE args : Reaches(a, ignores, t)}

SubprocessTests(command, tests) == Collected(command.args, command.ignores, tests)

-----------------------------------------------------------------------------
(* --lane=<name>,...: one session for the selected lanes. *)

collection_args_for_lanes(config, selected) ==
    LET specs == {lane_by_name(config, name) : name \in selected}
    IN  [args |-> UNION {Arguments(s) : s \in specs},
         ignores |-> UNION {Ignores(config, s) : s \in specs}]

\* apply_lane_filter: a test no lane claims is an error under a selection.
Unclassified(config, tests) ==
    {t \in tests : ByClass(config, t) \cup ByPath(config, t) \cup Fallbacks(config) = {}}

\* The tests that are collected and not marked to be skipped.
SelectedTests(config, selected, tests) ==
    LET asked == collection_args_for_lanes(config, selected)
        items == Collected(asked.args, asked.ignores, tests)
    IN  IF Unclassified(config, items) # {} THEN {}
        ELSE {t \in items : lane_for_item(config, t).name \in selected}

=============================================================================
