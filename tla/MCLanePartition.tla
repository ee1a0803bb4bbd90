-------------------------- MODULE MCLanePartition --------------------------
(* Small instances of LanePartition. *)
EXTENDS LanePartition

\* Two directories whose last part is "a" and one that is called "a_2", one
\* called "other", a hidden one, nested ones and a file in the rootdir.
MCLexical ==
    <<<<>>, <<".nox">>, <<".nox", "test_h.py">>, <<"a">>, <<"a", "n">>,
      <<"a", "n", "test_n_db.py">>, <<"a", "test_a.py">>, <<"a_2">>,
      <<"a_2", "test_2.py">>, <<"b">>, <<"b", "a">>, <<"b", "a", "check_b.py">>,
      <<"b", "a", "test_b.py">>, <<"other">>, <<"other", "test_o.py">>, <<"test_root.py">>>>

MCToken == [d \in {"a", "n", "a_2", "b", "other"} |-> d] @@ (".nox" :> "nox")
MCNoRecurse == {".nox"}

MCTest(path, bases, standard_name) ==
    [path |-> path, name |-> "Test", bases |-> bases, standard_name |-> standard_name,
     suffixes |-> IF path = <<"a", "n", "test_n_db.py">> THEN {"_db.py"} ELSE {}]

MCTests ==
    {MCTest(<<".nox", "test_h.py">>, {}, TRUE), MCTest(<<"a", "n", "test_n_db.py">>, {}, TRUE),
     MCTest(<<"a", "test_a.py">>, {}, TRUE), MCTest(<<"a_2", "test_2.py">>, {"Db"}, TRUE),
     MCTest(<<"b", "a", "check_b.py">>, {}, FALSE), MCTest(<<"b", "a", "test_b.py">>, {}, TRUE),
     MCTest(<<"other", "test_o.py">>, {}, TRUE), MCTest(<<"test_root.py">>, {}, TRUE)}

MCRest(name) == _fallback_lane(name)

\* By hand: a lane by path with a fallback; a lane by suffix and class
\* base, run by path and node id, with a fallback; lanes whose paths overlap, without a fallback.
MCHandWritten ==
    {[lanes |-> <<PathLane("unit", {<<"a">>, <<"b">>}), MCRest("rest")>>,
      order_standard |-> <<"unit">>, order_full |-> <<"unit", "rest">>],
     [lanes |-> <<[LaneNamed("db") EXCEPT !.classifier_path_suffix = "_db.py",
                      !.classifier_class_base_names = {"Db"},
                      !.subprocess_paths = {<<"a", "n">>},
                      !.subprocess_nodeids = {<<"a_2", "test_2.py", "Test">>}],
                  MCRest("rest")>>,
      order_standard |-> <<"db", "rest">>, order_full |-> <<>>],
     [lanes |-> <<[PathLane("n", {<<"a", "n">>}) EXCEPT !.subprocess_ignore = {<<"a">>}],
                  PathLane("a", {<<"a">>})>>,
      order_standard |-> <<"n", "a">>, order_full |-> <<>>]}

MCDef(name, paths) == [name |-> name, paths |-> paths]
MCDefinitions ==
    {<<>>, <<MCDef("x", {<<"a">>}), MCDef("y", {<<"b">>, <<"test_root.py">>})>>,
     <<MCDef("x", {<<"a">>}), MCDef("y", {<<"a", "n">>})>>,
     <<MCDef("x", {<<"a">>}), MCDef("x", {<<"b">>})>>, <<MCDef("other", {<<"a">>})>>}

\* One heavy directory; three of one weight; a file measured in two lanes.
MCFileA == <<"a", "test_a.py">>
MCFileN == <<"a", "n", "test_n_db.py">>
MCFile2 == <<"a_2", "test_2.py">>
MCFileB == <<"b", "a", "test_b.py">>
MCFileC == <<"b", "a", "check_b.py">>
MCFileR == <<"test_root.py">>
MCDurations ==
    {<<MCFileA :> 2 @@ MCFileN :> 2 @@ MCFileB :> 2, MCFile2 :> 1>>,
     <<MCFileB :> 9 @@ MCFileC :> 6, MCFileA :> 1 @@ MCFileB :> 1>>,
     <<MCFileB :> 6 @@ MCFileC :> 6, MCFileA :> 1>>,
     <<MCFileA :> 3 @@ MCFileB :> 3, MCFile2 :> 2>>,
     <<MCFileA :> 1 @@ MCFileN :> 3 @@ MCFileR :> 2 @@ MCFile2 :> 1>>,
     <<MCFileR :> 1>>}

=============================================================================
