--------------------------- MODULE MCLaneSessions ---------------------------
(* Small instances of LaneSessions. *)
EXTENDS LaneSessions, TLC

MCTests == {"test_a", "test_b"}
MCFileOf == [t \in MCTests |-> IF t = "test_a" THEN "a.py" ELSE "b.py"]

MCConfig(a, b, env, standard, full) ==
    [lane |-> ("test_a" :> a @@ "test_b" :> b), env |-> env, rest |-> "rest",
     standard |-> standard, full |-> full]

\* Two lanes with environments of their own, the second only in a full run.
MCFull == MCConfig("a", "rest",
    [l \in {"a", "rest"} |->
        IF l = "a" THEN <<<<"DB", "postgres">>>>
        ELSE <<<<"DB", "redis">>, <<"MODE", "fast">>>>],
    <<"a">>, <<"a", "rest">>)

\* One lane for all tests; an override that is listed twice.
MCTwice == MCConfig("a", "a",
    [l \in {"a"} |-> <<<<"DB", "one">>, <<"DB", "two">>>>], <<>>, <<"a">>)

MCAdHoc == MCConfig("rest", "x", [l \in {"x", "rest"} |-> <<>>], <<"x", "rest">>, <<>>)

MCFiles(pytest_ini, pyproject, tox) ==
    "pytest.ini" :> pytest_ini @@ "pyproject.toml" :> pyproject @@ "tox.ini" :> tox
        @@ "setup.cfg" :> None

MCProjects ==
    {MCFiles(None, MCFull, MCTwice), MCFiles(None, None, MCTwice),
     MCFiles(Broken, MCFull, None), MCFiles(None, None, None)}

MCInvocations ==
    {<<>>, <<<<"--lanes-full">>>>, <<<<"-k", "expr">>>>, <<<<"--lane", "rest">>>>,
     <<<<"", "b.py">>>>, <<<<"--lane-def">>, <<"", "x=b">>>>, <<<<"--lanes-explain">>>>,
     <<<<"--lanes-suggest">>>>}

\* Of the command lines of sessions that tests start.
MCNested == {<<>>, <<<<"--lane", "rest">>>>}

\* With a value to restore, and with the plugin told that it is a child.
MCEnv(child, db) ==
    (CHILD :> child @@ DURATIONS_OUT :> None @@ "DB" :> db @@ "MODE" :> None)
MCKeys == {CHILD, DURATIONS_OUT, "DB", "MODE"}
MCValues ==
    {None, "1", "a", "rest", "x", "sqlite", "postgres", "redis", "fast", "one", "two"}
MCStartEnvs == {MCEnv(None, "sqlite"), MCEnv("1", None)}

=============================================================================
