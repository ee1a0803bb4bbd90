--------------------------- MODULE MCLaneReporter ---------------------------
(* Small instances of LaneReporter. *)
EXTENDS LaneReporter

\* A group of tests by what its progress line shows.
MCGroup(glyphs) == [g \in GLYPHS |-> Cardinality({i \in DOMAIN glyphs : glyphs[i] = g})]

MCSession(groups, deselected, skipped_files, verbosity, workers) ==
    [groups |-> [i \in DOMAIN groups |-> MCGroup(groups[i])],
     deselected |-> deselected, skipped_files |-> skipped_files,
     verbosity |-> verbosity, workers |-> workers]

\* A failure and an unexpected pass in two groups, with a deselected test; a
\* quiet session that deselects; a session under xdist; with -v a session
\* without passes; no test left, and a skipped file; and no summary.
MCSessions ==
    [l \in {"unit", "api", "db"} |->
        CASE l = "unit" -> {MCSession(<<<<".", "F">>, <<"X">>>>, 1, 0, 0, FALSE),
                            MCSession(<<<<".", ".", "s">>>>, 1, 0, -1, FALSE)}
          [] l = "api" -> {MCSession(<<<<".", "s", "F">>>>, 0, 0, 0, TRUE),
                           MCSession(<<<<"s", "X">>>>, 0, 0, 1, FALSE)}
          [] l = "db" -> {MCSession(<<>>, 1, 1, 0, FALSE),
                          MCSession(<<<<".", "X", "E">>>>, 0, 0, -2, FALSE)}]

\* The lane api has no record.
MCExpected == [l \in {"unit", "db"} |-> IF l = "unit" THEN 1 ELSE 2]

=============================================================================
