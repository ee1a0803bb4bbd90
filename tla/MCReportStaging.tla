-------------------------- MODULE MCReportStaging --------------------------
(* Small instances of ReportStaging. *)
EXTENDS ReportStaging

\* The last two names differ only in a character unsafe in a filename.
MCOrder == <<"unit", "api", "d.b", "d_b">>
MCToken == [l \in Range(MCOrder) |-> IF l = "d.b" THEN "d_b" ELSE l]

\* The suite of the second lane is called as the first one is numbered.
MCSuite ==
    [l \in Range(MCOrder) |->
        [name |-> IF l = "api" THEN "pytest-1" ELSE "pytest", lane |-> l,
         tests |-> IF l = "unit" THEN 2 ELSE 1]]

\* Both flags, a flag given twice, reports of all sorts.  A flag whose value
\* is an argument of its own keeps a command line from fanning out.
MCArgvs ==
    {<<<<"-q">>>>,
     <<<<"--junitxml", "r.xml">>, <<"-q">>>>,
     <<<<"--junit-xml", "r.xml">>, <<"--cov", "src">>, <<"--junitxml", "s.xml">>>>,
     <<<<"--cov">>, <<"--cov-report", "gcov">>, <<"--cov-report", "xml">>,
       <<"--junitxml", "r.xml">>, <<"--cov-report", "html">>>>,
     <<<<"--cov-report", "">>, <<"-q">>, <<"--cov-report", "term">>>>}

=============================================================================
