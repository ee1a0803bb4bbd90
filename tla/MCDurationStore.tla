-------------------------- MODULE MCDurationStore --------------------------
(* A small instance of DurationStore. *)
EXTENDS DurationStore

MCLanes == {"unit", "api", "db"}

Entry(lane, value, last) == [lane |-> lane, value |-> value, last |-> last]

\* No file; one of the first version; one with an entry that is no record.
MCInitial ==
    {<<>>,
     <<Entry("unit", Bare, FALSE), Entry("db", Bare, TRUE)>>,
     <<Entry("unit", Bad, FALSE), Entry("api", Bare, TRUE)>>}

=============================================================================
