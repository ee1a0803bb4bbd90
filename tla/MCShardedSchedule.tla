------------------------- MODULE MCShardedSchedule -------------------------
(* Small instances of ShardedSchedule. *)
EXTENDS ShardedSchedule

\* The files of the divisible lane db are 1 to 4, those of api 5 and 6; unit
\* runs under xdist, so that it is never split however long it takes.
MCOrder == <<"unit", "api", "db", "web", "cli">>
MCDivisible == {"db", "api", "unit"}
MCXdist == {"unit"}
MCFiles == 1..6

\* startup, and time that neither startup, collection nor files explain.
MCRecord(startup, unexplained, files) ==
    [total |-> startup + unexplained + SumFunction(files),
     startup |-> startup, collect |-> 0, files |-> files]
MCWhole(total) == MCRecord(0, total, <<>>)

MCAll(unit, api, db, web, cli) ==
    [l \in Range(MCOrder) |->
        CASE l = "unit" -> unit [] l = "api" -> api [] l = "db" -> db
          [] l = "web" -> web [] l = "cli" -> cli]

\* Up to four files of which 4 and 5 are just balanced and 1 and 4 are not.
MCDbFiles == [1..2 -> {1, 4}] \cup [1..3 -> {1, 4, 5}] \cup [1..4 -> {4, 5}]
MCApiFiles == {[f \in {5, 6} |-> 3], [f \in {5} |-> 12]}

\* A few lanes beside db and api, a close race of five lanes, or only a
\* record of db.
MCHistories ==
    {MCAll(MCRecord(0, 0, [f \in {5, 6} |-> 1]), MCRecord(1, 0, api),
           MCRecord(1, 1, db), MCWhole(w), MCWhole(1)) :
        api \in MCApiFiles, db \in MCDbFiles, w \in {1, 30}}
    \cup {MCAll(MCWhole(u), MCWhole(a), MCRecord(1, 0, db), MCWhole(6), MCWhole(c)) :
            u \in {3, 7}, a \in {5, 7}, c \in 1..2, db \in [1..2 -> 3..4]}
    \cup {[l \in {"db"} |-> MCRecord(1, 0, db)] : db \in MCDbFiles}

\* All files are there, or the first or the last of db's is gone.
MCDisks == {1..6, 2..6, {1, 2, 3, 5, 6}}

MCCuts ==
    [lane : {"db"}, first : {{1}, {1, 2}, {2, 4}}]
        \cup {[lane |-> "api", first |-> {5}]}

=============================================================================
