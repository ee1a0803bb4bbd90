--------------------------- MODULE MCLaneExecutor ---------------------------
(* Small instances of LaneExecutor. *)
EXTENDS LaneExecutor

\* Three lanes of which one has no record, and two lanes with the shorter
\* declared first.
MCThreeLanes == <<"unit", "api", "db">>
MCTwoLanes == <<"unit", "api">>

MCThreeRecords == [l \in {"unit", "api"} |-> IF l = "unit" THEN 1 ELSE 2]
MCTwoRecords == [l \in {"unit", "api"} |-> IF l = "unit" THEN 1 ELSE 2]

MCNone == {}
MCSecondTolerant == {2}
MCExitCodes == {0, 1, 5}
MCPassFail == {0, 1}
MCKilledPositive == {3}
MCKilledBySignal == {-9}
MCBadLastLine == {<<1, 2>>}

=============================================================================
