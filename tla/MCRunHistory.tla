---------------------------- MODULE MCRunHistory ----------------------------
(* Small instances of RunHistory. *)
EXTENDS RunHistory

MCLanes == {"db", "unit"}
MCDivisible == {"db", "unit"}

\* Three files of db and one of unit; the second may change lanes.
MCFour == 1..4
MCFourOwner == [f \in 1..4 |-> IF f <= 3 THEN "db" ELSE "unit"]
MCMovable == {2}

=============================================================================
