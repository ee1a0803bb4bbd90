------------------------------ MODULE LaneRun ------------------------------
(***************************************************************************)
(* What one orchestrated run promises its user, whatever threads, pipes    *)
(* and polling stand behind it: every lane is started at most once, at     *)
(* most MaxWorkers lanes run at a time, a verdict is given once and is     *)
(* never taken back, and the run ends green exactly when every lane is     *)
(* green.  LaneExecutor is the detailed specification that implements it.  *)
(***************************************************************************)
EXTENDS Naturals, FiniteSets

CONSTANTS
    Lanes,       \* the lanes of the run
    MaxWorkers   \* lanes that may run at the same time

VARIABLES
    lane,        \* lane[l]: how far lane l is
    outcome      \* what the run has told its caller so far

vars == <<lane, outcome>>

Verdicts == {"pass", "fail"}

RunningLanes == {l \in Lanes : lane[l] = "running"}

TypeOK ==
    /\ lane \in [Lanes -> {"pending", "running"} \cup Verdicts]
    /\ outcome \in {"open", "green", "red", "raised"}

Init ==
    /\ lane = [l \in Lanes |-> "pending"]
    /\ outcome = "open"

Start(l) ==
    /\ outcome = "open"
    /\ lane[l] = "pending"
    /\ Cardinality(RunningLanes) < MaxWorkers
    /\ lane' = [lane EXCEPT ![l] = "running"]
    /\ UNCHANGED outcome

Finish(l, verdict) ==
    /\ outcome = "open"
    /\ lane[l] = "running"
    /\ lane' = [lane EXCEPT ![l] = verdict]
    /\ UNCHANGED outcome

\* The caller gets an answer only when there is nothing left to wait for.
Conclude ==
    /\ outcome = "open"
    /\ \A l \in Lanes : lane[l] \in Verdicts
    /\ outcome' = IF \A l \in Lanes : lane[l] = "pass" THEN "green" ELSE "red"
    /\ UNCHANGED lane

\* A failed spawn or Ctrl-C: the caller gets an exception instead.
Raise ==
    /\ outcome = "open"
    /\ outcome' = "raised"
    /\ UNCHANGED lane

Next ==
    \/ \E l \in Lanes : Start(l)
    \/ \E l \in Lanes, verdict \in Verdicts : Finish(l, verdict)
    \/ Conclude
    \/ Raise

Spec == Init /\ [][Next]_vars

=============================================================================
