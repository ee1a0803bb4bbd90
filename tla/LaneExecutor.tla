---------------------------- MODULE LaneExecutor ----------------------------
(***************************************************************************)
(* run_lane_commands (executor.py): the parent's scheduling loop over a    *)
(* LaneWorkQueue (scheduler.py), one pytest subprocess per lane writing to *)
(* a pipe, one reader thread per lane moving lines from the pipe to the    *)
(* shared output queue, and the reporter's verdict and captured output.    *)
(*                                                                         *)
(* A command is named by its place in the declared order; Declared[c] is   *)
(* its lane name, which is all the work queue and the reporter know it by. *)
(* A line of output is its number among the lines its process wrote.       *)
(***************************************************************************)
EXTENDS Integers, Sequences, FiniteSets

CONSTANTS
    Declared,         \* lane names, in declared order
    RecordedSeconds,  \* durations of earlier runs, a function on some names
    MaxWorkers,       \* resolve_max_workers' answer
    Tolerant,         \* commands with tolerate_no_tests
    ExitCodes,        \* what a pytest process may exit with
    CrashCodes,       \* what poll() reports of one that dies half-way
    MaxLines,         \* bound: lines one lane writes
    PipeCapacity,     \* lines the OS pipe holds
    Undecodable,      \* <<c, n>>: line n of c is not text in the locale
    ShowLaneOutput,   \* --show-lane-output
    MayRaise,         \* Popen may fail or Ctrl-C may arrive
    NoCode            \* the None of an exit code that is not known yet

Commands == 1..Len(Declared)
Names == {Declared[c] : c \in Commands}
Codes == ExitCodes \cup CrashCodes \cup {0}
NoTestsCollected == 5

ASSUME ExecutorAssumption ==
    /\ Declared \in Seq(STRING)
    /\ MaxWorkers \in Nat \ {0}
    /\ DOMAIN RecordedSeconds \subseteq STRING
    /\ \A l \in DOMAIN RecordedSeconds : RecordedSeconds[l] \in Nat
    /\ Tolerant \subseteq Commands
    /\ ExitCodes \subseteq Int /\ CrashCodes \subseteq Int
    /\ NoCode \notin Int
    /\ MaxLines \in Nat /\ PipeCapacity \in Nat \ {0}
    /\ ShowLaneOutput \in BOOLEAN /\ MayRaise \in BOOLEAN

VARIABLES
    \* the parent's main thread
    pc,        \* where run_lane_commands stands
    batch,     \* what is left of the ready_to_launch tuple being launched
    runs,      \* commands launched so far, in launch order
    recorded,  \* recorded[c]: the exit_code of c's _LaneRun
    at,        \* index into runs of the sweep (poll or join) under way
    returned,  \* what run_lane_commands returned
    \* LaneWorkQueue
    pending, running, finished,
    \* the lane subprocesses and their pipes
    proc, code, toWrite, written, pipe,
    \* the reader threads and the queue they share with the main thread
    reader, outq,
    \* LaneProgressReporter and what was printed from it
    status, laneExit, captured, printed

mainVars == <<pc, batch, runs, recorded, at, returned>>
workVars == <<pending, running, finished>>
childVars == <<proc, code, toWrite, written, pipe>>
reporterVars == <<status, laneExit, captured, printed>>
vars == <<mainVars, workVars, childVars, reader, outq, reporterVars>>

-----------------------------------------------------------------------------
(* Launch order *)

Unrecorded(c) == Declared[c] \notin DOMAIN RecordedSeconds
Seconds(c) == RecordedSeconds[Declared[c]]

\* Mutant: a lane without a record counts as taking no time.
Precedes_UnknownShort(c, d) ==
    LET key(e) == IF Unrecorded(e) THEN 0 ELSE Seconds(e)
    IN  key(c) > key(d) \/ (key(c) = key(d) /\ c < d)

\* The policies' order: a lane without a record counts as infinitely long,
\* longer before shorter, and the sort keeps ties in declared order.
Precedes(c, d) ==
    \/ Unrecorded(c) /\ ~Unrecorded(d)
    \/ Unrecorded(c) /\ Unrecorded(d) /\ c < d
    \/ /\ ~Unrecorded(c) /\ ~Unrecorded(d)
       /\ \/ Seconds(c) > Seconds(d)
          \/ Seconds(c) = Seconds(d) /\ c < d

Before(c, S) == {d \in S : Precedes(d, c)}

\* Mutants: running lanes take no slot; one slot too few.
FreeSlots_NoneTaken == MaxWorkers
FreeSlots_OneShort ==
    LET used == Cardinality(running) + 1
    IN  IF used < MaxWorkers THEN MaxWorkers - used ELSE 0

FreeSlots ==
    LET used == Cardinality(running)
    IN  IF used < MaxWorkers THEN MaxWorkers - used ELSE 0

\* The pending list is kept in policy order, so its first FreeSlots entries
\* are the pending commands with fewer than FreeSlots before them.
ready_to_launch == {c \in pending : Cardinality(Before(c, pending)) < FreeSlots}

\* Mutant: done once nothing waits to be launched.
is_done_NothingPending == pending = {}

is_done == Cardinality(finished) = Len(Declared)

\* Mutant: the launched command stays in the pending list.
mark_launched_StillPending(l) ==
    /\ pending' = pending
    /\ running' = running \cup {l}

\* LaneWorkQueue.mark_launched drops every pending command of that name.
mark_launched(l) ==
    /\ pending' = {c \in pending : Declared[c] # l}
    /\ running' = running \cup {l}

\* Mutant: the slot is given back, the lane is not counted as finished.
mark_finished_NotCounted(l) ==
    /\ running' = running \ {l}
    /\ finished' = finished

\* LaneWorkQueue.mark_finished.
mark_finished(l) ==
    /\ running' = running \ {l}
    /\ finished' = finished \cup {l}

\* LaneProgressReporter.mark_finished: the lane's verdict.
give_verdict(l, exit) ==
    /\ laneExit' = [laneExit EXCEPT ![l] = exit]
    /\ status' = [status EXCEPT ![l] = IF exit = 0 THEN "pass" ELSE "fail"]

-----------------------------------------------------------------------------

Init ==
    /\ pc = "loop" /\ batch = {} /\ runs = <<>> /\ at = 1
    /\ recorded = [c \in Commands |-> NoCode]
    /\ returned = NoCode
    /\ pending = Commands /\ running = {} /\ finished = {}
    /\ proc = [c \in Commands |-> "unborn"]
    /\ code = [c \in Commands |-> NoCode]
    /\ toWrite = [c \in Commands |-> 0]
    /\ written = [c \in Commands |-> 0]
    /\ pipe = [c \in Commands |-> <<>>]
    /\ reader = [c \in Commands |-> "none"]
    /\ outq = <<>>
    /\ status = [l \in Names |-> "pending"]
    /\ laneExit = [l \in Names |-> NoCode]
    /\ captured = [l \in Names |-> <<>>]
    /\ printed = {}

(* The main thread *)

BeginIteration ==
    /\ pc = "loop"
    /\ ~is_done
    /\ batch' = ready_to_launch
    /\ pc' = "launch"
    /\ UNCHANGED <<runs, recorded, at, returned, workVars, childVars, reader,
                   outq, reporterVars>>

LeaveLoop ==
    /\ pc = "loop"
    /\ is_done
    /\ pc' = "finalDrain"
    /\ UNCHANGED <<batch, runs, recorded, at, returned, workVars, childVars,
                   reader, outq, reporterVars>>

\* One turn of the launch loop: Popen, mark_started, the reader thread, and
\* mark_launched.  The new process will write some number of lines and exit.
LaunchNext ==
    /\ pc = "launch"
    /\ \E c \in batch :
         /\ Before(c, batch) = {}
         /\ batch' = batch \ {c}
         /\ runs' = Append(runs, c)
         /\ mark_launched(Declared[c])
         /\ proc' = [proc EXCEPT ![c] = "alive"]
         /\ \E n \in 0..MaxLines : toWrite' = [toWrite EXCEPT ![c] = n]
         /\ reader' = [reader EXCEPT ![c] = "reading"]
         /\ status' = [status EXCEPT ![Declared[c]] = "running"]
    /\ UNCHANGED <<pc, recorded, at, returned, finished, code, written, pipe,
                   outq, laneExit, captured, printed>>

LaunchesDone ==
    /\ pc = "launch"
    /\ batch = {}
    /\ pc' = "drain"
    /\ UNCHANGED <<batch, runs, recorded, at, returned, workVars, childVars,
                   reader, outq, reporterVars>>

\* Mutant: the newest line is taken first.
DrainOne_Newest ==
    /\ pc \in {"drain", "finalDrain"}
    /\ outq # <<>>
    /\ captured' = [captured EXCEPT
                      ![outq[Len(outq)].lane] = Append(@, outq[Len(outq)].line)]
    /\ outq' = SubSeq(outq, 1, Len(outq) - 1)
    /\ UNCHANGED <<mainVars, workVars, childVars, reader, status, laneExit,
                   printed>>

\* get_nowait followed by capture_output_line.
DrainOne ==
    /\ pc \in {"drain", "finalDrain"}
    /\ outq # <<>>
    /\ captured' = [captured EXCEPT
                      ![Head(outq).lane] = Append(@, Head(outq).line)]
    /\ outq' = Tail(outq)
    /\ UNCHANGED <<mainVars, workVars, childVars, reader, status, laneExit,
                   printed>>

\* Mutant: a drain may stop before the queue is empty.
DrainEmpty_Early ==
    /\ pc \in {"drain", "finalDrain"}
    /\ pc' = IF pc = "drain" THEN "poll" ELSE "join"
    /\ at' = 1
    /\ UNCHANGED <<batch, runs, recorded, returned, workVars, childVars, reader,
                   outq, reporterVars>>

\* queue.Empty: the drain is over.
DrainEmpty ==
    /\ pc \in {"drain", "finalDrain"}
    /\ outq = <<>>
    /\ pc' = IF pc = "drain" THEN "poll" ELSE "join"
    /\ at' = 1
    /\ UNCHANGED <<batch, runs, recorded, returned, workVars, childVars, reader,
                   outq, reporterVars>>

\* A run whose exit code is recorded already, or whose process still lives.
PollSkips ==
    /\ pc = "poll"
    /\ at <= Len(runs)
    /\ recorded[runs[at]] # NoCode \/ proc[runs[at]] = "alive"
    /\ at' = at + 1
    /\ UNCHANGED <<pc, batch, runs, recorded, returned, workVars, childVars,
                   reader, outq, reporterVars>>

\* "No tests collected" is a success for the commands that tolerate it.
Effective(c, exit) ==
    IF c \in Tolerant /\ exit = NoTestsCollected THEN 0 ELSE exit

PollRecords ==
    /\ pc = "poll"
    /\ at <= Len(runs)
    /\ LET c == runs[at]
           l == Declared[c]
           exit == Effective(c, code[c])
       IN  /\ recorded[c] = NoCode
           /\ proc[c] = "exited"
           /\ recorded' = [recorded EXCEPT ![c] = exit]
           /\ give_verdict(l, exit)
           /\ mark_finished(l)
    /\ at' = at + 1
    /\ UNCHANGED <<pc, batch, runs, returned, pending, childVars, reader, outq,
                   captured, printed>>

\* The sweep is over; the loop sleeps unless it is done, then tests again.
PollDone ==
    /\ pc = "poll"
    /\ at > Len(runs)
    /\ pc' = "loop"
    /\ UNCHANGED <<batch, runs, recorded, at, returned, workVars, childVars,
                   reader, outq, reporterVars>>

\* An exception leaves the loop: Popen failed, or Ctrl-C.  Nothing is killed.
LoopRaises ==
    /\ MayRaise
    /\ pc \in {"loop", "launch", "drain", "poll", "finalDrain"}
    /\ pc' = "raising"
    /\ at' = 1
    /\ UNCHANGED <<batch, runs, recorded, returned, workVars, childVars, reader,
                   outq, reporterVars>>

\* reader.join(timeout=0.2) returns whether or not the reader has finished.
JoinReader ==
    /\ pc \in {"join", "raising"}
    /\ at <= Len(runs)
    /\ at' = at + 1
    /\ UNCHANGED <<pc, batch, runs, recorded, returned, workVars, childVars,
                   reader, outq, reporterVars>>

JoinsDone ==
    /\ pc \in {"join", "raising"}
    /\ at > Len(runs)
    /\ pc' = IF pc = "join" THEN "report" ELSE "raised"
    /\ UNCHANGED <<batch, runs, recorded, at, returned, workVars, childVars,
                   reader, outq, reporterVars>>

\* lane_results: a lane without an exit code counts as 0.
ResultCode(l) == IF laneExit[l] = NoCode THEN 0 ELSE laneExit[l]

\* Mutant: the least of the codes.
IsLargest_Least(m, S) == m \in S /\ \A k \in S : m <= k

IsLargest(m, S) == m \in S /\ \A k \in S : k <= m

\* _print_lane_outputs skips green lanes unless asked to show all.
lanes_to_print == {l \in Names : ShowLaneOutput \/ ResultCode(l) # 0}

\* Mutant: the number of failed lanes is returned.
Report_CountsFailures ==
    /\ pc = "report"
    /\ pc' = "done"
    /\ printed' = lanes_to_print
    /\ returned' = Cardinality({l \in Names : ResultCode(l) # 0})
    /\ UNCHANGED <<batch, runs, recorded, at, workVars, childVars, reader, outq,
                   status, laneExit, captured>>

\* The lane outputs are printed, then max(exit_codes) if exit_codes else 0.
Report ==
    /\ pc = "report"
    /\ pc' = "done"
    /\ printed' = lanes_to_print
    /\ LET codes == {ResultCode(l) : l \in Names}
       IN  IF codes = {} THEN returned' = 0
           ELSE \E m \in codes : IsLargest(m, codes) /\ returned' = m
    /\ UNCHANGED <<batch, runs, recorded, at, workVars, childVars, reader, outq,
                   status, laneExit, captured>>

-----------------------------------------------------------------------------
(* The lane subprocesses *)

\* Blocks while the pipe is full.
ChildWrite(c) ==
    /\ proc[c] = "alive"
    /\ toWrite[c] > 0
    /\ Len(pipe[c]) < PipeCapacity
    /\ pipe' = [pipe EXCEPT ![c] = Append(@, written[c] + 1)]
    /\ written' = [written EXCEPT ![c] = @ + 1]
    /\ toWrite' = [toWrite EXCEPT ![c] = @ - 1]
    /\ UNCHANGED <<mainVars, workVars, proc, code, reader, outq, reporterVars>>

ChildEnds(c, exit) ==
    /\ proc' = [proc EXCEPT ![c] = "exited"]
    /\ code' = [code EXCEPT ![c] = exit]
    /\ UNCHANGED <<mainVars, workVars, toWrite, written, pipe, reader, outq,
                   reporterVars>>

ChildExit(c) ==
    /\ proc[c] = "alive"
    /\ toWrite[c] = 0
    /\ \E exit \in ExitCodes : ChildEnds(c, exit)

\* Killed by a signal, or os._exit, at any point.
ChildCrash(c) ==
    /\ proc[c] = "alive"
    /\ \E exit \in CrashCodes : ChildEnds(c, exit)

(* The reader threads *)

ReaderRead(c) ==
    /\ reader[c] = "reading"
    /\ pipe[c] # <<>>
    /\ <<c, Head(pipe[c])>> \notin Undecodable
    /\ outq' = Append(outq, [lane |-> Declared[c], line |-> Head(pipe[c])])
    /\ pipe' = [pipe EXCEPT ![c] = Tail(@)]
    /\ UNCHANGED <<mainVars, workVars, proc, code, toWrite, written, reader,
                   reporterVars>>

\* Strict decoding raises and the thread dies; nobody reads the pipe again.
ReaderDies(c) ==
    /\ reader[c] = "reading"
    /\ pipe[c] # <<>>
    /\ <<c, Head(pipe[c])>> \in Undecodable
    /\ reader' = [reader EXCEPT ![c] = "died"]
    /\ pipe' = [pipe EXCEPT ![c] = Tail(@)]
    /\ UNCHANGED <<mainVars, workVars, proc, code, toWrite, written, outq,
                   reporterVars>>

\* End of file: the process is gone and the pipe is empty.
ReaderEOF(c) ==
    /\ reader[c] = "reading"
    /\ pipe[c] = <<>>
    /\ proc[c] = "exited"
    /\ reader' = [reader EXCEPT ![c] = "closed"]
    /\ UNCHANGED <<mainVars, workVars, childVars, outq, reporterVars>>

-----------------------------------------------------------------------------

MainStep ==
    \/ BeginIteration \/ LeaveLoop
    \/ LaunchNext \/ LaunchesDone
    \/ DrainOne \/ DrainEmpty
    \/ PollSkips \/ PollRecords \/ PollDone
    \/ JoinReader \/ JoinsDone
    \/ Report

ChildStep(c) == ChildWrite(c) \/ ChildExit(c) \/ ChildCrash(c)

ReaderStep(c) == ReaderRead(c) \/ ReaderDies(c) \/ ReaderEOF(c)

\* The run is over and every process and thread has come to its end.
Over ==
    /\ pc \in {"done", "raised"}
    /\ UNCHANGED vars

Next ==
    \/ MainStep
    \/ LoopRaises
    \/ \E c \in Commands : ChildStep(c) \/ ReaderStep(c)
    \/ Over

\* The OS runs every thread and process that can run; that a lane's process
\* ends once it has nothing left to write is assumed, for the code has no
\* timeout of its own.  Nothing makes a crash or an exception happen.
Fairness ==
    /\ WF_vars(MainStep)
    /\ \A c \in Commands :
         WF_vars(ChildWrite(c) \/ ChildExit(c)) /\ WF_vars(ReaderStep(c))

Spec == Init /\ [][Next]_vars

FairSpec == Spec /\ Fairness

-----------------------------------------------------------------------------
(* Properties *)

Distinct == \A c, d \in Commands : Declared[c] = Declared[d] => c = d

\* Every variable has the shape the code gives it.
TypeOK ==
    /\ pc \in {"loop", "launch", "drain", "poll", "finalDrain", "join",
               "report", "done", "raising", "raised"}
    /\ batch \subseteq Commands /\ runs \in Seq(Commands)
    /\ recorded \in [Commands -> Codes \cup {NoCode}]
    /\ at \in Nat \ {0} /\ returned \in Codes \cup {NoCode}
    /\ pending \subseteq Commands
    /\ running \subseteq Names /\ finished \subseteq Names
    /\ proc \in [Commands -> {"unborn", "alive", "exited"}]
    /\ code \in [Commands -> Codes \cup {NoCode}]
    /\ toWrite \in [Commands -> Nat] /\ written \in [Commands -> Nat]
    /\ pipe \in [Commands -> Seq(Nat)]
    /\ reader \in [Commands -> {"none", "reading", "closed", "died"}]
    /\ outq \in Seq([lane : Names, line : Nat])
    /\ status \in [Names -> {"pending", "running", "pass", "fail"}]
    /\ laneExit \in [Names -> Codes \cup {NoCode}]
    /\ captured \in [Names -> Seq(Nat)]
    /\ printed \subseteq Names

Alive == {c \in Commands : proc[c] = "alive"}

\* At most max_workers lane subprocesses run at the same time, however the
\* poll lags behind the processes.
WorkerCap == Cardinality(Alive) <= MaxWorkers

\* A worker slot never stands idle while a lane waits: once the launch loop
\* is through, either nothing is pending or every slot is taken.
NoIdleSlot ==
    pc = "drain" => pending = {} \/ Cardinality(running) >= MaxWorkers

Launched == {runs[i] : i \in 1..Len(runs)}

\* Longest first: no lane is launched while one with a longer record, or one
\* without a record and it has one, still waits.
LongestFirst ==
    \A c \in Launched, d \in pending :
        /\ Unrecorded(d) => Unrecorded(c)
        /\ ~Unrecorded(c) /\ ~Unrecorded(d) => Seconds(c) >= Seconds(d)

\* Where lines of lane l stand in the output queue.
QueuedAt(l) == {i \in DOMAIN outq : outq[i].lane = l}

\* Every line a lane wrote is in exactly one place, and in order: the first
\* ones captured by the reporter, the next ones in the queue, the last ones
\* still in the pipe; as long as its reader has not died.
OutputAccounted ==
    \A c \in Commands : reader[c] # "died" =>
        LET l == Declared[c]
            got == Len(captured[l])
            sent == written[c] - Len(pipe[c])
        IN  /\ got <= sent
            /\ captured[l] = [n \in 1..got |-> n]
            /\ {outq[i].line : i \in QueuedAt(l)} = (got + 1)..sent
            /\ \A i, j \in QueuedAt(l) : i < j => outq[i].line < outq[j].line
            /\ pipe[c] = [n \in 1..Len(pipe[c]) |-> sent + n]

\* When the final drain ends, the output of every lane whose reader had
\* reached the end of the pipe has been captured whole.
FinalDrainIsWhole ==
    [][pc = "finalDrain" /\ pc' = "join" =>
         \A c \in Commands : reader[c] = "closed" =>
             Len(captured[Declared[c]]) = written[c]]_vars

\* The run returns only when every process has ended and its exit code, with
\* "no tests collected" forgiven where tolerated, is the lane's verdict.
ReturnsAfterAll ==
    pc = "done" =>
        \A c \in Commands :
            /\ proc[c] = "exited"
            /\ laneExit[Declared[c]] = Effective(c, code[c])

Failed(c) == proc[c] = "exited" /\ Effective(c, code[c]) # 0

\* The parent's exit code is 0 exactly when no lane failed.
ExitCodeHonest ==
    pc = "done" => (returned = 0 <=> \A c \in Commands : ~Failed(c))

\* docs/GUIDE.md:402-403: "A failing lane's full output is always printed
\* after the run": every line a failed lane wrote has been captured when the
\* outputs are printed.
FailedOutputComplete ==
    pc = "done" =>
        \A c \in Commands : Failed(c) =>
            /\ Declared[c] \in printed
            /\ Len(captured[Declared[c]]) = written[c]

\* Every run comes to an end.
Terminates == <>(pc \in {"done", "raised"})

-----------------------------------------------------------------------------
(* The parts of the inductive invariant (proved in LaneExecutorProofs) *)

\* The running lanes and the batch still to be launched fit the cap, and the
\* work queue knows of every process that lives.
SlotsKept ==
    /\ Cardinality(running) <= MaxWorkers
    /\ pc = "launch" => Cardinality(running) + Cardinality(batch) <= MaxWorkers
    /\ \A c \in Commands : proc[c] = "alive" => Declared[c] \in running

\* A pending command has no process yet; a finished lane's process has ended
\* and its exit code is the lane's verdict; past the loop all are finished.
VerdictsKept ==
    /\ pc = "launch" => batch \subseteq pending
    /\ \A c \in pending :
         proc[c] = "unborn" /\ status[Declared[c]] = "pending"
    /\ \A c \in Commands : proc[c] = "exited" => code[c] \in Codes
    /\ \A c \in Commands : Declared[c] \in finished =>
         /\ proc[c] = "exited"
         /\ laneExit[Declared[c]] = Effective(c, code[c])
    /\ pc \in {"finalDrain", "join", "report", "done"} => finished = Names
    /\ \A l \in Names :
         /\ status[l] = "running" <=> l \in running
         /\ status[l] \in {"pass", "fail"} <=> l \in finished
         /\ l \in finished => (status[l] = "pass" <=> laneExit[l] = 0)
    /\ pc # "done" => returned = NoCode
    /\ pc = "done" => \/ returned = 0 /\ Names = {}
                      \/ IsLargest(returned, {ResultCode(l) : l \in Names})

\* A launched command whose exit code is not recorded is a running lane.
RunsKept ==
    \A c \in Launched : recorded[c] = NoCode => status[Declared[c]] = "running"

\* Launched before pending, and the batch before what stays behind.
OrderKept ==
    /\ \A c \in Launched, d \in pending : Precedes(c, d)
    /\ pc = "launch" => \A c \in batch, d \in pending \ batch : Precedes(c, d)

\* While the launch loop runs, what it leaves pending waits for a slot that is
\* taken or about to be; and so it is until the poll.
SlotsFilled ==
    /\ pc = "launch" => \/ pending = batch
                        \/ Cardinality(running) + Cardinality(batch) >= MaxWorkers
    /\ pc = "drain" => pending = {} \/ Cardinality(running) >= MaxWorkers

\* A reader begins with its process, and ends when the process has and the
\* pipe is empty.
ReadersKept ==
    \A c \in Commands :
        /\ proc[c] = "unborn" => reader[c] = "none"
        /\ reader[c] = "closed" => proc[c] = "exited" /\ pipe[c] = <<>>

-----------------------------------------------------------------------------
(* The run as its user sees it *)

LaneView == [c \in Commands |-> status[Declared[c]]]

OutcomeView ==
    CASE pc = "done" -> IF returned = 0 THEN "green" ELSE "red"
      [] pc = "raised" -> "raised"
      [] OTHER -> "open"

Promise == INSTANCE LaneRun
           WITH Lanes <- Commands, lane <- LaneView, outcome <- OutcomeView

\* Seen through the reporter's statuses and the returned code, the executor
\* is a LaneRun.
ImplementsLaneRun == Promise!Spec

=============================================================================
