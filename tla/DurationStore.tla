---------------------------- MODULE DurationStore ----------------------------
(***************************************************************************)
(* lane_durations.json (durations.py) between orchestrated runs at one     *)
(* rootdir, which may overlap: a run reads the file to plan, reads it      *)
(* again when its lanes have ended, merges, empties the file and writes it *)
(* in place (executor.py, _record_run_durations).  Nothing locks the file, *)
(* and a run may be killed at any moment.                                  *)
(*                                                                         *)
(* The document is a sequence of entries of equal length, closed by the    *)
(* last; write_text puts it into the file with one write.  In which order  *)
(* the lanes stand in it makes no difference: two documents that overlap   *)
(* are one if the second is at least as long, and none otherwise.          *)
(***************************************************************************)
EXTENDS Integers, Sequences, FiniteSets, Functions, SequencesExt

CONSTANTS
    Runs,        \* the places runs are started from
    Lanes,       \* the lanes' names
    Initial,     \* documents earlier versions or editors may have left
    MaxRecords,  \* bound: measurements over all runs
    Bare,        \* a v1 value, the lane's total as a number
    Bad          \* a value that is no record

\* What stands for a lane in the document, and what is read of it.
Values == 0..MaxRecords \cup {Bare, Bad}
Entries == [lane : Lanes, value : Values, last : BOOLEAN]
Records == UNION {[known -> Values \ {Bad}] : known \in SUBSET Lanes}

ASSUME StoreAssumption ==
    /\ IsFiniteSet(Lanes) /\ MaxRecords \in Nat
    /\ Bad \notin Nat \cup {Bare}
    /\ Initial \subseteq Seq(Entries)

VARIABLES
    content,   \* the entries in the file; none if it is missing or empty
    stage,     \* "idle", "running", "merged" or "truncated", for each run
    planned,   \* the records each run under way planned with
    finished,  \* the records of the lanes that finished, while a run records
    merged,    \* what each run is about to write
    taken,     \* measurements so far, which numbers them
    written,   \* every set of records that was written as a whole
    clashed,   \* runs that recorded while another did
    promised   \* records that no overlap and no crash has endangered

vars == <<content, stage, planned, finished, merged, taken, written, clashed, promised>>

NoRecords == <<>>

\* dict.update.
Overlaid(old, new) ==
    [l \in DOMAIN old \cup DOMAIN new |-> IF l \in DOMAIN new THEN new[l] ELSE old[l]]

-----------------------------------------------------------------------------
(* JsonFileDurationStore *)

Serialized(records) ==
    LET known == SetToSeq(DOMAIN records)
    IN  [i \in DOMAIN known |->
            [lane |-> known[i], value |-> records[known[i]], last |-> i = Len(known)]]

\* Mutant: what follows the first closing entry is overlooked.
IsDocument_Prefix(entries) == \E i \in DOMAIN entries : entries[i].last

\* json.loads succeeds.
IsDocument(entries) ==
    entries # <<>> /\ \A i \in DOMAIN entries : entries[i].last <=> i = Len(entries)

\* Entries that are no record are dropped; a file that is no document has none.
recorded_lane_records(entries) ==
    LET good == {i \in DOMAIN entries : entries[i].value # Bad}
        of(l) == CHOOSE i \in good : entries[i].lane = l
    IN  IF IsDocument(entries)
        THEN [l \in {entries[i].lane : i \in good} |-> entries[of(l)].value]
        ELSE NoRecords

\* Mutant: the records the run was planned with are merged.
MergedRecords_Planned(r, records) == Overlaid(planned[r], records)

\* record() reads the file anew.
MergedRecords(r, records) == Overlaid(recorded_lane_records(content), records)

\* One write at the beginning of the file, which is not emptied again.
Overwritten(entries) == entries \o SubSeq(content, Len(entries) + 1, Len(content))

-----------------------------------------------------------------------------

Init ==
    /\ content \in Initial
    /\ stage = [r \in Runs |-> "idle"]
    /\ planned = [r \in Runs |-> NoRecords]
    /\ finished = planned /\ merged = planned
    /\ taken = 0 /\ clashed = {}
    /\ promised = recorded_lane_records(content)
    /\ written = {promised}

Ended(r) ==
    /\ stage' = [stage EXCEPT ![r] = "idle"]
    /\ planned' = [planned EXCEPT ![r] = NoRecords]
    /\ finished' = [finished EXCEPT ![r] = NoRecords]
    /\ merged' = [merged EXCEPT ![r] = NoRecords]
    /\ clashed' = clashed \ {r}

Recording(r) == stage[r] \in {"merged", "truncated"}

\* hooks.pytest_cmdline_main plans with the records of now.
StartRun(r) ==
    /\ stage[r] = "idle"
    /\ stage' = [stage EXCEPT ![r] = "running"]
    /\ planned' = [planned EXCEPT ![r] = recorded_lane_records(content)]
    /\ UNCHANGED <<content, finished, merged, taken, written, clashed, promised>>

\* The lanes that have a duration are recorded; none have if none finished.
\* Numbering a run's measurements alike makes mixtures of runs visible.
BeginRecord(r, lanes) ==
    /\ stage[r] = "running" /\ lanes # {} /\ taken < MaxRecords
    /\ stage' = [stage EXCEPT ![r] = "merged"]
    /\ taken' = taken + 1
    /\ finished' = [finished EXCEPT ![r] = [l \in lanes |-> taken']]
    /\ merged' = [merged EXCEPT ![r] = MergedRecords(r, finished'[r])]
    /\ LET others == {o \in Runs \ {r} : Recording(o)}
       IN  clashed' = IF others = {} THEN clashed ELSE clashed \cup others \cup {r}
    /\ UNCHANGED <<content, planned, written, promised>>

\* write_text opens the file, which empties it,
Truncate(r) ==
    /\ stage[r] = "merged"
    /\ stage' = [stage EXCEPT ![r] = "truncated"]
    /\ content' = <<>>
    /\ UNCHANGED <<planned, finished, merged, taken, written, clashed, promised>>

\* and writes.
Write(r) ==
    /\ stage[r] = "truncated" /\ Ended(r)
    /\ content' = Overwritten(Serialized(merged[r]))
    /\ written' = written \cup {merged[r]}
    /\ promised' = IF r \in clashed THEN NoRecords
                   ELSE Overlaid(promised, finished[r])
    /\ UNCHANGED taken

\* Killed, stopped by Ctrl-C, or ended with nothing to record.
Stop(r) ==
    /\ stage[r] # "idle" /\ Ended(r)
    /\ promised' = IF stage[r] = "truncated" THEN NoRecords ELSE promised
    /\ UNCHANGED <<content, taken, written>>

Next ==
    \E r \in Runs :
        \/ StartRun(r) \/ Truncate(r) \/ Write(r) \/ Stop(r)
        \/ \E lanes \in SUBSET Lanes : BeginRecord(r, lanes)

Spec == Init /\ [][Next]_vars

-----------------------------------------------------------------------------
(* Properties *)

\* Every variable has the shape the code gives it.
TypeOK ==
    /\ content \in Seq(Entries)
    /\ stage \in [Runs -> {"idle", "running", "merged", "truncated"}]
    /\ planned \in [Runs -> Records] /\ finished \in [Runs -> Records]
    /\ merged \in [Runs -> Records] /\ taken \in 0..MaxRecords
    /\ written \subseteq Records /\ clashed \subseteq Runs
    /\ promised \in Records

\* However reads, truncations and writes of two runs fall together, a run plans
\* with records that were written together, or with none.
ReadsWhole ==
    \A r \in Runs : planned[r] = NoRecords \/ planned[r] \in written

\* A run that ends while another one is executing its lanes costs neither any
\* record: only recording at the same time and being killed within write_text
\* do, and the next run that records heals the file.
RecordsKept ==
    (\A r \in Runs : stage[r] # "truncated") =>
        LET records == recorded_lane_records(content)
        IN  \A l \in DOMAIN promised : l \in DOMAIN records /\ records[l] = promised[l]

-----------------------------------------------------------------------------
(* The parts of the inductive invariant (proved in DurationStoreProofs) *)

\* What the file says was written as a whole, or the file says nothing.
ContentWhole == recorded_lane_records(content) \in written \cup {NoRecords}

\* Runs that record side by side know it from each other.
ClashesKnown ==
    /\ \A r, o \in Runs : r # o /\ Recording(r) /\ Recording(o) => r \in clashed
    /\ \A r \in clashed : Recording(r)

\* A run that records alone is about to write what is promised, but for the
\* lanes it measured, and those; a file it has emptied is still empty.
MergeKeeps ==
    \A r \in Runs : Recording(r) =>
        /\ DOMAIN finished[r] # {}
        /\ \A l \in DOMAIN finished[r] :
            l \in DOMAIN merged[r] /\ merged[r][l] = finished[r][l]
        /\ r \notin clashed =>
            /\ \A l \in DOMAIN promised \ DOMAIN finished[r] :
                l \in DOMAIN merged[r] /\ merged[r][l] = promised[l]
            /\ stage[r] = "truncated" => content = <<>>

=============================================================================
