------------------------ MODULE DurationStoreProofs ------------------------
(* Theorems about DurationStore and their proofs. *)
EXTENDS DurationStore, FiniteSetTheorems, SequenceTheorems, TLAPS

-----------------------------------------------------------------------------
(* The document *)

\* A set of lanes is listed as a sequence of all of them, each once.
LEMMA ListsEachOnce ==
    ASSUME NEW S, IsFiniteSet(S)
    PROVE  /\ Cardinality(S) \in Nat
           /\ SetToSeq(S) \in [1..Cardinality(S) -> S]
           /\ \A i, j \in 1..Cardinality(S) : SetToSeq(S)[i] = SetToSeq(S)[j] => i = j
           /\ \A x \in S : \E i \in 1..Cardinality(S) : SetToSeq(S)[i] = x
  <1> DEFINE n == Cardinality(S)
  <1>1. n \in Nat /\ ExistsBijection(1..n, S)
    BY FS_CountingElements, FS_CardinalityType
  <1>2. \E f \in [1..n -> S] : IsInjective(f)
    BY <1>1 DEF ExistsBijection, Bijection, Injection
  <1>3. SetToSeq(S) \in [1..n -> S] /\ IsInjective(SetToSeq(S))
    BY <1>2 DEF SetToSeq
  <1> DEFINE image == {SetToSeq(S)[i] : i \in 1..n}
  <1>4. IsFiniteSet(1..n) /\ Cardinality(1..n) = n
    BY <1>1, FS_Interval
  <1>5. SetToSeq(S) \in Bijection(1..n, image)
    <2>1. SetToSeq(S) \in [1..n -> image]
      BY <1>3
    <2>2. \A x \in image : \E i \in 1..n : SetToSeq(S)[i] = x
      OBVIOUS
    <2> HIDE DEF image, n
    <2> QED
      BY <1>3, <2>1, <2>2 DEF Bijection, Injection, Surjection
  <1>6. Cardinality(image) = n
    <2>1. ExistsBijection(1..n, image)
      BY <1>5, Zenon DEF ExistsBijection
    <2> HIDE DEF image, n
    <2> QED
      BY <1>4, <2>1, FS_Bijection
  <1>7. image = S
    <2>1. image \in SUBSET S
      BY <1>3
    <2> HIDE DEF image
    <2> QED
      BY <1>1, <1>6, <2>1, FS_Subset
  <1> QED
    BY <1>1, <1>3, <1>7 DEF IsInjective

\* Reading any sequence of entries gives records.
LEMMA ReadType ==
    ASSUME NEW entries \in Seq(Entries)
    PROVE  recorded_lane_records(entries) \in Records
  <1>1. NoRecords \in Records
    <2>1. <<>> \in [{} -> Values \ {Bad}] /\ {} \in SUBSET Lanes
      OBVIOUS
    <2> QED
      BY <2>1 DEF NoRecords, Records
  <1> DEFINE good == {i \in DOMAIN entries : entries[i].value # Bad}
             of(l) == CHOOSE i \in good : entries[i].lane = l
             known == {entries[i].lane : i \in good}
  <1>2. \A i \in DOMAIN entries : entries[i] \in Entries
    OBVIOUS
  <1>3. \A l \in known : of(l) \in good
    OBVIOUS
  <1>4. known \in SUBSET Lanes
    BY <1>2 DEF Entries
  <1>5. \A l \in known : entries[of(l)].value \in Values \ {Bad}
    <2> TAKE l \in known
    <2> DEFINE i == of(l)
    <2>1. i \in DOMAIN entries /\ entries[i].value # Bad
      BY <1>3
    <2> HIDE DEF i
    <2> QED
      BY <1>2, <2>1 DEF Entries
  <1>6. [l \in known |-> entries[of(l)].value] \in [known -> Values \ {Bad}]
    BY <1>5
  <1>7. [l \in known |-> entries[of(l)].value] \in Records
    BY <1>4, <1>6 DEF Records
  <1> QED
    BY <1>1, <1>7 DEF recorded_lane_records

\* Records are functions from some of the lanes.
LEMMA RecordsAre ==
    ASSUME NEW records \in Records
    PROVE  /\ DOMAIN records \subseteq Lanes /\ IsFiniteSet(DOMAIN records)
           /\ records = [l \in DOMAIN records |-> records[l]]
           /\ \A l \in DOMAIN records : records[l] \in Values \ {Bad}
  <1>1. PICK known \in SUBSET Lanes : records \in [known -> Values \ {Bad}]
    BY DEF Records
  <1>2. IsFiniteSet(known)
    BY StoreAssumption, FS_Subset
  <1> QED
    BY <1>1, <1>2

\* What is written as a whole is read as it was.
LEMMA WrittenIsRead ==
    ASSUME NEW records \in Records, DOMAIN records # {}
    PROVE  /\ Serialized(records) \in Seq(Entries)
           /\ IsDocument(Serialized(records))
           /\ recorded_lane_records(Serialized(records)) = records
  <1> DEFINE D == DOMAIN records
             n == Cardinality(D)
             known == SetToSeq(D)
             entries == Serialized(records)
  <1>1. /\ n \in Nat /\ known \in [1..n -> D]
        /\ \A i, j \in 1..n : known[i] = known[j] => i = j
        /\ \A l \in D : \E i \in 1..n : known[i] = l
    BY RecordsAre, ListsEachOnce
  <1>2. n > 0
    BY <1>1
  <1>3. DOMAIN known = 1..n /\ Len(known) = n
    <2> HIDE DEF known, n
    <2>1. known \in Seq(D)
      BY <1>1
    <2> QED
      BY <1>1, <2>1
  <1>4. entries = [i \in 1..n |-> [lane |-> known[i], value |-> records[known[i]],
                                  last |-> i = n]]
    BY <1>3 DEF Serialized
  <1> HIDE DEF known, n, entries
  <1>5. \A i \in 1..n : /\ entries[i].lane = known[i]
                         /\ entries[i].value = records[known[i]]
                         /\ entries[i].last = (i = n)
                         /\ entries[i] \in Entries
    <2> TAKE i \in 1..n
    <2>1. entries[i] = [lane |-> known[i], value |-> records[known[i]], last |-> i = n]
      BY <1>4
    <2>2. known[i] \in Lanes /\ records[known[i]] \in Values /\ (i = n) \in BOOLEAN
      BY <1>1, RecordsAre
    <2>3. entries[i] \in Entries
      BY <2>1, <2>2 DEF Entries
    <2> QED
      BY <2>1, <2>3
  <1>6. entries \in Seq(Entries) /\ Len(entries) = n /\ DOMAIN entries = 1..n
    BY <1>1, <1>4, <1>5
  <1>7. IsDocument(entries)
    <2>1. entries # <<>>
      BY <1>1, <1>2, <1>6
    <2>2. \A i \in DOMAIN entries : entries[i].last <=> i = Len(entries)
      <3> TAKE i \in DOMAIN entries
      <3>1. entries[i].last = (i = Len(entries))
        BY <1>5, <1>6
      <3> QED
        BY <3>1, Zenon
    <2> QED
      BY <2>1, <2>2, Zenon DEF IsDocument
  <1> DEFINE good == {i \in DOMAIN entries : entries[i].value # Bad}
  <1>8. good = 1..n
    BY <1>1, <1>5, <1>6, RecordsAre
  <1>9. {entries[i].lane : i \in good} = D
    <2>1. \A i \in good : entries[i].lane \in D
      BY <1>1, <1>5, <1>8
    <2>2. \A l \in D : \E i \in good : entries[i].lane = l
      BY <1>1, <1>5, <1>8
    <2> HIDE DEF good
    <2> QED
      BY <2>1, <2>2
  <1>10. \A l \in D : entries[CHOOSE i \in good : entries[i].lane = l].value = records[l]
    <2> TAKE l \in D
    <2> HIDE DEF good
    <2> DEFINE i == CHOOSE k \in good : entries[k].lane = l
    <2>1. i \in good /\ entries[i].lane = l
      BY <1>1, <1>5, <1>8
    <2> HIDE DEF i
    <2>2. entries[i].value = records[l]
      BY <1>5, <1>8, <2>1
    <2> QED
      BY <2>2 DEF i
  <1>11. recorded_lane_records(entries) = [l \in D |-> records[l]]
    BY <1>7, <1>9, <1>10 DEF recorded_lane_records
  <1> QED
    BY <1>6, <1>7, <1>11, RecordsAre DEF entries

\* A write leaves the file with what was written, or with no document.
LEMMA OverwrittenIsRead ==
    ASSUME TypeOK, NEW records \in Records, DOMAIN records # {}
    PROVE  LET after == Overwritten(Serialized(records))
           IN  /\ after \in Seq(Entries)
               /\ recorded_lane_records(after) \in {records, NoRecords}
               /\ content = <<>> => recorded_lane_records(after) = records
  <1> DEFINE entries == Serialized(records)
             n == Len(entries)
             rest == SubSeq(content, n + 1, Len(content))
  <1>1. /\ entries \in Seq(Entries) /\ IsDocument(entries)
        /\ recorded_lane_records(entries) = records
    BY WrittenIsRead
  <1>2. content \in Seq(Entries) /\ n \in Nat /\ n > 0 /\ entries[n].last
    <2> HIDE DEF entries
    <2>1. n \in Nat /\ entries # <<>>
      BY <1>1 DEF IsDocument
    <2>2. n > 0 /\ n \in DOMAIN entries
      BY <1>1, <2>1
    <2> QED
      BY <1>1, <2>1, <2>2 DEF IsDocument, TypeOK
  <1> HIDE DEF entries
  <1>3. rest \in Seq(Entries)
    BY <1>2, SubSeqProperties
  <1>4. Overwritten(entries) = entries \o rest
    BY DEF Overwritten
  <1> HIDE DEF rest
  <1>5. entries \o rest \in Seq(Entries)
    BY <1>1, <1>3
  <1>6. CASE rest = <<>>
    <2>1. entries \o rest = entries
      BY <1>1, <1>6, ConcatEmptySeq
    <2> QED
      BY <1>1, <1>4, <2>1 DEF entries
  <1>7. CASE rest # <<>>
    <2>1. Len(rest) > 0 /\ Len(rest) \in Nat
      BY <1>3, <1>7
    <2>2. /\ n \in DOMAIN (entries \o rest) /\ (entries \o rest)[n] = entries[n]
          /\ n # Len(entries \o rest)
      BY <1>1, <1>2, <1>3, <2>1
    <2>3. ~IsDocument(entries \o rest)
      BY <1>2, <2>2 DEF IsDocument
    <2>4. content # <<>>
      <3> SUFFICES ASSUME content = <<>>
                   PROVE  FALSE
        OBVIOUS
      <3>1. rest = <<>>
        BY <1>2, SubSeqEmpty DEF rest
      <3> QED
        BY <1>7, <3>1
    <2>5. recorded_lane_records(entries \o rest) = NoRecords
      BY <2>3 DEF recorded_lane_records
    <2> QED
      BY <1>4, <1>5, <2>4, <2>5 DEF entries
  <1> QED
    BY <1>6, <1>7

-----------------------------------------------------------------------------
(* Records *)

\* No records are records, and what an empty file holds.
LEMMA NothingRecorded ==
    NoRecords \in Records /\ DOMAIN NoRecords = {} /\ recorded_lane_records(<<>>) = NoRecords
  <1>1. <<>> \in [{} -> Values \ {Bad}] /\ {} \in SUBSET Lanes /\ DOMAIN <<>> = {}
    OBVIOUS
  <1>2. NoRecords \in Records /\ DOMAIN NoRecords = {}
    BY <1>1 DEF NoRecords, Records
  <1>3. recorded_lane_records(<<>>) = NoRecords
    BY DEF recorded_lane_records, IsDocument
  <1> QED
    BY <1>2, <1>3

\* Records overlaid with records are records of both's lanes, the newer first.
LEMMA OverlaidRecords ==
    ASSUME NEW old \in Records, NEW new \in Records
    PROVE  /\ Overlaid(old, new) \in Records
           /\ DOMAIN Overlaid(old, new) = DOMAIN old \cup DOMAIN new
           /\ \A l \in DOMAIN new : Overlaid(old, new)[l] = new[l]
           /\ \A l \in DOMAIN old \ DOMAIN new : Overlaid(old, new)[l] = old[l]
  <1> DEFINE known == DOMAIN old \cup DOMAIN new
  <1>1. known \in SUBSET Lanes
    BY RecordsAre
  <1>2. \A l \in known : (IF l \in DOMAIN new THEN new[l] ELSE old[l]) \in Values \ {Bad}
    BY RecordsAre
  <1>3. Overlaid(old, new) \in [known -> Values \ {Bad}]
    BY <1>2 DEF Overlaid
  <1>4. Overlaid(old, new) \in Records
    BY <1>1, <1>3 DEF Records
  <1> QED
    BY <1>4 DEF Overlaid

\* What a run measured are records.
LEMMA MeasuredRecords ==
    ASSUME NEW lanes \in SUBSET Lanes, NEW n \in 0..MaxRecords
    PROVE  [l \in lanes |-> n] \in Records
  <1>1. n \in Values \ {Bad}
    BY StoreAssumption DEF Values
  <1>2. [l \in lanes |-> n] \in [lanes -> Values \ {Bad}]
    BY <1>1
  <1> QED
    BY <1>2 DEF Records

-----------------------------------------------------------------------------
(* The invariant *)

StoreInv ==
    TypeOK /\ ReadsWhole /\ RecordsKept /\ ContentWhole /\ ClashesKnown /\ MergeKeeps

\* Before the first run, what the file says is promised and written.
LEMMA InitStore == Init => StoreInv
  <1> SUFFICES ASSUME Init
               PROVE  StoreInv
    OBVIOUS
  <1>1. content \in Seq(Entries) /\ promised = recorded_lane_records(content)
    BY StoreAssumption DEF Init
  <1>2. promised \in Records
    BY <1>1, ReadType
  <1>3. TypeOK
    <2>1. taken \in 0..MaxRecords
      BY StoreAssumption DEF Init
    <2> QED
      BY <1>1, <1>2, <2>1, NothingRecorded DEF Init, TypeOK
  <1>4. ReadsWhole /\ ContentWhole /\ RecordsKept
    BY <1>1 DEF Init, ReadsWhole, ContentWhole, RecordsKept
  <1>5. ClashesKnown /\ MergeKeeps
    BY DEF Init, ClashesKnown, MergeKeeps, Recording
  <1> QED
    BY <1>3, <1>4, <1>5 DEF StoreInv

\* A new run plans with what the file says.
LEMMA StartKeeps ==
    ASSUME StoreInv, NEW r \in Runs, StartRun(r)
    PROVE  StoreInv'
  <1> USE DEF StoreInv
  <1>1. recorded_lane_records(content) \in Records
    BY ReadType DEF TypeOK
  <1>2. TypeOK'
    BY <1>1 DEF TypeOK, StartRun
  <1>3. recorded_lane_records(content)' = recorded_lane_records(content)
    BY DEF StartRun
  <1>4. ReadsWhole'
    BY DEF ReadsWhole, ContentWhole, StartRun, TypeOK
  <1>5. ContentWhole'
    BY <1>3 DEF ContentWhole, StartRun
  <1>6. /\ UNCHANGED <<content, finished, merged, taken, written, clashed, promised>>
        /\ \A o \in Runs : /\ (Recording(o)' <=> Recording(o))
                           /\ (stage'[o] = "truncated" <=> stage[o] = "truncated")
    BY DEF Recording, StartRun, TypeOK
  <1>7. RecordsKept'
    BY <1>3, <1>6 DEF RecordsKept
  <1>8. ClashesKnown'
    BY <1>6 DEF ClashesKnown, TypeOK
  <1>9. MergeKeeps'
    BY <1>6 DEF MergeKeeps
  <1> QED
    BY <1>2, <1>4, <1>5, <1>7, <1>8, <1>9

\* A run that starts to record alone merges with all that is promised.
LEMMA BeginKeeps ==
    ASSUME StoreInv, NEW r \in Runs, NEW lanes \in SUBSET Lanes, BeginRecord(r, lanes)
    PROVE  StoreInv'
  <1> USE DEF StoreInv
  <1> DEFINE others == {o \in Runs \ {r} : Recording(o)}
             now == recorded_lane_records(content)
             measured == [l \in lanes |-> taken + 1]
  <1>1. taken + 1 \in 0..MaxRecords /\ measured \in Records /\ DOMAIN measured = lanes
    <2>1. taken + 1 \in 0..MaxRecords
      BY StoreAssumption DEF BeginRecord, TypeOK
    <2> QED
      BY <2>1, MeasuredRecords
  <1>2. now \in Records
    BY ReadType DEF TypeOK
  <1>3. Overlaid(now, measured) \in Records
    BY <1>1, <1>2, OverlaidRecords
  <1>4. /\ finished' = [finished EXCEPT ![r] = measured]
        /\ finished'[r] = measured
        /\ merged' = [merged EXCEPT ![r] = Overlaid(now, measured)]
        /\ merged'[r] = Overlaid(now, measured)
        /\ \A o \in Runs \ {r} : finished'[o] = finished[o] /\ merged'[o] = merged[o]
    <2>1. finished' = [finished EXCEPT ![r] = measured]
      BY DEF BeginRecord
    <2>2. finished'[r] = measured
      BY <2>1 DEF TypeOK
    <2> HIDE DEF measured
    <2>3. merged' = [merged EXCEPT ![r] = Overlaid(now, measured)]
      BY <2>2 DEF BeginRecord, MergedRecords
    <2> QED
      BY <2>1, <2>2, <2>3 DEF TypeOK
  <1>5. /\ stage' = [stage EXCEPT ![r] = "merged"] /\ stage[r] = "running" /\ lanes # {}
        /\ UNCHANGED <<content, planned, written, promised>>
        /\ clashed' = IF others = {} THEN clashed ELSE clashed \cup others \cup {r}
        /\ taken' = taken + 1
    BY DEF BeginRecord
  <1> HIDE DEF now, measured, others
  <1>6. TypeOK'
    <2>1. clashed' \subseteq Runs
      BY <1>5 DEF TypeOK, others
    <2>2. finished' \in [Runs -> Records] /\ merged' \in [Runs -> Records]
      BY <1>1, <1>3, <1>4 DEF TypeOK
    <2> QED
      BY <1>1, <1>5, <2>1, <2>2 DEF TypeOK
  <1>7. /\ stage'[r] = "merged" /\ Recording(r)' /\ ~Recording(r)
        /\ \A o \in Runs \ {r} : stage'[o] = stage[o] /\ (Recording(o)' <=> Recording(o))
    BY <1>5 DEF Recording, TypeOK
  <1>8. recorded_lane_records(content)' = recorded_lane_records(content)
    BY <1>5
  <1>9. ReadsWhole' /\ ContentWhole' /\ RecordsKept'
    <2>1. ReadsWhole' /\ ContentWhole'
      BY <1>5, <1>8 DEF ReadsWhole, ContentWhole
    <2>2. (\A o \in Runs : stage'[o] # "truncated") => \A o \in Runs : stage[o] # "truncated"
      BY <1>5, <1>7
    <2>3. RecordsKept'
      BY <1>5, <1>8, <2>2 DEF RecordsKept
    <2> QED
      BY <2>1, <2>3
  <1>10. ClashesKnown'
    <2>1. \A o, p \in Runs : o # p /\ Recording(o)' /\ Recording(p)' => o \in clashed'
      <3> SUFFICES ASSUME NEW o \in Runs, NEW p \in Runs, o # p, Recording(o)', Recording(p)'
                   PROVE  o \in clashed'
        OBVIOUS
      <3>1. CASE o = r
        <4>1. p \in others
          BY <1>7, <3>1 DEF others
        <4> QED
          BY <1>5, <3>1, <4>1
      <3>2. CASE o # r /\ p = r
        <4>1. o \in others
          BY <1>7, <3>2 DEF others
        <4> QED
          BY <1>5, <4>1
      <3>3. CASE o # r /\ p # r
        <4>1. o \in clashed
          BY <1>7, <3>3 DEF ClashesKnown
        <4> QED
          BY <1>5, <4>1
      <3> QED
        BY <3>1, <3>2, <3>3
    <2>2. \A o \in clashed' : Recording(o)'
      BY <1>5, <1>7 DEF ClashesKnown, others, TypeOK
    <2> QED
      BY <2>1, <2>2 DEF ClashesKnown
  <1>11. MergeKeeps'
    <2> SUFFICES ASSUME NEW o \in Runs, Recording(o)'
                 PROVE  /\ DOMAIN finished'[o] # {}
                        /\ \A l \in DOMAIN finished'[o] :
                            l \in DOMAIN merged'[o] /\ merged'[o][l] = finished'[o][l]
                        /\ o \notin clashed' =>
                            /\ \A l \in DOMAIN promised' \ DOMAIN finished'[o] :
                                l \in DOMAIN merged'[o] /\ merged'[o][l] = promised'[l]
                            /\ stage'[o] = "truncated" => content' = <<>>
      BY DEF MergeKeeps
    <2>1. CASE o = r
      <3>1. /\ DOMAIN Overlaid(now, measured) = DOMAIN now \cup DOMAIN measured
            /\ \A l \in DOMAIN measured : Overlaid(now, measured)[l] = measured[l]
            /\ \A l \in DOMAIN now \ DOMAIN measured : Overlaid(now, measured)[l] = now[l]
        BY <1>1, <1>2, OverlaidRecords
      <3>2. ASSUME o \notin clashed'
            PROVE  \A l \in DOMAIN promised : l \in DOMAIN now /\ now[l] = promised[l]
        <4>1. others = {}
          BY <1>5, <2>1, <3>2
        <4>2. \A p \in Runs : stage[p] # "truncated"
          BY <1>5, <4>1 DEF others, Recording
        <4> QED
          BY <4>2 DEF RecordsKept, now
      <3>3. /\ DOMAIN measured # {}
            /\ \A l \in DOMAIN measured :
                l \in DOMAIN Overlaid(now, measured) /\ Overlaid(now, measured)[l] = measured[l]
        BY <1>1, <1>5, <3>1
      <3>4. o \notin clashed' =>
              \A l \in DOMAIN promised \ DOMAIN measured :
                l \in DOMAIN Overlaid(now, measured) /\ Overlaid(now, measured)[l] = promised[l]
        BY <3>1, <3>2
      <3> HIDE DEF Overlaid
      <3> QED
        BY <1>4, <1>5, <1>7, <2>1, <3>3, <3>4
    <2>2. CASE o # r
      BY <1>4, <1>5, <1>7, <2>2 DEF MergeKeeps
    <2> QED
      BY <2>1, <2>2
  <1> QED
    BY <1>6, <1>9, <1>10, <1>11

\* A file that is emptied was not relied on by another run that records alone.
LEMMA TruncateKeeps ==
    ASSUME StoreInv, NEW r \in Runs, Truncate(r)
    PROVE  StoreInv'
  <1> USE DEF StoreInv
  <1>1. /\ stage' = [stage EXCEPT ![r] = "truncated"] /\ stage[r] = "merged"
        /\ content' = <<>>
        /\ UNCHANGED <<planned, finished, merged, taken, written, clashed, promised>>
    BY DEF Truncate
  <1>2. TypeOK'
    BY <1>1 DEF TypeOK
  <1>3. /\ stage'[r] = "truncated" /\ Recording(r)
        /\ \A o \in Runs : Recording(o)' <=> Recording(o)
        /\ \A o \in Runs \ {r} : stage'[o] = stage[o]
    BY <1>1 DEF Recording, TypeOK
  <1>4. ReadsWhole' /\ RecordsKept'
    BY <1>1, <1>3 DEF ReadsWhole, RecordsKept
  <1>5. ContentWhole'
    BY <1>1, NothingRecorded DEF ContentWhole
  <1>6. ClashesKnown'
    BY <1>1, <1>3 DEF ClashesKnown, TypeOK
  <1>7. MergeKeeps'
    BY <1>1, <1>3 DEF MergeKeeps
  <1> QED
    BY <1>2, <1>4, <1>5, <1>6, <1>7

\* What ending a run leaves of the other runs.
LEMMA EndLeavesOthers ==
    ASSUME StoreInv, NEW r \in Runs, Ended(r)
    PROVE  /\ stage' \in [Runs -> {"idle", "running", "merged", "truncated"}]
           /\ planned' \in [Runs -> Records] /\ finished' \in [Runs -> Records]
           /\ merged' \in [Runs -> Records] /\ clashed' \subseteq Runs
           /\ planned'[r] = NoRecords /\ stage'[r] = "idle" /\ ~Recording(r)'
           /\ \A o \in Runs \ {r} :
                /\ stage'[o] = stage[o] /\ planned'[o] = planned[o]
                /\ finished'[o] = finished[o] /\ merged'[o] = merged[o]
                /\ (o \in clashed' <=> o \in clashed)
                /\ (Recording(o)' <=> Recording(o))
           /\ ClashesKnown'
  <1> USE DEF StoreInv
  <1>1. /\ stage' \in [Runs -> {"idle", "running", "merged", "truncated"}]
        /\ planned' \in [Runs -> Records] /\ finished' \in [Runs -> Records]
        /\ merged' \in [Runs -> Records] /\ clashed' \subseteq Runs
    BY NothingRecorded DEF Ended, TypeOK
  <1>2. planned'[r] = NoRecords /\ stage'[r] = "idle" /\ ~Recording(r)'
    BY DEF Ended, TypeOK, Recording
  <1>3. \A o \in Runs \ {r} :
                /\ stage'[o] = stage[o] /\ planned'[o] = planned[o]
                /\ finished'[o] = finished[o] /\ merged'[o] = merged[o]
                /\ (o \in clashed' <=> o \in clashed)
                /\ (Recording(o)' <=> Recording(o))
    BY DEF Ended, TypeOK, Recording
  <1>4. ClashesKnown'
    BY <1>1, <1>2, <1>3 DEF ClashesKnown, Ended
  <1> QED
    BY <1>1, <1>2, <1>3, <1>4

\* A run that wrote alone has kept what was promised, and its own records.
LEMMA WriteKeeps ==
    ASSUME StoreInv, NEW r \in Runs, Write(r)
    PROVE  StoreInv'
  <1> USE DEF StoreInv
  <1> DEFINE new == merged[r]
             after == Overwritten(Serialized(new))
  <1>1. /\ stage[r] = "truncated" /\ Recording(r) /\ Ended(r)
        /\ content' = after /\ written' = written \cup {new}
        /\ promised' = IF r \in clashed THEN NoRecords ELSE Overlaid(promised, finished[r])
        /\ taken' = taken
    BY DEF Write, Recording
  <1>2. /\ new \in Records /\ finished[r] \in Records /\ promised \in Records
        /\ DOMAIN finished[r] # {} /\ DOMAIN new # {}
        /\ \A l \in DOMAIN finished[r] : l \in DOMAIN new /\ new[l] = finished[r][l]
    BY <1>1 DEF TypeOK, MergeKeeps
  <1>3. /\ after \in Seq(Entries)
        /\ recorded_lane_records(after) \in {new, NoRecords}
        /\ content = <<>> => recorded_lane_records(after) = new
    BY <1>2, OverwrittenIsRead
  <1>4. recorded_lane_records(content)' = recorded_lane_records(after)
    BY <1>1
  <1> HIDE DEF new, after
  <1>5. /\ Overlaid(promised, finished[r]) \in Records
        /\ DOMAIN Overlaid(promised, finished[r]) = DOMAIN promised \cup DOMAIN finished[r]
        /\ \A l \in DOMAIN finished[r] : Overlaid(promised, finished[r])[l] = finished[r][l]
        /\ \A l \in DOMAIN promised \ DOMAIN finished[r] :
             Overlaid(promised, finished[r])[l] = promised[l]
    BY <1>2, OverlaidRecords
  <1>6. TypeOK'
    <2>1. promised' \in Records /\ written' \subseteq Records /\ content' \in Seq(Entries)
      BY <1>1, <1>2, <1>3, <1>5, NothingRecorded DEF TypeOK
    <2> QED
      BY <1>1, <2>1, EndLeavesOthers DEF TypeOK
  <1>7. ReadsWhole' /\ ContentWhole'
    <2>1. ReadsWhole'
      BY <1>1, EndLeavesOthers DEF ReadsWhole
    <2>2. ContentWhole'
      BY <1>1, <1>3, <1>4 DEF ContentWhole
    <2> QED
      BY <2>1, <2>2
  <1>8. RecordsKept'
    <2> SUFFICES ASSUME NEW l \in DOMAIN promised'
                 PROVE  /\ l \in DOMAIN recorded_lane_records(after)
                        /\ recorded_lane_records(after)[l] = promised'[l]
      BY <1>4 DEF RecordsKept
    <2>1. r \notin clashed
      BY <1>1, NothingRecorded
    <2>2. recorded_lane_records(after) = new
      BY <1>1, <1>3, <2>1 DEF MergeKeeps
    <2>3. promised' = Overlaid(promised, finished[r])
      BY <1>1, <2>1
    <2>4. l \notin DOMAIN finished[r] => l \in DOMAIN new /\ new[l] = promised[l]
      <3>1. \A k \in DOMAIN promised \ DOMAIN finished[r] :
              k \in DOMAIN new /\ new[k] = promised[k]
        BY <1>1, <2>1 DEF MergeKeeps, new
      <3> QED
        BY <1>5, <2>3, <3>1
    <2> QED
      BY <1>2, <1>5, <2>2, <2>3, <2>4
  <1>9. MergeKeeps'
    <2> SUFFICES ASSUME NEW o \in Runs, Recording(o)'
                 PROVE  /\ DOMAIN finished'[o] # {}
                        /\ \A l \in DOMAIN finished'[o] :
                            l \in DOMAIN merged'[o] /\ merged'[o][l] = finished'[o][l]
                        /\ o \in clashed'
      BY DEF MergeKeeps
    <2>1. o # r /\ Recording(o)
      BY <1>1, EndLeavesOthers
    <2>2. o \in clashed'
      BY <1>1, <2>1, EndLeavesOthers DEF ClashesKnown
    <2> QED
      BY <1>1, <2>1, <2>2, EndLeavesOthers DEF MergeKeeps
  <1> QED
    BY <1>1, <1>6, <1>7, <1>8, <1>9, EndLeavesOthers

\* A run that ends without a write costs nothing, unless it had emptied the
\* file.
LEMMA StopKeeps ==
    ASSUME StoreInv, NEW r \in Runs, Stop(r)
    PROVE  StoreInv'
  <1> USE DEF StoreInv
  <1>1. /\ Ended(r) /\ UNCHANGED <<content, taken, written>>
        /\ promised' = IF stage[r] = "truncated" THEN NoRecords ELSE promised
    BY DEF Stop
  <1>2. recorded_lane_records(content)' = recorded_lane_records(content)
    BY <1>1
  <1>3. TypeOK'
    BY <1>1, EndLeavesOthers, NothingRecorded DEF TypeOK
  <1>4. ReadsWhole' /\ ContentWhole'
    BY <1>1, <1>2, EndLeavesOthers DEF ReadsWhole, ContentWhole
  <1>5. RecordsKept'
    <2>1. CASE stage[r] = "truncated"
      BY <1>1, <2>1, NothingRecorded DEF RecordsKept
    <2>2. CASE stage[r] # "truncated"
      <3>1. (\A o \in Runs : stage'[o] # "truncated") => \A o \in Runs : stage[o] # "truncated"
        BY <1>1, <2>2, EndLeavesOthers
      <3> QED
        BY <1>1, <1>2, <2>2, <3>1 DEF RecordsKept
    <2> QED
      BY <2>1, <2>2
  <1>6. MergeKeeps'
    <2> SUFFICES ASSUME NEW o \in Runs, Recording(o)'
                 PROVE  /\ DOMAIN finished'[o] # {}
                        /\ \A l \in DOMAIN finished'[o] :
                            l \in DOMAIN merged'[o] /\ merged'[o][l] = finished'[o][l]
                        /\ o \notin clashed' =>
                            /\ \A l \in DOMAIN promised' \ DOMAIN finished'[o] :
                                l \in DOMAIN merged'[o] /\ merged'[o][l] = promised'[l]
                            /\ stage'[o] = "truncated" => content' = <<>>
      BY DEF MergeKeeps
    <2>1. o # r /\ Recording(o)
      BY <1>1, EndLeavesOthers
    <2>2. promised' = promised \/ DOMAIN promised' = {}
      BY <1>1, NothingRecorded
    <2>3. /\ finished'[o] = finished[o] /\ merged'[o] = merged[o] /\ stage'[o] = stage[o]
          /\ (o \in clashed' <=> o \in clashed)
      BY <1>1, <2>1, EndLeavesOthers
    <2> QED
      BY <1>1, <2>1, <2>2, <2>3 DEF MergeKeeps
  <1> QED
    BY <1>1, <1>3, <1>4, <1>5, <1>6, EndLeavesOthers

\* Every step keeps the invariant.
LEMMA NextKeepsStore == StoreInv /\ [Next]_vars => StoreInv'
  <1> SUFFICES ASSUME StoreInv, [Next]_vars
               PROVE  StoreInv'
    OBVIOUS
  <1>1. CASE UNCHANGED vars
    BY <1>1 DEF vars, StoreInv, TypeOK, ReadsWhole, RecordsKept, ContentWhole,
                ClashesKnown, MergeKeeps, Recording
  <1>2. CASE Next
    BY <1>2, StartKeeps, BeginKeeps, TruncateKeeps, WriteKeeps, StopKeeps DEF Next
  <1> QED
    BY <1>1, <1>2

\* The invariant holds in every state.
LEMMA StoreInvHolds == Spec => []StoreInv
  <1> QED
    BY InitStore, NextKeepsStore, PTL DEF Spec

\* Every state the duration file and its runs reach is well typed.
THEOREM TypeCorrect == Spec => []TypeOK
  <1>1. StoreInv => TypeOK
    BY DEF StoreInv
  <1> QED
    BY <1>1, StoreInvHolds, PTL

\* However many runs overlap, and however their reads, truncations, writes and
\* deaths interleave, no run plans with a mixture of two sets of records.
THEOREM ReadsWholeHolds == Spec => []ReadsWhole
  <1>1. StoreInv => ReadsWhole
    BY DEF StoreInv
  <1> QED
    BY <1>1, StoreInvHolds, PTL

\* However many runs overlap, a record is lost only by recording at the same
\* time or by dying within write_text.
THEOREM RecordsKeptHolds == Spec => []RecordsKept
  <1>1. StoreInv => RecordsKept
    BY DEF StoreInv
  <1> QED
    BY <1>1, StoreInvHolds, PTL

=============================================================================
