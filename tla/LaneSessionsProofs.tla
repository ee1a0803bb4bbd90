------------------------- MODULE LaneSessionsProofs -------------------------
(***************************************************************************)
(* Proofs about pytest sessions: a step of LaneSessions begins a session   *)
(* (Enter), ends some (Pop), or sets up or tears down a test of the        *)
(* topmost one (Acts); each keeps the stack in order and every session     *)
(* able to go on as it should.                                             *)
(***************************************************************************)
EXTENDS LaneSessions, InductionLemmas, SequenceTheorems

\* A set of positions that is not empty has a last one, which Max finds.
LEMMA LastPosition ==
    ASSUME NEW n \in Nat, NEW S \in SUBSET (1..n), S # {}
    PROVE  Max(S) \in S /\ \A i \in S : i <= Max(S)
  <1> DEFINE back == {n - i : i \in S}
  <1>1. back \in SUBSET Nat /\ back # {}
    <2>1. \A i \in S : i \in 1..n
      OBVIOUS
    <2>2. \A i \in S : n - i \in Nat
      BY <2>1
    <2> QED
      BY <2>2
  <1>2. PICK m \in back : \A k \in back : m <= k
    <2> HIDE DEF back
    <2> QED
      BY <1>1, LeastNat
  <1>3. PICK i \in S : m = n - i
    BY <1>2
  <1>4. \A k \in S : i >= k
    <2> TAKE k \in S
    <2>1. n - k \in back
      OBVIOUS
    <2> HIDE DEF back
    <2>2. n - i <= n - k
      BY <1>2, <1>3, <2>1
    <2> QED
      BY <1>3, <2>2
  <1> QED
    BY <1>4 DEF Max

\* A set of positions that is not empty has a first one, which Min finds.
LEMMA FirstPosition ==
    ASSUME NEW S \in SUBSET Nat, S # {}
    PROVE  Min(S) \in S /\ \A i \in S : Min(S) <= i
  <1>1. \E m \in S : \A k \in S : m =< k
    BY LeastNat
  <1> QED
    BY <1>1 DEF Min

-----------------------------------------------------------------------------
(* The environment *)

Pairs == Seq(Keys \X Values)

\* Settings make an environment of one: a key that is not listed stays, one
\* that is listed gets the last value.
LEMMA PairsSet ==
    ASSUME NEW env \in Environments, NEW pairs \in Pairs
    PROVE  /\ WithPairs(env, pairs) \in Environments
           /\ \A key \in Keys : Listed(key, pairs) = {} => WithPairs(env, pairs)[key] = env[key]
           /\ \A key \in Keys : Listed(key, pairs) # {} =>
                WithPairs(env, pairs)[key] = pairs[Max(Listed(key, pairs))][2]
  <1>1. DOMAIN env = Keys /\ \A key \in Keys : env[key] \in Values
    BY DEF Environments
  <1>2. \A key \in Keys : Listed(key, pairs) # {} => pairs[Max(Listed(key, pairs))][2] \in Values
    <2> TAKE key \in Keys
    <2> SUFFICES ASSUME Listed(key, pairs) # {}
                 PROVE  pairs[Max(Listed(key, pairs))][2] \in Values
      OBVIOUS
    <2>1. Len(pairs) \in Nat /\ Listed(key, pairs) \in SUBSET (1..Len(pairs))
      BY DEF Listed, Pairs
    <2>2. Max(Listed(key, pairs)) \in 1..Len(pairs)
      BY <2>1, LastPosition
    <2> HIDE DEF Listed
    <2>3. pairs[Max(Listed(key, pairs))] \in Keys \X Values
      BY <2>2 DEF Pairs
    <2> QED
      BY <2>3
  <1>3. WithPairs(env, pairs) = [key \in Keys |-> IF Listed(key, pairs) = {} THEN env[key]
                                                  ELSE pairs[Max(Listed(key, pairs))][2]]
    BY <1>1 DEF WithPairs
  <1> HIDE DEF Listed
  <1>4. WithPairs(env, pairs) \in [Keys -> Values]
    BY <1>1, <1>2, <1>3
  <1> QED
    BY <1>3, <1>4 DEF Environments

\* Setting what is set changes nothing.
LEMMA PairsStay ==
    ASSUME NEW env \in Environments, NEW pairs \in Pairs
    PROVE  WithPairs(WithPairs(env, pairs), pairs) = WithPairs(env, pairs)
  <1> DEFINE once == WithPairs(env, pairs)
             twice == WithPairs(once, pairs)
  <1>1. once \in Environments /\ twice \in Environments
    BY PairsSet
  <1>2. \A key \in Keys : twice[key] = once[key]
    <2> TAKE key \in Keys
    <2>1. Listed(key, pairs) = {} => twice[key] = once[key]
      BY <1>1, PairsSet
    <2>2. Listed(key, pairs) # {} => twice[key] = once[key]
      BY <1>1, PairsSet
    <2> QED
      BY <2>1, <2>2
  <1> HIDE DEF once, twice
  <1>3. twice = once
    BY <1>1, <1>2 DEF Environments
  <1> QED
    BY <1>3 DEF once, twice

\* What a test's setup saves: the keys it sets, each with a value.
LEMMA SavedType ==
    ASSUME NEW env \in Environments, NEW pairs \in Pairs
    PROVE  /\ Saved(env, pairs) \in Savings
           /\ DOMAIN Saved(env, pairs) = {pairs[i][1] : i \in DOMAIN pairs}
  <1> DEFINE keys == {pairs[i][1] : i \in DOMAIN pairs}
             before(key) == Max(Listed(key, pairs)) - 1
  <1>1. Len(pairs) \in Nat /\ DOMAIN pairs = 1..Len(pairs)
        /\ \A i \in 1..Len(pairs) : pairs[i] \in Keys \X Values
    BY DEF Pairs
  <1>2. keys \in SUBSET Keys
    BY <1>1
  <1>3. \A key \in keys : WithPairs(env, SubSeq(pairs, 1, before(key)))[key] \in Values
    <2> TAKE key \in keys
    <2>1. Listed(key, pairs) \in SUBSET (1..Len(pairs)) /\ Listed(key, pairs) # {}
      BY <1>1 DEF Listed
    <2>2. Max(Listed(key, pairs)) \in 1..Len(pairs)
      BY <1>1, <2>1, LastPosition
    <2> DEFINE b == before(key)
    <2>3. b \in Int /\ \A i \in 1..b : pairs[i] \in Keys \X Values
      BY <1>1, <2>2
    <2> HIDE DEF b
    <2>4. SubSeq(pairs, 1, b) \in Pairs
      BY <2>3, SubSeqProperties DEF Pairs
    <2>5. WithPairs(env, SubSeq(pairs, 1, b)) \in Environments
      BY <2>4, PairsSet
    <2>6. WithPairs(env, SubSeq(pairs, 1, b))[key] \in Values
      BY <1>2, <2>5 DEF Environments
    <2> QED
      BY <2>6 DEF b
  <1>4. Saved(env, pairs) = [key \in keys |-> WithPairs(env, SubSeq(pairs, 1, before(key)))[key]]
    BY DEF Saved
  <1>5. Saved(env, pairs) \in [keys -> Values] /\ DOMAIN Saved(env, pairs) = keys
    BY <1>3, <1>4
  <1> QED
    BY <1>2, <1>5 DEF Savings

\* Restoring makes an environment of one: what was saved, and the rest.
LEMMA RestoredType ==
    ASSUME NEW env \in Environments, NEW saved \in Savings
    PROVE  /\ Restored(env, saved) \in Environments
           /\ \A key \in Keys : Restored(env, saved)[key]
                = IF key \in DOMAIN saved THEN saved[key] ELSE env[key]
  <1>1. PICK keys \in SUBSET Keys : saved \in [keys -> Values]
    BY DEF Savings
  <1>2. DOMAIN env = Keys /\ \A key \in Keys : env[key] \in Values
    BY DEF Environments
  <1>3. \A key \in Keys : (IF key \in DOMAIN saved THEN saved[key] ELSE env[key]) \in Values
    BY <1>1, <1>2
  <1> QED
    BY <1>2, <1>3 DEF Restored, Environments

\* A teardown undoes a setup that sets no key twice.
LEMMA SavedRestores ==
    ASSUME NEW env \in Environments, NEW pairs \in Pairs,
           IsInjective([i \in DOMAIN pairs |-> pairs[i][1]])
    PROVE  Restored(WithPairs(env, pairs), Saved(env, pairs)) = env
  <1> DEFINE set == WithPairs(env, pairs)
             saved == Saved(env, pairs)
             back == Restored(set, saved)
  <1>1. set \in Environments /\ saved \in Savings
        /\ DOMAIN saved = {pairs[i][1] : i \in DOMAIN pairs}
    BY PairsSet, SavedType
  <1>2. back \in Environments
        /\ \A key \in Keys : back[key] = IF key \in DOMAIN saved THEN saved[key] ELSE set[key]
    BY <1>1, RestoredType
  <1>3. Len(pairs) \in Nat /\ DOMAIN pairs = 1..Len(pairs)
        /\ \A i \in 1..Len(pairs) : pairs[i] \in Keys \X Values
    BY DEF Pairs
  <1>4. \A i, j \in 1..Len(pairs) : pairs[i][1] = pairs[j][1] => i = j
    BY <1>3 DEF IsInjective
  <1>5. \A key \in Keys : back[key] = env[key]
    <2> TAKE key \in Keys
    <2>1. CASE key \notin DOMAIN saved
      <3>1. Listed(key, pairs) = {}
        BY <1>1, <2>1 DEF Listed
      <3>2. set[key] = env[key]
        BY <3>1, PairsSet
      <3> QED
        BY <1>2, <2>1, <3>2
    <2>2. CASE key \in DOMAIN saved
      <3>1. PICK i \in 1..Len(pairs) : pairs[i][1] = key
        BY <1>1, <1>3, <2>2
      <3>2. Listed(key, pairs) = {i}
        BY <1>3, <1>4, <3>1 DEF Listed
      <3>3. Max({i}) = i
        <4>1. {i} \in SUBSET (1..Len(pairs)) /\ {i} # {}
          OBVIOUS
        <4> QED
          BY <1>3, <4>1, LastPosition
      <3> DEFINE first == SubSeq(pairs, 1, i - 1)
      <3>4. /\ first \in Pairs /\ DOMAIN first = 1..(i - 1)
            /\ \A j \in 1..(i - 1) : first[j] = pairs[j]
        <4>1. \A j \in 1..(i - 1) : pairs[j] \in Keys \X Values
          BY <1>3
        <4>2. /\ first \in Pairs
              /\ Len(first) = IF 1 <= i - 1 THEN i - 1 - 1 + 1 ELSE 0
              /\ \A j \in 1..(i - 1) - 1 + 1 : first[j] = pairs[1 + j - 1]
          BY <4>1, SubSeqProperties DEF Pairs
        <4> HIDE DEF first
        <4>3. DOMAIN first = 1..Len(first)
          BY <4>2 DEF Pairs
        <4> QED
          BY <4>2, <4>3
      <3> HIDE DEF first
      <3>5. Listed(key, first) = {}
        BY <1>3, <1>4, <3>1, <3>4 DEF Listed
      <3>6. WithPairs(env, first)[key] = env[key]
        BY <3>4, <3>5, PairsSet
      <3>7. saved[key] = WithPairs(env, SubSeq(pairs, 1, Max(Listed(key, pairs)) - 1))[key]
        BY <1>1, <2>2 DEF Saved
      <3>8. saved[key] = WithPairs(env, first)[key]
        BY <3>2, <3>3, <3>7 DEF first
      <3> QED
        BY <1>2, <2>2, <3>6, <3>8
    <2> QED
      BY <2>1, <2>2
  <1> HIDE DEF back
  <1>6. back = env
    BY <1>2, <1>5 DEF Environments
  <1> QED
    BY <1>6 DEF back

-----------------------------------------------------------------------------
(* The command line *)

\* What is passed on to the lanes are arguments of the command line.
LEMMA PassedArgs ==
    ASSUME NEW args \in Seq(Arguments)
    PROVE  /\ passthrough_args_for_lanes(args) \in Seq(Arguments)
           /\ \A i \in DOMAIN passthrough_args_for_lanes(args) :
                \E j \in DOMAIN args : passthrough_args_for_lanes(args)[i] = args[j]
  <1> DEFINE n == Len(args)
             A == {args[j] : j \in 1..n}
             T == Seq(A)
             drops(i) == DefinesLanes(args[i]) \/ args[i][1] = ""
             step == [i \in 1..n |-> [s \in T |-> IF drops(i) THEN s ELSE Append(s, args[i])]]
             shape(f) == [i \in 0..n |-> IF i = 0 THEN <<>>
                                         ELSE IF drops(i) THEN f[i - 1]
                                         ELSE Append(f[i - 1], args[i])]
             passed == CHOOSE f : f = shape(f)
  <1>1. n \in Nat /\ DOMAIN args = 1..n /\ \A j \in 1..n : args[j] \in Arguments
    OBVIOUS
  <1>2. <<>> \in T /\ step \in [1..n -> [T -> T]]
    <2>1. \A i \in 1..n : \A s \in T : Append(s, args[i]) \in T
      <3>1. \A i \in 1..n : args[i] \in A
        OBVIOUS
      <3> HIDE DEF A
      <3> QED
        BY <3>1, AppendProperties
    <2> HIDE DEF T, drops
    <2>2. \A i \in 1..n : [s \in T |-> IF drops(i) THEN s ELSE Append(s, args[i])] \in [T -> T]
      BY <2>1
    <2>3. <<>> \in T
      BY DEF T
    <2> QED
      BY <2>2, <2>3
  <1> HIDE DEF T, n, drops
  <1>3. PICK f \in [0..n -> T] : f[0] = <<>> /\ \A i \in 1..n : f[i] = step[i][f[i - 1]]
    <2> HIDE DEF step
    <2>1. \E f \in [0..n -> T] : f[0] = <<>> /\ \A i \in 1..n : f[i] = step[i][f[i - 1]]
      <3>1. \E f : Iterates(f, T, n, <<>>, step)
        BY <1>1, <1>2, IterationExists
      <3> QED
        BY <3>1 DEF Iterates
    <2> QED
      BY <2>1
  <1>4. \A i \in 1..n : f[i] = IF drops(i) THEN f[i - 1] ELSE Append(f[i - 1], args[i])
    <2> TAKE i \in 1..n
    <2>1. f[i - 1] \in T
      <3>1. i - 1 \in 0..n
        BY <1>1
      <3> QED
        BY <1>3, <3>1
    <2> QED
      BY <1>3, <2>1
  <1>5. f = shape(f)
    <2>1. \A i \in 0..n : f[i] = IF i = 0 THEN <<>>
                                 ELSE IF drops(i) THEN f[i - 1] ELSE Append(f[i - 1], args[i])
      <3> TAKE i \in 0..n
      <3>1. i = 0 \/ i \in 1..n
        BY <1>1
      <3> QED
        BY <1>1, <1>3, <1>4, <3>1
    <2> QED
      BY <1>3, <2>1
  <1>6. passed = shape(passed)
    BY <1>5
  <1> HIDE DEF passed
  <1>7. \A i \in 0..n : passed[i] = f[i]
    <2> DEFINE Differ == {i \in 0..n : passed[i] # f[i]}
    <2> SUFFICES ASSUME Differ # {}
                 PROVE  FALSE
      OBVIOUS
    <2>1. PICK m \in Differ : \A k \in Differ : m <= k
      <3>1. Differ \subseteq Nat
        BY <1>1
      <3> HIDE DEF Differ
      <3> QED
        BY <3>1, LeastNat
    <2>2. m # 0
      BY <1>1, <1>3, <1>6, <2>1
    <2>3. m \in 1..n /\ m - 1 \in 0..n /\ m - 1 < m
      BY <1>1, <2>1, <2>2
    <2>4. passed[m - 1] = f[m - 1]
      <3>1. m - 1 \notin Differ
        <4> HIDE DEF Differ
        <4> QED
          BY <2>1, <2>3
      <3> QED
        BY <2>3, <3>1
    <2>5. m \in 0..n /\ passed[m] # f[m]
      BY <2>1
    <2>6. passed[m] = IF m = 0 THEN <<>>
                      ELSE IF drops(m) THEN passed[m - 1] ELSE Append(passed[m - 1], args[m])
      BY <1>6, <2>5
    <2> HIDE DEF Differ
    <2> QED
      BY <1>4, <2>2, <2>3, <2>4, <2>5, <2>6
  <1>8. passthrough_args_for_lanes(args) = passed[n]
    BY DEF passthrough_args_for_lanes, passed, n, drops
  <1>9. passthrough_args_for_lanes(args) \in T
    BY <1>1, <1>3, <1>7, <1>8
  <1>10. A \subseteq Arguments
    BY <1>1
  <1>11. passthrough_args_for_lanes(args) \in Seq(Arguments)
    <2> HIDE DEF A
    <2> QED
      BY <1>9, <1>10, SeqMonotonic DEF T
  <1>12. \A i \in DOMAIN passthrough_args_for_lanes(args) : passthrough_args_for_lanes(args)[i] \in A
    BY <1>9 DEF T
  <1> QED
    BY <1>1, <1>11, <1>12

\* A lane's arguments have no flag that the command line has not.
LEMMA LaneArgsHave ==
    ASSUME NEW args \in Seq(Arguments), NEW config, NEW l \in AllLanes
    PROVE  /\ LaneArgs(config, args, l) \in Seq(Arguments)
           /\ \A flag : flag # "" /\ Has(LaneArgs(config, args, l), flag) => Has(args, flag)
  <1> DEFINE passed == passthrough_args_for_lanes(args)
             own == IF l = config.rest THEN <<>> ELSE <<Path(l)>>
  <1>1. /\ passed \in Seq(Arguments)
        /\ \A i \in DOMAIN passed : \E j \in DOMAIN args : passed[i] = args[j]
    BY PassedArgs
  <1>2. own \in Seq(Arguments) /\ \A i \in DOMAIN own : own[i][1] = ""
    <2>1. <<>> \in Seq(Arguments) /\ DOMAIN <<>> = {}
      OBVIOUS
    <2> DEFINE named == Path(l)
    <2>2. named \in Arguments
      <3> HIDE DEF named
      <3>1. named \in {Path(k) : k \in AllLanes}
        BY DEF named
      <3> QED
        BY <3>1 DEF Arguments
    <2>3. named[1] = ""
      BY DEF Path
    <2> HIDE DEF named
    <2>4. <<named>> \in Seq(Arguments) /\ DOMAIN <<named>> = 1..1 /\ <<named>>[1] = named
      <3>1. named \in Arguments
        BY <2>2
      <3> QED
        BY <3>1
    <2>5. CASE l = config.rest
      BY <2>1, <2>5
    <2>6. CASE l # config.rest
      <3>1. own = <<named>>
        BY <2>6 DEF named
      <3> HIDE DEF own
      <3>2. \A i \in DOMAIN own : own[i] = named
        BY <2>4, <3>1
      <3> QED
        BY <2>3, <2>4, <3>1, <3>2
    <2> QED
      BY <2>5, <2>6
  <1>3. LaneArgs(config, args, l) = passed \o own
    BY DEF LaneArgs
  <1> HIDE DEF passed, own
  <1>4. /\ passed \o own \in Seq(Arguments)
        /\ DOMAIN (passed \o own) = 1..Len(passed) + Len(own)
        /\ Len(passed) \in Nat /\ DOMAIN passed = 1..Len(passed)
        /\ Len(own) \in Nat /\ DOMAIN own = 1..Len(own)
        /\ \A i \in 1..Len(passed) + Len(own) : (passed \o own)[i] =
                IF i <= Len(passed) THEN passed[i] ELSE own[i - Len(passed)]
    <2>1. passed \in Seq(Arguments) /\ own \in Seq(Arguments)
      BY <1>1, <1>2
    <2> QED
      BY <2>1, ConcatProperties, LenProperties
  <1> DEFINE both == passed \o own
  <1>5. \A i \in DOMAIN both : both[i][1] = "" \/ \E j \in DOMAIN args : both[i] = args[j]
    <2> TAKE i \in DOMAIN both
    <2>1. /\ i \in 1..Len(passed) + Len(own) /\ Len(passed) \in Nat /\ Len(own) \in Nat
          /\ DOMAIN passed = 1..Len(passed) /\ DOMAIN own = 1..Len(own)
      BY <1>4
    <2>2. CASE i <= Len(passed)
      <3>1. i \in DOMAIN passed /\ both[i] = passed[i]
        BY <1>4, <2>1, <2>2
      <3> QED
        BY <1>1, <3>1
    <2>3. CASE i > Len(passed)
      <3>1. i - Len(passed) \in DOMAIN own /\ both[i] = own[i - Len(passed)]
        BY <1>4, <2>1, <2>3
      <3> QED
        BY <1>2, <3>1
    <2>4. i <= Len(passed) \/ i > Len(passed)
      BY <2>1
    <2> HIDE DEF both
    <2> QED
      BY <2>2, <2>3, <2>4
  <1> HIDE DEF both
  <1>6. LaneArgs(config, args, l) = both /\ both \in Seq(Arguments)
    BY <1>3, <1>4 DEF both
  <1> QED
    BY <1>5, <1>6 DEF Has

-----------------------------------------------------------------------------
(* Sessions begin *)

\* A configuration that is found is one of the files', or none is.
LEMMA Discovered ==
    ASSUME NEW files, DOMAIN files = Range(DISCOVERY_ORDER)
    PROVE  discover_lane_config(files) \in Range(files) \cup {None}
  <1> DEFINE declaring == {i \in DOMAIN DISCOVERY_ORDER : files[DISCOVERY_ORDER[i]] # None}
  <1>1. DOMAIN DISCOVERY_ORDER = 1..4
    BY DEF DISCOVERY_ORDER
  <1>2. CASE declaring = {}
    BY <1>2 DEF discover_lane_config
  <1>3. CASE declaring # {}
    <2>1. declaring \in SUBSET Nat
      BY <1>1
    <2>2. Min(declaring) \in declaring
      <3> HIDE DEF declaring
      <3> QED
        BY <1>3, <2>1, FirstPosition
    <2>3. DISCOVERY_ORDER[Min(declaring)] \in DOMAIN files
      <3>1. Min(declaring) \in DOMAIN DISCOVERY_ORDER
        BY <2>2
      <3> HIDE DEF declaring
      <3> QED
        BY <3>1 DEF Range
    <2>4. discover_lane_config(files) = files[DISCOVERY_ORDER[Min(declaring)]]
      BY <1>3 DEF discover_lane_config
    <2> HIDE DEF declaring
    <2> QED
      BY <2>3, <2>4 DEF Range
  <1> QED
    BY <1>2, <1>3

\* In a directory without lanes none is found.
LEMMA BareDiscovered == discover_lane_config(Bare) = None
  <1>1. DOMAIN Bare = Range(DISCOVERY_ORDER) /\ \A f \in Range(DISCOVERY_ORDER) : Bare[f] = None
    BY DEF Bare
  <1>2. discover_lane_config(Bare) \in Range(Bare) \cup {None}
    BY <1>1, Discovered
  <1> QED
    BY <1>1, <1>2 DEF Range

\* The configurations a session can have.
LEMMA Resolved ==
    ASSUME project \in Projects, NEW files \in {project, Bare}, NEW args
    PROVE  /\ resolve_lane_config_or_none(args, files) \in {AdHoc, discover_lane_config(files)}
           /\ discover_lane_config(files) \in {None, discover_lane_config(project)}
           /\ {AdHoc, discover_lane_config(files)} \subseteq AllConfigs \cup {None, Broken}
  <1>1. DOMAIN project = Range(DISCOVERY_ORDER)
    BY SessionsAssumption
  <1>2. discover_lane_config(project) \in Range(project) \cup {None}
    BY <1>1, Discovered
  <1>3. Configs(project) \subseteq AllConfigs
    BY DEF AllConfigs
  <1>4. discover_lane_config(project) \in AllConfigs \cup {None, Broken}
    BY <1>2, <1>3 DEF Configs
  <1>5. AdHoc \in AllConfigs \cup {None, Broken}
    BY <1>3 DEF Configs
  <1>6. discover_lane_config(files) \in {None, discover_lane_config(project)}
    BY BareDiscovered
  <1> QED
    BY <1>4, <1>5, <1>6 DEF resolve_lane_config_or_none

\* A configuration is none of the markers.
LEMMA ConfigsAre == None \notin AllConfigs /\ Broken \notin AllConfigs
  BY DEF AllConfigs, Configs

\* What a session that begins is, and where: in the last process of ps, of
\* which nothing but its configuration and its recorder may be set.
Begins(under, ps, args, within, lane) ==
    LET p == Len(ps)
        s == sessions'[Len(under) + 1]
    IN  /\ sessions' \in Seq(SessionRecords) /\ procs' \in Seq(ProcessRecords)
        /\ out' \in [AllLanes -> {None} \cup SUBSET Range(FileOf)]
        /\ \A k \in 1..Len(under) : sessions'[k] = under[k]
        /\ \A q \in 1..Len(procs') : q # p => procs'[q] = ps[q]
        /\ p <= Len(procs') =>
            /\ procs'[p].env = ps[p].env
            /\ procs'[p].lane_config
                \in {ps[p].lane_config, None, AdHoc, discover_lane_config(project)}
        /\ \/ Len(sessions') = Len(under) /\ Len(procs') = Len(procs)
           \/ /\ Len(sessions') = Len(under) + 1 /\ Len(procs') = p
              /\ s.proc = p /\ s.lane = lane /\ s.before = ps[p].env
              /\ s.item = None /\ s.ran = {} /\ ~s.disturbed
              /\ s.kind = "plain" =>
                    /\ procs'[p].lane_config = s.config
                    /\ s.queue \subseteq Tests
                    /\ ps[p].env[DURATIONS_OUT] # None => procs'[p].recorder = {}
                    /\ ~Has(args, "--lane") /\ ~Has(args, "--lanes-explain") =>
                        s.queue = within
              /\ s.kind = "lanes" =>
                    /\ s.config # None /\ s.queue \subseteq LanesOf(s.config)
                    /\ ps[p].env[CHILD] # "1" /\ s.args = args
                    /\ ~Has(args, "--lane") /\ ~Has(args, "--lanes-explain")

\* Begin makes such a session, or refuses it.
LEMMA BeginDoes ==
    ASSUME TypeOK, NEW under \in Seq(SessionRecords), NEW ps \in Seq(ProcessRecords),
           NEW args \in Seq(Arguments), NEW files \in {project, Bare},
           NEW within \in SUBSET Tests, NEW lane \in AllLanes \cup {None},
           ps # <<>>, Len(procs) <= Len(ps),
           Begin(under, ps, args, files, within, lane)
    PROVE  Begins(under, ps, args, within, lane)
  <1> DEFINE p == Len(ps)
             env == ps[p].env
             config == resolve_lane_config_or_none(args, files)
             kind == Decision(env, args, files)
             configured == IF kind \in {"lanes", "suggests"} \/ config = Broken THEN ps
                           ELSE [ps EXCEPT ![p].lane_config = config]
             recording == kind = "plain" /\ env[DURATIONS_OUT] # None
             begun == [proc |-> p, kind |-> kind, config |-> config,
                       args |-> IF kind = "lanes" THEN args ELSE <<>>,
                       queue |-> Queue(kind, config, env, args, within), lane |-> lane,
                       before |-> env, item |-> None, saved |-> None, ran |-> {},
                       disturbed |-> FALSE]
             known == {None, AdHoc, discover_lane_config(project)}
  <1>1. /\ p \in Nat /\ p > 0 /\ p \in 1..p /\ ps[p] \in ProcessRecords
        /\ env \in Environments
        /\ \A q \in 1..p : ps[q] \in ProcessRecords
    <2>1. p \in Nat /\ p # 0
      BY EmptySeq, LenProperties
    <2>2. \A q \in 1..p : ps[q] \in ProcessRecords
      BY ElementOfSeq
    <2>3. p > 0 /\ p \in 1..p
      BY <2>1
    <2> HIDE DEF p
    <2>4. ps[p] \in ProcessRecords
      BY <2>2, <2>3
    <2>5. ps[p].env \in Environments
      BY <2>4 DEF ProcessRecords
    <2> QED
      BY <2>1, <2>2, <2>3, <2>4, <2>5
  <1>2. /\ config \in known
        /\ config \in AllConfigs \cup {None, Broken}
    BY Resolved DEF TypeOK
  <1>3. kind \in {"suggests", "refused", "lanes", "plain"}
    BY DEF Decision
  <1>4. config = Broken => kind \in {"suggests", "refused"}
    BY DEF Decision
  <1>5. kind = "lanes" =>
            /\ config # None /\ config # Broken
            /\ orchestration_mode(env, args) # None
    BY DEF Decision
  <1>6. kind = "lanes" =>
            env[CHILD] # "1" /\ ~Has(args, "--lane") /\ ~Has(args, "--lanes-explain")
    <2>1. orchestration_mode(env, args) # None =>
            env[CHILD] # "1" /\ ~has_custom_selection(args) /\ ~Has(args, "--lanes-explain")
      BY DEF orchestration_mode
    <2>2. ~has_custom_selection(args) => ~Has(args, "--lane")
      BY DEF has_custom_selection, Has
    <2> QED
      BY <1>5, <2>1, <2>2
  <1> HIDE DEF config, kind, env
  <1>7. /\ configured \in Seq(ProcessRecords) /\ Len(configured) = p
        /\ \A q \in 1..p : q # p => configured[q] = ps[q]
        /\ configured[p].env = env
        /\ configured[p].lane_config \in {ps[p].lane_config} \cup known
        /\ kind = "plain" => configured[p].lane_config = config
    <2>1. CASE kind \in {"lanes", "suggests"} \/ config = Broken
      <3>1. kind # "plain"
        BY <1>4, <2>1
      <3> QED
        BY <1>1, <2>1, <3>1 DEF env
    <2>2. CASE ~(kind \in {"lanes", "suggests"} \/ config = Broken)
      <3> DEFINE new == [ps[p] EXCEPT !.lane_config = config]
      <3>1. new \in ProcessRecords /\ new.env = env /\ new.lane_config = config
        BY <1>1, <1>2, <2>2 DEF ProcessRecords, env
      <3>2. configured = [ps EXCEPT ![p] = new]
        BY <1>1, <2>2 DEF ProcessRecords
      <3> HIDE DEF new, configured
      <3>3. /\ configured \in Seq(ProcessRecords) /\ Len(configured) = p
            /\ configured[p] = new /\ \A q \in 1..p : q # p => configured[q] = ps[q]
        BY <1>1, <3>1, <3>2, ExceptSeq
      <3> QED
        BY <1>2, <3>1, <3>3
    <2> QED
      BY <2>1, <2>2
  <1> HIDE DEF configured
  <1>8. CASE kind \in {"suggests", "refused"}
    <2>1. sessions' = under /\ procs' = SubSeq(configured, 1, Len(procs)) /\ UNCHANGED out
      BY <1>8, Zenon DEF Begin, configured, config, kind, env
    <2>2. Len(procs) \in Nat /\ \A q \in 1..Len(procs) : configured[q] \in ProcessRecords
      BY <1>1, <1>7 DEF TypeOK
    <2>3. /\ procs' \in Seq(ProcessRecords) /\ Len(procs') = Len(procs)
          /\ \A q \in 1..Len(procs) : procs'[q] = configured[q]
      <3>1. /\ SubSeq(configured, 1, Len(procs)) \in Seq(ProcessRecords)
            /\ Len(SubSeq(configured, 1, Len(procs)))
                = IF 1 <= Len(procs) THEN Len(procs) - 1 + 1 ELSE 0
            /\ \A q \in 1..Len(procs) - 1 + 1 :
                SubSeq(configured, 1, Len(procs))[q] = configured[1 + q - 1]
        BY <2>2, SubSeqProperties
      <3> QED
        BY <2>1, <2>2, <3>1
    <2> QED
      BY <1>1, <1>7, <2>1, <2>2, <2>3 DEF TypeOK, env, Begins
  <1>9. CASE kind \in {"lanes", "plain"}
    <2>1. /\ sessions' = Append(under, begun)
          /\ procs' = IF recording THEN [configured EXCEPT ![p].recorder = {}] ELSE configured
          /\ out' = IF kind = "lanes" THEN NoMeasurements ELSE out
      BY <1>9, Zenon DEF Begin, configured, config, kind, env
    <2>2. config \in AllConfigs \cup {None}
      BY <1>2, <1>4, <1>9
    <2>3. kind = "lanes" => begun.queue \subseteq LanesOf(config) /\ LanesOf(config) \subseteq AllLanes
      <3> SUFFICES ASSUME kind = "lanes"
                   PROVE  begun.queue \subseteq LanesOf(config) /\ LanesOf(config) \subseteq AllLanes
        OBVIOUS
      <3>1. config \in AllConfigs
        BY <1>5, <2>2
      <3>2. begun.queue = Range(Order(config, orchestration_mode(env, args)))
        BY DEF Queue
      <3>3. Range(Order(config, orchestration_mode(env, args))) \subseteq LanesOf(config)
        BY <3>1, SessionsAssumption DEF Order
      <3> QED
        BY <3>1, <3>2, <3>3 DEF AllLanes
    <2>4. kind = "plain" =>
            /\ begun.queue \subseteq Tests
            /\ ~Has(args, "--lane") /\ ~Has(args, "--lanes-explain") => begun.queue = within
      BY DEF Queue, Has
    <2>5. begun \in SessionRecords
      <3>1. begun.queue \in SUBSET (Tests \cup AllLanes)
        BY <1>9, <2>3, <2>4
      <3>2. begun.args \in Seq(Arguments)
        OBVIOUS
      <3> QED
        BY <1>1, <1>9, <2>2, <3>1, <3>2 DEF SessionRecords
    <2>6. /\ sessions' \in Seq(SessionRecords) /\ Len(sessions') = Len(under) + 1
          /\ sessions'[Len(under) + 1] = begun
          /\ \A k \in 1..Len(under) : sessions'[k] = under[k]
      <3> HIDE DEF begun
      <3> QED
        BY <2>1, <2>5, AppendProperties
    <2>7. /\ procs' \in Seq(ProcessRecords) /\ Len(procs') = p
          /\ \A q \in 1..p : q # p => procs'[q] = configured[q]
          /\ procs'[p].env = configured[p].env
          /\ procs'[p].lane_config = configured[p].lane_config
          /\ recording => procs'[p].recorder = {}
      <3>1. CASE recording
        <4> DEFINE new == [configured[p] EXCEPT !.recorder = {}]
        <4>1. configured[p] \in ProcessRecords
          BY <1>1, <1>7
        <4>2. /\ new \in ProcessRecords /\ new.env = configured[p].env
              /\ new.lane_config = configured[p].lane_config /\ new.recorder = {}
          BY <4>1 DEF ProcessRecords
        <4>3. procs' = [configured EXCEPT ![p] = new]
          BY <2>1, <3>1
        <4> HIDE DEF new
        <4>4. /\ procs' \in Seq(ProcessRecords) /\ Len(procs') = p /\ procs'[p] = new
              /\ \A q \in 1..p : q # p => procs'[q] = configured[q]
          BY <1>1, <1>7, <4>2, <4>3, ExceptSeq
        <4> QED
          BY <4>2, <4>4
      <3>2. CASE ~recording
        BY <1>7, <2>1, <3>2
      <3> QED
        BY <3>1, <3>2
    <2>8. out' \in [AllLanes -> {None} \cup SUBSET Range(FileOf)]
      BY <2>1 DEF TypeOK, NoMeasurements
    <2> DEFINE s == sessions'[Len(under) + 1]
    <2>9. /\ s.proc = p /\ s.lane = lane /\ s.before = env /\ s.item = None
          /\ s.ran = {} /\ ~s.disturbed /\ s.kind = kind /\ s.config = config
          /\ s.queue = begun.queue /\ (kind = "lanes" => s.args = args)
      BY <2>6
    <2> HIDE DEF begun, s
    <2>10. s.kind = "plain" =>
            /\ procs'[p].lane_config = s.config
            /\ s.queue \subseteq Tests
            /\ env[DURATIONS_OUT] # None => procs'[p].recorder = {}
            /\ ~Has(args, "--lane") /\ ~Has(args, "--lanes-explain") => s.queue = within
      BY <1>7, <2>4, <2>7, <2>9
    <2>11. s.kind = "lanes" =>
            /\ s.config # None /\ s.queue \subseteq LanesOf(s.config)
            /\ env[CHILD] # "1" /\ s.args = args
            /\ ~Has(args, "--lane") /\ ~Has(args, "--lanes-explain")
      BY <1>5, <1>6, <2>3, <2>9
    <2>12. /\ \A q \in 1..Len(procs') : q # p => procs'[q] = ps[q]
           /\ procs'[p].env = env
           /\ procs'[p].lane_config \in {ps[p].lane_config} \cup known
      BY <1>7, <2>7
    <2> QED
      BY <2>6, <2>7, <2>8, <2>9, <2>10, <2>11, <2>12 DEF s, env, Begins
  <1> QED
    BY <1>3, <1>8, <1>9

\* The topmost session acts in the last process.
LEMMA TopProcess ==
    ASSUME TypeOK, Stacked
    PROVE  /\ Top \in Nat /\ Len(procs) \in Nat
           /\ DOMAIN sessions = 1..Top /\ DOMAIN procs = 1..Len(procs)
           /\ \A k \in 1..Top : sessions[k] \in SessionRecords
           /\ \A p \in 1..Len(procs) : procs[p] \in ProcessRecords
           /\ Top > 0 => sessions[Top].proc = Len(procs) /\ Len(procs) > 0 /\ Top \in 1..Top
           /\ Top = 0 => Len(procs) = 0
  <1>1. /\ Top \in Nat /\ Len(procs) \in Nat
        /\ DOMAIN sessions = 1..Top /\ DOMAIN procs = 1..Len(procs)
        /\ \A k \in 1..Top : sessions[k] \in SessionRecords
        /\ \A p \in 1..Len(procs) : procs[p] \in ProcessRecords
    BY LenProperties, ElementOfSeq DEF TypeOK, Top
  <1> HIDE DEF Top
  <1>2. Top > 0 => sessions[Top].proc = Len(procs) /\ Len(procs) > 0 /\ Top \in 1..Top
    <2> SUFFICES ASSUME Top > 0
                 PROVE  sessions[Top].proc = Len(procs) /\ Len(procs) > 0 /\ Top \in 1..Top
      OBVIOUS
    <2>1. Top \in 1..Top /\ sessions[Top].proc \in 1..Len(procs)
      BY <1>1 DEF Stacked
    <2>2. Len(procs) \in 1..Len(procs)
      BY <1>1, <2>1
    <2>3. PICK k \in 1..Top : sessions[k].proc = Len(procs)
      BY <2>2 DEF Stacked
    <2>4. sessions[k].proc <= sessions[Top].proc
      BY <1>1, <2>1, <2>3 DEF Stacked
    <2> QED
      BY <1>1, <2>1, <2>3, <2>4
  <1>3. Top = 0 => Len(procs) = 0
    BY <1>1 DEF Stacked
  <1> QED
    BY <1>1, <1>2, <1>3

\* s is t, but for what it has still to run and whether it is disturbed.
Continues(s, t) ==
    /\ s.proc = t.proc /\ s.kind = t.kind /\ s.config = t.config /\ s.args = t.args
    /\ s.lane = t.lane /\ s.before = t.before /\ s.item = t.item /\ s.saved = t.saved
    /\ s.ran = t.ran /\ s.queue \subseteq t.queue
    /\ s.kind = "plain" => s.queue = t.queue

\* A session is about to begin in process p, for a lane if lane is one: it is
\* refused, or becomes the topmost.
Enter(p, lane) ==
    LET s == sessions'[Top + 1]
        known == {None, AdHoc, discover_lane_config(project)}
    IN  /\ p \in {Len(procs), Len(procs) + 1} /\ lane \in AllLanes \cup {None}
        /\ \A k \in 1..Top : Continues(sessions'[k], sessions[k])
        /\ \A k \in 1..Top : k < Top \/ p > Len(procs) =>
            (sessions'[k].disturbed <=> sessions[k].disturbed)
        /\ Top > 0 => sessions[Top].item # None \/ sessions[Top].kind = "lanes"
        /\ p <= Len(procs) =>
            /\ Top > 0 /\ sessions[Top].item # None /\ sessions'[Top].disturbed
            /\ lane = None /\ procs'[p].env = procs[p].env
            /\ procs'[p].lane_config \in known \cup {procs[p].lane_config}
        /\ \A i \in 1..Len(procs) : i # p => procs'[i] = procs[i]
        /\ lane # None => Top > 0 /\ sessions[Top].kind = "lanes"
        /\ \/ Len(sessions') = Top /\ Len(procs') = Len(procs)
           \/ /\ Len(sessions') = Top + 1 /\ Len(procs') = p
              /\ s.proc = p /\ s.lane = lane /\ s.before = procs'[p].env
              /\ s.item = None /\ s.ran = {} /\ ~s.disturbed
              /\ p > Len(procs) => procs'[p].lane_config \in known
              /\ s.kind = "plain" =>
                    procs'[p].lane_config = s.config /\ s.queue \subseteq Tests
              /\ s.kind = "lanes" =>
                    /\ s.config # None /\ s.queue \subseteq LanesOf(s.config)
                    /\ procs'[p].env[CHILD] # "1"
                    /\ ~Has(s.args, "--lane") /\ ~Has(s.args, "--lanes-explain")
              /\ Top > 0 /\ lane = None => procs'[p].env = procs[Len(procs)].env
              /\ lane # None /\ ChildKeysFree =>
                    /\ procs'[p].env[CHILD] = "1" /\ procs'[p].env[DURATIONS_OUT] = lane
                    /\ s.kind = "plain" =>
                        /\ procs'[p].recorder = {}
                        /\ ~Has(sessions[Top].args, "--lane")
                                /\ ~Has(sessions[Top].args, "--lanes-explain") =>
                            s.queue = LaneTests(sessions[Top].config, lane)

\* A new process.
LEMMA ProcessType ==
    ASSUME NEW env \in Environments
    PROVE  Process(env) \in ProcessRecords /\ Process(env).env = env
           /\ Process(env).lane_config = None
  BY DEF Process, ProcessRecords

\* What the user starts.
LEMMA InvokeEnters ==
    ASSUME TypeOK, Stacked, Invoke
    PROVE  TypeOK' /\ \E p, lane : Enter(p, lane)
  <1>1. PICK args \in Invocations, env \in StartEnvs :
            Begin(<<>>, <<Process(env)>>, args, project, Tests, None)
    BY DEF Invoke
  <1>2. /\ sessions = <<>> /\ Top = 0 /\ procs = <<>> /\ Len(procs) = 0
        /\ project' = project
    <2>1. sessions = <<>> /\ project' = project
      BY DEF Invoke
    <2>2. Top = 0
      BY <2>1 DEF Top
    <2>3. Len(procs) = 0
      BY <2>2, TopProcess
    <2>4. procs = <<>>
      BY <2>3, EmptySeq DEF TypeOK
    <2> QED
      BY <2>1, <2>2, <2>3, <2>4
  <1> DEFINE ps == <<Process(env)>>
  <1>3. args \in Seq(Arguments) /\ env \in Environments
    BY SessionsAssumption DEF Environments
  <1>4. /\ ps \in Seq(ProcessRecords) /\ Len(ps) = 1 /\ ps # <<>> /\ ps[1] = Process(env)
    BY <1>3, ProcessType
  <1> DEFINE under == <<>>
  <1>5. under \in Seq(SessionRecords) /\ Len(under) = 0
    OBVIOUS
  <1> HIDE DEF ps, under
  <1>6. Begin(under, ps, args, project, Tests, None)
    BY <1>1 DEF ps, under
  <1>7. Begins(under, ps, args, Tests, None)
    <2>1. Len(procs) <= Len(ps) /\ None \in AllLanes \cup {None} /\ Tests \in SUBSET Tests
      BY <1>2, <1>4
    <2> QED
      BY <1>3, <1>4, <1>5, <1>6, <2>1, BeginDoes
  <1>8. /\ sessions' \in Seq(SessionRecords) /\ procs' \in Seq(ProcessRecords)
        /\ out' \in [AllLanes -> {None} \cup SUBSET Range(FileOf)]
    BY <1>7 DEF Begins
  <1>9. Enter(1, None)
    BY <1>2, <1>3, <1>4, <1>5, <1>7, ProcessType DEF Enter, Begins
  <1> QED
    BY <1>2, <1>8, <1>9 DEF TypeOK

\* A child's environment; it tells the child what it is, unless the lane's
\* settings say otherwise.
LEMMA ChildEnvIs ==
    ASSUME NEW env \in Environments, NEW config \in AllConfigs, NEW l \in LanesOf(config)
    PROVE  /\ ChildEnv(env, config, l) \in Environments
           /\ ChildKeysFree => /\ ChildEnv(env, config, l)[CHILD] = "1"
                               /\ ChildEnv(env, config, l)[DURATIONS_OUT] = l
  <1> DEFINE told == [env EXCEPT ![CHILD] = "1", ![DURATIONS_OUT] = l]
             pairs == config.env[l]
  <1>1. l \in AllLanes /\ pairs \in Pairs
    BY SessionsAssumption DEF AllLanes, Pairs
  <1>2. CHILD # DURATIONS_OUT
    BY DEF CHILD, DURATIONS_OUT
  <1>3. told \in Environments /\ told[CHILD] = "1" /\ told[DURATIONS_OUT] = l
        /\ CHILD \in Keys /\ DURATIONS_OUT \in Keys
    BY <1>1, <1>2, SessionsAssumption DEF Environments
  <1>4. ChildKeysFree => Listed(CHILD, pairs) = {} /\ Listed(DURATIONS_OUT, pairs) = {}
    BY DEF ChildKeysFree, Listed
  <1>5. ChildEnv(env, config, l) = WithPairs(told, pairs)
    BY DEF ChildEnv
  <1> HIDE DEF told, pairs
  <1> QED
    BY <1>1, <1>3, <1>4, <1>5, PairsSet

\* A test starts a session in a process of its own.
LEMMA NestProcessEnters ==
    ASSUME TypeOK, Stacked, NestProcess
    PROVE  TypeOK' /\ \E p, lane : Enter(p, lane)
  <1> DEFINE ps == Append(procs, Process(Proc.env))
  <1>1. PICK args \in Nested, files \in {project, Bare} :
            Begin(sessions, ps, args, files, Tests, None)
    BY DEF NestProcess
  <1>2. /\ Top > 0 /\ sessions[Top].item # None /\ project' = project
        /\ Proc.env = procs[Len(procs)].env
    BY TopProcess DEF NestProcess, Session, Proc
  <1>3. args \in Seq(Arguments) /\ sessions \in Seq(SessionRecords) /\ Top = Len(sessions)
    BY SessionsAssumption DEF TypeOK, Top
  <1>4. Proc.env \in Environments
    BY <1>2, TopProcess DEF ProcessRecords
  <1>5. /\ ps \in Seq(ProcessRecords) /\ Len(ps) = Len(procs) + 1 /\ ps # <<>>
        /\ ps[Len(ps)] = Process(Proc.env)
        /\ \A q \in 1..Len(procs) : ps[q] = procs[q]
    BY <1>4, ProcessType, AppendProperties DEF TypeOK
  <1> HIDE DEF ps
  <1>6. Begins(sessions, ps, args, Tests, None)
    <2>1. Len(procs) <= Len(ps) /\ None \in AllLanes \cup {None} /\ Tests \in SUBSET Tests
      BY <1>5, TopProcess
    <2> QED
      BY <1>1, <1>3, <1>5, <2>1, BeginDoes
  <1>7. TypeOK'
    BY <1>2, <1>6 DEF Begins, TypeOK
  <1>8. \A k \in 1..Top : sessions'[k] = sessions[k] /\ Continues(sessions'[k], sessions[k])
    BY <1>3, <1>6 DEF Begins, Continues
  <1>9. Enter(Len(procs) + 1, None)
    BY <1>2, <1>3, <1>4, <1>5, <1>6, <1>8, TopProcess, ProcessType DEF Enter, Begins
  <1> QED
    BY <1>7, <1>9

\* A test starts a session within its process.
LEMMA NestWithinEnters ==
    ASSUME TypeOK, Stacked, NestWithin
    PROVE  TypeOK' /\ \E p, lane : Enter(p, lane)
  <1> DEFINE under == [sessions EXCEPT ![Top].disturbed = TRUE]
  <1>1. PICK args \in Nested, files \in {project, Bare} :
            Begin(under, procs, args, files, Tests, None)
    BY DEF NestWithin
  <1>2. /\ Top > 0 /\ sessions[Top].item # None /\ project' = project
    BY DEF NestWithin, Session
  <1>3. args \in Seq(Arguments) /\ sessions \in Seq(SessionRecords) /\ Top = Len(sessions)
        /\ procs \in Seq(ProcessRecords)
    BY SessionsAssumption DEF TypeOK, Top
  <1> DEFINE waiting == [sessions[Top] EXCEPT !.disturbed = TRUE]
  <1>4. waiting \in SessionRecords /\ Continues(waiting, sessions[Top]) /\ waiting.disturbed
    BY <1>2, TopProcess DEF SessionRecords, Continues
  <1>5. under = [sessions EXCEPT ![Top] = waiting]
    BY <1>2, TopProcess DEF SessionRecords
  <1> HIDE DEF under, waiting
  <1>6. /\ under \in Seq(SessionRecords) /\ Len(under) = Top
        /\ under[Top] = waiting /\ \A k \in 1..Top : k # Top => under[k] = sessions[k]
    BY <1>2, <1>3, <1>4, <1>5, TopProcess, ExceptSeq
  <1>7. Begins(under, procs, args, Tests, None)
    <2>1. /\ Len(procs) <= Len(procs) /\ None \in AllLanes \cup {None}
          /\ Tests \in SUBSET Tests /\ procs # <<>>
      BY <1>2, <1>3, TopProcess
    <2> QED
      BY <1>1, <1>3, <1>6, <2>1, BeginDoes
  <1>8. TypeOK'
    BY <1>2, <1>7 DEF Begins, TypeOK
  <1>9. \A k \in 1..Top : Continues(sessions'[k], sessions[k])
    <2> TAKE k \in 1..Top
    <2>1. sessions'[k] = under[k]
      BY <1>6, <1>7 DEF Begins
    <2>2. CASE k = Top
      BY <1>4, <1>6, <2>1, <2>2
    <2>3. CASE k # Top
      BY <1>6, <2>1, <2>3 DEF Continues
    <2> QED
      BY <2>2, <2>3
  <1>10. sessions'[Top].disturbed
         /\ \A k \in 1..Top : k < Top => (sessions'[k].disturbed <=> sessions[k].disturbed)
    <2>1. \A k \in 1..Top : sessions'[k] = under[k]
      BY <1>6, <1>7 DEF Begins
    <2>2. sessions'[Top].disturbed
      BY <1>2, <1>4, <1>6, <2>1, TopProcess
    <2>3. \A k \in 1..Top : k < Top => sessions'[k] = sessions[k]
      BY <1>6, <2>1, TopProcess
    <2> QED
      BY <2>2, <2>3
  <1>11. Enter(Len(procs), None)
    <2>1. /\ Top \in Nat /\ Len(procs) \in Nat /\ Len(procs) > 0 /\ Top > 0
          /\ sessions[Top].item # None
      BY <1>2, TopProcess
    <2>2. /\ Len(procs') = Len(procs)
          /\ \A q \in 1..Len(procs) : q # Len(procs) => procs'[q] = procs[q]
          /\ procs'[Len(procs)].env = procs[Len(procs)].env
          /\ procs'[Len(procs)].lane_config
                \in {procs[Len(procs)].lane_config, None, AdHoc, discover_lane_config(project)}
      BY <1>7, <2>1 DEF Begins
    <2> QED
      BY <1>6, <1>7, <1>9, <1>10, <2>1, <2>2 DEF Enter, Begins
  <1> QED
    BY <1>8, <1>11

\* A lane is started in a process of its own.
LEMMA SpawnLaneEnters ==
    ASSUME TypeOK, Stacked, SpawnLane
    PROVE  TypeOK' /\ \E p, lane : Enter(p, lane)
  <1> DEFINE config == Session.config
  <1>1. PICK l \in Session.queue :
            Begin([sessions EXCEPT ![Top].queue = @ \ {l}],
                  Append(procs, Process(ChildEnv(Proc.env, config, l))),
                  LaneArgs(config, Session.args, l), project, LaneTests(config, l), l)
    BY DEF SpawnLane
  <1> DEFINE under == [sessions EXCEPT ![Top].queue = @ \ {l}]
             ps == Append(procs, Process(ChildEnv(Proc.env, config, l)))
             args == LaneArgs(config, Session.args, l)
             within == LaneTests(config, l)
             waiting == [sessions[Top] EXCEPT !.queue = @ \ {l}]
  <1>2. /\ Top > 0 /\ Session = sessions[Top] /\ Session.kind = "lanes" /\ project' = project
        /\ Proc = procs[Len(procs)] /\ Session \in SessionRecords /\ Proc.env \in Environments
    BY TopProcess DEF SpawnLane, Session, Proc, ProcessRecords
  <1>3. /\ config \in AllConfigs /\ l \in LanesOf(config) /\ l \in AllLanes
        /\ Session.args \in Seq(Arguments)
    <2>1. config # None /\ Session.queue \subseteq LanesOf(config)
      BY <1>2, TopProcess DEF Stacked
    <2>2. config \in AllConfigs \cup {None} /\ Session.args \in Seq(Arguments)
      BY <1>2 DEF SessionRecords
    <2>3. l \in LanesOf(config)
      BY <2>1
    <2> HIDE DEF config
    <2> QED
      BY <2>1, <2>2, <2>3 DEF AllLanes
  <1>4. /\ args \in Seq(Arguments)
        /\ \A flag : flag # "" /\ Has(args, flag) => Has(Session.args, flag)
    BY <1>3, LaneArgsHave
  <1>5. /\ waiting \in SessionRecords /\ Continues(waiting, sessions[Top])
        /\ (waiting.disturbed <=> sessions[Top].disturbed)
    BY <1>2, TopProcess DEF SessionRecords, Continues
  <1>6. under = [sessions EXCEPT ![Top] = waiting]
    BY <1>2, TopProcess DEF SessionRecords
  <1>7. /\ ps \in Seq(ProcessRecords) /\ Len(ps) = Len(procs) + 1 /\ ps # <<>>
        /\ ps[Len(ps)] = Process(ChildEnv(Proc.env, config, l))
        /\ \A q \in 1..Len(procs) : ps[q] = procs[q]
    <2>1. Process(ChildEnv(Proc.env, config, l)) \in ProcessRecords
      BY <1>2, <1>3, ChildEnvIs, ProcessType
    <2> QED
      BY <2>1, AppendProperties DEF TypeOK
  <1>8. within \in SUBSET Tests
    BY DEF LaneTests
  <1> HIDE DEF under, ps, args, waiting, within
  <1>9. /\ under \in Seq(SessionRecords) /\ Len(under) = Top
        /\ under[Top] = waiting /\ \A k \in 1..Top : k # Top => under[k] = sessions[k]
    BY <1>2, <1>5, <1>6, TopProcess, ExceptSeq DEF TypeOK, Top
  <1>10. Begins(under, ps, args, within, l)
    <2>1. Len(procs) <= Len(ps) /\ l \in AllLanes \cup {None}
      BY <1>3, <1>7, TopProcess
    <2>2. Begin(under, ps, args, project, within, l)
      BY <1>1 DEF under, ps, args, within
    <2> QED
      BY <1>4, <1>7, <1>8, <1>9, <2>1, <2>2, BeginDoes
  <1>11. TypeOK'
    BY <1>2, <1>10 DEF Begins, TypeOK
  <1>12. \A k \in 1..Top : /\ Continues(sessions'[k], sessions[k])
                            /\ (sessions'[k].disturbed <=> sessions[k].disturbed)
    <2> TAKE k \in 1..Top
    <2>1. sessions'[k] = under[k]
      BY <1>9, <1>10 DEF Begins
    <2>2. CASE k = Top
      BY <1>5, <1>9, <2>1, <2>2
    <2>3. CASE k # Top
      BY <1>9, <2>1, <2>3 DEF Continues
    <2> QED
      BY <2>2, <2>3
  <1> DEFINE s == sessions'[Top + 1]
             p == Len(procs) + 1
  <1>13. \/ Len(sessions') = Top /\ Len(procs') = Len(procs)
         \/ /\ Len(sessions') = Top + 1 /\ Len(procs') = p
            /\ s.proc = p /\ s.lane = l /\ s.before = procs'[p].env
            /\ s.item = None /\ s.ran = {} /\ ~s.disturbed
            /\ procs'[p].lane_config \in {None, AdHoc, discover_lane_config(project)}
            /\ procs'[p].env = ChildEnv(Proc.env, config, l)
            /\ s.kind = "plain" =>
                /\ procs'[p].lane_config = s.config /\ s.queue \subseteq Tests
                /\ ChildEnv(Proc.env, config, l)[DURATIONS_OUT] # None =>
                    procs'[p].recorder = {}
                /\ ~Has(args, "--lane") /\ ~Has(args, "--lanes-explain") => s.queue = within
            /\ s.kind = "lanes" =>
                /\ s.config # None /\ s.queue \subseteq LanesOf(s.config)
                /\ procs'[p].env[CHILD] # "1"
                /\ ~Has(s.args, "--lane") /\ ~Has(s.args, "--lanes-explain")
    <2>1. Process(ChildEnv(Proc.env, config, l)).env = ChildEnv(Proc.env, config, l)
          /\ Process(ChildEnv(Proc.env, config, l)).lane_config = None
      BY DEF Process
    <2> HIDE DEF config
    <2> QED
      BY <1>7, <1>9, <1>10, <2>1, TopProcess DEF Begins
  <1>14. ChildKeysFree => /\ ChildEnv(Proc.env, config, l)[CHILD] = "1"
                          /\ ChildEnv(Proc.env, config, l)[DURATIONS_OUT] = l
    BY <1>2, <1>3, ChildEnvIs
  <1>15. ~Has(sessions[Top].args, "--lane") /\ ~Has(sessions[Top].args, "--lanes-explain")
            => ~Has(args, "--lane") /\ ~Has(args, "--lanes-explain")
    BY <1>2, <1>4
  <1>16. \A i \in 1..Len(procs) : procs'[i] = procs[i]
    <2>1. \A q \in 1..Len(procs') : q # Len(ps) => procs'[q] = ps[q]
      BY <1>10 DEF Begins
    <2>2. Len(procs') \in {Len(procs), Len(procs) + 1}
      BY <1>13
    <2> QED
      BY <1>7, <2>1, <2>2, TopProcess
  <1>17. l # None /\ within = LaneTests(sessions[Top].config, l)
    BY <1>2, <1>3, SessionsAssumption DEF within
  <1> HIDE DEF config
  <1>18. Enter(p, l)
    BY <1>2, <1>3, <1>12, <1>13, <1>14, <1>15, <1>16, <1>17, TopProcess DEF Enter
  <1> QED
    BY <1>11, <1>18

-----------------------------------------------------------------------------
(* Sessions end *)

\* The sessions above the m-th end, and the processes that were theirs.
Pop(m, q) ==
    /\ m \in 0..Top - 1 /\ q = IF m = 0 THEN 0 ELSE sessions[m].proc
    /\ Len(sessions') = m /\ \A k \in 1..m : sessions'[k] = sessions[k]
    /\ Len(procs') = q /\ q <= Len(procs) /\ \A p \in 1..q : procs'[p] = procs[p]
    /\ m > 0 /\ sessions[m + 1].proc = sessions[m].proc =>
        m + 1 = Top /\ sessions[Top].item = None

\* The first n of a sequence.
LEMMA FirstOf ==
    ASSUME NEW S, NEW seq \in Seq(S), NEW n \in 0..Len(seq)
    PROVE  /\ SubSeq(seq, 1, n) \in Seq(S) /\ Len(SubSeq(seq, 1, n)) = n
           /\ \A i \in 1..n : SubSeq(seq, 1, n)[i] = seq[i]
  <1>1. Len(seq) \in Nat /\ \A i \in 1..Len(seq) : seq[i] \in S
    BY LenProperties, ElementOfSeq
  <1>2. /\ SubSeq(seq, 1, n) \in Seq(S)
        /\ Len(SubSeq(seq, 1, n)) = IF 1 <= n THEN n - 1 + 1 ELSE 0
        /\ \A i \in 1..n - 1 + 1 : SubSeq(seq, 1, n)[i] = seq[1 + i - 1]
    BY <1>1, SubSeqProperties
  <1> QED
    BY <1>1, <1>2

\* The last process ends when what remains of the stack has none in it.
LEMMA LastEnds ==
    ASSUME TypeOK, Stacked, NEW m \in 0..Top - 1,
           \A k \in 1..Top : k > m <=> sessions[k].proc = Len(procs)
    PROVE  Len(procs) - 1 = IF m = 0 THEN 0 ELSE sessions[m].proc
  <1>1. /\ Top \in Nat /\ Top > 0 /\ Len(procs) \in Nat /\ Len(procs) > 0
        /\ \A k \in 1..Top : sessions[k].proc \in 1..Len(procs)
    BY TopProcess DEF Stacked
  <1>2. \A k \in 1..m : k \in 1..Top /\ sessions[k].proc <= Len(procs) - 1
    <2> TAKE k \in 1..m
    <2>1. k \in 1..Top /\ ~(k > m)
      BY <1>1
    <2>2. sessions[k].proc # Len(procs) /\ sessions[k].proc \in 1..Len(procs)
      BY <1>1, <2>1
    <2> QED
      BY <1>1, <2>1, <2>2
  <1>3. CASE Len(procs) - 1 = 0
    <2>1. m = 0
      <3> SUFFICES ASSUME m # 0
                   PROVE  FALSE
        OBVIOUS
      <3>1. m \in 1..m
        BY <1>1
      <3>2. sessions[m].proc <= 0 /\ sessions[m].proc \in 1..Len(procs)
        BY <1>1, <1>2, <1>3, <3>1
      <3> QED
        BY <1>1, <3>2
    <2> QED
      BY <1>3, <2>1
  <1>4. CASE Len(procs) - 1 > 0
    <2>1. Len(procs) - 1 \in 1..Len(procs)
      BY <1>1, <1>4
    <2>2. PICK k \in 1..Top : sessions[k].proc = Len(procs) - 1
      BY <2>1 DEF Stacked
    <2>3. k \in 1..m /\ m \in 1..Top
      <3>1. sessions[k].proc # Len(procs)
        BY <1>1, <2>2
      <3>2. ~(k > m)
        BY <3>1
      <3> QED
        BY <1>1, <3>2
    <2>4. sessions[k].proc <= sessions[m].proc
      BY <1>1, <2>3 DEF Stacked
    <2>5. sessions[m].proc <= Len(procs) - 1 /\ sessions[m].proc \in Nat
      BY <1>1, <1>2, <2>3
    <2> QED
      BY <1>1, <2>2, <2>3, <2>4, <2>5
  <1> QED
    BY <1>1, <1>3, <1>4

\* A session that ends is popped, with its process if it was the first in it.
LEMMA LeavePops ==
    ASSUME TypeOK, Stacked, Top > 0, Session.item = None, Leave
    PROVE  /\ sessions' \in Seq(SessionRecords) /\ procs' \in Seq(ProcessRecords)
           /\ \E m, q : Pop(m, q)
  <1> DEFINE m == Top - 1
             shares == \E k \in 1..m : sessions[k].proc = Session.proc
  <1>1. /\ Top \in Nat /\ Len(procs) \in Nat /\ Len(procs) > 0 /\ Top \in 1..Top
        /\ m \in 0..Top /\ m \in 0..Top - 1 /\ m < Top /\ m + 1 = Top
        /\ sessions[Top].proc = Len(procs) /\ Session = sessions[Top]
        /\ Top = Len(sessions)
    <2>1. Top \in Nat /\ Top > 0
      BY TopProcess
    <2> QED
      BY <2>1, TopProcess DEF Session, Top
  <1>2. /\ sessions' = SubSeq(sessions, 1, m)
        /\ procs' = IF shares THEN procs ELSE SubSeq(procs, 1, Len(procs) - 1)
    BY DEF Leave, Front, Top
  <1>3. /\ sessions' \in Seq(SessionRecords) /\ Len(sessions') = m
        /\ \A k \in 1..m : sessions'[k] = sessions[k]
    BY <1>1, <1>2, FirstOf DEF TypeOK
  <1> HIDE DEF m
  <1>4. CASE shares
    <2>1. PICK k \in 1..m : sessions[k].proc = Len(procs)
      BY <1>1, <1>4
    <2>2. m > 0 /\ m \in 1..Top /\ k \in 1..Top /\ k <= m
      BY <1>1, <2>1
    <2>3. sessions[m].proc = Len(procs)
      <3>1. sessions[k].proc <= sessions[m].proc /\ sessions[m].proc \in 1..Len(procs)
        BY <2>2 DEF Stacked
      <3> QED
        BY <1>1, <2>1, <3>1
    <2>4. procs' = procs
      BY <1>2, <1>4
    <2>5. Pop(m, Len(procs))
      BY <1>1, <1>3, <2>2, <2>3, <2>4 DEF Pop
    <2> QED
      BY <1>3, <2>4, <2>5 DEF TypeOK
  <1>5. CASE ~shares
    <2>1. Len(procs) - 1 \in 0..Len(procs)
      BY <1>1
    <2>2. /\ procs' \in Seq(ProcessRecords) /\ Len(procs') = Len(procs) - 1
          /\ \A p \in 1..Len(procs) - 1 : procs'[p] = procs[p]
      BY <1>2, <1>5, <2>1, FirstOf DEF TypeOK
    <2>3. \A k \in 1..Top : k > m <=> sessions[k].proc = Len(procs)
      BY <1>1, <1>5
    <2>4. Len(procs) - 1 = IF m = 0 THEN 0 ELSE sessions[m].proc
      BY <1>1, <2>3, LastEnds
    <2>5. Pop(m, Len(procs) - 1)
      BY <1>1, <1>3, <2>2, <2>4 DEF Pop
    <2> QED
      BY <1>3, <2>2, <2>5
  <1> QED
    BY <1>4, <1>5

\* A process that is killed takes its sessions with it.
LEMMA KillPops ==
    ASSUME TypeOK, Stacked, Kill
    PROVE  TypeOK' /\ \E m, q : Pop(m, q)
  <1>1. PICK first \in 1..Top :
            /\ \A k \in 1..Top : k >= first <=> sessions[k].proc = Session.proc
            /\ sessions' = SubSeq(sessions, 1, first - 1)
    BY DEF Kill
  <1> DEFINE m == first - 1
  <1>2. /\ Top > 0 /\ Top \in Nat /\ Len(procs) \in Nat /\ Len(procs) > 0
        /\ m \in 0..Top - 1 /\ m \in 0..Top /\ Top = Len(sessions)
        /\ Session.proc = Len(procs)
    BY TopProcess DEF Session, Top, Kill
  <1>3. \A k \in 1..Top : k > m <=> sessions[k].proc = Len(procs)
    BY <1>1, <1>2
  <1>4. /\ sessions' \in Seq(SessionRecords) /\ Len(sessions') = m
        /\ \A k \in 1..m : sessions'[k] = sessions[k]
    BY <1>1, <1>2, FirstOf DEF TypeOK
  <1>5. /\ procs' \in Seq(ProcessRecords) /\ Len(procs') = Len(procs) - 1
        /\ \A p \in 1..Len(procs) - 1 : procs'[p] = procs[p]
    <2>1. Len(procs) - 1 \in 0..Len(procs) /\ procs' = SubSeq(procs, 1, Len(procs) - 1)
      BY <1>2 DEF Kill, Front
    <2> QED
      BY <2>1, FirstOf DEF TypeOK
  <1> HIDE DEF m
  <1>6. Len(procs) - 1 = IF m = 0 THEN 0 ELSE sessions[m].proc
    BY <1>2, <1>3, LastEnds
  <1>7. Pop(m, Len(procs) - 1)
    <2>1. m > 0 => sessions[m].proc # sessions[m + 1].proc
      <3>1. m + 1 \in 1..Top /\ m + 1 > m
        BY <1>2
      <3>2. sessions[m + 1].proc = Len(procs)
        BY <1>3, <3>1
      <3> QED
        BY <1>2, <1>6, <3>2
    <2> QED
      BY <1>2, <1>4, <1>5, <1>6, <2>1 DEF Pop
  <1>8. project' = project /\ out' \in [AllLanes -> {None} \cup SUBSET Range(FileOf)]
    BY DEF Kill, TypeOK, NoMeasurements
  <1> QED
    BY <1>4, <1>5, <1>7, <1>8 DEF TypeOK

\* What a session leaves behind is well typed.
LEMMA FinishPops ==
    ASSUME TypeOK, Stacked, FinishSession \/ FinishLanes
    PROVE  TypeOK' /\ \E m, q : Pop(m, q)
  <1>1. Top > 0 /\ Session = sessions[Top] /\ Session \in SessionRecords
        /\ Proc = procs[Len(procs)] /\ Proc \in ProcessRecords
    BY TopProcess DEF FinishSession, FinishLanes, Session, Proc
  <1>2. Session.item = None
    <2>1. FinishLanes => Session.kind = "lanes"
      BY DEF FinishLanes
    <2>2. Session.kind = "lanes" => Session.item = None
      BY <1>1, TopProcess DEF Stacked
    <2> QED
      BY <2>1, <2>2 DEF FinishSession
  <1>3. Leave /\ project' = project
    BY DEF FinishSession, FinishLanes
  <1>4. out' \in [AllLanes -> {None} \cup SUBSET Range(FileOf)]
    <2>1. CASE FinishSession
      BY <1>1, <2>1 DEF FinishSession, TypeOK, Measurements, ProcessRecords
    <2>2. CASE FinishLanes
      BY <2>2 DEF FinishLanes, NoMeasurements
    <2> QED
      BY <2>1, <2>2
  <1> QED
    BY <1>1, <1>2, <1>3, <1>4, LeavePops DEF TypeOK

-----------------------------------------------------------------------------
(* Tests *)

\* The settings a test gets.
LEMMA OverridesType ==
    ASSUME TypeOK, Stacked, Top > 0, NEW t \in Tests
    PROVE  /\ Overrides(t) \in Pairs
           /\ ChildKeysFree => \A i \in DOMAIN Overrides(t) :
                Overrides(t)[i][1] \notin {CHILD, DURATIONS_OUT}
           /\ Proc.lane_config # None =>
                Overrides(t) = Proc.lane_config.env[Proc.lane_config.lane[t]]
  <1>1. Proc \in ProcessRecords
    BY TopProcess DEF Proc, Session
  <1> DEFINE config == Proc.lane_config
  <1>2. config \in AllConfigs \cup {None}
    BY <1>1 DEF ProcessRecords
  <1>3. CASE config = None
    <2>1. Overrides(t) = <<>> /\ <<>> \in Pairs /\ DOMAIN <<>> = {}
      BY <1>3 DEF Overrides, Pairs
    <2> QED
      BY <1>3, <2>1
  <1>4. CASE config # None
    <2>1. config \in AllConfigs /\ config.lane[t] \in LanesOf(config)
      BY <1>2, <1>4, SessionsAssumption
    <2>2. Overrides(t) = config.env[config.lane[t]]
      BY <1>4 DEF Overrides
    <2> HIDE DEF config
    <2>3. Overrides(t) \in Pairs
      BY <2>1, <2>2, SessionsAssumption DEF Pairs
    <2>4. ChildKeysFree => \A i \in DOMAIN Overrides(t) :
            Overrides(t)[i][1] \notin {CHILD, DURATIONS_OUT}
      BY <2>1, <2>2 DEF ChildKeysFree
    <2> QED
      BY <2>2, <2>3, <2>4 DEF config
  <1> QED
    BY <1>3, <1>4

\* Only the topmost session and its process change.
Acts(s, p) ==
    /\ s \in SessionRecords /\ p \in ProcessRecords
    /\ Top > 0 /\ sessions[Top].kind = "plain"
    /\ sessions' = [sessions EXCEPT ![Top] = s]
    /\ procs' = [procs EXCEPT ![Len(procs)] = p]
    /\ p.lane_config = procs[Len(procs)].lane_config
    /\ s.proc = sessions[Top].proc /\ s.kind = "plain" /\ s.config = sessions[Top].config
    /\ s.lane = sessions[Top].lane /\ s.before = sessions[Top].before
    /\ (s.disturbed <=> sessions[Top].disturbed)
    /\ s.queue \subseteq sessions[Top].queue

\* What an acting session leaves alone.
LEMMA ActsLeaves ==
    ASSUME TypeOK, Stacked, NEW s, NEW p, Acts(s, p)
    PROVE  /\ sessions' \in Seq(SessionRecords) /\ procs' \in Seq(ProcessRecords)
           /\ Len(sessions') = Top /\ Len(procs') = Len(procs)
           /\ sessions'[Top] = s /\ procs'[Len(procs)] = p
           /\ \A k \in 1..Top : k # Top => sessions'[k] = sessions[k]
           /\ \A q \in 1..Len(procs) : q # Len(procs) => procs'[q] = procs[q]
  <1>1. Top > 0 /\ Top \in 1..Len(sessions) /\ Len(procs) \in 1..Len(procs)
        /\ Top = Len(sessions)
    BY TopProcess DEF Acts, Top
  <1> QED
    BY <1>1, ExceptSeq DEF Acts, TypeOK

\* Setup.
LEMMA SetupActs ==
    ASSUME TypeOK, Stacked, pytest_runtest_setup
    PROVE  \E t, s, p :
            LET pairs == Overrides(t)
                env == procs[Len(procs)].env
            IN  /\ t \in Tests /\ Acts(s, p) /\ sessions[Top].item = None
                /\ s.item = t /\ s.ran = sessions[Top].ran \cup {t}
                /\ t \in sessions[Top].queue /\ s.queue = sessions[Top].queue \ {t}
                /\ s.saved = Saved(env, pairs)
                /\ p.env = WithPairs(env, pairs)
                /\ p.recorder = procs[Len(procs)].recorder
                /\ UNCHANGED <<project, out>>
  <1>1. PICK t \in Session.queue :
            /\ sessions' = [sessions EXCEPT
                  ![Top].item = t, ![Top].queue = @ \ {t}, ![Top].ran = @ \cup {t},
                  ![Top].saved = Saved(Proc.env, Overrides(t))]
            /\ procs' = [procs EXCEPT ![Session.proc].env = WithPairs(@, Overrides(t))]
    BY DEF pytest_runtest_setup, AppliedPairs
  <1>2. /\ Top > 0 /\ Session = sessions[Top] /\ Session \in SessionRecords
        /\ Proc = procs[Len(procs)] /\ Proc \in ProcessRecords
        /\ Session.proc = Len(procs) /\ Session.kind = "plain" /\ Session.item = None
        /\ Top \in 1..Top /\ DOMAIN sessions = 1..Top /\ DOMAIN procs = 1..Len(procs)
        /\ Len(procs) \in 1..Len(procs) /\ UNCHANGED <<project, out>>
    BY TopProcess DEF pytest_runtest_setup, Session, Proc
  <1>3. t \in Tests
    BY <1>2 DEF Stacked
  <1> DEFINE pairs == Overrides(t)
             saved == Saved(Proc.env, pairs)
             env == WithPairs(Proc.env, pairs)
             s == [Session EXCEPT !.item = t, !.queue = @ \ {t}, !.ran = @ \cup {t},
                                  !.saved = saved]
             p == [Proc EXCEPT !.env = env]
  <1>4. pairs \in Pairs /\ Proc.env \in Environments
    BY <1>2, <1>3, OverridesType DEF ProcessRecords
  <1>5. saved \in Savings /\ env \in Environments
    BY <1>4, SavedType, PairsSet
  <1>6. sessions' = [sessions EXCEPT ![Top] = s] /\ procs' = [procs EXCEPT ![Len(procs)] = p]
    <2>1. sessions' = [sessions EXCEPT ![Top] = s]
      BY <1>1, <1>2
    <2>2. procs' = [procs EXCEPT ![Len(procs)] = p]
      BY <1>1, <1>2
    <2> QED
      BY <2>1, <2>2
  <1> HIDE DEF saved, env
  <1>7. /\ s \in SessionRecords /\ s.item = t /\ s.ran = Session.ran \cup {t}
        /\ s.queue = Session.queue \ {t} /\ s.saved = saved /\ s.proc = Session.proc
        /\ s.kind = "plain" /\ s.config = Session.config /\ s.lane = Session.lane
        /\ s.before = Session.before /\ (s.disturbed <=> Session.disturbed)
    BY <1>2, <1>3, <1>5, ZenonT(30) DEF SessionRecords
  <1>8. /\ p \in ProcessRecords /\ p.env = env /\ p.lane_config = Proc.lane_config
        /\ p.recorder = Proc.recorder
    BY <1>2, <1>5 DEF ProcessRecords
  <1> HIDE DEF s, p
  <1>9. Acts(s, p)
    BY <1>2, <1>6, <1>7, <1>8 DEF Acts
  <1> QED
    BY <1>2, <1>3, <1>7, <1>8, <1>9 DEF saved, env

\* Teardown.
LEMMA TeardownActs ==
    ASSUME TypeOK, Stacked, pytest_runtest_teardown
    PROVE  \E s, p :
            LET old == sessions[Top]
                was == procs[Len(procs)]
            IN  /\ Acts(s, p) /\ old.item \in Tests /\ old.item # None
                /\ s.item = None /\ s.ran = old.ran /\ s.queue = old.queue
                /\ p.env = Restored(was.env, old.saved)
                /\ p.recorder = IF was.recorder = None THEN None
                                ELSE was.recorder \cup {FileOf[old.item]}
                /\ UNCHANGED <<project, out>>
  <1>1. /\ Top > 0 /\ Session = sessions[Top] /\ Session \in SessionRecords
        /\ Proc = procs[Len(procs)] /\ Proc \in ProcessRecords
        /\ Session.proc = Len(procs) /\ Session.item # None
        /\ Top \in 1..Top /\ DOMAIN sessions = 1..Top /\ DOMAIN procs = 1..Len(procs)
        /\ Len(procs) \in 1..Len(procs) /\ UNCHANGED <<project, out>>
    BY TopProcess DEF pytest_runtest_teardown, Session, Proc
  <1>2. Session.kind = "plain" /\ Session.saved \in Savings /\ Session.item \in Tests
    BY <1>1 DEF Stacked, SessionRecords
  <1> DEFINE env == Restored(Proc.env, Session.saved)
             recorder == IF Proc.recorder = None THEN None
                         ELSE Proc.recorder \cup {FileOf[Session.item]}
             s == [Session EXCEPT !.item = None, !.saved = None]
             p == [Proc EXCEPT !.env = env, !.recorder = recorder]
  <1>3. env \in Environments
    BY <1>1, <1>2, RestoredType DEF ProcessRecords
  <1>4. recorder \in {None} \cup SUBSET Range(FileOf)
    <2>1. FileOf[Session.item] \in Range(FileOf)
      BY <1>2, SessionsAssumption DEF Range
    <2> QED
      BY <1>1, <2>1 DEF ProcessRecords
  <1>5. sessions' = [sessions EXCEPT ![Top] = s] /\ procs' = [procs EXCEPT ![Len(procs)] = p]
    <2>1. sessions' = [sessions EXCEPT ![Top].item = None, ![Top].saved = None]
      BY DEF pytest_runtest_teardown
    <2>2. sessions' = [sessions EXCEPT ![Top] = s]
      BY <1>1, <2>1 DEF SessionRecords
    <2>3. procs' = [procs EXCEPT
              ![Session.proc].env = Restored(@, Session.saved),
              ![Session.proc].recorder =
                  IF @ = None THEN None ELSE @ \cup {FileOf[Session.item]}]
      BY DEF pytest_runtest_teardown
    <2>4. procs' = [procs EXCEPT ![Len(procs)] = p]
      BY <1>1, <2>3
    <2> QED
      BY <2>2, <2>4
  <1> HIDE DEF env, recorder
  <1>6. /\ s \in SessionRecords /\ s.item = None /\ s.ran = Session.ran
        /\ s.queue = Session.queue /\ s.proc = Session.proc
        /\ s.kind = "plain" /\ s.config = Session.config /\ s.lane = Session.lane
        /\ s.before = Session.before /\ (s.disturbed <=> Session.disturbed)
    BY <1>1, <1>2 DEF SessionRecords
  <1>7. /\ p \in ProcessRecords /\ p.env = env /\ p.lane_config = Proc.lane_config
        /\ p.recorder = recorder
    BY <1>1, <1>3, <1>4 DEF ProcessRecords
  <1> HIDE DEF s, p
  <1>8. Acts(s, p)
    BY <1>1, <1>2, <1>5, <1>6, <1>7 DEF Acts
  <1> QED
    BY <1>1, <1>2, <1>6, <1>7, <1>8 DEF env, recorder

-----------------------------------------------------------------------------
(* The stack *)

\* The project stays as it is.
LEMMA ProjectStays == Next => project' = project
  BY DEF Next, Invoke, SpawnLane, NestProcess, NestWithin, pytest_runtest_setup,
         pytest_runtest_teardown, FinishSession, FinishLanes, Kill

\* What a session is when another begins above it.
LEMMA EnterBelow ==
    ASSUME TypeOK, Stacked, TypeOK', NEW p, NEW lane, Enter(p, lane)
    PROVE  /\ Top \in Nat /\ Len(procs) \in Nat /\ p \in Nat /\ p > 0
           /\ Top' \in {Top, Top + 1} /\ Len(procs') \in {Len(procs), p}
           /\ Len(procs') >= Len(procs)
           /\ Top' = Top => Len(procs') = Len(procs)
           /\ Top' = Top + 1 => Len(procs') = p
           /\ \A k \in 1..Top' : k \in 1..Top \/ (k = Top + 1 /\ Top' = Top + 1)
           /\ \A k \in 1..Top : k \in 1..Top' /\ Continues(sessions'[k], sessions[k])
           /\ \A k \in 1..Top : sessions[k].proc \in 1..Len(procs) /\ sessions[k].proc <= p
           /\ Top' = Top + 1 =>
                /\ sessions'[Top + 1].proc = p /\ sessions'[Top + 1].before = procs'[p].env
                /\ sessions'[Top + 1].item = None /\ sessions'[Top + 1].lane = lane
                /\ sessions'[Top + 1].ran = {} /\ ~sessions'[Top + 1].disturbed
  <1>1. /\ Top \in Nat /\ Len(procs) \in Nat /\ p \in {Len(procs), Len(procs) + 1}
        /\ Top' = Len(sessions') /\ (p <= Len(procs) => Top > 0)
        /\ Top > 0 => Len(procs) > 0
    BY TopProcess DEF Enter, Top
  <1>2. \A k \in 1..Top : sessions[k].proc \in 1..Len(procs)
    BY DEF Stacked
  <1> QED
    BY <1>1, <1>2 DEF Enter

\* The order of the stack and of the processes survives a beginning,
LEMMA EnterStacks ==
    ASSUME TypeOK, Stacked, TypeOK', NEW p, NEW lane, Enter(p, lane)
    PROVE  Stacked'
  <1>0. /\ Top \in Nat /\ Len(procs) \in Nat /\ p \in Nat /\ p > 0
        /\ Top' \in {Top, Top + 1} /\ Len(procs') \in {Len(procs), p}
        /\ Len(procs') >= Len(procs)
        /\ Top' = Top => Len(procs') = Len(procs)
        /\ Top' = Top + 1 => Len(procs') = p
        /\ \A k \in 1..Top' : k \in 1..Top \/ (k = Top + 1 /\ Top' = Top + 1)
        /\ \A k \in 1..Top : k \in 1..Top' /\ Continues(sessions'[k], sessions[k])
        /\ \A k \in 1..Top : sessions[k].proc \in 1..Len(procs) /\ sessions[k].proc <= p
        /\ Top' = Top + 1 => sessions'[Top + 1].proc = p
    BY EnterBelow
  <1>9. \A k \in 1..Top' - 1 : k \in 1..Top
    <2>1. Top \in Nat /\ (Top' = Top \/ Top' = Top + 1)
      BY <1>0
    <2>2. CASE Top' = Top
      BY <2>1, <2>2
    <2>3. CASE Top' = Top + 1
      <3>1. Top' - 1 = Top
        BY <2>1, <2>3
      <3> QED
        BY <3>1
    <2> QED
      BY <2>1, <2>2, <2>3
  <1> USE <1>0
  <1>1. \A k \in 1..Top' : sessions'[k].proc \in 1..Len(procs')
    <2> TAKE k \in 1..Top'
    <2>1. CASE k \in 1..Top
      <3>1. sessions'[k].proc = sessions[k].proc
        BY <2>1 DEF Continues
      <3> QED
        BY <2>1, <3>1
    <2>2. CASE k = Top + 1 /\ Top' = Top + 1
      BY <2>2
    <2> QED
      BY <2>1, <2>2
  <1>2. \A j, k \in 1..Top' : j <= k => sessions'[j].proc <= sessions'[k].proc
    <2> SUFFICES ASSUME NEW j \in 1..Top', NEW k \in 1..Top', j <= k
                 PROVE  sessions'[j].proc <= sessions'[k].proc
      OBVIOUS
    <2>1. CASE k \in 1..Top
      <3>1. j \in 1..Top
        BY <2>1
      <3>2. sessions'[j].proc = sessions[j].proc /\ sessions'[k].proc = sessions[k].proc
        BY <2>1, <3>1 DEF Continues
      <3> QED
        BY <2>1, <3>1, <3>2 DEF Stacked
    <2>2. CASE k = Top + 1 /\ Top' = Top + 1
      <3>1. CASE j \in 1..Top
        <4>1. sessions'[j].proc = sessions[j].proc
          BY <3>1 DEF Continues
        <4> QED
          BY <2>2, <3>1, <4>1
      <3>2. CASE j = Top + 1
        BY <2>2, <3>2
      <3> QED
        BY <2>2, <3>1, <3>2
    <2> QED
      BY <2>1, <2>2
  <1>3. \A i \in 1..Len(procs') : \E k \in 1..Top' : sessions'[k].proc = i
    <2> TAKE i \in 1..Len(procs')
    <2>1. CASE i \in 1..Len(procs)
      <3>1. PICK k \in 1..Top : sessions[k].proc = i
        BY <2>1 DEF Stacked
      <3>2. k \in 1..Top' /\ sessions'[k].proc = i
        BY <3>1 DEF Continues
      <3> QED
        BY <3>2
    <2>2. CASE i \notin 1..Len(procs)
      <3>1. Len(procs') # Len(procs)
        BY <2>2
      <3>2. Top' # Top /\ Len(procs') = p /\ p # Len(procs)
        BY <3>1
      <3>3. p = Len(procs) + 1
        BY <3>2 DEF Enter
      <3>4. i = p /\ Top' = Top + 1
        BY <2>2, <3>2, <3>3
      <3>5. Top + 1 \in 1..Top' /\ sessions'[Top + 1].proc = i
        BY <3>4
      <3> QED
        BY <3>5
    <2> QED
      BY <2>1, <2>2
  <1>4. \A k \in 1..Top' : sessions'[k].kind = "plain" => sessions'[k].queue \subseteq Tests
    <2> TAKE k \in 1..Top'
    <2>1. CASE k \in 1..Top
      <3>1. sessions[k].kind = "plain" => sessions[k].queue \subseteq Tests
        BY <2>1 DEF Stacked
      <3>2. sessions'[k].kind = sessions[k].kind /\ sessions'[k].queue \subseteq sessions[k].queue
        BY <2>1 DEF Continues
      <3> QED
        BY <3>1, <3>2
    <2>2. CASE k = Top + 1 /\ Top' = Top + 1
      BY <2>2 DEF Enter, Top
    <2> QED
      BY <2>1, <2>2
  <1>5. \A k \in 1..Top' : sessions'[k].kind = "lanes" =>
        /\ sessions'[k].item = None /\ sessions'[k].config # None
        /\ sessions'[k].queue \subseteq LanesOf(sessions'[k].config)
    <2> TAKE k \in 1..Top'
    <2>1. CASE k \in 1..Top
      <3>1. sessions[k].kind = "lanes" =>
                /\ sessions[k].item = None /\ sessions[k].config # None
                /\ sessions[k].queue \subseteq LanesOf(sessions[k].config)
        BY <2>1 DEF Stacked
      <3>2. /\ sessions'[k].kind = sessions[k].kind /\ sessions'[k].item = sessions[k].item
            /\ sessions'[k].config = sessions[k].config
            /\ sessions'[k].queue \subseteq sessions[k].queue
        BY <2>1 DEF Continues
      <3> QED
        BY <3>1, <3>2
    <2>2. CASE k = Top + 1 /\ Top' = Top + 1
      BY <2>2 DEF Enter, Top
    <2> QED
      BY <2>1, <2>2
  <1>6. \A k \in 1..Top' : sessions'[k].item # None => sessions'[k].saved \in Savings
    <2> TAKE k \in 1..Top'
    <2>1. CASE k \in 1..Top
      BY <2>1 DEF Continues, Stacked
    <2>2. CASE k = Top + 1 /\ Top' = Top + 1
      BY <2>2 DEF Enter, Top
    <2> QED
      BY <2>1, <2>2
  <1>7. \A k \in 1..Top' - 1 : sessions'[k].item = None => sessions'[k].kind = "lanes"
    <2> TAKE k \in 1..Top' - 1
    <2>1. k \in 1..Top /\ (k \in 1..Top - 1 \/ k = Top) /\ Continues(sessions'[k], sessions[k])
      OBVIOUS
    <2>2. k \in 1..Top - 1 => sessions[k].item # None \/ sessions[k].kind = "lanes"
      BY DEF Stacked
    <2>3. k = Top => sessions[k].item # None \/ sessions[k].kind = "lanes"
      <3>1. k = Top => Top > 0
        BY <2>1
      <3> QED
        BY <3>1 DEF Enter
    <2> QED
      BY <2>1, <2>2, <2>3 DEF Continues
  <1>8. \A k \in 1..Top' - 1 : sessions'[k + 1].proc = sessions'[k].proc =>
            sessions'[k].kind = "plain" /\ sessions'[k].disturbed
    <2> SUFFICES ASSUME NEW k \in 1..Top' - 1, sessions'[k + 1].proc = sessions'[k].proc
                 PROVE  sessions'[k].kind = "plain" /\ sessions'[k].disturbed
      OBVIOUS
    <2>0. k \in 1..Top
      BY Zenon, <1>9
    <2>1. k \in 1..Top /\ Continues(sessions'[k], sessions[k])
      BY <2>0
    <2>2. CASE k < Top
      <3>1. /\ k \in 1..Top - 1 /\ k + 1 \in 1..Top
            /\ Continues(sessions'[k + 1], sessions[k + 1])
        BY <2>1, <2>2
      <3>2. sessions[k + 1].proc = sessions[k].proc
        BY <2>1, <3>1 DEF Continues
      <3>3. sessions[k].kind = "plain" /\ sessions[k].disturbed
        BY <3>1, <3>2 DEF Stacked
      <3>4. sessions'[k].disturbed <=> sessions[k].disturbed
        BY <2>1, <2>2 DEF Enter
      <3> QED
        BY <2>1, <3>3, <3>4 DEF Continues
    <2>3. CASE k = Top
      <3>1. Top' = Top + 1 /\ sessions'[Top + 1].proc = p
        BY <2>1, <2>3
      <3>2. p = sessions[Top].proc
        BY <2>1, <2>3, <3>1 DEF Continues
      <3>3. p <= Len(procs)
        BY <2>1, <2>3, <3>2
      <3>4. sessions[Top].item # None /\ sessions'[Top].disturbed
        BY <3>3 DEF Enter
      <3>5. sessions[Top].kind # "lanes" /\ sessions[Top].kind \in {"plain", "lanes"}
        BY <2>1, <2>3, <3>4, TopProcess DEF Stacked, SessionRecords
      <3> QED
        BY <2>1, <2>3, <3>4, <3>5 DEF Continues
    <2> QED
      BY <2>1, <2>2, <2>3
  <1> QED
    BY <1>1, <1>2, <1>3, <1>4, <1>5, <1>6, <1>7, <1>8 DEF Stacked

\* What is left when sessions end.
LEMMA PopLeaves ==
    ASSUME TypeOK, Stacked, NEW m, NEW q, Pop(m, q)
    PROVE  /\ Top \in Nat /\ m \in Nat /\ m < Top /\ Top' = m
           /\ Len(procs) \in Nat /\ q \in Nat /\ q <= Len(procs) /\ Len(procs') = q
           /\ \A k \in 1..m : k \in 1..Top /\ sessions'[k] = sessions[k]
           /\ \A k \in 1..m : sessions[k].proc \in 1..q
           /\ \A i \in 1..q : i \in 1..Len(procs) /\ procs'[i] = procs[i]
  <1>0. Top \in Nat /\ Len(procs) \in Nat /\ Top' = Len(sessions')
    BY TopProcess DEF Top
  <1>1. /\ Top \in Nat /\ m \in Nat /\ m < Top /\ Top' = m /\ Len(procs) \in Nat
        /\ q <= Len(procs) /\ Len(procs') = q
        /\ \A k \in 1..m : k \in 1..Top /\ sessions'[k] = sessions[k]
        /\ \A i \in 1..q : procs'[i] = procs[i]
    BY <1>0 DEF Pop
  <1>2. \A k \in 1..m : sessions[k].proc \in 1..Len(procs) /\ sessions[k].proc <= q /\ q \in Nat
    <2> TAKE k \in 1..m
    <2>1. m \in 1..Top /\ k \in 1..Top /\ k <= m /\ q = sessions[m].proc
      BY <1>1 DEF Pop
    <2> QED
      BY <1>1, <2>1 DEF Stacked
  <1>3. q \in Nat
    BY <1>1, <1>2 DEF Pop
  <1> QED
    BY <1>1, <1>2, <1>3

\* and an end,
LEMMA PopStacks ==
    ASSUME TypeOK, Stacked, NEW m, NEW q, Pop(m, q)
    PROVE  Stacked'
  <1>0. /\ Top \in Nat /\ m \in Nat /\ m < Top /\ Top' = m
        /\ Len(procs) \in Nat /\ q \in Nat /\ q <= Len(procs) /\ Len(procs') = q
        /\ \A k \in 1..m : k \in 1..Top /\ sessions'[k] = sessions[k]
        /\ \A k \in 1..m : sessions[k].proc \in 1..q
        /\ \A i \in 1..q : i \in 1..Len(procs) /\ procs'[i] = procs[i]
    BY PopLeaves
  <1> USE <1>0
  <1>1. \A k \in 1..Top' : sessions'[k].proc \in 1..Len(procs')
    OBVIOUS
  <1>2. \A j, k \in 1..Top' : j <= k => sessions'[j].proc <= sessions'[k].proc
    BY DEF Stacked
  <1>3. \A i \in 1..Len(procs') : \E k \in 1..Top' : sessions'[k].proc = i
    <2> TAKE i \in 1..Len(procs')
    <2>1. i \in 1..q /\ i \in 1..Len(procs)
      OBVIOUS
    <2>2. m > 0 /\ q = sessions[m].proc /\ m \in 1..Top
      BY <2>1 DEF Pop
    <2>3. PICK k \in 1..Top : sessions[k].proc = i
      BY <2>1 DEF Stacked
    <2>4. CASE k <= m
      BY <2>3, <2>4
    <2>5. CASE k > m
      <3>1. sessions[m].proc <= sessions[k].proc
        BY <2>2, <2>5 DEF Stacked
      <3>2. sessions[m].proc = i /\ m \in 1..Top'
        BY <2>1, <2>2, <2>3, <3>1
      <3>3. sessions'[m].proc = i
        BY <3>2
      <3> QED
        BY <3>2, <3>3
    <2> QED
      BY <2>4, <2>5
  <1>4. \A k \in 1..Top' - 1 : k \in 1..Top - 1 /\ k \in 1..m /\ k + 1 \in 1..m
    OBVIOUS
  <1>5. /\ \A k \in 1..Top' - 1 : sessions'[k].item = None => sessions'[k].kind = "lanes"
        /\ \A k \in 1..Top' - 1 : sessions'[k + 1].proc = sessions'[k].proc =>
            sessions'[k].kind = "plain" /\ sessions'[k].disturbed
    <2>1. \A k \in 1..Top' - 1 : /\ k \in 1..Top - 1
                                 /\ sessions'[k] = sessions[k] /\ sessions'[k + 1] = sessions[k + 1]
      BY <1>4
    <2>2. /\ \A k \in 1..Top - 1 : sessions[k].item = None => sessions[k].kind = "lanes"
          /\ \A k \in 1..Top - 1 : sessions[k + 1].proc = sessions[k].proc =>
              sessions[k].kind = "plain" /\ sessions[k].disturbed
      BY DEF Stacked
    <2> HIDE <1>0
    <2> QED
      BY <2>1, <2>2
  <1>6. /\ \A k \in 1..Top' : sessions'[k].kind = "plain" => sessions'[k].queue \subseteq Tests
        /\ \A k \in 1..Top' : sessions'[k].kind = "lanes" =>
            /\ sessions'[k].item = None /\ sessions'[k].config # None
            /\ sessions'[k].queue \subseteq LanesOf(sessions'[k].config)
        /\ \A k \in 1..Top' : sessions'[k].item # None => sessions'[k].saved \in Savings
    <2>1. \A k \in 1..Top' : k \in 1..Top /\ sessions'[k] = sessions[k]
      OBVIOUS
    <2>2. /\ \A k \in 1..Top : sessions[k].kind = "plain" => sessions[k].queue \subseteq Tests
          /\ \A k \in 1..Top : sessions[k].kind = "lanes" =>
              /\ sessions[k].item = None /\ sessions[k].config # None
              /\ sessions[k].queue \subseteq LanesOf(sessions[k].config)
          /\ \A k \in 1..Top : sessions[k].item # None => sessions[k].saved \in Savings
      BY DEF Stacked
    <2> HIDE <1>0
    <2> QED
      BY <2>1, <2>2
  <1> QED
    BY <1>1, <1>2, <1>3, <1>5, <1>6 DEF Stacked

\* and a test.
LEMMA ActsStacks ==
    ASSUME TypeOK, Stacked, NEW s, NEW p, Acts(s, p), s.item # None => s.saved \in Savings
    PROVE  Stacked'
  <1>1. /\ Top \in Nat /\ Top > 0 /\ Top' = Top /\ Len(procs') = Len(procs)
        /\ sessions'[Top] = s /\ \A k \in 1..Top : k # Top => sessions'[k] = sessions[k]
        /\ s.proc = sessions[Top].proc /\ s.kind = "plain" /\ sessions[Top].kind = "plain"
        /\ s.queue \subseteq sessions[Top].queue
        /\ (s.disturbed <=> sessions[Top].disturbed)
    BY ActsLeaves, TopProcess DEF Acts, Top
  <1>2. \A k \in 1..Top : sessions'[k].proc = sessions[k].proc
    BY <1>1
  <1>3. /\ \A k \in 1..Top' : sessions'[k].proc \in 1..Len(procs')
        /\ \A j, k \in 1..Top' : j <= k => sessions'[j].proc <= sessions'[k].proc
        /\ \A i \in 1..Len(procs') : \E k \in 1..Top' : sessions'[k].proc = i
    <2>1. /\ \A k \in 1..Top : sessions[k].proc \in 1..Len(procs)
          /\ \A j, k \in 1..Top : j <= k => sessions[j].proc <= sessions[k].proc
          /\ \A i \in 1..Len(procs) : \E k \in 1..Top : sessions[k].proc = i
      BY DEF Stacked
    <2>2. Top' = Top /\ Len(procs') = Len(procs)
      BY <1>1
    <2> HIDE <1>1
    <2>3. \A i \in 1..Len(procs) : \E k \in 1..Top : sessions'[k].proc = i
      BY <1>2, <2>1
    <2> QED
      BY <1>2, <2>1, <2>2, <2>3
  <1>4. \A k \in 1..Top' - 1 : k \in 1..Top /\ k + 1 \in 1..Top /\ k # Top
    BY <1>1
  <1>5. /\ \A k \in 1..Top' - 1 : sessions'[k].item = None => sessions'[k].kind = "lanes"
        /\ \A k \in 1..Top' - 1 : sessions'[k + 1].proc = sessions'[k].proc =>
            sessions'[k].kind = "plain" /\ sessions'[k].disturbed
    BY <1>1, <1>2, <1>4, SMTT(30) DEF Stacked
  <1>6. /\ \A k \in 1..Top' : sessions'[k].kind = "plain" => sessions'[k].queue \subseteq Tests
        /\ \A k \in 1..Top' : sessions'[k].kind = "lanes" =>
            /\ sessions'[k].item = None /\ sessions'[k].config # None
            /\ sessions'[k].queue \subseteq LanesOf(sessions'[k].config)
        /\ \A k \in 1..Top' : sessions'[k].item # None => sessions'[k].saved \in Savings
    BY <1>1, ZenonT(30) DEF Stacked
  <1> QED
    BY <1>3, <1>5, <1>6 DEF Stacked

\* At first there is no session.
LEMMA InitStacks == Init => TypeOK /\ Stacked
  <1> SUFFICES ASSUME Init
               PROVE  TypeOK /\ Stacked
    OBVIOUS
  <1>1. sessions = <<>> /\ procs = <<>> /\ Len(sessions) = 0 /\ Len(procs) = 0
    BY DEF Init
  <1>2. sessions \in Seq(SessionRecords) /\ procs \in Seq(ProcessRecords)
    BY <1>1
  <1>3. TypeOK
    BY <1>2 DEF Init, TypeOK, NoMeasurements
  <1>4. Stacked
    BY <1>1 DEF Stacked, Top
  <1> QED
    BY <1>3, <1>4

\* A step is a beginning, an end, a setup or a teardown.
LEMMA NextKeepsStack ==
    ASSUME TypeOK, Stacked, Next
    PROVE  /\ TypeOK' /\ Stacked' /\ project' = project
           /\ \/ \E p, lane : Enter(p, lane)
              \/ \E m, q : Pop(m, q)
              \/ pytest_runtest_setup
              \/ pytest_runtest_teardown
  <1>1. CASE Invoke \/ SpawnLane \/ NestProcess \/ NestWithin
    <2>1. TypeOK' /\ \E p, lane : Enter(p, lane)
      BY <1>1, InvokeEnters, SpawnLaneEnters, NestProcessEnters, NestWithinEnters
    <2> QED
      BY <2>1, EnterStacks, ProjectStays
  <1>2. CASE FinishSession \/ FinishLanes \/ Kill
    <2>1. TypeOK' /\ \E m, q : Pop(m, q)
      BY <1>2, FinishPops, KillPops
    <2> QED
      BY <2>1, PopStacks, ProjectStays
  <1>3. CASE pytest_runtest_setup
    <2>1. PICK t, s, p :
            /\ t \in Tests /\ Acts(s, p) /\ s.saved = Saved(procs[Len(procs)].env, Overrides(t))
            /\ UNCHANGED <<project, out>>
      BY <1>3, SetupActs
    <2>2. procs[Len(procs)].env \in Environments /\ Overrides(t) \in Pairs
      BY <2>1, TopProcess, OverridesType DEF Acts, ProcessRecords
    <2>3. s.saved \in Savings
      BY <2>1, <2>2, SavedType
    <2>4. Stacked'
      BY <2>1, <2>3, ActsStacks
    <2>5. TypeOK'
      BY <2>1, ActsLeaves DEF TypeOK
    <2> QED
      BY <1>3, <2>1, <2>4, <2>5
  <1>4. CASE pytest_runtest_teardown
    <2>1. PICK s, p : Acts(s, p) /\ s.item = None /\ UNCHANGED <<project, out>>
      BY <1>4, TeardownActs
    <2>2. Stacked'
      BY <2>1, ActsStacks
    <2>3. TypeOK'
      BY <2>1, ActsLeaves DEF TypeOK
    <2> QED
      BY <1>4, <2>1, <2>2, <2>3
  <1> QED
    BY <1>1, <1>2, <1>3, <1>4 DEF Next

-----------------------------------------------------------------------------
(* What a beginning, an end and a test leave alone *)

\* The positions of the stack and of the processes after a step.
LEMMA NextPositions ==
    ASSUME TypeOK'
    PROVE  /\ Top' \in Nat /\ Len(procs') \in Nat
           /\ DOMAIN sessions' = 1..Top' /\ DOMAIN procs' = 1..Len(procs')
           /\ \A k \in 1..Top' : sessions'[k] \in SessionRecords
           /\ \A i \in 1..Len(procs') : procs'[i] \in ProcessRecords
  <1>1. sessions' \in Seq(SessionRecords) /\ procs' \in Seq(ProcessRecords)
        /\ Top' = Len(sessions')
    BY DEF TypeOK, Top
  <1> QED
    BY <1>1, LenProperties, ElementOfSeq

\* A session that is not disturbed shares its process with none above it.
LEMMA Undisturbed ==
    ASSUME TypeOK, Stacked, NEW k \in 1..Top - 1, ~sessions[k].disturbed
    PROVE  sessions[k].proc # Len(procs)
  <1>1. /\ Top \in Nat /\ k \in 1..Top /\ k + 1 \in 1..Top /\ Top \in 1..Top
        /\ sessions[Top].proc = Len(procs) /\ Len(procs) \in Nat
    BY TopProcess
  <1>2. sessions[k].proc <= sessions[k + 1].proc /\ sessions[k + 1].proc <= sessions[Top].proc
    <2>1. \A i, j \in 1..Top : i <= j => sessions[i].proc <= sessions[j].proc
      BY DEF Stacked
    <2> QED
      BY <1>1, <2>1
  <1>3. sessions[k].proc \in 1..Len(procs) /\ sessions[k + 1].proc \in 1..Len(procs)
    BY <1>1 DEF Stacked
  <1>4. sessions[k + 1].proc # sessions[k].proc
    BY DEF Stacked
  <1> QED
    BY <1>1, <1>2, <1>3, <1>4

\* Where a session begins no environment changes, and no process but that of
\* a session that is disturbed.
LEMMA EnterLeaves ==
    ASSUME TypeOK, Stacked, TypeOK', NEW p, NEW lane, Enter(p, lane)
    PROVE  /\ \A i \in 1..Len(procs) : i \in 1..Len(procs') /\ procs'[i].env = procs[i].env
           /\ \A i \in 1..Len(procs) : i # p => procs'[i] = procs[i]
           /\ \A k \in 1..Top : ~sessions'[k].disturbed =>
                /\ ~sessions[k].disturbed
                /\ procs'[sessions[k].proc] = procs[sessions[k].proc]
  <1>1. /\ Top \in Nat /\ Len(procs) \in Nat /\ p \in {Len(procs), Len(procs) + 1}
        /\ Len(procs') \in Nat /\ Len(procs') >= Len(procs)
    BY EnterBelow, NextPositions DEF Enter
  <1>2. \A i \in 1..Len(procs) : i # p => procs'[i] = procs[i]
    BY DEF Enter
  <1>3. p <= Len(procs) => procs'[p].env = procs[p].env
    BY DEF Enter
  <1>4. \A i \in 1..Len(procs) : i \in 1..Len(procs') /\ procs'[i].env = procs[i].env
    <2> TAKE i \in 1..Len(procs)
    <2>1. i \in 1..Len(procs') /\ i <= Len(procs)
      BY <1>1
    <2> QED
      BY <1>2, <1>3, <2>1
  <1>5. ASSUME NEW k \in 1..Top, ~sessions'[k].disturbed
        PROVE  ~sessions[k].disturbed /\ procs'[sessions[k].proc] = procs[sessions[k].proc]
    <2>1. k < Top \/ p > Len(procs)
      <3>1. p <= Len(procs) => sessions'[Top].disturbed
        BY DEF Enter
      <3>2. k = Top \/ k < Top
        BY <1>1
      <3> QED
        BY <1>1, <1>5, <3>1, <3>2
    <2>2. ~sessions[k].disturbed
      BY <1>5, <2>1 DEF Enter
    <2>3. sessions[k].proc \in 1..Len(procs)
      BY DEF Stacked
    <2>4. sessions[k].proc # p
      <3>1. CASE p > Len(procs)
        BY <1>1, <2>3, <3>1
      <3>2. CASE k < Top /\ p = Len(procs)
        <4>1. k \in 1..Top - 1
          BY <1>1, <3>2
        <4> QED
          BY <2>2, <3>2, <4>1, Undisturbed
      <3> QED
        BY <1>1, <2>1, <3>1, <3>2
    <2> QED
      BY <1>2, <2>2, <2>3, <2>4
  <1> QED
    BY <1>2, <1>4, <1>5

-----------------------------------------------------------------------------
(* Environments are restored *)

\* Every session can still get back to its environment when another begins,
LEMMA EnterKeepsEnv ==
    ASSUME TypeOK, Stacked, TypeOK', project' = project, EnvKept,
           NEW p, NEW lane, Enter(p, lane)
    PROVE  EnvKept'
  <1>1. /\ Top \in Nat /\ Len(procs) \in Nat /\ Top' \in Nat /\ Len(procs') \in Nat
        /\ DOMAIN sessions = 1..Top /\ DOMAIN procs = 1..Len(procs)
        /\ DOMAIN sessions' = 1..Top' /\ DOMAIN procs' = 1..Len(procs')
        /\ (Top' = Top \/ Top' = Top + 1)
    BY TopProcess, NextPositions, EnterBelow
  <1>2. \A i \in 1..Len(procs) : procs'[i].env = procs[i].env
    BY EnterLeaves
  <1>3. \A k \in 1..Top : k \in 1..Top' /\ Continues(sessions'[k], sessions[k])
                          /\ sessions[k].proc \in 1..Len(procs)
    BY EnterBelow
  <1> DEFINE known == {None, AdHoc, discover_lane_config(project)}
  <1>4. \A i \in DOMAIN procs' : procs'[i].lane_config \in known
    <2> TAKE i \in DOMAIN procs'
    <2>1. \A j \in 1..Len(procs) : procs[j].lane_config \in known
      BY <1>1 DEF EnvKept
    <2>2. CASE i \in 1..Len(procs) /\ i # p
      <3>1. procs'[i] = procs[i]
        BY <2>2, EnterLeaves
      <3> QED
        BY <2>1, <2>2, <3>1
    <2>3. CASE i = p /\ p <= Len(procs)
      <3>1. procs'[p].lane_config \in known \cup {procs[p].lane_config}
        BY <2>3 DEF Enter
      <3>2. p \in 1..Len(procs)
        BY <1>1, <2>3
      <3> QED
        BY <2>1, <2>3, <3>1, <3>2
    <2>4. CASE i \notin 1..Len(procs) /\ ~(i = p /\ p <= Len(procs))
      <3>1. Len(procs') # Len(procs)
        BY <1>1, <2>4
      <3>2. Len(procs') = p /\ procs'[p].lane_config \in known /\ p = Len(procs) + 1
        <4>1. p \in {Len(procs), Len(procs) + 1}
          BY DEF Enter
        <4>2. Len(procs') = p
          BY <3>1 DEF Enter
        <4>3. p > Len(procs) /\ p = Len(procs) + 1
          BY <1>1, <3>1, <4>1, <4>2
        <4> QED
          BY <3>1, <4>2, <4>3 DEF Enter
      <3>3. i = p
        BY <1>1, <2>4, <3>2
      <3> QED
        BY <3>2, <3>3
    <2> QED
      BY <2>2, <2>3, <2>4
  <1> DEFINE back(k) == sessions[k].before = IF sessions[k].item = None THEN Facing(k)
                                             ELSE Restored(Facing(k), sessions[k].saved)
  <1>5. ASSUME SetsKeysOnce', NEW k \in DOMAIN sessions'
        PROVE  back(k)'
    <2>1. SetsKeysOnce
      BY <1>5 DEF SetsKeysOnce
    <2>2. CASE k \in 1..Top
      <3>1. back(k)
        BY <1>1, <2>1, <2>2 DEF EnvKept
      <3>2. Continues(sessions'[k], sessions[k]) /\ procs'[sessions[k].proc].env = procs[sessions[k].proc].env
        BY <1>2, <1>3, <2>2
      <3>3. Facing(k)' = Facing(k)
        <4>1. CASE k < Top
          <5>1. k + 1 \in 1..Top /\ k < Top'
            BY <1>1, <2>2, <4>1
          <5>2. Continues(sessions'[k + 1], sessions[k + 1])
            BY <1>3, <5>1
          <5> QED
            BY <3>2, <4>1, <5>1, <5>2 DEF Facing, Continues
        <4>2. CASE k = Top /\ Top' = Top
          BY <1>1, <3>2, <4>2 DEF Facing, Continues
        <4>3. CASE k = Top /\ Top' = Top + 1
          <5>1. sessions'[Top + 1].proc = p /\ sessions'[Top + 1].before = procs'[p].env
            BY <4>3, EnterBelow
          <5>2. Facing(k) = procs[sessions[k].proc].env
            BY <1>1, <4>3 DEF Facing
          <5>3. sessions'[k].proc = sessions[k].proc
            BY <3>2 DEF Continues
          <5>4. CASE p = sessions[k].proc
            <6>1. Facing(k)' = sessions'[k + 1].before
              BY <1>1, <4>3, <5>1, <5>3, <5>4 DEF Facing
            <6> QED
              BY <3>2, <4>3, <5>1, <5>2, <5>4, <6>1
          <5>5. CASE p # sessions[k].proc
            <6>1. Facing(k)' = procs'[sessions'[k].proc].env
              BY <1>1, <4>3, <5>1, <5>3, <5>5 DEF Facing
            <6> QED
              BY <3>2, <5>2, <5>3, <6>1
          <5> QED
            BY <5>4, <5>5
        <4> QED
          BY <1>1, <2>2, <4>1, <4>2, <4>3
      <3>4. /\ sessions'[k].before = sessions[k].before /\ sessions'[k].item = sessions[k].item
            /\ sessions'[k].saved = sessions[k].saved
        BY <3>2 DEF Continues
      <3> QED
        BY <3>1, <3>3, <3>4
    <2>3. CASE k = Top + 1 /\ Top' = Top + 1
      <3>1. /\ sessions'[k].proc = p /\ sessions'[k].before = procs'[p].env
            /\ sessions'[k].item = None
        BY <2>3, EnterBelow
      <3>2. Facing(k)' = procs'[p].env
        BY <1>1, <2>3, <3>1 DEF Facing
      <3> QED
        BY <3>1, <3>2
    <2> QED
      BY <1>1, <2>2, <2>3
  <1> HIDE DEF back
  <1>6. \A i \in DOMAIN procs' :
            procs'[i].lane_config \in {None, AdHoc, discover_lane_config(project)}'
    BY <1>4
  <1> QED
    BY <1>5, <1>6 DEF EnvKept, back

\* when some end,
LEMMA PopKeepsEnv ==
    ASSUME TypeOK, Stacked, TypeOK', project' = project, EnvKept,
           NEW m, NEW q, Pop(m, q)
    PROVE  EnvKept'
  <1>1. /\ Top \in Nat /\ m \in Nat /\ m < Top /\ Top' = m
        /\ Len(procs) \in Nat /\ q \in Nat /\ q <= Len(procs) /\ Len(procs') = q
        /\ DOMAIN sessions = 1..Top /\ DOMAIN procs = 1..Len(procs)
        /\ DOMAIN sessions' = 1..Top' /\ DOMAIN procs' = 1..Len(procs')
        /\ sessions[Top].proc = Len(procs)
    BY TopProcess, NextPositions, PopLeaves
  <1>2. /\ \A k \in 1..m : /\ k \in 1..Top /\ sessions'[k] = sessions[k]
                           /\ sessions[k].proc \in 1..q
        /\ \A i \in 1..q : i \in 1..Len(procs) /\ procs'[i] = procs[i]
    BY PopLeaves
  <1>3. \A i \in DOMAIN procs' :
            procs'[i].lane_config \in {None, AdHoc, discover_lane_config(project)}'
    BY <1>1, <1>2 DEF EnvKept
  <1> DEFINE back(k) == sessions[k].before = IF sessions[k].item = None THEN Facing(k)
                                             ELSE Restored(Facing(k), sessions[k].saved)
  <1>4. ASSUME SetsKeysOnce', NEW k \in DOMAIN sessions'
        PROVE  back(k)'
    <2>1. SetsKeysOnce
      BY <1>4 DEF SetsKeysOnce
    <2>2. /\ k \in 1..m /\ k \in 1..Top /\ sessions'[k] = sessions[k]
          /\ procs'[sessions[k].proc] = procs[sessions[k].proc]
      BY <1>1, <1>2
    <2>3. back(k) /\ back(Top)
      <3>1. Top \in DOMAIN sessions /\ k \in DOMAIN sessions
        BY <1>1, <2>2
      <3> QED
        BY <2>1, <3>1 DEF EnvKept
    <2>4. Facing(k)' = Facing(k)
      <3>1. CASE k < m
        <4>1. k + 1 \in 1..m
          BY <1>1, <2>2, <3>1
        <4>2. sessions'[k + 1] = sessions[k + 1]
          BY <1>2, <4>1
        <4> QED
          BY <1>1, <2>2, <3>1, <4>2 DEF Facing
      <3>2. CASE k = m /\ sessions[m + 1].proc # sessions[m].proc
        BY <1>1, <2>2, <3>2 DEF Facing
      <3>3. CASE k = m /\ sessions[m + 1].proc = sessions[m].proc
        <4>1. m + 1 = Top /\ sessions[Top].item = None
          BY <1>1, <2>2, <3>3 DEF Pop
        <4>2. Facing(k) = sessions[Top].before
          BY <1>1, <3>3, <4>1 DEF Facing
        <4>3. sessions[Top].before = Facing(Top)
          BY <2>3, <4>1
        <4>4. Facing(Top) = procs[sessions[Top].proc].env
          BY <1>1 DEF Facing
        <4>5. Facing(k)' = procs'[sessions'[k].proc].env
          BY <1>1, <3>3 DEF Facing
        <4> QED
          BY <2>2, <3>3, <4>1, <4>2, <4>3, <4>4, <4>5
      <3> QED
        BY <1>1, <2>2, <3>1, <3>2, <3>3
    <2> QED
      BY <2>2, <2>3, <2>4
  <1> HIDE DEF back
  <1> QED
    BY <1>3, <1>4 DEF EnvKept, back

\* and when a test begins or ends that can itself get back.
LEMMA ActsKeepsEnv ==
    ASSUME TypeOK, Stacked, TypeOK', project' = project, EnvKept, NEW s, NEW p, Acts(s, p),
           SetsKeysOnce => sessions[Top].before = IF s.item = None THEN p.env
                                                  ELSE Restored(p.env, s.saved)
    PROVE  EnvKept'
  <1>1. /\ Top \in Nat /\ Len(procs) \in Nat /\ Top' = Top /\ Len(procs') = Len(procs)
        /\ DOMAIN sessions = 1..Top /\ DOMAIN procs = 1..Len(procs)
        /\ DOMAIN sessions' = 1..Top /\ DOMAIN procs' = 1..Len(procs)
        /\ sessions[Top].proc = Len(procs) /\ Top > 0
    <2>1. Top' = Len(sessions') /\ Top > 0
      BY DEF Top, Acts
    <2> QED
      BY <2>1, TopProcess, NextPositions, ActsLeaves
  <1>2. /\ \A k \in 1..Top : k # Top => sessions'[k] = sessions[k]
        /\ \A i \in 1..Len(procs) : i # Len(procs) => procs'[i] = procs[i]
        /\ sessions'[Top] = s /\ procs'[Len(procs)] = p
        /\ s.proc = sessions[Top].proc /\ s.before = sessions[Top].before
        /\ p.lane_config = procs[Len(procs)].lane_config
    BY ActsLeaves DEF Acts
  <1>3. \A i \in DOMAIN procs' :
            procs'[i].lane_config \in {None, AdHoc, discover_lane_config(project)}'
    BY <1>1, <1>2 DEF EnvKept
  <1> DEFINE back(k) == sessions[k].before = IF sessions[k].item = None THEN Facing(k)
                                             ELSE Restored(Facing(k), sessions[k].saved)
  <1>4. ASSUME SetsKeysOnce', NEW k \in DOMAIN sessions'
        PROVE  back(k)'
    <2>1. SetsKeysOnce
      BY <1>4 DEF SetsKeysOnce
    <2>2. CASE k = Top
      <3>0. sessions'[Top].proc = Len(procs)
        BY <1>1, <1>2
      <3>1. ~(k < Top') /\ sessions'[k].proc = Len(procs)
        BY <1>1, <2>2, <3>0
      <3>2. Facing(k)' = procs'[sessions'[k].proc].env
        BY <3>1 DEF Facing
      <3>3. Facing(k)' = p.env
        BY <1>2, <3>1, <3>2
      <3> QED
        BY <1>2, <2>1, <2>2, <3>3
    <2>3. CASE k # Top
      <3>1. k \in 1..Top - 1 /\ k \in 1..Top /\ k + 1 \in 1..Top /\ k < Top
        BY <1>1, <2>3
      <3>2. sessions'[k] = sessions[k] /\ back(k)
        BY <1>1, <1>2, <2>1, <2>3, <3>1 DEF EnvKept
      <3>3. sessions'[k + 1].proc = sessions[k + 1].proc
            /\ sessions'[k + 1].before = sessions[k + 1].before
        BY <1>2, <3>1
      <3>4. sessions[k + 1].proc # sessions[k].proc =>
                procs'[sessions[k].proc] = procs[sessions[k].proc]
        <4>1. sessions[k].proc <= sessions[k + 1].proc /\ sessions[k + 1].proc <= sessions[Top].proc
          <5>1. \A i, j \in 1..Top : i <= j => sessions[i].proc <= sessions[j].proc
            BY DEF Stacked
          <5> QED
            BY <1>1, <3>1, <5>1
        <4>2. sessions[k].proc \in 1..Len(procs) /\ sessions[k + 1].proc \in 1..Len(procs)
          BY <3>1 DEF Stacked
        <4>3. sessions[k + 1].proc # sessions[k].proc => sessions[k].proc # Len(procs)
          BY <1>1, <4>1, <4>2
        <4> QED
          BY <1>2, <4>2, <4>3
      <3>5. Facing(k)' = Facing(k)
        BY <1>1, <3>1, <3>2, <3>3, <3>4 DEF Facing
      <3> QED
        BY <3>2, <3>5
    <2> QED
      BY <2>2, <2>3
  <1> HIDE DEF back
  <1> QED
    BY <1>3, <1>4 DEF EnvKept, back

\* A setup that sets no key twice can be undone.
LEMMA SetupUndone ==
    ASSUME TypeOK, Stacked, EnvKept, SetsKeysOnce, Top > 0, NEW t \in Tests
    PROVE  Restored(WithPairs(Proc.env, Overrides(t)), Saved(Proc.env, Overrides(t))) = Proc.env
  <1> DEFINE config == Proc.lane_config
             pairs == Overrides(t)
  <1>1. /\ Proc = procs[Len(procs)] /\ Proc \in ProcessRecords /\ Len(procs) \in DOMAIN procs
    BY TopProcess DEF Proc, Session
  <1>2. config \in {None, AdHoc, discover_lane_config(project)}
        /\ config \in AllConfigs \cup {None}
    <2>1. config \in AllConfigs \cup {None}
      BY <1>1 DEF ProcessRecords
    <2> QED
      BY <1>1, <2>1 DEF EnvKept
  <1>3. Proc.env \in Environments /\ pairs \in Pairs
    BY <1>1, OverridesType DEF ProcessRecords
  <1>4. IsInjective([i \in DOMAIN pairs |-> pairs[i][1]])
    <2>1. CASE pairs = <<>>
      <3>1. DOMAIN pairs = {}
        BY <2>1
      <3> QED
        BY <3>1 DEF IsInjective
    <2>2. CASE config # None /\ config # AdHoc
      <3>1. config = discover_lane_config(project) /\ DistinctKeys(config)
        BY <1>2, <2>2, ConfigsAre DEF SetsKeysOnce
      <3>2. config \in AllConfigs /\ pairs = config.env[config.lane[t]]
        BY <1>1, <2>2, OverridesType DEF ProcessRecords
      <3>3. config.lane[t] \in LanesOf(config)
        BY <3>2, SessionsAssumption
      <3> HIDE DEF config, pairs
      <3> QED
        BY <3>1, <3>2, <3>3 DEF DistinctKeys
    <2>3. config = None => pairs = <<>>
      BY DEF Overrides
    <2>4. config = AdHoc /\ config # None => pairs = <<>>
      <3> SUFFICES ASSUME config = AdHoc, config # None
                   PROVE  pairs = <<>>
        OBVIOUS
      <3>1. AdHoc \in AllConfigs /\ pairs = AdHoc.env[AdHoc.lane[t]]
        BY <1>1, OverridesType DEF ProcessRecords
      <3>2. AdHoc.lane[t] \in LanesOf(AdHoc)
        BY <3>1, SessionsAssumption
      <3> QED
        BY <3>1, <3>2, SessionsAssumption
    <2> QED
      BY <2>1, <2>2, <2>3, <2>4
  <1> HIDE DEF pairs
  <1>5. Restored(WithPairs(Proc.env, pairs), Saved(Proc.env, pairs)) = Proc.env
    BY <1>3, <1>4, SavedRestores
  <1> QED
    BY <1>5 DEF pairs

\* Every session can get back to the environment it began with: the invariant
\* behind EnvRestored.
LEMMA NextKeepsEnv ==
    ASSUME TypeOK, Stacked, EnvKept, Next
    PROVE  EnvKept'
  <1>1. /\ TypeOK' /\ project' = project
        /\ \/ \E p, lane : Enter(p, lane)
           \/ \E m, q : Pop(m, q)
           \/ pytest_runtest_setup
           \/ pytest_runtest_teardown
    BY NextKeepsStack
  <1>2. ASSUME NEW p, NEW lane, Enter(p, lane)
        PROVE  EnvKept'
    BY <1>1, <1>2, EnterKeepsEnv
  <1>3. ASSUME NEW m, NEW q, Pop(m, q)
        PROVE  EnvKept'
    BY <1>1, <1>3, PopKeepsEnv
  <1>4. Top > 0 /\ sessions[Top].proc = Len(procs) => Proc = procs[Len(procs)]
    BY DEF Proc, Session
  <1>5. SetsKeysOnce => \A k \in DOMAIN sessions :
            sessions[k].before = IF sessions[k].item = None THEN Facing(k)
                                 ELSE Restored(Facing(k), sessions[k].saved)
    BY DEF EnvKept
  <1>6. Top > 0 => Top \in DOMAIN sessions /\ sessions[Top].proc = Len(procs)
    BY TopProcess
  <1>7. Top > 0 => Facing(Top) = Proc.env
    <2>1. ~(Top < Top)
      BY TopProcess
    <2> QED
      BY <2>1, <1>4, <1>6 DEF Facing
  <1>8. CASE pytest_runtest_setup
    <2>1. PICK t, s, p :
            /\ t \in Tests /\ Acts(s, p) /\ sessions[Top].item = None /\ s.item = t
            /\ s.saved = Saved(procs[Len(procs)].env, Overrides(t))
            /\ p.env = WithPairs(procs[Len(procs)].env, Overrides(t))
      BY <1>8, SetupActs
    <2>2. Top > 0 /\ Proc = procs[Len(procs)] /\ t # None
      BY <1>4, <1>6, <2>1, SessionsAssumption DEF Acts
    <2>3. SetsKeysOnce => sessions[Top].before = Restored(p.env, s.saved)
      <3> SUFFICES ASSUME SetsKeysOnce
                   PROVE  sessions[Top].before = Restored(p.env, s.saved)
        OBVIOUS
      <3>1. sessions[Top].before = Proc.env
        BY <1>5, <1>6, <1>7, <2>1, <2>2
      <3>2. Restored(WithPairs(Proc.env, Overrides(t)), Saved(Proc.env, Overrides(t))) = Proc.env
        BY <2>1, <2>2, SetupUndone
      <3> QED
        BY <2>1, <2>2, <3>1, <3>2
    <2>4. SetsKeysOnce => sessions[Top].before = IF s.item = None THEN p.env
                                                 ELSE Restored(p.env, s.saved)
      BY <2>1, <2>2, <2>3
    <2> QED
      BY <1>1, <2>1, <2>4, ActsKeepsEnv
  <1>9. CASE pytest_runtest_teardown
    <2>1. PICK s, p :
            /\ Acts(s, p) /\ sessions[Top].item # None /\ s.item = None
            /\ p.env = Restored(procs[Len(procs)].env, sessions[Top].saved)
      BY <1>9, TeardownActs
    <2>2. Top > 0 /\ Proc = procs[Len(procs)]
      BY <1>4, <1>6, <2>1 DEF Acts
    <2>3. SetsKeysOnce => sessions[Top].before = IF s.item = None THEN p.env
                                                 ELSE Restored(p.env, s.saved)
      BY <1>5, <1>6, <1>7, <2>1, <2>2
    <2> QED
      BY <1>1, <2>1, <2>3, ActsKeepsEnv
  <1> QED
    BY <1>1, <1>2, <1>3, <1>8, <1>9

-----------------------------------------------------------------------------
(* Settings are in force *)

\* No beginning takes its settings from a test that is not disturbed,
LEMMA EnterKeepsSettings ==
    ASSUME TypeOK, Stacked, TypeOK', SettingsKept, NEW p, NEW lane, Enter(p, lane)
    PROVE  SettingsKept'
  <1>1. /\ Top \in Nat /\ DOMAIN sessions = 1..Top /\ DOMAIN sessions' = 1..Top'
        /\ \A k \in 1..Top' : k \in 1..Top \/ (k = Top + 1 /\ Top' = Top + 1)
        /\ \A k \in 1..Top : Continues(sessions'[k], sessions[k])
    BY TopProcess, NextPositions, EnterBelow
  <1> DEFINE kept(k) == sessions[k].kind = "plain" /\ ~sessions[k].disturbed =>
                /\ procs[sessions[k].proc].lane_config = sessions[k].config
                /\ sessions[k].item # None /\ sessions[k].config # None =>
                    procs[sessions[k].proc].env
                        = WithPairs(procs[sessions[k].proc].env,
                            sessions[k].config.env[sessions[k].config.lane[sessions[k].item]])
  <1>2. ASSUME NEW k \in DOMAIN sessions'
        PROVE  kept(k)'
    <2>1. CASE k \in 1..Top
      <3>1. kept(k)
        BY <1>1, <2>1 DEF SettingsKept
      <3>2. ~sessions'[k].disturbed =>
                ~sessions[k].disturbed /\ procs'[sessions[k].proc] = procs[sessions[k].proc]
        BY <2>1, EnterLeaves
      <3>3. /\ sessions'[k].proc = sessions[k].proc /\ sessions'[k].kind = sessions[k].kind
            /\ sessions'[k].config = sessions[k].config /\ sessions'[k].item = sessions[k].item
        BY <1>1, <2>1 DEF Continues
      <3> QED
        BY <3>1, <3>2, <3>3
    <2>2. CASE k = Top + 1 /\ Top' = Top + 1
      <3>1. sessions'[k].proc = p /\ sessions'[k].item = None
        BY <2>2, EnterBelow
      <3>2. sessions'[k].kind = "plain" => procs'[p].lane_config = sessions'[k].config
        <4>0. Len(sessions') = Top'
          BY DEF Top
        <4>1. Len(sessions') # Top
          BY <1>1, <2>2, <4>0
        <4> QED
          BY <2>2, <4>1 DEF Enter
      <3> QED
        BY <3>1, <3>2
    <2> QED
      BY <1>1, <2>1, <2>2
  <1> HIDE DEF kept
  <1> QED
    BY <1>2 DEF SettingsKept, kept

\* nor an end,
LEMMA PopKeepsSettings ==
    ASSUME TypeOK, Stacked, TypeOK', SettingsKept, NEW m, NEW q, Pop(m, q)
    PROVE  SettingsKept'
  <1>1. \A k \in DOMAIN sessions' :
            /\ k \in DOMAIN sessions /\ sessions'[k] = sessions[k]
            /\ procs'[sessions[k].proc] = procs[sessions[k].proc]
    <2>1. /\ DOMAIN sessions = 1..Top /\ DOMAIN sessions' = 1..m
      BY TopProcess, NextPositions, PopLeaves
    <2> QED
      BY <2>1, PopLeaves
  <1> QED
    BY <1>1 DEF SettingsKept

\* and a test that begins puts its own in force.
LEMMA ActsKeepsSettings ==
    ASSUME TypeOK, Stacked, TypeOK', SettingsKept, NEW s, NEW p, Acts(s, p),
           ~s.disturbed /\ s.item # None /\ s.config # None =>
                p.env = WithPairs(p.env, s.config.env[s.config.lane[s.item]])
    PROVE  SettingsKept'
  <1>1. /\ Top \in Nat /\ Top > 0 /\ sessions[Top].proc = Len(procs)
        /\ DOMAIN sessions = 1..Top /\ DOMAIN sessions' = 1..Top
        /\ sessions'[Top] = s /\ procs'[Len(procs)] = p
        /\ \A k \in 1..Top : k # Top => sessions'[k] = sessions[k]
        /\ \A i \in 1..Len(procs) : i # Len(procs) => procs'[i] = procs[i]
    <2>1. Top' = Top
      BY ActsLeaves DEF Top
    <2> QED
      BY <2>1, TopProcess, NextPositions, ActsLeaves DEF Acts
  <1> DEFINE kept(k) == sessions[k].kind = "plain" /\ ~sessions[k].disturbed =>
                /\ procs[sessions[k].proc].lane_config = sessions[k].config
                /\ sessions[k].item # None /\ sessions[k].config # None =>
                    procs[sessions[k].proc].env
                        = WithPairs(procs[sessions[k].proc].env,
                            sessions[k].config.env[sessions[k].config.lane[sessions[k].item]])
  <1>2. ASSUME NEW k \in DOMAIN sessions'
        PROVE  kept(k)'
    <2>0. kept(k)
      BY <1>1 DEF SettingsKept
    <2>1. CASE k = Top
      <3>1. /\ p.lane_config = procs[Len(procs)].lane_config
            /\ s.proc = Len(procs) /\ sessions[Top].kind = "plain" /\ s.kind = "plain"
            /\ s.config = sessions[Top].config
            /\ (s.disturbed <=> sessions[Top].disturbed)
        BY <1>1 DEF Acts
      <3>2. ~s.disturbed => p.lane_config = s.config
        BY <1>1, <2>0, <2>1, <3>1
      <3>3. sessions'[k] = s /\ procs'[s.proc] = p
        BY <1>1, <2>1, <3>1
      <3> QED
        BY <3>2, <3>3
    <2>2. CASE k # Top
      <3>1. k \in 1..Top - 1 /\ k \in 1..Top
        BY <1>1, <2>2
      <3>2. sessions[k].proc \in 1..Len(procs)
        BY <3>1 DEF Stacked
      <3>3. ~sessions[k].disturbed => procs'[sessions[k].proc] = procs[sessions[k].proc]
        BY <1>1, <3>1, <3>2, Undisturbed
      <3>4. sessions'[k] = sessions[k]
        BY <1>1, <2>2, <3>1
      <3> QED
        BY <2>0, <3>3, <3>4
    <2> QED
      BY <2>1, <2>2
  <1> HIDE DEF kept
  <1> QED
    BY <1>2 DEF SettingsKept, kept

\* A session that shares its process with no later one has its configuration
\* and its test's environment: the invariant behind EnvApplied.
LEMMA NextKeepsSettings ==
    ASSUME TypeOK, Stacked, SettingsKept, Next
    PROVE  SettingsKept'
  <1>1. /\ TypeOK'
        /\ \/ \E p, lane : Enter(p, lane)
           \/ \E m, q : Pop(m, q)
           \/ pytest_runtest_setup
           \/ pytest_runtest_teardown
    BY NextKeepsStack
  <1>2. ASSUME NEW p, NEW lane, Enter(p, lane)
        PROVE  SettingsKept'
    BY <1>1, <1>2, EnterKeepsSettings
  <1>3. ASSUME NEW m, NEW q, Pop(m, q)
        PROVE  SettingsKept'
    BY <1>1, <1>3, PopKeepsSettings
  <1>4. CASE pytest_runtest_setup
    <2>1. PICK t, s, p :
            /\ t \in Tests /\ Acts(s, p) /\ s.item = t
            /\ p.env = WithPairs(procs[Len(procs)].env, Overrides(t))
      BY <1>4, SetupActs
    <2>2. /\ Top > 0 /\ Proc = procs[Len(procs)] /\ sessions[Top].proc = Len(procs)
          /\ Top \in DOMAIN sessions /\ Proc \in ProcessRecords
      BY <2>1, TopProcess DEF Acts, Proc, Session
    <2>3. Overrides(t) \in Pairs /\ Proc.env \in Environments
      BY <2>1, <2>2, OverridesType DEF ProcessRecords
    <2>4. p.env = WithPairs(p.env, Overrides(t))
      BY <2>1, <2>2, <2>3, PairsStay
    <2>5. ~s.disturbed => Proc.lane_config = s.config
      <3>1. /\ s.config = sessions[Top].config /\ sessions[Top].kind = "plain"
            /\ (s.disturbed <=> sessions[Top].disturbed)
        BY <2>1 DEF Acts
      <3>2. ~sessions[Top].disturbed =>
                procs[sessions[Top].proc].lane_config = sessions[Top].config
        BY <2>2, <3>1 DEF SettingsKept
      <3> QED
        BY <2>2, <3>1, <3>2
    <2>6. ~s.disturbed /\ s.item # None /\ s.config # None =>
                p.env = WithPairs(p.env, s.config.env[s.config.lane[s.item]])
      BY <2>1, <2>2, <2>4, <2>5, OverridesType
    <2> QED
      BY <1>1, <2>1, <2>6, ActsKeepsSettings
  <1>5. CASE pytest_runtest_teardown
    <2>1. PICK s, p : Acts(s, p) /\ s.item = None
      BY <1>5, TeardownActs
    <2> QED
      BY <1>1, <2>1, ActsKeepsSettings
  <1> QED
    BY <1>1, <1>2, <1>3, <1>4, <1>5

-----------------------------------------------------------------------------
(* A lane's child knows what it is *)

\* What a session that begins above a child inherits,
LEMMA EnterKeepsChild ==
    ASSUME TypeOK, Stacked, TypeOK', ChildKeysFree, ChildKept, NEW p, NEW lane, Enter(p, lane)
    PROVE  ChildKept'
  <1>1. /\ Top \in Nat /\ Len(procs) \in Nat /\ Len(procs') \in Nat
        /\ DOMAIN sessions = 1..Top /\ DOMAIN sessions' = 1..Top'
        /\ \A k \in 1..Top' : k \in 1..Top \/ (k = Top + 1 /\ Top' = Top + 1)
        /\ \A k \in 1..Top : /\ Continues(sessions'[k], sessions[k])
                             /\ sessions[k].proc \in 1..Len(procs)
        /\ (Top' = Top => Len(procs') = Len(procs))
        /\ (Top' = Top + 1 => Len(procs') = p)
        /\ Top' \in {Top, Top + 1}
    BY TopProcess, NextPositions, EnterBelow
  <1>2. \A i \in 1..Len(procs) : procs'[i].env = procs[i].env
    BY EnterLeaves
  <1>3. Top' = Top + 1 =>
            /\ sessions'[Top + 1].proc = p /\ sessions'[Top + 1].item = None
            /\ sessions'[Top + 1].lane = lane
    BY EnterBelow
  <1>4. Len(sessions') = Top'
    BY DEF Top
  <1>5. Top' = Top + 1 =>
            /\ Top > 0 /\ lane = None => procs'[p].env = procs[Len(procs)].env
            /\ lane # None => procs'[p].env[CHILD] = "1" /\ procs'[p].env[DURATIONS_OUT] = lane
            /\ sessions'[Top + 1].kind = "lanes" =>
                    /\ ~Has(sessions'[Top + 1].args, "--lane")
                    /\ ~Has(sessions'[Top + 1].args, "--lanes-explain")
    <2> SUFFICES ASSUME Top' = Top + 1
                 PROVE  /\ Top > 0 /\ lane = None => procs'[p].env = procs[Len(procs)].env
                        /\ lane # None =>
                            procs'[p].env[CHILD] = "1" /\ procs'[p].env[DURATIONS_OUT] = lane
                        /\ sessions'[Top + 1].kind = "lanes" =>
                            /\ ~Has(sessions'[Top + 1].args, "--lane")
                            /\ ~Has(sessions'[Top + 1].args, "--lanes-explain")
      OBVIOUS
    <2>1. Len(sessions') # Top
      BY <1>1, <1>4
    <2> QED
      BY <2>1 DEF Enter
  <1>6. p \in {Len(procs), Len(procs) + 1} /\ (lane # None => Top > 0 /\ sessions[Top].kind = "lanes")
        /\ (p <= Len(procs) => lane = None)
    BY DEF Enter
  <1>7. ASSUME NEW k \in DOMAIN sessions'
        PROVE  /\ sessions'[k].kind = "lanes" =>
                    ~Has(sessions'[k].args, "--lane") /\ ~Has(sessions'[k].args, "--lanes-explain")
               /\ sessions'[k].item # None =>
                    {CHILD, DURATIONS_OUT} \cap DOMAIN sessions'[k].saved = {}
    <2>1. CASE k \in 1..Top
      <3>1. /\ sessions[k].kind = "lanes" =>
                ~Has(sessions[k].args, "--lane") /\ ~Has(sessions[k].args, "--lanes-explain")
            /\ sessions[k].item # None =>
                {CHILD, DURATIONS_OUT} \cap DOMAIN sessions[k].saved = {}
        BY <1>1, <2>1 DEF ChildKept
      <3>2. /\ sessions'[k].kind = sessions[k].kind /\ sessions'[k].args = sessions[k].args
            /\ sessions'[k].item = sessions[k].item /\ sessions'[k].saved = sessions[k].saved
        BY <1>1, <2>1 DEF Continues
      <3> QED
        BY <3>1, <3>2
    <2>2. CASE k = Top + 1 /\ Top' = Top + 1
      BY <1>3, <1>5, <2>2
    <2> QED
      BY <1>1, <2>1, <2>2
  <1>8. ASSUME NEW k \in DOMAIN sessions', sessions'[k].lane # None
        PROVE  /\ k > 1 /\ sessions'[k - 1].kind = "lanes"
               /\ \A i \in sessions'[k].proc..Len(procs') : procs'[i].env[CHILD] = "1"
               /\ procs'[sessions'[k].proc].env[DURATIONS_OUT] = sessions'[k].lane
    <2>1. CASE k \in 1..Top
      <3>1. Continues(sessions'[k], sessions[k])
        BY <1>1, <2>1
      <3>2. sessions'[k].proc = sessions[k].proc /\ sessions'[k].lane = sessions[k].lane
        BY <3>1 DEF Continues
      <3>3. /\ k > 1 /\ sessions[k - 1].kind = "lanes"
            /\ \A i \in sessions[k].proc..Len(procs) : procs[i].env[CHILD] = "1"
            /\ procs[sessions[k].proc].env[DURATIONS_OUT] = sessions[k].lane
        BY <1>1, <1>8, <2>1, <3>2 DEF ChildKept
      <3>4. sessions'[k - 1].kind = "lanes"
        <4>1. k - 1 \in 1..Top
          BY <1>1, <2>1, <3>3
        <4>2. Continues(sessions'[k - 1], sessions[k - 1])
          BY <1>1, <4>1
        <4> QED
          BY <3>3, <4>2 DEF Continues
      <3>5. sessions[k].proc \in 1..Len(procs)
        BY <1>1, <2>1
      <3>6. ASSUME NEW i \in sessions[k].proc..Len(procs')
            PROVE  procs'[i].env[CHILD] = "1"
        <4>1. CASE i <= Len(procs)
          <5>1. i \in 1..Len(procs) /\ i \in sessions[k].proc..Len(procs)
            BY <1>1, <3>5, <4>1
          <5> QED
            BY <1>2, <3>3, <5>1
        <4>2. CASE i > Len(procs)
          <5>1. Len(procs') # Len(procs)
            BY <1>1, <3>5, <4>2
          <5>2. Top' = Top + 1 /\ Len(procs') = p
            BY <1>1, <5>1
          <5>3. i = p /\ Top > 0
            BY <1>1, <1>6, <2>1, <3>5, <4>2, <5>2
          <5>4. procs[Len(procs)].env[CHILD] = "1"
            <6>1. Len(procs) \in sessions[k].proc..Len(procs)
              BY <1>1, <3>5
            <6> QED
              BY <3>3, <6>1
          <5> QED
            BY <1>5, <5>2, <5>3, <5>4
        <4> QED
          BY <1>1, <3>5, <4>1, <4>2
      <3>7. procs'[sessions[k].proc].env[DURATIONS_OUT] = sessions[k].lane
        BY <1>2, <3>3, <3>5
      <3> QED
        BY <3>2, <3>3, <3>4, <3>6, <3>7
    <2>2. CASE k = Top + 1 /\ Top' = Top + 1
      <3>1. sessions'[k].lane = lane /\ lane # None /\ sessions'[k].proc = p
        BY <1>3, <1>8, <2>2
      <3>2. Top > 0 /\ sessions[Top].kind = "lanes" /\ k - 1 = Top /\ Top \in 1..Top
        BY <1>1, <1>6, <2>2, <3>1
      <3>3. sessions'[k - 1].kind = "lanes"
        BY <1>1, <3>2 DEF Continues
      <3>4. Len(procs') = p /\ p \in Nat
        BY <1>1, <2>2
      <3>5. \A i \in p..Len(procs') : i = p
        BY <3>4
      <3>6. procs'[p].env[CHILD] = "1" /\ procs'[p].env[DURATIONS_OUT] = lane
        BY <1>5, <2>2, <3>1
      <3>7. k > 1
        BY <1>1, <2>2, <3>2
      <3> QED
        BY <3>1, <3>3, <3>5, <3>6, <3>7
    <2> QED
      BY <1>1, <2>1, <2>2
  <1> QED
    BY <1>7, <1>8 DEF ChildKept

\* what remains when sessions end,
LEMMA PopKeepsChild ==
    ASSUME TypeOK, Stacked, TypeOK', ChildKept, NEW m, NEW q, Pop(m, q)
    PROVE  ChildKept'
  <1>1. /\ Top \in Nat /\ m \in Nat /\ q \in Nat /\ Len(procs) \in Nat /\ q <= Len(procs)
        /\ Len(procs') = q /\ DOMAIN sessions = 1..Top /\ DOMAIN sessions' = 1..m
    BY TopProcess, NextPositions, PopLeaves
  <1>2. /\ \A k \in 1..m : /\ k \in 1..Top /\ sessions'[k] = sessions[k]
                           /\ sessions[k].proc \in 1..q
        /\ \A i \in 1..q : procs'[i] = procs[i]
    BY PopLeaves
  <1>3. ASSUME NEW k \in DOMAIN sessions'
        PROVE  /\ sessions'[k].kind = "lanes" =>
                    ~Has(sessions'[k].args, "--lane") /\ ~Has(sessions'[k].args, "--lanes-explain")
               /\ sessions'[k].item # None =>
                    {CHILD, DURATIONS_OUT} \cap DOMAIN sessions'[k].saved = {}
    BY <1>1, <1>2 DEF ChildKept
  <1>4. ASSUME NEW k \in DOMAIN sessions', sessions'[k].lane # None
        PROVE  /\ k > 1 /\ sessions'[k - 1].kind = "lanes"
               /\ \A i \in sessions'[k].proc..Len(procs') : procs'[i].env[CHILD] = "1"
               /\ procs'[sessions'[k].proc].env[DURATIONS_OUT] = sessions'[k].lane
    <2>1. k \in DOMAIN sessions /\ sessions'[k] = sessions[k] /\ sessions[k].proc \in 1..q
          /\ k \in 1..m
      BY <1>1, <1>2
    <2>2. /\ k > 1 /\ sessions[k - 1].kind = "lanes"
          /\ \A i \in sessions[k].proc..Len(procs) : procs[i].env[CHILD] = "1"
          /\ procs[sessions[k].proc].env[DURATIONS_OUT] = sessions[k].lane
      BY <1>4, <2>1 DEF ChildKept
    <2>3. k - 1 \in 1..m
      BY <1>1, <2>1, <2>2
    <2>4. \A i \in sessions[k].proc..q : i \in 1..q /\ i \in sessions[k].proc..Len(procs)
      BY <1>1, <2>1
    <2> QED
      BY <1>1, <1>2, <2>1, <2>2, <2>3, <2>4, ZenonT(30)
  <1> QED
    BY <1>3, <1>4 DEF ChildKept

\* and the environment of a test.
LEMMA ActsKeepsChild ==
    ASSUME TypeOK, Stacked, TypeOK', ChildKept, NEW s, NEW p, Acts(s, p),
           s.item # None => {CHILD, DURATIONS_OUT} \cap DOMAIN s.saved = {},
           p.env[CHILD] = procs[Len(procs)].env[CHILD],
           p.env[DURATIONS_OUT] = procs[Len(procs)].env[DURATIONS_OUT]
    PROVE  ChildKept'
  <1>1. /\ Top \in Nat /\ Top > 0 /\ Len(procs') = Len(procs)
        /\ DOMAIN sessions = 1..Top /\ DOMAIN sessions' = 1..Top
        /\ sessions'[Top] = s /\ procs'[Len(procs)] = p
        /\ \A k \in 1..Top : k # Top => sessions'[k] = sessions[k]
        /\ \A i \in 1..Len(procs) : i # Len(procs) => procs'[i] = procs[i]
    <2>1. Top' = Top
      BY ActsLeaves DEF Top
    <2> QED
      BY <2>1, TopProcess, NextPositions, ActsLeaves, ZenonT(30) DEF Acts
  <1>2. /\ s.kind = "plain" /\ sessions[Top].kind = "plain"
        /\ s.proc = sessions[Top].proc /\ s.lane = sessions[Top].lane
    BY DEF Acts
  <1>3. \A i \in 1..Len(procs) : /\ procs'[i].env[CHILD] = procs[i].env[CHILD]
                                 /\ procs'[i].env[DURATIONS_OUT] = procs[i].env[DURATIONS_OUT]
    BY <1>1
  <1>4. ASSUME NEW k \in DOMAIN sessions'
        PROVE  /\ sessions'[k].kind = "lanes" =>
                    ~Has(sessions'[k].args, "--lane") /\ ~Has(sessions'[k].args, "--lanes-explain")
               /\ sessions'[k].item # None =>
                    {CHILD, DURATIONS_OUT} \cap DOMAIN sessions'[k].saved = {}
    <2>1. CASE k = Top
      BY <1>1, <1>2, <2>1
    <2>2. CASE k # Top
      BY <1>1, <2>2 DEF ChildKept
    <2> QED
      BY <2>1, <2>2
  <1>5. \A k \in 1..Top : /\ sessions'[k].kind = sessions[k].kind
                          /\ sessions'[k].proc = sessions[k].proc
                          /\ sessions'[k].lane = sessions[k].lane
    BY <1>1, <1>2
  <1>6. ASSUME NEW k \in DOMAIN sessions', sessions'[k].lane # None
        PROVE  /\ k > 1 /\ sessions'[k - 1].kind = "lanes"
               /\ \A i \in sessions'[k].proc..Len(procs') : procs'[i].env[CHILD] = "1"
               /\ procs'[sessions'[k].proc].env[DURATIONS_OUT] = sessions'[k].lane
    <2>1. k \in 1..Top /\ sessions[k].lane # None
      BY <1>1, <1>5, <1>6
    <2>2. /\ k > 1 /\ sessions[k - 1].kind = "lanes"
          /\ \A i \in sessions[k].proc..Len(procs) : procs[i].env[CHILD] = "1"
          /\ procs[sessions[k].proc].env[DURATIONS_OUT] = sessions[k].lane
      BY <1>1, <2>1 DEF ChildKept
    <2>3. k - 1 \in 1..Top
      BY <1>1, <2>1, <2>2
    <2>4. sessions[k].proc \in 1..Len(procs) /\ Len(procs) \in Nat
      BY <2>1, TopProcess DEF Stacked
    <2>5. \A i \in sessions[k].proc..Len(procs) : i \in 1..Len(procs)
      BY <2>4
    <2> QED
      BY <1>1, <1>3, <1>5, <2>1, <2>2, <2>3, <2>4, <2>5
  <1> QED
    BY <1>4, <1>6 DEF ChildKept

\* Neither a setup nor a teardown touches what a child is told by.
LEMMA NextKeepsChild ==
    ASSUME TypeOK, Stacked, ChildKeysFree, ChildKept, Next
    PROVE  ChildKept'
  <1>1. /\ TypeOK'
        /\ \/ \E p, lane : Enter(p, lane)
           \/ \E m, q : Pop(m, q)
           \/ pytest_runtest_setup
           \/ pytest_runtest_teardown
    BY NextKeepsStack
  <1>2. ASSUME NEW p, NEW lane, Enter(p, lane)
        PROVE  ChildKept'
    BY <1>1, <1>2, EnterKeepsChild
  <1>3. ASSUME NEW m, NEW q, Pop(m, q)
        PROVE  ChildKept'
    BY <1>1, <1>3, PopKeepsChild
  <1>4. CHILD \in Keys /\ DURATIONS_OUT \in Keys
    BY SessionsAssumption
  <1>5. CASE pytest_runtest_setup
    <2>1. PICK t, s, p :
            /\ t \in Tests /\ Acts(s, p) /\ s.item = t
            /\ s.saved = Saved(procs[Len(procs)].env, Overrides(t))
            /\ p.env = WithPairs(procs[Len(procs)].env, Overrides(t))
      BY <1>5, SetupActs
    <2>2. /\ Top > 0 /\ procs[Len(procs)].env \in Environments /\ Overrides(t) \in Pairs
          /\ \A i \in DOMAIN Overrides(t) : Overrides(t)[i][1] \notin {CHILD, DURATIONS_OUT}
      BY <2>1, TopProcess, OverridesType DEF Acts, ProcessRecords
    <2>3. Listed(CHILD, Overrides(t)) = {} /\ Listed(DURATIONS_OUT, Overrides(t)) = {}
      BY <2>2 DEF Listed
    <2>4. /\ p.env[CHILD] = procs[Len(procs)].env[CHILD]
          /\ p.env[DURATIONS_OUT] = procs[Len(procs)].env[DURATIONS_OUT]
      BY <1>4, <2>1, <2>2, <2>3, PairsSet
    <2>5. {CHILD, DURATIONS_OUT} \cap DOMAIN s.saved = {}
      <3>1. DOMAIN s.saved = {Overrides(t)[i][1] : i \in DOMAIN Overrides(t)}
        BY <2>1, <2>2, SavedType
      <3> QED
        BY <2>2, <3>1
    <2> QED
      BY <1>1, <2>1, <2>4, <2>5, ActsKeepsChild
  <1>6. CASE pytest_runtest_teardown
    <2>1. PICK s, p :
            /\ Acts(s, p) /\ s.item = None
            /\ sessions[Top].item # None
            /\ p.env = Restored(procs[Len(procs)].env, sessions[Top].saved)
      BY <1>6, TeardownActs
    <2>2. /\ Top \in DOMAIN sessions /\ Top \in 1..Top /\ procs[Len(procs)].env \in Environments
      BY <2>1, TopProcess DEF Acts, ProcessRecords
    <2>3. /\ {CHILD, DURATIONS_OUT} \cap DOMAIN sessions[Top].saved = {}
          /\ sessions[Top].saved \in Savings
      BY <2>1, <2>2 DEF ChildKept, Stacked
    <2>4. CHILD \notin DOMAIN sessions[Top].saved /\ DURATIONS_OUT \notin DOMAIN sessions[Top].saved
      BY <2>3
    <2>5. /\ p.env[CHILD] = procs[Len(procs)].env[CHILD]
          /\ p.env[DURATIONS_OUT] = procs[Len(procs)].env[DURATIONS_OUT]
      BY <1>4, <2>1, <2>2, <2>3, <2>4, RestoredType
    <2> QED
      BY <1>1, <2>1, <2>5, ActsKeepsChild
  <1> QED
    BY <1>1, <1>2, <1>3, <1>5, <1>6

-----------------------------------------------------------------------------
(* A lane's child runs its lane *)

\* No beginning above a child fans out, and a child is given its whole lane,
LEMMA EnterKeepsLane ==
    ASSUME TypeOK, Stacked, TypeOK', ChildKeysFree, ChildKept, ChildKept', ChildRunsItsLane,
           NEW p, NEW lane, Enter(p, lane)
    PROVE  ChildRunsItsLane'
  <1>1. /\ Top \in Nat /\ Len(procs) \in Nat /\ Len(procs') \in Nat
        /\ DOMAIN sessions = 1..Top /\ DOMAIN sessions' = 1..Top'
        /\ \A k \in 1..Top' : k \in 1..Top \/ (k = Top + 1 /\ Top' = Top + 1)
        /\ \A k \in 1..Top : Continues(sessions'[k], sessions[k])
        /\ \A k \in 1..Top : sessions[k].proc \in 1..Len(procs) /\ sessions[k].proc <= p
        /\ (Top' = Top + 1 => Len(procs') = p)
    BY TopProcess, NextPositions, EnterBelow
  <1>2. Top' = Top + 1 =>
            /\ sessions'[Top + 1].proc = p /\ sessions'[Top + 1].ran = {}
            /\ sessions'[Top + 1].lane = lane /\ sessions'[Top + 1] \in SessionRecords
    BY EnterBelow, NextPositions
  <1>3. Len(sessions') = Top'
    BY DEF Top
  <1>4. Top' = Top + 1 =>
            /\ sessions'[Top + 1].kind = "lanes" => procs'[p].env[CHILD] # "1"
            /\ lane # None /\ sessions'[Top + 1].kind = "plain"
                    /\ ~Has(sessions[Top].args, "--lane")
                    /\ ~Has(sessions[Top].args, "--lanes-explain") =>
                sessions'[Top + 1].queue = LaneTests(sessions[Top].config, lane)
    <2> SUFFICES ASSUME Top' = Top + 1
                 PROVE  /\ sessions'[Top + 1].kind = "lanes" => procs'[p].env[CHILD] # "1"
                        /\ lane # None /\ sessions'[Top + 1].kind = "plain"
                                /\ ~Has(sessions[Top].args, "--lane")
                                /\ ~Has(sessions[Top].args, "--lanes-explain") =>
                            sessions'[Top + 1].queue = LaneTests(sessions[Top].config, lane)
      OBVIOUS
    <2>1. Len(sessions') # Top
      BY <1>1, <1>3
    <2> QED
      BY <2>1 DEF Enter
  <1>5. lane # None => Top > 0 /\ sessions[Top].kind = "lanes"
    BY DEF Enter
  <1>6. ASSUME NEW k \in DOMAIN sessions', sessions'[k].lane # None, Top' = Top + 1
        PROVE  sessions'[Top + 1].kind = "plain"
    <2>1. \A i \in sessions'[k].proc..Len(procs') : procs'[i].env[CHILD] = "1"
      BY <1>6 DEF ChildKept
    <2>2. sessions'[k].proc \in Nat /\ sessions'[k].proc <= p /\ p \in Nat /\ Len(procs') = p
      <3>1. Len(procs') = p /\ p \in Nat
        BY <1>1, <1>6
      <3>2. CASE k \in 1..Top
        <4>1. sessions'[k].proc = sessions[k].proc
          BY <1>1, <3>2 DEF Continues
        <4> QED
          BY <1>1, <3>1, <3>2, <4>1
      <3>3. CASE k = Top + 1
        BY <1>2, <1>6, <3>1, <3>3
      <3> QED
        BY <1>1, <3>2, <3>3
    <2>3. p \in sessions'[k].proc..Len(procs')
      BY <2>2
    <2>4. procs'[p].env[CHILD] = "1"
      BY <2>1, <2>3
    <2> QED
      BY <1>2, <1>4, <1>6, <2>4 DEF SessionRecords
  <1>7. ASSUME NEW k \in DOMAIN sessions', sessions'[k].lane # None
        PROVE  /\ \A i \in k..Top' : sessions'[i].kind = "plain"
               /\ sessions'[k].queue \cup sessions'[k].ran
                    = LaneTests(sessions'[k - 1].config, sessions'[k].lane)
    <2>0. k > 1 /\ k \in Int
      BY <1>1, <1>7 DEF ChildKept
    <2>1. CASE k \in 1..Top
      <3>1. Continues(sessions'[k], sessions[k]) /\ k - 1 \in 1..Top
            /\ Continues(sessions'[k - 1], sessions[k - 1])
        <4>1. k - 1 \in 1..Top
          BY <1>1, <2>0, <2>1
        <4> QED
          BY <1>1, <2>1, <4>1
      <3>2. sessions'[k].lane = sessions[k].lane /\ sessions'[k].ran = sessions[k].ran
            /\ sessions'[k - 1].config = sessions[k - 1].config
        BY <3>1 DEF Continues
      <3>3. /\ \A i \in k..Top : sessions[i].kind = "plain"
            /\ sessions[k].queue \cup sessions[k].ran
                    = LaneTests(sessions[k - 1].config, sessions[k].lane)
        BY <1>1, <1>7, <2>1, <3>2 DEF ChildRunsItsLane
      <3>4. ASSUME NEW i \in k..Top'
            PROVE  sessions'[i].kind = "plain"
        <4>1. i \in 1..Top'
          BY <1>1, <2>1
        <4>2. CASE i \in 1..Top
          <5>1. i \in k..Top
            BY <4>2
          <5> QED
            BY <1>1, <3>3, <4>2, <5>1 DEF Continues
        <4>3. CASE i = Top + 1 /\ Top' = Top + 1
          BY <1>6, <1>7, <4>3
        <4> QED
          BY <1>1, <4>1, <4>2, <4>3
      <3>5. sessions'[k].queue = sessions[k].queue
        <4>1. k \in k..Top
          BY <1>1, <2>1
        <4>2. sessions[k].kind = "plain"
          BY <3>3, <4>1
        <4> QED
          BY <3>1, <4>2 DEF Continues
      <3> QED
        BY <3>2, <3>3, <3>4, <3>5
    <2>2. CASE k = Top + 1 /\ Top' = Top + 1
      <3>1. sessions'[k].lane = lane /\ lane # None /\ sessions'[k].ran = {}
        BY <1>2, <1>7, <2>2
      <3>2. Top \in 1..Top /\ k - 1 = Top /\ sessions[Top].kind = "lanes"
        BY <1>1, <1>5, <2>2, <3>1
      <3>3. sessions'[k].kind = "plain"
        BY <1>6, <1>7, <2>2
      <3>4. ~Has(sessions[Top].args, "--lane") /\ ~Has(sessions[Top].args, "--lanes-explain")
        BY <1>1, <3>2 DEF ChildKept
      <3>5. sessions'[k].queue = LaneTests(sessions[Top].config, lane)
        BY <1>4, <2>2, <3>1, <3>3, <3>4
      <3>6. sessions'[k - 1].config = sessions[Top].config
        BY <1>1, <3>2 DEF Continues
      <3>7. \A i \in k..Top' : i = k
        BY <1>1, <2>2
      <3> QED
        BY <3>1, <3>3, <3>5, <3>6, <3>7
    <2> QED
      BY <1>1, <2>1, <2>2
  <1> QED
    BY <1>7 DEF ChildRunsItsLane

\* no end leaves anything else,
LEMMA PopKeepsLane ==
    ASSUME TypeOK, Stacked, TypeOK', ChildKept, ChildRunsItsLane, NEW m, NEW q, Pop(m, q)
    PROVE  ChildRunsItsLane'
  <1>1. /\ Top \in Nat /\ m \in Nat /\ m < Top /\ Top' = m
        /\ DOMAIN sessions = 1..Top /\ DOMAIN sessions' = 1..m
        /\ \A k \in 1..m : k \in 1..Top /\ sessions'[k] = sessions[k]
    BY TopProcess, NextPositions, PopLeaves
  <1>2. ASSUME NEW k \in DOMAIN sessions', sessions'[k].lane # None
        PROVE  /\ \A i \in k..Top' : sessions'[i].kind = "plain"
               /\ sessions'[k].queue \cup sessions'[k].ran
                    = LaneTests(sessions'[k - 1].config, sessions'[k].lane)
    <2>1. /\ k \in 1..m /\ k \in 1..Top /\ sessions'[k] = sessions[k] /\ sessions[k].lane # None
      BY <1>1, <1>2
    <2>2. k - 1 \in 1..m
      <3>1. k > 1
        BY <1>1, <2>1 DEF ChildKept
      <3> QED
        BY <1>1, <2>1, <3>1
    <2>3. /\ \A i \in k..Top : sessions[i].kind = "plain"
          /\ sessions[k].queue \cup sessions[k].ran
                    = LaneTests(sessions[k - 1].config, sessions[k].lane)
      BY <1>1, <2>1 DEF ChildRunsItsLane
    <2>4. \A i \in k..Top' : i \in k..Top /\ i \in 1..m
      BY <1>1, <2>1
    <2> QED
      BY <1>1, <2>1, <2>2, <2>3, <2>4
  <1> QED
    BY <1>2 DEF ChildRunsItsLane

\* and a test only moves from what is to be run to what has run.
LEMMA ActsKeepsLane ==
    ASSUME TypeOK, Stacked, TypeOK', ChildKept, ChildRunsItsLane, NEW s, NEW p, Acts(s, p),
           s.queue \cup s.ran = sessions[Top].queue \cup sessions[Top].ran
    PROVE  ChildRunsItsLane'
  <1>1. /\ Top \in Nat /\ Top > 0 /\ Top' = Top
        /\ DOMAIN sessions = 1..Top /\ DOMAIN sessions' = 1..Top
        /\ sessions'[Top] = s
        /\ \A k \in 1..Top : k # Top => sessions'[k] = sessions[k]
    <2>1. Top' = Top
      BY ActsLeaves DEF Top
    <2> QED
      BY <2>1, TopProcess, NextPositions, ActsLeaves DEF Acts
  <1>2. \A k \in 1..Top : /\ sessions'[k].kind = sessions[k].kind
                          /\ sessions'[k].config = sessions[k].config
                          /\ sessions'[k].lane = sessions[k].lane
                          /\ sessions'[k].queue \cup sessions'[k].ran
                                = sessions[k].queue \cup sessions[k].ran
    BY <1>1 DEF Acts
  <1>3. ASSUME NEW k \in DOMAIN sessions', sessions'[k].lane # None
        PROVE  /\ \A i \in k..Top' : sessions'[i].kind = "plain"
               /\ sessions'[k].queue \cup sessions'[k].ran
                    = LaneTests(sessions'[k - 1].config, sessions'[k].lane)
    <2>1. k \in 1..Top /\ sessions[k].lane # None
      BY <1>1, <1>2, <1>3
    <2>2. k - 1 \in 1..Top
      <3>1. k > 1
        BY <1>1, <2>1 DEF ChildKept
      <3> QED
        BY <1>1, <2>1, <3>1
    <2>3. /\ \A i \in k..Top : sessions[i].kind = "plain"
          /\ sessions[k].queue \cup sessions[k].ran
                    = LaneTests(sessions[k - 1].config, sessions[k].lane)
      BY <1>1, <2>1 DEF ChildRunsItsLane
    <2>4. \A i \in k..Top' : i \in k..Top /\ i \in 1..Top
      BY <1>1, <2>1
    <2> QED
      BY <1>2, <2>1, <2>2, <2>3, <2>4
  <1> QED
    BY <1>3 DEF ChildRunsItsLane

\* No session below a lane's child fans out, and the child runs the lane.
LEMMA NextKeepsLane ==
    ASSUME TypeOK, Stacked, ChildKeysFree, ChildKept, ChildRunsItsLane, Next
    PROVE  ChildRunsItsLane'
  <1>1. /\ TypeOK' /\ ChildKept'
        /\ \/ \E p, lane : Enter(p, lane)
           \/ \E m, q : Pop(m, q)
           \/ pytest_runtest_setup
           \/ pytest_runtest_teardown
    BY NextKeepsStack, NextKeepsChild
  <1>2. ASSUME NEW p, NEW lane, Enter(p, lane)
        PROVE  ChildRunsItsLane'
    BY <1>1, <1>2, EnterKeepsLane
  <1>3. ASSUME NEW m, NEW q, Pop(m, q)
        PROVE  ChildRunsItsLane'
    BY <1>1, <1>3, PopKeepsLane
  <1>4. CASE pytest_runtest_setup
    <2>1. PICK t, s, p :
            /\ t \in Tests /\ Acts(s, p) /\ s.ran = sessions[Top].ran \cup {t}
            /\ t \in sessions[Top].queue /\ s.queue = sessions[Top].queue \ {t}
      BY <1>4, SetupActs
    <2>2. s.queue \cup s.ran = sessions[Top].queue \cup sessions[Top].ran
      BY <2>1
    <2> QED
      BY <1>1, <2>1, <2>2, ActsKeepsLane
  <1>5. CASE pytest_runtest_teardown
    <2>1. PICK s, p : /\ Acts(s, p)
                      /\ s.ran = sessions[Top].ran /\ s.queue = sessions[Top].queue
      BY <1>5, TeardownActs
    <2> QED
      BY <1>1, <2>1, ActsKeepsLane
  <1> QED
    BY <1>1, <1>2, <1>3, <1>4, <1>5

-----------------------------------------------------------------------------
(* Measurements *)

\* A child that begins has measured nothing,
LEMMA EnterKeepsRecorder ==
    ASSUME TypeOK, Stacked, TypeOK', ChildKeysFree, ChildKept, ChildRunsItsLane', RecorderKept,
           NEW p, NEW lane, Enter(p, lane)
    PROVE  RecorderKept'
  <1>1. /\ Top \in Nat
        /\ DOMAIN sessions = 1..Top /\ DOMAIN sessions' = 1..Top'
        /\ \A k \in 1..Top' : k \in 1..Top \/ (k = Top + 1 /\ Top' = Top + 1)
        /\ \A k \in 1..Top : Continues(sessions'[k], sessions[k])
    BY TopProcess, NextPositions, EnterBelow
  <1>2. Top' = Top + 1 =>
            /\ sessions'[Top + 1].proc = p /\ sessions'[Top + 1].ran = {}
            /\ sessions'[Top + 1].item = None /\ sessions'[Top + 1].lane = lane
    BY EnterBelow
  <1>3. Top' = Top + 1 /\ lane # None /\ sessions'[Top + 1].kind = "plain" =>
            procs'[p].recorder = {}
    <2>1. Len(sessions') = Top'
      BY DEF Top
    <2>2. Top' = Top + 1 => Len(sessions') # Top
      BY <1>1, <2>1
    <2> QED
      BY <2>2 DEF Enter
  <1> DEFINE kept(k) ==
        /\ sessions[k].queue \cap sessions[k].ran = {}
        /\ sessions[k].item \in sessions[k].ran \cup {None}
        /\ sessions[k].lane # None /\ ~sessions[k].disturbed =>
            procs[sessions[k].proc].recorder
                = {FileOf[t] : t \in sessions[k].ran \ {sessions[k].item}}
  <1>4. ASSUME NEW k \in DOMAIN sessions'
        PROVE  kept(k)'
    <2>1. CASE k \in 1..Top
      <3>1. kept(k)
        BY <1>1, <2>1 DEF RecorderKept
      <3>2. /\ sessions'[k].proc = sessions[k].proc /\ sessions'[k].lane = sessions[k].lane
            /\ sessions'[k].ran = sessions[k].ran /\ sessions'[k].item = sessions[k].item
            /\ sessions'[k].queue \subseteq sessions[k].queue
        BY <1>1, <2>1 DEF Continues
      <3>3. ~sessions'[k].disturbed =>
                ~sessions[k].disturbed /\ procs'[sessions[k].proc] = procs[sessions[k].proc]
        BY <2>1, EnterLeaves
      <3>4. sessions'[k].queue \cap sessions'[k].ran = {}
        BY <3>1, <3>2
      <3> QED
        BY <3>1, <3>2, <3>3, <3>4
    <2>2. CASE k = Top + 1 /\ Top' = Top + 1
      <3>1. sessions'[k].lane # None => sessions'[k].kind = "plain"
        <4>1. k \in k..Top'
          BY <1>1, <2>2
        <4> QED
          BY <4>1 DEF ChildRunsItsLane
      <3>2. sessions'[k].lane # None => procs'[p].recorder = {}
        BY <1>2, <1>3, <2>2, <3>1
      <3>3. {FileOf[t] : t \in {} \ {None}} = {}
        OBVIOUS
      <3> QED
        BY <1>2, <2>2, <3>2, <3>3
    <2> QED
      BY <1>1, <2>1, <2>2
  <1> HIDE DEF kept
  <1> QED
    BY <1>4 DEF RecorderKept, kept

\* the measurements of those below an end stay,
LEMMA PopKeepsRecorder ==
    ASSUME TypeOK, Stacked, TypeOK', RecorderKept, NEW m, NEW q, Pop(m, q)
    PROVE  RecorderKept'
  <1>1. \A k \in DOMAIN sessions' :
            /\ k \in DOMAIN sessions /\ sessions'[k] = sessions[k]
            /\ procs'[sessions[k].proc] = procs[sessions[k].proc]
    <2>1. /\ DOMAIN sessions = 1..Top /\ DOMAIN sessions' = 1..m
      BY TopProcess, NextPositions, PopLeaves
    <2> QED
      BY <2>1, PopLeaves
  <1> QED
    BY <1>1 DEF RecorderKept

\* and a test adds its own.
LEMMA ActsKeepsRecorder ==
    ASSUME TypeOK, Stacked, TypeOK', RecorderKept, NEW s, NEW p, Acts(s, p),
           s.queue \cap s.ran = {}, s.item \in s.ran \cup {None},
           s.lane # None /\ ~s.disturbed =>
                p.recorder = {FileOf[t] : t \in s.ran \ {s.item}}
    PROVE  RecorderKept'
  <1>1. /\ Top \in Nat /\ Top > 0 /\ sessions[Top].proc = Len(procs)
        /\ DOMAIN sessions = 1..Top /\ DOMAIN sessions' = 1..Top
        /\ sessions'[Top] = s /\ procs'[Len(procs)] = p /\ s.proc = Len(procs)
        /\ \A k \in 1..Top : k # Top => sessions'[k] = sessions[k]
        /\ \A i \in 1..Len(procs) : i # Len(procs) => procs'[i] = procs[i]
    <2>1. Top' = Top
      BY ActsLeaves DEF Top
    <2> QED
      BY <2>1, TopProcess, NextPositions, ActsLeaves, ZenonT(30) DEF Acts
  <1> DEFINE kept(k) ==
        /\ sessions[k].queue \cap sessions[k].ran = {}
        /\ sessions[k].item \in sessions[k].ran \cup {None}
        /\ sessions[k].lane # None /\ ~sessions[k].disturbed =>
            procs[sessions[k].proc].recorder
                = {FileOf[t] : t \in sessions[k].ran \ {sessions[k].item}}
  <1>2. ASSUME NEW k \in DOMAIN sessions'
        PROVE  kept(k)'
    <2>1. CASE k = Top
      <3>1. sessions'[k] = s /\ procs'[s.proc] = p
        BY <1>1, <2>1
      <3> QED
        BY <3>1
    <2>2. CASE k # Top
      <3>1. kept(k)
        BY <1>1 DEF RecorderKept
      <3>2. k \in 1..Top - 1 /\ k \in 1..Top
        BY <1>1, <2>2
      <3>3. sessions[k].proc \in 1..Len(procs)
        BY <3>2 DEF Stacked
      <3>4. ~sessions[k].disturbed => procs'[sessions[k].proc] = procs[sessions[k].proc]
        BY <1>1, <3>2, <3>3, Undisturbed
      <3>5. sessions'[k] = sessions[k]
        BY <1>1, <2>2, <3>2
      <3> QED
        BY <3>1, <3>4, <3>5
    <2> QED
      BY <2>1, <2>2
  <1> HIDE DEF kept
  <1> QED
    BY <1>2 DEF RecorderKept, kept

\* The recorder has the files of the tests that have ended.
LEMMA NextKeepsRecorder ==
    ASSUME TypeOK, Stacked, ChildKeysFree, ChildKept, ChildRunsItsLane, RecorderKept, Next
    PROVE  RecorderKept'
  <1>1. /\ TypeOK' /\ ChildRunsItsLane'
        /\ \/ \E p, lane : Enter(p, lane)
           \/ \E m, q : Pop(m, q)
           \/ pytest_runtest_setup
           \/ pytest_runtest_teardown
    BY NextKeepsStack, NextKeepsLane
  <1>2. ASSUME NEW p, NEW lane, Enter(p, lane)
        PROVE  RecorderKept'
    BY <1>1, <1>2, EnterKeepsRecorder
  <1>3. ASSUME NEW m, NEW q, Pop(m, q)
        PROVE  RecorderKept'
    BY <1>1, <1>3, PopKeepsRecorder
  <1>4. Top > 0 =>
            /\ sessions[Top].queue \cap sessions[Top].ran = {}
            /\ sessions[Top].item \in sessions[Top].ran \cup {None}
            /\ sessions[Top].lane # None /\ ~sessions[Top].disturbed =>
                procs[Len(procs)].recorder
                    = {FileOf[t] : t \in sessions[Top].ran \ {sessions[Top].item}}
            /\ sessions[Top].ran \subseteq Tests
    BY TopProcess DEF RecorderKept, SessionRecords
  <1>5. None \notin Tests
    BY SessionsAssumption
  <1>6. CASE pytest_runtest_setup
    <2>1. PICK t, s, p :
            /\ t \in Tests /\ Acts(s, p) /\ sessions[Top].item = None
            /\ s.item = t /\ s.ran = sessions[Top].ran \cup {t}
            /\ t \in sessions[Top].queue /\ s.queue = sessions[Top].queue \ {t}
            /\ p.recorder = procs[Len(procs)].recorder
      BY <1>6, SetupActs
    <2>2. /\ Top > 0 /\ s.lane = sessions[Top].lane
          /\ (s.disturbed <=> sessions[Top].disturbed)
      BY <2>1 DEF Acts
    <2>3. s.ran \ {s.item} = sessions[Top].ran \ {sessions[Top].item}
      BY <1>4, <1>5, <2>1, <2>2
    <2>4. s.queue \cap s.ran = {} /\ s.item \in s.ran \cup {None}
      BY <1>4, <2>1, <2>2
    <2>5. s.lane # None /\ ~s.disturbed => p.recorder = {FileOf[u] : u \in s.ran \ {s.item}}
      BY <1>4, <2>1, <2>2, <2>3
    <2> QED
      BY <1>1, <2>1, <2>4, <2>5, ActsKeepsRecorder
  <1>7. CASE pytest_runtest_teardown
    <2>1. PICK s, p :
            /\ Acts(s, p) /\ sessions[Top].item # None
            /\ s.item = None /\ s.ran = sessions[Top].ran /\ s.queue = sessions[Top].queue
            /\ p.recorder = IF procs[Len(procs)].recorder = None THEN None
                            ELSE procs[Len(procs)].recorder \cup {FileOf[sessions[Top].item]}
      BY <1>7, TeardownActs
    <2>2. /\ Top > 0 /\ s.lane = sessions[Top].lane
          /\ (s.disturbed <=> sessions[Top].disturbed)
      BY <2>1 DEF Acts
    <2> DEFINE ran == sessions[Top].ran
               item == sessions[Top].item
               ended == {FileOf[u] : u \in ran \ {item}}
    <2>3. item \in ran /\ ran \subseteq Tests /\ s.ran \ {s.item} = ran
      BY <1>4, <1>5, <2>1, <2>2
    <2>4. ended # None
      <3>1. ended \in SUBSET Range(FileOf)
        BY <2>3, SessionsAssumption DEF Range
      <3> QED
        BY <3>1, SessionsAssumption
    <2>5. ended \cup {FileOf[item]} = {FileOf[u] : u \in ran}
      BY <2>3
    <2>6. s.lane # None /\ ~s.disturbed => p.recorder = {FileOf[u] : u \in s.ran \ {s.item}}
      <3> SUFFICES ASSUME s.lane # None, ~s.disturbed
                   PROVE  p.recorder = {FileOf[u] : u \in s.ran \ {s.item}}
        OBVIOUS
      <3>1. procs[Len(procs)].recorder = ended
        BY <1>4, <2>2
      <3>2. p.recorder = ended \cup {FileOf[item]}
        BY <2>1, <2>4, <3>1
      <3> QED
        BY <2>3, <2>5, <3>2
    <2>7. s.queue \cap s.ran = {} /\ s.item \in s.ran \cup {None}
      BY <1>4, <2>1, <2>2
    <2> QED
      BY <1>1, <2>1, <2>6, <2>7, ActsKeepsRecorder
  <1> QED
    BY <1>1, <1>2, <1>3, <1>6, <1>7

-----------------------------------------------------------------------------
(* The theorems *)

\* What holds of the stack and its sessions, whatever the lanes set,
Kept == TypeOK /\ Stacked /\ EnvKept /\ SettingsKept

\* and what holds if none sets what the plugin tells its children by.
LanesKept == Kept /\ ChildKept /\ ChildRunsItsLane /\ RecorderKept

\* At first there is no session of which anything could be wrong.
LEMMA InitKeeps == Init => Kept /\ LanesKept
  <1> SUFFICES ASSUME Init
               PROVE  Kept /\ LanesKept
    OBVIOUS
  <1>1. TypeOK /\ Stacked
    BY InitStacks
  <1>2. DOMAIN sessions = {} /\ DOMAIN procs = {}
    BY DEF Init
  <1>3. EnvKept
    BY <1>2 DEF EnvKept
  <1>4. SettingsKept
    BY <1>2 DEF SettingsKept
  <1>5. ChildKept
    BY <1>2 DEF ChildKept
  <1>6. ChildRunsItsLane
    BY <1>2 DEF ChildRunsItsLane
  <1>7. RecorderKept
    BY <1>2 DEF RecorderKept
  <1> QED
    BY <1>1, <1>3, <1>4, <1>5, <1>6, <1>7 DEF Kept, LanesKept

\* A step in which nothing changes keeps everything.
LEMMA StutterKeeps ==
    /\ Kept /\ UNCHANGED vars => Kept'
    /\ LanesKept /\ UNCHANGED vars => LanesKept'
  <1> SUFFICES ASSUME Kept, UNCHANGED vars
               PROVE  Kept' /\ (LanesKept => LanesKept')
    BY DEF LanesKept
  <1>1. /\ project' = project /\ procs' = procs /\ sessions' = sessions /\ out' = out
        /\ Top' = Top
    BY DEF vars, Top
  <1>2. TypeOK'
    BY <1>1 DEF Kept, TypeOK
  <1>3. Stacked'
    BY <1>1 DEF Kept, Stacked
  <1>4. EnvKept'
    BY <1>1 DEF Kept, EnvKept, Facing, SetsKeysOnce
  <1>5. SettingsKept'
    BY <1>1 DEF Kept, SettingsKept
  <1>6. ChildKept => ChildKept'
    BY <1>1 DEF ChildKept
  <1>7. ChildRunsItsLane => ChildRunsItsLane'
    BY <1>1 DEF ChildRunsItsLane
  <1>8. RecorderKept => RecorderKept'
    BY <1>1 DEF RecorderKept
  <1> QED
    BY <1>2, <1>3, <1>4, <1>5, <1>6, <1>7, <1>8 DEF Kept, LanesKept

\* Every step keeps the stack and its sessions as they should be.
LEMMA NextKeeps == Kept /\ [Next]_vars => Kept'
  <1>1. ASSUME Kept, Next
        PROVE  Kept'
    BY <1>1, NextKeepsStack, NextKeepsEnv, NextKeepsSettings DEF Kept
  <1> QED
    BY <1>1, StutterKeeps

\* Every step keeps the lanes' children as they should be.
LEMMA NextKeepsLanes == ASSUME ChildKeysFree PROVE LanesKept /\ [Next]_vars => LanesKept'
  <1>1. ASSUME LanesKept, Next
        PROVE  LanesKept'
    <2>1. Kept'
      BY <1>1, NextKeeps DEF LanesKept
    <2> QED
      BY <1>1, <2>1, NextKeepsChild, NextKeepsLane, NextKeepsRecorder DEF Kept, LanesKept
  <1> QED
    BY <1>1, StutterKeeps

\* Every variable has the shape the code gives it.
THEOREM TypeCorrect == Spec => []TypeOK
  <1>1. Init => Kept
    BY InitKeeps
  <1>2. Kept /\ [Next]_vars => Kept'
    BY NextKeeps
  <1>3. Kept => TypeOK
    BY DEF Kept
  <1> QED
    BY <1>1, <1>2, <1>3, PTL DEF Spec

\* Between its tests, and when it ends, a session has the environment it began
\* with, however many sessions its tests started within its process or below
\* it and whichever of them were killed (hooks.py, pytest_runtest_teardown).
THEOREM EnvRestoredHolds == Spec => []EnvRestored
  <1>1. Init => Kept
    BY InitKeeps
  <1>2. Kept /\ [Next]_vars => Kept'
    BY NextKeeps
  <1>3. Kept => EnvRestored
    <2> SUFFICES ASSUME Kept, Top > 0, Session.item = None, SetsKeysOnce
                 PROVE  Proc.env = Session.before
      BY DEF EnvRestored
    <2>1. Session = sessions[Top] /\ Proc = procs[sessions[Top].proc]
      BY DEF Session, Proc
    <2>2. Top \in DOMAIN sessions /\ ~(Top < Top)
      BY TopProcess DEF Kept
    <2>3. Facing(Top) = Proc.env
      BY <2>1, <2>2 DEF Facing
    <2> QED
      BY <2>1, <2>2, <2>3 DEF Kept, EnvKept
  <1> QED
    BY <1>1, <1>2, <1>3, PTL DEF Spec

\* Every test runs in its lane's environment, in the lane's child and in a
\* single process (hooks.py, pytest_runtest_setup).
THEOREM EnvAppliedHolds == Spec => []EnvApplied
  <1>1. Init => Kept
    BY InitKeeps
  <1>2. Kept /\ [Next]_vars => Kept'
    BY NextKeeps
  <1>3. Kept => EnvApplied
    <2> SUFFICES ASSUME Kept, Top > 0, Session.item # None, ~Session.disturbed,
                        Session.config # None
                 PROVE  Proc.env = WithPairs(Proc.env,
                            Session.config.env[Session.config.lane[Session.item]])
      BY DEF EnvApplied
    <2>1. Session = sessions[Top] /\ Proc = procs[sessions[Top].proc]
      BY DEF Session, Proc
    <2>2. Top \in DOMAIN sessions /\ Top \in 1..Top /\ sessions[Top] \in SessionRecords
      BY TopProcess DEF Kept
    <2>3. sessions[Top].kind = "plain"
      BY <2>1, <2>2 DEF Kept, Stacked, SessionRecords
    <2> QED
      BY <2>1, <2>2, <2>3 DEF Kept, SettingsKept
  <1> QED
    BY <1>1, <1>2, <1>3, PTL DEF Spec

\* Unless a lane sets what the plugin tells its children by, no session below
\* a lane's child fans out and the child runs the whole lane
\* (executor.py, _spawn_lane_subprocess; mode.py, orchestration_mode).
THEOREM ChildRunsItsLaneHolds == ChildKeysFree /\ Spec => []ChildRunsItsLane
  <1> SUFFICES ASSUME ChildKeysFree
               PROVE  Spec => []ChildRunsItsLane
    OBVIOUS
  <1>1. Init => LanesKept
    BY InitKeeps
  <1>2. LanesKept /\ [Next]_vars => LanesKept'
    BY NextKeepsLanes
  <1>3. LanesKept => ChildRunsItsLane
    BY DEF LanesKept
  <1> QED
    BY <1>1, <1>2, <1>3, PTL DEF Spec

\* Then a child that ends leaves the measurements of the tests it ran, and
\* nothing else, also if sessions below it wrote to the same file
\* (recording.py; hooks.py, pytest_sessionfinish).
THEOREM MeasurementsWholeHolds == ChildKeysFree /\ Spec => MeasurementsWhole
  <1> SUFFICES ASSUME ChildKeysFree
               PROVE  Spec => MeasurementsWhole
    OBVIOUS
  <1> DEFINE Whole == \A i \in DOMAIN sessions :
                /\ sessions[i].lane # None /\ ~sessions[i].disturbed
                /\ i = Top /\ FinishSession
                => out'[sessions[i].lane] = {FileOf[t] : t \in sessions[i].ran}
  <1>1. Init => LanesKept
    BY InitKeeps
  <1>2. LanesKept /\ [Next]_vars => LanesKept'
    BY NextKeepsLanes
  <1>3. LanesKept => Whole
    <2> SUFFICES ASSUME LanesKept, Top \in DOMAIN sessions, sessions[Top].lane # None,
                        ~sessions[Top].disturbed, FinishSession
                 PROVE  out'[sessions[Top].lane] = {FileOf[t] : t \in sessions[Top].ran}
      OBVIOUS
    <2> DEFINE l == sessions[Top].lane
               files == {FileOf[t] : t \in sessions[Top].ran}
    <2>1. /\ Session = sessions[Top] /\ Session.item = None /\ Top > 0
          /\ Proc = procs[sessions[Top].proc]
      BY DEF FinishSession, Session, Proc
    <2>2. sessions[Top] \in SessionRecords /\ sessions[Top].proc = Len(procs)
      BY <2>1, TopProcess DEF LanesKept, Kept
    <2>3. l \in AllLanes /\ sessions[Top].ran \subseteq Tests
      BY <2>2 DEF SessionRecords
    <2>4. Proc.env[DURATIONS_OUT] = l
      BY <2>1 DEF LanesKept, ChildKept
    <2>5. Proc.recorder = files
      <3>1. None \notin sessions[Top].ran
        BY <2>3, SessionsAssumption
      <3>2. sessions[Top].ran \ {sessions[Top].item} = sessions[Top].ran
        BY <2>1, <3>1
      <3> QED
        BY <2>1, <3>2 DEF LanesKept, RecorderKept
    <2>6. files # None
      <3>1. files \in SUBSET Range(FileOf)
        BY <2>3, SessionsAssumption DEF Range
      <3> QED
        BY <3>1, SessionsAssumption
    <2>7. out \in [AllLanes -> {None} \cup SUBSET Range(FileOf)]
      BY DEF LanesKept, Kept, TypeOK
    <2> HIDE DEF l, files
    <2>8. out' = [out EXCEPT ![l] = files]
      BY <2>4, <2>5, <2>6 DEF FinishSession, Measurements
    <2>9. out'[l] = files
      BY <2>3, <2>7, <2>8
    <2> QED
      BY <2>9 DEF l, files
  <1>4. LanesKept => [Whole]_vars
    BY <1>3
  <1> QED
    BY <1>1, <1>2, <1>4, PTL DEF Spec, MeasurementsWhole

=============================================================================
