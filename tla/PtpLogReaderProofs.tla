-------------------------- MODULE PtpLogReaderProofs --------------------------
(***************************************************************************)
(* Proofs about PtpLogReader, for every value of its constants.            *)
(***************************************************************************)
EXTENDS PtpLogReader, OffsetStatsProofs, SequenceTheorems

-----------------------------------------------------------------------------
(* The configuration *)

Keys == ToSet(CfgKeys)

LEMMA KeysAre ==
  Keys = {"lock_threshold_ns", "lock_stable_sec",
          "offset_alert_threshold_ns", "sync_interval"}
<1>1. DOMAIN CfgKeys = 1..4
  BY DEF CfgKeys
<1> QED BY <1>1 DEF Keys, ToSet, CfgKeys

LEMMA SectionType ==
  ASSUME NEW sec \in Sections
  PROVE  /\ DOMAIN sec \subseteq Keys
         /\ \A k \in DOMAIN sec : sec[k] \in Number
         /\ sec = [k \in DOMAIN sec |-> sec[k]]
BY ConstantsAssumption DEF ConstantsAssumption, Keys, Number

LEMMA Bounds ==
  /\ MaxCount \in Nat /\ MaxCount >= 3
  /\ MaxAge \in Nat /\ MaxAge > 0
  /\ Lateness \in Nat
  /\ MinutePeriod \in Nat /\ MinutePeriod > 0
  /\ None \notin Int
BY ConstantsAssumption DEF ConstantsAssumption, FreqMisses

-----------------------------------------------------------------------------
(* Type correctness *)

LEMMA InitTypeOK == Init => TypeOK
<1> SUFFICES ASSUME Init PROVE TypeOK
  OBVIOUS
<1>1. cfg \in [Keys -> Number]
  BY SectionType DEF Init, Keys
<1>2. derive_source_id(Unknown) = Unknown
  BY DEF derive_source_id, Unknown
<1>3. cfg \in [ToSet(CfgKeys) -> Number]
  BY <1>1 DEF Keys
<1>4. since_sync \in 0..MaxAge \cup {None}
  BY DEF Init
<1>5. second_samples \in Seq(Offsets) /\ minute_samples \in Seq(Offsets)
  BY DEF Init
<1> QED
  BY <1>2, <1>3, <1>4, <1>5, Bounds DEF Init, TypeOK

LEMMA SourceOfClock ==
  ASSUME NEW g \in GmIds
  PROVE  derive_source_id(g) = <<g[1], g[3]>>
BY ConstantsAssumption DEF ConstantsAssumption, derive_source_id

LEMMA CapInRange ==
  ASSUME NEW n \in Nat, NEW bound \in Nat
  PROVE  Cap(n, bound) \in 0..bound /\ Cap(n, bound) <= n
BY DEF Cap

LEMMA StableCountInRange ==
  ASSUME TypeOK
  PROVE  StableCount \in 0..MaxCount
<1>1. lock_stable_count + 1 \in Nat
  BY Bounds DEF TypeOK
<1>2. Cap(lock_stable_count + 1, MaxCount) \in 0..MaxCount
  BY <1>1, Bounds, CapInRange
<1> QED BY <1>2, Bounds DEF StableCount

LEMMA MissCountInRange ==
  ASSUME TypeOK
  PROVE  MissCount \in 0..MaxCount
<1>1. freq_error_miss_count + 1 \in Nat /\ freq_error_miss_count \in 0..MaxCount
  BY Bounds DEF TypeOK
<1>2. Cap(freq_error_miss_count + 1, MaxCount) \in 0..MaxCount
  BY <1>1, Bounds, CapInRange
<1> QED BY <1>1, <1>2, Bounds DEF MissCount

LEMMA ReloadedKey ==
  ASSUME TypeOK, NEW sec \in Sections, reload_config(sec), NEW k \in Keys
  PROVE  cfg'[k] = cfg[k] \/ (k \in DOMAIN sec /\ cfg'[k] = sec[k])
<1>1. k \in DOMAIN cfg
  BY DEF TypeOK, Keys
<1>2. CASE k \in Assigned(sec)
  <2>1. PICK i \in 1..Len(CfgKeys) :
          CfgKeys[i] = k /\ \A j \in 1..i : CfgKeys[j] \in DOMAIN sec
    BY <1>2 DEF Assigned
  <2>2. i \in 1..i
    BY DEF CfgKeys
  <2>3. k \in DOMAIN sec
    BY <2>1, <2>2
  <2> QED BY <1>1, <1>2, <2>3 DEF reload_config
<1>3. CASE k \notin Assigned(sec)
  BY <1>1, <1>3 DEF reload_config
<1> QED BY <1>2, <1>3

LEMMA ReloadedType ==
  ASSUME TypeOK, NEW sec \in Sections, reload_config(sec)
  PROVE  cfg' \in [ToSet(CfgKeys) -> Number]
<1>1. \A k \in Keys : cfg'[k] \in Number
  BY ReloadedKey, SectionType DEF TypeOK, Keys
<1>2. cfg' = [k \in Keys |-> cfg'[k]]
  BY DEF reload_config, TypeOK, Keys
<1> QED BY <1>1, <1>2 DEF Keys

LEMMA NextTypeOK == TypeOK /\ [Next]_vars => TypeOK'
<1> SUFFICES ASSUME TypeOK, [Next]_vars PROVE TypeOK'
  OBVIOUS
<1> USE Bounds
<1>1. ASSUME NEW o \in Offsets, NEW s \in ServoStates, ParseOffset(o, s)
      PROVE  TypeOK'
  <2>1. o \in Int /\ s \in 0..9
    BY ConstantsAssumption DEF ConstantsAssumption
  <2>2. second_samples' \in Seq(Offsets)
    BY <1>1 DEF ParseOffset, TypeOK
  <2>3. since_sync' \in 0..MaxAge \cup {None}
    BY <1>1 DEF ParseOffset
  <2> QED BY <1>1, <2>1, <2>2, <2>3 DEF ParseOffset, TypeOK, gmVars, timeVars
<1>2. ASSUME NEW g \in GmIds, ParseBestMaster(g) PROVE TypeOK'
  BY <1>2 DEF ParseBestMaster, TypeOK, sampleVars, lockVars, freqVars, timeVars
<1>3. ASSUME NEW sec \in Sections, reload_config(sec) PROVE TypeOK'
  BY <1>3, ReloadedType
  DEF reload_config, TypeOK, sampleVars, lockVars, gmVars, freqVars, timeVars
<1>4. CASE tick_second
  <2>1. minute_samples' \in Seq(Offsets) /\ second_samples' \in Seq(Offsets)
    <3>1. minute_samples \in Seq(Offsets) /\ second_samples \in Seq(Offsets)
      BY DEF TypeOK
    <3>2. minute_samples \o second_samples \in Seq(Offsets)
      BY <3>1, ConcatProperties
    <3> QED BY <1>4, <3>2 DEF tick_second, AggregateSecond
  <2>2. lock_status' \in BOOLEAN /\ lock_stable_count' \in 0..MaxCount
    <3>1. NewLockStatus \in BOOLEAN
      BY DEF NewLockStatus
    <3>2. lock_status' \in BOOLEAN
      BY <1>4, <3>1 DEF tick_second, JudgeLock, TypeOK
    <3>3. lock_stable_count' \in 0..MaxCount
      BY <1>4, StableCountInRange DEF tick_second, JudgeLock, TypeOK
    <3> QED BY <3>2, <3>3
  <2>3. offset_threshold_breached' \in BOOLEAN
    <3>1. BreachedNow \in BOOLEAN
      BY DEF BreachedNow
    <3> QED BY <1>4, <3>1 DEF tick_second, WatchOffset, TypeOK
  <2>4. freq_error_miss_count' \in 0..MaxCount /\ freq_error_active' \in BOOLEAN
    BY <1>4, MissCountInRange DEF tick_second, WatchFrequency, TypeOK
  <2>5. overslept' \in BOOLEAN
    BY <1>4 DEF tick_second, Overslept, TypeOK
  <2> QED BY <1>4, <2>1, <2>2, <2>3, <2>4, <2>5 DEF tick_second, TypeOK, gmVars
<1>5. CASE tick_minute
  <2>1. minute_samples' \in Seq(Offsets)
    BY <1>5 DEF tick_minute
  <2> QED BY <1>5, <2>1 DEF tick_minute, TypeOK, lockVars, gmVars, freqVars
<1>6. CASE Second
  <2>1. since_sync' \in 0..MaxAge \cup {None}
    <3>1. CASE since_sync = None
      BY <1>6, <3>1 DEF Second
    <3>2. CASE since_sync # None
      <4>1. since_sync + 1 \in Nat
        BY <3>2 DEF TypeOK
      <4> QED BY <1>6, <3>2, <4>1, CapInRange DEF Second
    <3> QED BY <3>1, <3>2
  <2>2. since_second' \in 0..(1 + Lateness) /\ since_minute' \in 0..(MinutePeriod + Lateness)
    BY <1>6 DEF Second, TypeOK
  <2> QED BY <1>6, <2>1, <2>2 DEF Second, TypeOK, sampleVars, lockVars, gmVars
<1>7. CASE UNCHANGED vars
  BY <1>7 DEF vars, TypeOK, sampleVars, lockVars, gmVars, freqVars, timeVars
<1> QED BY <1>1, <1>2, <1>3, <1>4, <1>5, <1>6, <1>7 DEF Next

\* Every variable keeps its range in every reachable state.
THEOREM Types == Spec => []TypeOK
<1>1. Init => TypeOK
  BY InitTypeOK
<1>2. TypeOK /\ [Next]_vars => TypeOK'
  BY NextTypeOK
<1> QED BY <1>1, <1>2, PTL DEF Spec

-----------------------------------------------------------------------------
(* The lock *)

\* No section asks for fewer than one stable second.
StableSecondsAsked ==
  \A sec \in Sections :
    "lock_stable_sec" \in DOMAIN sec /\ sec["lock_stable_sec"] \in Int
      => sec["lock_stable_sec"] >= 1

StableSecondsInForce ==
  cfg["lock_stable_sec"] # Mistyped => cfg["lock_stable_sec"] \in Int /\ cfg["lock_stable_sec"] >= 1

LEMMA StableKey ==
  ASSUME NEW sec \in Sections, StableSecondsAsked, "lock_stable_sec" \in DOMAIN sec
  PROVE  sec["lock_stable_sec"] # Mistyped =>
           sec["lock_stable_sec"] \in Int /\ sec["lock_stable_sec"] >= 1
BY SectionType DEF StableSecondsAsked, Number

LEMMA StableSecondsInv ==
  ASSUME StableSecondsAsked
  PROVE  /\ Init => StableSecondsInForce
         /\ TypeOK /\ StableSecondsInForce /\ [Next]_vars => StableSecondsInForce'
<1>1. ASSUME Init PROVE StableSecondsInForce
  <2>1. cfg \in Sections /\ "lock_stable_sec" \in DOMAIN cfg
    BY <1>1, KeysAre DEF Init, Keys
  <2> QED BY <2>1, StableKey DEF StableSecondsInForce
<1>2. ASSUME TypeOK, StableSecondsInForce, [Next]_vars PROVE StableSecondsInForce'
  <2>1. ASSUME cfg' = cfg PROVE StableSecondsInForce'
    BY <1>2, <2>1 DEF StableSecondsInForce
  <2>2. ASSUME NEW sec \in Sections, reload_config(sec) PROVE StableSecondsInForce'
    <3>1. "lock_stable_sec" \in Keys
      BY KeysAre
    <3>2. \/ cfg'["lock_stable_sec"] = cfg["lock_stable_sec"]
          \/ /\ "lock_stable_sec" \in DOMAIN sec
             /\ cfg'["lock_stable_sec"] = sec["lock_stable_sec"]
      BY <1>2, <2>2, <3>1, ReloadedKey
    <3> QED BY <1>2, <3>2, StableKey DEF StableSecondsInForce
  <2> QED
    BY <1>2, <2>1, <2>2
    DEF Next, vars, ParseOffset, ParseBestMaster, tick_second, tick_minute, Second
<1> QED BY <1>1, <1>2

\* A tick that leaves the clock locked has seen s2 and an offset within the
\* threshold, whatever reloads, damaged sections and silences came before, as
\* long as every section asks for at least one stable second.
THEOREM LockIsQualified ==
  ASSUME StableSecondsAsked
  PROVE  Spec => LockedOnlyWhenQualified
<1>1. ASSUME TypeOK, StableSecondsInForce, [Next]_vars
      PROVE  tick_second /\ Evaluates(2) /\ lock_status' => Qualifies
  <2> SUFFICES ASSUME tick_second, Evaluates(2), lock_status', ~Qualifies PROVE FALSE
    OBVIOUS
  <2>1. cfg["lock_stable_sec"] # Mistyped
    BY DEF Evaluates, CfgKeys
  <2>2. cfg["lock_stable_sec"] \in Int /\ cfg["lock_stable_sec"] >= 1
    BY <1>1, <2>1 DEF StableSecondsInForce
  <2>3. StableCount = 0
    BY DEF StableCount
  <2>4. ~NewLockStatus
    BY <2>2, <2>3 DEF NewLockStatus
  <2>5. lock_status' = NewLockStatus
    BY DEF tick_second, JudgeLock
  <2> QED BY <2>4, <2>5
<1>2. ASSUME TypeOK, StableSecondsInForce, [Next]_vars
      PROVE  [tick_second /\ Evaluates(2) /\ lock_status' => Qualifies]_vars
  BY <1>1, <1>2
<1> QED
  BY <1>2, StableSecondsInv, Types, PTL DEF Spec, LockedOnlyWhenQualified

-----------------------------------------------------------------------------
(* The frequency error *)

\* Every value of every section is a number.
WellTyped == \A sec \in Sections : \A k \in DOMAIN sec : sec[k] \in Int

CfgNumbers == cfg \in [Keys -> Int] /\ cfg["sync_interval"] \in Intervals

LEMMA CfgNumbersInv ==
  ASSUME WellTyped
  PROVE  /\ Init => CfgNumbers
         /\ TypeOK /\ CfgNumbers /\ [Next]_vars => CfgNumbers'
<1>1. ASSUME Init PROVE CfgNumbers
  <2>1. cfg \in Sections /\ DOMAIN cfg = Keys
    BY <1>1 DEF Init, Keys
  <2>2. cfg \in [Keys -> Int]
    BY <2>1, SectionType DEF WellTyped
  <2> QED BY <2>1, <2>2, KeysAre DEF CfgNumbers, Intervals
<1>2. ASSUME TypeOK, CfgNumbers, [Next]_vars PROVE CfgNumbers'
  <2>1. ASSUME cfg' = cfg PROVE CfgNumbers'
    BY <1>2, <2>1 DEF CfgNumbers
  <2>2. ASSUME NEW sec \in Sections, reload_config(sec) PROVE CfgNumbers'
    <3>1. \A k \in Keys : cfg'[k] = cfg[k] \/ (k \in DOMAIN sec /\ cfg'[k] = sec[k])
      BY <1>2, <2>2, ReloadedKey
    <3>2. cfg' \in [Keys -> Int]
      <4>1. \A k \in Keys : cfg'[k] \in Int
        BY <1>2, <3>1 DEF CfgNumbers, WellTyped
      <4>2. cfg' = [k \in Keys |-> cfg'[k]]
        BY <1>2, <2>2 DEF reload_config, CfgNumbers
      <4> QED BY <4>1, <4>2
    <3>3. cfg'["sync_interval"] \in Intervals
      BY <1>2, <3>1, KeysAre DEF CfgNumbers, Intervals
    <3> QED BY <3>2, <3>3 DEF CfgNumbers
  <2> QED
    BY <1>2, <2>1, <2>2
    DEF Next, vars, ParseOffset, ParseBestMaster, tick_second, tick_minute, Second
<1> QED BY <1>1, <1>2

LEMMA AllKeysEvaluate ==
  ASSUME CfgNumbers
  PROVE  Evaluates(4)
<1>1. \A i \in 1..4 : CfgKeys[i] \in Keys
  BY KeysAre DEF CfgKeys
<1>2. \A k \in Keys : cfg[k] # Mistyped
  BY ConstantsAssumption DEF CfgNumbers, ConstantsAssumption
<1> QED BY <1>1, <1>2 DEF Evaluates

\* 2^n counts the subsets of n things.
LEMMA PowerIsNat ==
  ASSUME NEW n \in Nat
  PROVE  2^n \in Nat
<1>1. IsFiniteSet(1..n) /\ Cardinality(1..n) = n
  BY FS_Interval
<1>2. IsFiniteSet(SUBSET (1..n)) /\ Cardinality(SUBSET (1..n)) = 2^n
  BY <1>1, FS_SUBSET
<1> QED BY <1>2, FS_CardinalityType

LEMMA ExpectedIsNat ==
  ASSUME NEW k \in Int
  PROVE  ExpectedInterval(k) \in Nat
BY PowerIsNat DEF ExpectedInterval

LEMMA IntervalsAreInts ==
  ASSUME WellTyped, NEW k \in Intervals
  PROVE  k \in Int /\ ExpectedInterval(k) \in Nat
<1>1. k \in Int
  BY DEF WellTyped, Intervals
<1> QED BY <1>1, ExpectedIsNat

LEMMA MissCountStep ==
  ASSUME TypeOK, CfgNumbers, tick_second
  PROVE  /\ freq_error_miss_count' = MissCount
         /\ freq_error_active' =
              (MissCount >= FreqMisses \/ (MissCount # 0 /\ freq_error_active))
BY AllKeysEvaluate DEF tick_second, WatchFrequency

\* How old the last Sync may be while the misses are still being counted: a
\* tick, as late as it may be, for each, and the seconds since the last tick.
SilenceCounted ==
  /\ freq_error_miss_count >= FreqMisses => freq_error_active
  /\ \/ since_sync = None
     \/ freq_error_miss_count >= FreqMisses
     \/ \E k \in Intervals :
          since_sync <= ExpectedInterval(k) + FreqSlack
                          + freq_error_miss_count * (1 + Lateness) + since_second

LEMMA Products ==
  ASSUME NEW n \in Nat, NEW p \in Nat
  PROVE  n * p \in Nat /\ (n + 1) * p = n * p + p
OBVIOUS

LEMMA SilenceCountedInv ==
  ASSUME WellTyped
  PROVE  /\ Init => SilenceCounted
         /\ TypeOK /\ CfgNumbers /\ SilenceCounted /\ [Next]_vars => SilenceCounted'
<1>1. Init => SilenceCounted
  BY DEF Init, SilenceCounted, FreqMisses
<1>2. ASSUME TypeOK, CfgNumbers, SilenceCounted, [Next]_vars PROVE SilenceCounted'
  <2> DEFINE late == 1 + Lateness
             reach(k, n) == ExpectedInterval(k) + FreqSlack + n * late
             m == freq_error_miss_count
  <2>1. /\ \A k \in Intervals : ExpectedInterval(k) \in Nat
        /\ m \in Nat /\ m <= MaxCount
        /\ since_second \in Nat /\ since_second <= late
        /\ since_sync # None => since_sync \in Nat
        /\ cfg["sync_interval"] \in Intervals
        /\ MaxCount \in Nat /\ MaxCount >= 3
        /\ MaxAge \in Nat
        /\ late \in Nat /\ None \notin Int /\ FreqSlack = 3 /\ FreqMisses = 3
    BY <1>2, IntervalsAreInts, Bounds DEF TypeOK, CfgNumbers, FreqSlack, FreqMisses
  <2>2. /\ m * late \in Nat
        /\ (m + 1) * late = m * late + late
    BY <2>1, Products
  <2>3. /\ m >= 3 => freq_error_active
        /\ \/ since_sync = None
           \/ m >= 3
           \/ \E k \in Intervals : since_sync <= reach(k, m) + since_second
    BY <1>2, <2>1 DEF SilenceCounted
  <2> HIDE DEF late, m
  <2>4. ASSUME NEW o \in Offsets, NEW s \in ServoStates, ParseOffset(o, s)
        PROVE  SilenceCounted'
    <3>1. /\ since_sync' = 0
          /\ UNCHANGED <<freq_error_miss_count, freq_error_active, since_second>>
      BY <2>4 DEF ParseOffset, timeVars
    <3>2. 0 <= reach(cfg["sync_interval"], m) + since_second
      BY <2>1, <2>2
    <3> QED BY <2>1, <2>3, <3>1, <3>2 DEF SilenceCounted, late, m
  <2>5. CASE tick_second
    <3>1. since_sync' = since_sync /\ since_second' = 0
      BY <2>5 DEF tick_second
    <3>2. /\ freq_error_miss_count' = MissCount
          /\ MissCount >= 3 => freq_error_active'
      BY <1>2, <2>1, <2>5, MissCountStep
    <3>3. CASE since_sync = None
      BY <2>1, <3>1, <3>2, <3>3 DEF SilenceCounted
    <3>4. CASE since_sync # None /\ since_sync > ExpectedInterval(cfg["sync_interval"]) + FreqSlack
      <4>1. MissCount = Cap(m + 1, MaxCount)
        BY <3>4 DEF MissCount, m
      <4>2. CASE m >= 2
        <5>1. MissCount >= 3
          BY <2>1, <4>1, <4>2 DEF Cap
        <5> QED BY <2>1, <3>2, <5>1 DEF SilenceCounted
      <4>3. CASE m < 2
        <5>1. MissCount = m + 1
          BY <2>1, <4>1, <4>3 DEF Cap
        <5>2. PICK k \in Intervals : since_sync <= reach(k, m) + since_second
          BY <2>1, <2>3, <3>4, <4>3
        <5>3. since_sync <= ExpectedInterval(k) + FreqSlack + (m + 1) * late + 0
          BY <2>1, <2>2, <3>4, <5>2
        <5> QED BY <2>1, <3>1, <3>2, <5>1, <5>3 DEF SilenceCounted, late
      <4> QED BY <2>1, <4>2, <4>3
    <3>5. CASE since_sync # None /\ ~(since_sync > ExpectedInterval(cfg["sync_interval"]) + FreqSlack)
      <4>1. MissCount = 0
        BY <3>5 DEF MissCount
      <4>2. since_sync <= ExpectedInterval(cfg["sync_interval"]) + FreqSlack + 0 * late + 0
        BY <2>1, <3>5
      <4> QED BY <2>1, <3>1, <3>2, <4>1, <4>2 DEF SilenceCounted, late
    <3> QED BY <3>3, <3>4, <3>5
  <2>6. CASE Second
    <3>1. /\ UNCHANGED <<freq_error_miss_count, freq_error_active>>
          /\ since_second' = since_second + 1
          /\ since_sync' = IF since_sync = None THEN None ELSE Cap(since_sync + 1, MaxAge)
      BY <2>6 DEF Second
    <3>2. CASE since_sync = None \/ m >= 3
      BY <2>1, <2>3, <3>1, <3>2 DEF SilenceCounted, m
    <3>3. CASE since_sync # None /\ ~(m >= 3)
      <4>1. PICK k \in Intervals : since_sync <= reach(k, m) + since_second
        BY <2>3, <3>3
      <4>2. since_sync' <= since_sync + 1
        BY <2>1, <3>1, <3>3 DEF Cap
      <4>3. since_sync' \in Nat
        BY <2>1, <3>1, <3>3 DEF Cap
      <4>4. since_sync' <= reach(k, m) + since_second'
        BY <2>1, <2>2, <3>1, <3>3, <4>1, <4>2, <4>3
      <4> QED BY <2>1, <2>3, <3>1, <3>3, <4>4 DEF SilenceCounted, late, m
    <3> QED BY <3>2, <3>3
  <2>7. ASSUME UNCHANGED <<since_sync, freq_error_miss_count, freq_error_active, since_second>>
        PROVE  SilenceCounted'
    BY <1>2, <2>7 DEF SilenceCounted
  <2> QED
    BY <1>2, <2>4, <2>5, <2>6, <2>7
    DEF Next, vars, ParseBestMaster, reload_config, tick_minute, freqVars, timeVars
<1> QED BY <1>1, <1>2

\* No silence stays unreported for longer than the expected interval, the slack
\* and three ticks as late as they may be, however the reloads change the
\* interval: the invariant counts how the misses keep pace with the age.
THEOREM SilenceIsFlagged ==
  ASSUME WellTyped
  PROVE  Spec => []SilenceFlaggedInTime
<1>1. TypeOK /\ CfgNumbers /\ SilenceCounted => SilenceFlaggedInTime
  <2> SUFFICES ASSUME TypeOK, SilenceCounted, since_sync # None, ~freq_error_active
               PROVE  \E k \in Intervals :
                        since_sync <= ExpectedInterval(k) + FreqSlack
                                        + FreqMisses * (1 + Lateness)
    BY DEF SilenceFlaggedInTime
  <2>1. freq_error_miss_count \in {0, 1, 2}
    BY Bounds DEF SilenceCounted, TypeOK, FreqMisses
  <2>2. PICK k \in Intervals :
          since_sync <= ExpectedInterval(k) + FreqSlack
                          + freq_error_miss_count * (1 + Lateness) + since_second
    BY <2>1 DEF SilenceCounted, FreqMisses
  <2>3. ExpectedInterval(k) \in Nat /\ since_sync \in Nat
    BY IntervalsAreInts DEF TypeOK
  <2>4. since_second \in Nat /\ since_second <= 1 + Lateness /\ Lateness \in Nat
    BY Bounds DEF TypeOK
  <2>5. since_sync <= ExpectedInterval(k) + FreqSlack + FreqMisses * (1 + Lateness)
    BY <2>1, <2>2, <2>3, <2>4 DEF FreqSlack, FreqMisses
  <2> QED BY <2>5
<1> QED
  BY <1>1, Types, CfgNumbersInv, SilenceCountedInv, PTL DEF Spec

\* The age of the last Sync does not saturate below what makes an error.
AgesTold ==
  \A k \in Intervals : MaxAge >= ExpectedInterval(k) + FreqSlack + FreqMisses

\* While misses are being counted, the last Sync either came after the last
\* tick, so that the next one, unless it oversleeps, starts the count again, or
\* has been silent for a second per miss beyond the slack.
MissesEarned ==
  freq_error_miss_count > 0 =>
    /\ since_sync # None
    /\ \/ overslept
       \/ since_sync <= since_second
       \/ since_sync = MaxAge
       \/ \E k \in Intervals :
            since_sync >= ExpectedInterval(k) + FreqSlack
                            + freq_error_miss_count + since_second

LEMMA MissesEarnedInv ==
  ASSUME WellTyped
  PROVE  /\ Init => MissesEarned
         /\ TypeOK /\ CfgNumbers /\ MissesEarned /\ [Next]_vars => MissesEarned'
<1>1. Init => MissesEarned
  BY DEF Init, MissesEarned
<1>2. ASSUME TypeOK, CfgNumbers, MissesEarned, [Next]_vars PROVE MissesEarned'
  <2> DEFINE m == freq_error_miss_count
  <2>1. /\ \A k \in Intervals : ExpectedInterval(k) \in Nat
        /\ m \in Nat /\ m <= MaxCount
        /\ since_second \in Nat /\ since_second <= 1 + Lateness /\ Lateness \in Nat
        /\ since_sync # None => since_sync \in Nat /\ since_sync <= MaxAge
        /\ cfg["sync_interval"] \in Intervals
        /\ MaxCount \in Nat /\ MaxCount >= 3
        /\ MaxAge \in Nat /\ MaxAge > 0
        /\ None \notin Int /\ FreqSlack = 3
    BY <1>2, IntervalsAreInts, Bounds DEF TypeOK, CfgNumbers, FreqSlack
  <2>2. ASSUME NEW o \in Offsets, NEW s \in ServoStates, ParseOffset(o, s)
        PROVE  MissesEarned'
    BY <2>1, <2>2 DEF ParseOffset, timeVars, MissesEarned
  <2>3. CASE tick_second
    <3>1. since_sync' = since_sync /\ since_second' = 0 /\ since_second >= 1
      BY <2>3 DEF tick_second
    <3>2. freq_error_miss_count' = MissCount /\ overslept' = Overslept
      BY <1>2, <2>3, MissCountStep, AllKeysEvaluate DEF tick_second
    <3>3. CASE since_sync = None
      <4>1. MissCount = m
        BY <3>3 DEF MissCount
      <4> QED BY <1>2, <3>1, <3>2, <3>3, <4>1, <2>1 DEF MissesEarned
    <3>4. CASE since_sync # None /\ since_sync > ExpectedInterval(cfg["sync_interval"]) + FreqSlack
      <4>1. MissCount \in Nat /\ MissCount <= m + 1 /\ (m > 0 => MissCount > 1)
        BY <2>1, <3>4 DEF MissCount, Cap
      <4>2. CASE m = 0
        <5>1. since_sync >= ExpectedInterval(cfg["sync_interval"]) + FreqSlack + MissCount + 0
          BY <2>1, <3>4, <4>1, <4>2
        <5> QED BY <2>1, <3>1, <3>2, <3>4, <5>1 DEF MissesEarned
      <4>3. CASE m > 0 /\ (overslept \/ since_second > FreqSlack)
        <5>1. overslept'
          BY <3>2, <4>1, <4>3 DEF Overslept
        <5> QED BY <3>1, <3>4, <5>1 DEF MissesEarned
      <4>4. CASE m > 0 /\ since_sync = MaxAge
        BY <3>1, <3>2, <3>4, <4>4 DEF MissesEarned
      <4>5. CASE /\ m > 0 /\ since_sync # MaxAge
                 /\ ~overslept /\ ~(since_second > FreqSlack)
        <5>1. ~(since_sync <= since_second)
          BY <2>1, <3>4, <4>5
        <5>2. PICK k \in Intervals :
                since_sync >= ExpectedInterval(k) + FreqSlack + m + since_second
          BY <1>2, <4>5, <5>1 DEF MissesEarned
        <5>3. since_sync >= ExpectedInterval(k) + FreqSlack + MissCount + 0
          BY <2>1, <3>1, <3>4, <4>1, <5>2
        <5> QED BY <3>1, <3>2, <3>4, <5>3 DEF MissesEarned
      <4> QED BY <2>1, <4>2, <4>3, <4>4, <4>5
    <3>5. CASE since_sync # None /\ ~(since_sync > ExpectedInterval(cfg["sync_interval"]) + FreqSlack)
      BY <3>2, <3>5 DEF MissCount, MissesEarned
    <3> QED BY <3>3, <3>4, <3>5
  <2>4. CASE Second
    <3>1. /\ freq_error_miss_count' = m
          /\ since_second' = since_second + 1
          /\ since_sync' = IF since_sync = None THEN None ELSE Cap(since_sync + 1, MaxAge)
          /\ overslept' = overslept
      BY <2>4 DEF Second
    <3> SUFFICES ASSUME m > 0 PROVE MissesEarned'
      BY <2>1, <3>1 DEF MissesEarned
    <3>2. since_sync # None
      BY <1>2 DEF MissesEarned
    <3>3. since_sync' \in Nat /\ (since_sync' = since_sync + 1 \/ since_sync' = MaxAge)
      BY <2>1, <3>1, <3>2 DEF Cap
    <3>4. CASE since_sync' = MaxAge
      BY <2>1, <3>1, <3>3, <3>4 DEF MissesEarned
    <3>5. CASE overslept
      BY <2>1, <3>1, <3>3, <3>5 DEF MissesEarned
    <3>6. CASE since_sync' # MaxAge /\ ~overslept
      <4>1. since_sync # MaxAge
        BY <2>1, <3>1, <3>2, <3>6 DEF Cap
      <4>2. CASE since_sync <= since_second
        BY <2>1, <3>1, <3>2, <3>3, <3>6, <4>2 DEF MissesEarned
      <4>3. CASE ~(since_sync <= since_second)
        <5>1. PICK k \in Intervals :
                since_sync >= ExpectedInterval(k) + FreqSlack + m + since_second
          BY <1>2, <3>6, <4>1, <4>3 DEF MissesEarned
        <5>2. since_sync' >= ExpectedInterval(k) + FreqSlack + m + since_second'
          BY <2>1, <3>1, <3>2, <3>3, <3>6, <5>1
        <5> QED BY <2>1, <3>1, <3>3, <5>2 DEF MissesEarned
      <4> QED BY <4>2, <4>3
    <3> QED BY <3>4, <3>5, <3>6
  <2>5. ASSUME UNCHANGED <<since_sync, freq_error_miss_count, since_second, overslept>>
        PROVE  MissesEarned'
    BY <1>2, <2>5 DEF MissesEarned
  <2> QED
    BY <1>2, <2>2, <2>3, <2>4, <2>5
    DEF Next, vars, ParseBestMaster, reload_config, tick_minute, freqVars, timeVars
<1> QED BY <1>1, <1>2

-----------------------------------------------------------------------------
(* The figures on the dashboard *)

\* StatsCoverReading is about the second that has just been aggregated. While
\* samples are waiting, what makes it come true at the next tick is that the
\* current offset is the last of them.
FiguresInv ==
  /\ offset_stats \in [avg : Int, max : Int, min : Int]
  /\ StatsCoverReading
  /\ second_samples # <<>> =>
       offset_current_ns = second_samples[Len(second_samples)]

LEMMA FiguresInit == Init => FiguresInv
BY DEF Init, FiguresInv, StatsCoverReading, StatsOfReading

LEMMA FiguresStep == TypeOK /\ FiguresInv /\ [Next]_vars => FiguresInv'
<1> SUFFICES ASSUME TypeOK, FiguresInv, [Next]_vars PROVE FiguresInv'
  OBVIOUS
<1>1. ASSUME NEW o \in Offsets, NEW s \in ServoStates, ParseOffset(o, s)
      PROVE  FiguresInv'
  <2>1. second_samples \in Seq(Offsets) /\ second_samples' = Append(second_samples, o)
    BY <1>1 DEF TypeOK, ParseOffset
  <2>2. second_samples' # <<>> /\ second_samples'[Len(second_samples')] = o
    BY <2>1
  <2>3. offset_current_ns' = o /\ offset_stats' = offset_stats
    BY <1>1 DEF ParseOffset
  <2> QED BY <2>2, <2>3 DEF FiguresInv, StatsCoverReading
<1>2. CASE tick_second
  <2>1. second_samples' = <<>> /\ offset_current_ns' = offset_current_ns
    BY <1>2 DEF tick_second, AggregateSecond
  <2>2. CASE second_samples = <<>>
    <3>1. offset_stats' = offset_stats
      BY <1>2, <2>2 DEF tick_second, AggregateSecond
    <3> QED BY <2>1, <2>2, <3>1 DEF FiguresInv, StatsCoverReading
  <2>3. CASE second_samples # <<>>
    <3>1. offset_stats' = StatsOf(second_samples)
      BY <1>2, <2>3 DEF tick_second, AggregateSecond
    <3>2. second_samples \in Seq(Int)
      <4>1. Offsets \subseteq Int /\ second_samples \in Seq(Offsets)
        BY ConstantsAssumption DEF ConstantsAssumption, TypeOK
      <4> QED BY <4>1, SeqMonotonic
    <3>3. Len(second_samples) \in DOMAIN second_samples
      BY <2>3, <3>2
    <3>4. /\ offset_stats' \in [avg : Int, max : Int, min : Int]
          /\ offset_stats'.min <= offset_stats'.avg
          /\ offset_stats'.avg <= offset_stats'.max
          /\ offset_stats'.min <= offset_current_ns
          /\ offset_current_ns <= offset_stats'.max
      BY <2>3, <3>1, <3>2, <3>3, StatsAreBounds DEF FiguresInv
    <3> QED BY <2>1, <3>4 DEF FiguresInv, StatsCoverReading
  <2> QED BY <2>2, <2>3
<1>3. ASSUME UNCHANGED <<offset_current_ns, offset_stats, second_samples>>
      PROVE  FiguresInv'
  BY <1>3 DEF FiguresInv, StatsCoverReading
<1>4. ASSUME NEW g \in GmIds, ParseBestMaster(g) PROVE FiguresInv'
  BY <1>3, <1>4 DEF ParseBestMaster, sampleVars
<1>5. ASSUME NEW sec \in Sections, reload_config(sec) PROVE FiguresInv'
  BY <1>3, <1>5 DEF reload_config, sampleVars
<1>6. CASE tick_minute
  BY <1>3, <1>6 DEF tick_minute
<1>7. CASE Second
  BY <1>3, <1>7 DEF Second, sampleVars
<1>8. CASE UNCHANGED vars
  BY <1>3, <1>8 DEF vars, sampleVars
<1> QED BY <1>1, <1>2, <1>4, <1>5, <1>6, <1>7, <1>8 DEF Next

\* The average, the extremes and the current offset on the dashboard always
\* make sense together, whatever ptp4l prints and however often.
THEOREM FiguresCoverReading == Spec => []StatsCoverReading
<1>1. FiguresInv => StatsCoverReading
  BY DEF FiguresInv
<1> QED
  BY <1>1, FiguresInit, FiguresStep, Types, PTL DEF Spec

-----------------------------------------------------------------------------
(* The event log *)

LEMMA RangeOfConcat ==
  ASSUME NEW S, NEW s \in Seq(S), NEW t \in Seq(S)
  PROVE  ToSet(s \o t) = ToSet(s) \cup ToSet(t)
<1>1. /\ s \o t \in Seq(S)
      /\ Len(s \o t) = Len(s) + Len(t)
      /\ \A i \in 1..(Len(s) + Len(t)) :
           (s \o t)[i] = IF i <= Len(s) THEN s[i] ELSE t[i - Len(s)]
  BY ConcatProperties
<1>2. DOMAIN s = 1..Len(s) /\ DOMAIN t = 1..Len(t) /\ DOMAIN (s \o t) = 1..(Len(s) + Len(t))
  BY <1>1
<1>3. ASSUME NEW i \in 1..(Len(s) + Len(t)) PROVE (s \o t)[i] \in ToSet(s) \cup ToSet(t)
  BY <1>1, <1>2 DEF ToSet
<1>4. ASSUME NEW i \in 1..Len(s) PROVE s[i] \in ToSet(s \o t)
  <2>1. i \in 1..(Len(s) + Len(t)) /\ (s \o t)[i] = s[i]
    BY <1>1
  <2> QED BY <1>2, <2>1 DEF ToSet
<1>5. ASSUME NEW i \in 1..Len(t) PROVE t[i] \in ToSet(s \o t)
  <2>1. /\ i + Len(s) \in 1..(Len(s) + Len(t))
        /\ (s \o t)[i + Len(s)] = t[i]
    BY <1>1
  <2> QED BY <1>2, <2>1 DEF ToSet
<1> QED BY <1>2, <1>3, <1>4, <1>5 DEF ToSet

LEMMA RangeOfShort ==
  ASSUME NEW x
  PROVE  ToSet(<<x>>) = {x} /\ ToSet(<<>>) = {}
BY DEF ToSet

LEMMA NoEvents ==
  /\ jobs' = <<>> => EventsPut' = {}
  /\ \A stats : jobs' = <<measurement(stats)>> => EventsPut' = {}
<1>1. ASSUME jobs' = <<>> PROVE EventsPut' = {}
  BY <1>1, RangeOfShort DEF EventsPut, Jobs
<1>2. ASSUME NEW stats, jobs' = <<measurement(stats)>> PROVE EventsPut' = {}
  <2>1. Jobs' = {measurement(stats)}
    BY <1>2, RangeOfShort DEF Jobs
  <2>2. measurement(stats).kind # "event"
    BY DEF measurement
  <2> QED BY <2>1, <2>2 DEF EventsPut
<1> QED BY <1>1, <1>2

LockIsLost == Evaluates(2) /\ lock_status /\ ~NewLockStatus
OffsetBreaches == Evaluates(3) /\ BreachedNow /\ ~offset_threshold_breached
FrequencyFails == Evaluates(4) /\ MissCount >= FreqMisses /\ ~freq_error_active

\* The events of a tick are those of the three watches that fire.
LEMMA TickEvents ==
  ASSUME tick_second
  PROVE  /\ "PTP_LOCK_LOST" \in EventsPut' <=> LockIsLost
         /\ "OFFSET_THRESHOLD" \in EventsPut' <=> OffsetBreaches
         /\ "PACKET_FREQ_ERROR" \in EventsPut' <=> FrequencyFails
         /\ "GM_ID_CHANGED" \notin EventsPut'
         /\ jobs' # <<>> => jobs'[1].kind = "event"
<1> DEFINE lost == event("PTP_LOCK_LOST",
                         [previous_offset_ns |-> offset_current_ns, gm_id |-> gm_id])
           breach == event("OFFSET_THRESHOLD",
                           [offset_ns |-> offset_current_ns,
                            threshold_ns |-> cfg.offset_alert_threshold_ns])
           freq == event("PACKET_FREQ_ERROR", [packet_type |-> "sync"])
           S == {lost, breach, freq}
<1>1. /\ lost.kind = "event" /\ lost.event_type = "PTP_LOCK_LOST"
      /\ breach.kind = "event" /\ breach.event_type = "OFFSET_THRESHOLD"
      /\ freq.kind = "event" /\ freq.event_type = "PACKET_FREQ_ERROR"
  BY DEF event
<1>2. /\ LockLost = IF LockIsLost THEN <<lost>> ELSE <<>>
      /\ OffsetThreshold = IF OffsetBreaches THEN <<breach>> ELSE <<>>
      /\ PacketFreqError = IF FrequencyFails THEN <<freq>> ELSE <<>>
  BY DEF LockLost, OffsetThreshold, PacketFreqError,
         LockIsLost, OffsetBreaches, FrequencyFails
<1> HIDE DEF lost, breach, freq
<1>3. LockLost \in Seq(S) /\ OffsetThreshold \in Seq(S) /\ PacketFreqError \in Seq(S)
  <2>1. <<lost>> \in Seq(S) /\ <<breach>> \in Seq(S) /\ <<freq>> \in Seq(S)
    OBVIOUS
  <2>2. <<>> \in Seq(S)
    OBVIOUS
  <2> HIDE DEF S
  <2> QED BY <1>2, <2>1, <2>2
<1> HIDE DEF S
<1>4. /\ ToSet(LockLost) = IF LockIsLost THEN {lost} ELSE {}
      /\ ToSet(OffsetThreshold) = IF OffsetBreaches THEN {breach} ELSE {}
      /\ ToSet(PacketFreqError) = IF FrequencyFails THEN {freq} ELSE {}
  BY <1>2, RangeOfShort
<1>5. Jobs' = ToSet(LockLost) \cup ToSet(OffsetThreshold) \cup ToSet(PacketFreqError)
  <2>1. LockLost \o OffsetThreshold \in Seq(S)
    BY <1>3, ConcatProperties
  <2>2. ToSet(LockLost \o OffsetThreshold) = ToSet(LockLost) \cup ToSet(OffsetThreshold)
    BY <1>3, RangeOfConcat
  <2>3. ToSet((LockLost \o OffsetThreshold) \o PacketFreqError)
          = ToSet(LockLost \o OffsetThreshold) \cup ToSet(PacketFreqError)
    BY <1>3, <2>1, RangeOfConcat
  <2>4. jobs' = (LockLost \o OffsetThreshold) \o PacketFreqError
    BY DEF tick_second
  <2> QED BY <2>2, <2>3, <2>4 DEF Jobs
<1>6. \A type : type \in EventsPut' <=>
        \E j \in Jobs' : j.kind = "event" /\ j.event_type = type
  BY DEF EventsPut
<1>7. ASSUME jobs' # <<>> PROVE jobs'[1].kind = "event"
  <2>1. jobs' \in Seq(S)
    BY <1>3, ConcatProperties DEF tick_second
  <2>2. jobs'[1] \in Jobs'
    BY <1>7, <2>1 DEF Jobs, ToSet
  <2> QED BY <1>1, <1>4, <1>5, <2>2
<1> QED BY <1>1, <1>4, <1>5, <1>6, <1>7

LEMMA ChangeEvents ==
  ASSUME NEW g \in GmIds, ParseBestMaster(g)
  PROVE  EventsPut' = IF g # gm_id /\ gm_id # Unknown THEN {"GM_ID_CHANGED"} ELSE {}
<1> DEFINE change == event("GM_ID_CHANGED", [previous_gm_id |-> gm_id, new_gm_id |-> g])
<1>1. change.kind = "event" /\ change.event_type = "GM_ID_CHANGED"
  BY DEF event
<1>2. jobs' = IF g # gm_id /\ gm_id # Unknown THEN <<change>> ELSE <<>>
  BY DEF ParseBestMaster
<1> HIDE DEF change
<1> QED BY <1>1, <1>2, RangeOfShort DEF EventsPut, Jobs

\* However late the loop, PACKET_FREQ_ERROR is put only after three silent
\* seconds beyond the slack or by a run of misses that a tick has overslept;
\* the ages must be told far enough.
THEOREM FreqErrorIsEarned ==
  ASSUME WellTyped, AgesTold
  PROVE  Spec => FreqErrorNeedsSilence
<1> DEFINE earned ==
      /\ since_sync # None
      /\ \/ overslept'
         \/ \E k \in Intervals :
              since_sync >= ExpectedInterval(k) + FreqSlack + FreqMisses
<1>1. ASSUME TypeOK, CfgNumbers, MissesEarned, Next, "PACKET_FREQ_ERROR" \in EventsPut'
      PROVE  earned
  <2>1. tick_second
    <3>1. ASSUME NEW g \in GmIds, ParseBestMaster(g) PROVE FALSE
      BY <1>1, <3>1, ChangeEvents
    <3> QED BY <1>1, <3>1, NoEvents
            DEF Next, ParseOffset, reload_config, tick_minute, Second
  <2>2. MissCount >= 3
    BY <1>1, <2>1, TickEvents DEF FrequencyFails, FreqMisses
  <2>3. freq_error_miss_count' = MissCount /\ MissCount \in Nat
    BY <1>1, <2>1, MissCountStep, MissCountInRange
  <2>4. MissesEarned'
    BY <1>1, MissesEarnedInv
  <2>5. since_sync' = since_sync /\ since_second' = 0
    BY <2>1 DEF tick_second
  <2>6. since_sync # None /\ MissCount > 0
    BY <2>2, <2>3, <2>4, <2>5 DEF MissesEarned
  <2>7. /\ \A k \in Intervals : ExpectedInterval(k) \in Nat
        /\ since_sync \in Nat
        /\ cfg["sync_interval"] \in Intervals
    BY <1>1, <2>6, IntervalsAreInts DEF TypeOK, CfgNumbers
  <2>8. ~(since_sync <= 0)
    BY <2>6, <2>7 DEF MissCount, FreqSlack
  <2>9. CASE since_sync = MaxAge
    BY <2>6, <2>7, <2>9 DEF AgesTold
  <2>10. CASE since_sync # MaxAge /\ ~overslept'
    <3>1. PICK k \in Intervals :
            since_sync' >= ExpectedInterval(k) + FreqSlack
                             + freq_error_miss_count' + since_second'
      BY <2>3, <2>4, <2>5, <2>6, <2>8, <2>10, Bounds DEF MissesEarned
    <3>2. since_sync >= ExpectedInterval(k) + FreqSlack + FreqMisses
      BY <2>2, <2>3, <2>5, <2>7, <3>1 DEF FreqSlack, FreqMisses
    <3> QED BY <2>6, <3>2
  <2> QED BY <2>6, <2>9, <2>10
<1>2. ASSUME TypeOK, CfgNumbers, MissesEarned, [Next]_vars
      PROVE  ["PACKET_FREQ_ERROR" \in EventsPut' => earned]_vars
  BY <1>1, <1>2
<1> QED
  BY <1>2, Types, CfgNumbersInv, MissesEarnedInv, PTL DEF Spec, FreqErrorNeedsSilence

\* Every event goes with the transition it names, in every step: also when a
\* mistyped setting stops a tick half-way.
THEOREM EventsAreTransitions == Spec => EventsMatchTransitions
<1> DEFINE matches ==
      /\ "PTP_LOCK_LOST" \in EventsPut' <=> lock_status /\ ~lock_status'
      /\ "OFFSET_THRESHOLD" \in EventsPut' <=>
           ~offset_threshold_breached /\ offset_threshold_breached'
      /\ "PACKET_FREQ_ERROR" \in EventsPut' <=>
           ~freq_error_active /\ freq_error_active'
      /\ "GM_ID_CHANGED" \in EventsPut' <=> gm_id' # gm_id /\ gm_id # Unknown
<1>1. ASSUME TypeOK, Next PROVE matches
  <2>1. CASE tick_second
    <3>1. "PTP_LOCK_LOST" \in EventsPut' <=> lock_status /\ ~lock_status'
      BY <2>1, TickEvents DEF LockIsLost, tick_second, JudgeLock
    <3>2. "OFFSET_THRESHOLD" \in EventsPut' <=>
            ~offset_threshold_breached /\ offset_threshold_breached'
      BY <2>1, TickEvents DEF OffsetBreaches, tick_second, WatchOffset
    <3>3. "PACKET_FREQ_ERROR" \in EventsPut' <=> ~freq_error_active /\ freq_error_active'
      BY <2>1, TickEvents DEF FrequencyFails, tick_second, WatchFrequency
    <3>4. "GM_ID_CHANGED" \in EventsPut' <=> gm_id' # gm_id /\ gm_id # Unknown
      BY <2>1, TickEvents DEF tick_second, gmVars
    <3> QED BY <3>1, <3>2, <3>3, <3>4
  <2>2. ASSUME NEW g \in GmIds, ParseBestMaster(g) PROVE matches
    <3>1. gm_id' = g
      BY <2>2 DEF ParseBestMaster
    <3>2. UNCHANGED <<lock_status, offset_threshold_breached, freq_error_active>>
      BY <2>2 DEF ParseBestMaster, lockVars, freqVars
    <3> QED BY <2>2, <3>1, <3>2, ChangeEvents
  <2>3. ASSUME EventsPut' = {},
               UNCHANGED <<lock_status, offset_threshold_breached, freq_error_active, gm_id>>
        PROVE  matches
    BY <2>3
  <2> QED
    BY <1>1, <2>1, <2>2, <2>3, NoEvents
    DEF Next, ParseOffset, reload_config, tick_minute, Second, lockVars, freqVars, gmVars
<1>2. ASSUME TypeOK, [Next]_vars PROVE [matches]_vars
  BY <1>1, <1>2
<1> QED
  BY <1>2, Types, PTL DEF Spec, EventsMatchTransitions

-----------------------------------------------------------------------------
(* The loss of the lock *)

\* Every section asks for the same stable seconds n, and the model's counter
\* goes that far.
SameStableSeconds(n) ==
  /\ n \in Int /\ n <= MaxCount
  /\ \A sec \in Sections :
       "lock_stable_sec" \in DOMAIN sec => sec["lock_stable_sec"] = n

\* While the clock is shown as locked the count has not fallen below n.
LockIsHeld(n) ==
  cfg["lock_stable_sec"] = n /\ (lock_status => lock_stable_count >= n)

\* Reaching the count is a matter of the tick that counts: a tick that judges
\* the lock at all also stores the count it has judged.
LEMMA JudgedByCount ==
  ASSUME NEW n, SameStableSeconds(n), LockIsHeld(n), tick_second
  PROVE  /\ lock_status' => lock_stable_count' >= n
         /\ Evaluates(1) <=> Evaluates(2)
<1>1. /\ CfgKeys[1] = "lock_threshold_ns" /\ CfgKeys[2] = "lock_stable_sec"
      /\ n # Mistyped
  BY ConstantsAssumption DEF ConstantsAssumption, SameStableSeconds, CfgKeys
<1>2. Evaluates(1) <=> Evaluates(2)
  <2>1. 1..1 = {1} /\ 1..2 = {1, 2}
    OBVIOUS
  <2> QED BY <1>1, <2>1 DEF Evaluates, LockIsHeld
<1>3. CASE Evaluates(1)
  BY <1>2, <1>3 DEF tick_second, JudgeLock, NewLockStatus, LockIsHeld
<1>4. CASE ~Evaluates(1)
  BY <1>2, <1>4 DEF tick_second, JudgeLock, LockIsHeld
<1> QED BY <1>2, <1>3, <1>4

LEMMA LockIsHeldInv ==
  ASSUME NEW n, SameStableSeconds(n)
  PROVE  /\ Init => LockIsHeld(n)
         /\ TypeOK /\ LockIsHeld(n) /\ [Next]_vars => LockIsHeld(n)'
<1>1. ASSUME Init PROVE LockIsHeld(n)
  <2>1. cfg \in Sections /\ "lock_stable_sec" \in DOMAIN cfg
    BY <1>1, KeysAre DEF Init, Keys
  <2> QED BY <1>1, <2>1 DEF Init, LockIsHeld, SameStableSeconds
<1>2. ASSUME TypeOK, LockIsHeld(n), [Next]_vars PROVE LockIsHeld(n)'
  <2>1. CASE tick_second
    <3>1. cfg' = cfg
      BY <2>1 DEF tick_second
    <3> QED BY <1>2, <2>1, <3>1, JudgedByCount DEF LockIsHeld
  <2>2. ASSUME UNCHANGED <<cfg, lock_status, lock_stable_count>> PROVE LockIsHeld(n)'
    BY <1>2, <2>2 DEF LockIsHeld
  <2>3. ASSUME NEW sec \in Sections, reload_config(sec) PROVE LockIsHeld(n)'
    <3>1. "lock_stable_sec" \in Keys
      BY KeysAre
    <3>2. \/ cfg'["lock_stable_sec"] = cfg["lock_stable_sec"]
          \/ /\ "lock_stable_sec" \in DOMAIN sec
             /\ cfg'["lock_stable_sec"] = sec["lock_stable_sec"]
      BY <1>2, <2>3, <3>1, ReloadedKey
    <3>3. UNCHANGED <<lock_status, lock_stable_count>>
      BY <2>3 DEF reload_config, lockVars
    <3> QED BY <1>2, <3>2, <3>3 DEF LockIsHeld, SameStableSeconds
  <2> QED
    BY <1>2, <2>1, <2>2, <2>3
    DEF Next, vars, lockVars, ParseOffset, ParseBestMaster, tick_minute, Second
<1> QED BY <1>1, <1>2

\* PTP_LOCK_LOST is put only by a tick in whose second ptp4l's last line does
\* not say s2 or the offset is beyond the threshold, if all sections ask for
\* the same number of stable seconds; raising that number loses a good lock.
THEOREM LossIsEarned ==
  ASSUME NEW n, SameStableSeconds(n)
  PROVE  Spec => LostOnlyWhenDisqualified
<1>1. ASSUME TypeOK, LockIsHeld(n), Next, "PTP_LOCK_LOST" \in EventsPut'
      PROVE  ~Qualifies
  <2>1. tick_second
    <3>1. ASSUME NEW g \in GmIds, ParseBestMaster(g) PROVE FALSE
      BY <1>1, <3>1, ChangeEvents
    <3> QED BY <1>1, <3>1, NoEvents
            DEF Next, ParseOffset, reload_config, tick_minute, Second
  <2>2. lock_status /\ ~NewLockStatus
    BY <1>1, <2>1, TickEvents DEF LockIsLost
  <2>3. lock_stable_count >= n /\ cfg["lock_stable_sec"] = n
    BY <1>1, <2>2 DEF LockIsHeld
  <2>4. SUFFICES ASSUME Qualifies PROVE FALSE
    OBVIOUS
  <2>5. StableCount = Cap(lock_stable_count + 1, MaxCount)
    BY <2>4 DEF StableCount
  <2>6. /\ lock_stable_count \in Nat /\ MaxCount \in Nat
        /\ n \in Int /\ n <= MaxCount
    BY <1>1, Bounds DEF TypeOK, SameStableSeconds
  <2>7. Cap(lock_stable_count + 1, MaxCount) >= n
    BY <2>3, <2>6 DEF Cap
  <2> QED BY <2>2, <2>3, <2>5, <2>7 DEF NewLockStatus
<1>2. ASSUME TypeOK, LockIsHeld(n), [Next]_vars
      PROVE  ["PTP_LOCK_LOST" \in EventsPut' => ~Qualifies]_vars
  BY <1>1, <1>2
<1> QED
  BY <1>2, LockIsHeldInv, Types, PTL DEF Spec, LostOnlyWhenDisqualified

-----------------------------------------------------------------------------
(* The ledger of samples *)

ledgerPending == minute_samples \o second_samples
ledgerRow == IF jobs # <<>> /\ jobs[1].kind = "measurement" THEN jobs[1].stats ELSE None

LEMMA RowOfStep ==
  /\ jobs' = <<>> => ledgerRow' = None
  /\ \A stats : jobs' = <<measurement(stats)>> => ledgerRow' = stats
  /\ jobs' # <<>> /\ jobs'[1].kind = "event" => ledgerRow' = None
<1>1. \A stats : measurement(stats).kind = "measurement" /\ measurement(stats).stats = stats
  BY DEF measurement
<1> QED BY <1>1 DEF ledgerRow

LEMMA SplitConcat ==
  ASSUME NEW S, NEW s \in Seq(S), NEW t \in Seq(S)
  PROVE  /\ Len(s) \in 0..Len(s \o t)
         /\ SubSeq(s \o t, 1, Len(s)) = s
         /\ SubSeq(s \o t, Len(s) + 1, Len(s \o t)) = t
<1>1. /\ s \o t \in Seq(S)
      /\ Len(s \o t) = Len(s) + Len(t)
      /\ \A i \in 1..(Len(s) + Len(t)) :
           (s \o t)[i] = IF i <= Len(s) THEN s[i] ELSE t[i - Len(s)]
  BY ConcatProperties
<1>2. Len(s) \in Nat /\ Len(t) \in Nat
  OBVIOUS
<1>3. SubSeq(s \o t, 1, Len(s)) = s
  <2>1. SubSeq(s \o t, 1, Len(s)) = [i \in 1..Len(s) |-> (s \o t)[i]]
    BY <1>1, <1>2
  <2>2. \A i \in 1..Len(s) : (s \o t)[i] = s[i]
    BY <1>1, <1>2
  <2> QED BY <2>1, <2>2
<1>4. SubSeq(s \o t, Len(s) + 1, Len(s \o t)) = t
  <2>1. SubSeq(s \o t, Len(s) + 1, Len(s \o t))
          = [i \in 1..Len(t) |-> (s \o t)[Len(s) + i]]
    BY <1>1, <1>2
  <2>2. \A i \in 1..Len(t) : (s \o t)[Len(s) + i] = t[i]
    BY <1>1, <1>2
  <2> QED BY <2>1, <2>2
<1> QED BY <1>1, <1>2, <1>3, <1>4

LEMMA LedgerInit == Init => Ledger!Init
<1> SUFFICES ASSUME Init PROVE Ledger!Init
  OBVIOUS
<1>1. <<>> \o <<>> = <<>>
  OBVIOUS
<1> QED BY <1>1 DEF Init, Ledger!Init

LEMMA LedgerStep ==
  ASSUME TypeOK, TypeOK', Next
  PROVE  [Ledger!Next]_<<ledgerPending, ledgerRow>>
<1>0. minute_samples \in Seq(Offsets) /\ second_samples \in Seq(Offsets)
  BY DEF TypeOK
<1>1. ASSUME ledgerPending' = ledgerPending, ledgerRow' = None
      PROVE  Ledger!Quiet
  BY <1>1 DEF Ledger!Quiet, ledgerPending, ledgerRow
<1>2. ASSUME NEW o \in Offsets, NEW s \in ServoStates, ParseOffset(o, s)
      PROVE  Ledger!Sample
  <2>1. ledgerPending' = minute_samples \o Append(second_samples, o)
    BY <1>2 DEF ParseOffset, ledgerPending
  <2>2. ledgerPending' = Append(ledgerPending, o)
    BY <1>0, <2>1 DEF ledgerPending
  <2>3. ledgerRow' = None
    BY <1>2, RowOfStep DEF ParseOffset
  <2> QED BY <2>2, <2>3 DEF Ledger!Sample, ledgerPending, ledgerRow
<1>3. CASE tick_second
  <2>1. ledgerPending' = ledgerPending
    <3>1. (minute_samples \o second_samples) \o <<>> = minute_samples \o second_samples
      BY <1>0, ConcatProperties, ConcatEmptySeq
    <3> QED BY <1>3, <3>1 DEF tick_second, AggregateSecond, ledgerPending
  <2>2. ledgerRow' = None
    BY <1>3, TickEvents, RowOfStep
  <2> QED BY <1>1, <2>1, <2>2 DEF Ledger!Next
<1>4. CASE tick_minute
  <2> DEFINE n == Len(minute_samples)
             stats == IF minute_samples = <<>> THEN StatsOfReading(offset_current_ns)
                      ELSE StatsOf(minute_samples)
  <2>1. /\ n \in 0..Len(ledgerPending)
        /\ SubSeq(ledgerPending, 1, n) = minute_samples
        /\ SubSeq(ledgerPending, n + 1, Len(ledgerPending)) = second_samples
    BY <1>0, SplitConcat DEF ledgerPending
  <2>2. ledgerPending' = second_samples
    <3>1. <<>> \o second_samples = second_samples
      BY <1>0, ConcatEmptySeq
    <3> QED BY <1>4, <3>1 DEF tick_minute, ledgerPending
  <2>3. ledgerRow' = stats
    BY <1>4, RowOfStep DEF tick_minute
  <2>4. \/ n > 0 /\ ledgerRow' = StatsOf(SubSeq(ledgerPending, 1, n))
        \/ n = 0 /\ \E o \in Offsets \cup {0} : ledgerRow' = StatsOfReading(o)
    <3>1. CASE minute_samples = <<>>
      BY <2>3, <3>1 DEF TypeOK
    <3>2. CASE minute_samples # <<>>
      <4>1. n > 0
        BY <1>0, <3>2
      <4> QED BY <2>1, <2>3, <3>2, <4>1
    <3> QED BY <3>1, <3>2
  <2>5. Ledger!Record
    BY <2>1, <2>2, <2>4 DEF Ledger!Record, ledgerPending, ledgerRow
  <2> QED BY <2>5 DEF Ledger!Next
<1>5. ASSUME jobs' = <<>>, UNCHANGED <<minute_samples, second_samples>>
      PROVE  Ledger!Quiet
  <2>1. ledgerRow' = None
    BY <1>5, RowOfStep
  <2> QED BY <1>1, <1>5, <2>1 DEF ledgerPending
<1>6. ASSUME NEW g \in GmIds, ParseBestMaster(g) PROVE Ledger!Quiet
  <2>1. ledgerPending' = ledgerPending
    BY <1>6 DEF ParseBestMaster, sampleVars, ledgerPending
  <2>2. ledgerRow' = None
    <3> DEFINE change == event("GM_ID_CHANGED", [previous_gm_id |-> gm_id, new_gm_id |-> g])
    <3>1. change.kind = "event"
      BY DEF event
    <3>2. jobs' = <<>> \/ jobs' = <<change>>
      BY <1>6 DEF ParseBestMaster
    <3> HIDE DEF change
    <3> QED BY <3>1, <3>2, RowOfStep
  <2> QED BY <1>1, <2>1, <2>2
<1> QED
  BY <1>2, <1>3, <1>4, <1>5, <1>6
  DEF Next, reload_config, Second, sampleVars, Ledger!Next

\* Every sample is counted in one measurement row, in the order ptp4l printed
\* them: the reader implements the ledger.
THEOREM LedgerImplemented == Spec => EverySampleRecordedOnce
<1>1. TypeOK /\ TypeOK' /\ [Next]_vars
        => [Ledger!Next]_<<ledgerPending, ledgerRow>>
  <2>1. CASE UNCHANGED vars
    BY <2>1 DEF vars, sampleVars, ledgerPending, ledgerRow
  <2> QED BY <2>1, LedgerStep
<1> QED
  BY <1>1, LedgerInit, Types, PTL
  DEF Spec, EverySampleRecordedOnce, Ledger!Spec, ledgerPending, ledgerRow
=============================================================================
