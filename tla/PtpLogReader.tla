----------------------------- MODULE PtpLogReader -----------------------------
(***************************************************************************)
(* frontend/services/ptp_log_reader.py: the task that follows ptp4l's log, *)
(* keeps the PTP status in memory, decides every second whether the clock  *)
(* is locked, and puts measurements and events on the database writer's    *)
(* queue.                                                                  *)
(*                                                                         *)
(* Every handler runs under one asyncio lock on one event loop, so each is *)
(* one action. jobs is what the last handler put on the queue.             *)
(*                                                                         *)
(* Time is counted in whole seconds. A loop that sleeps n seconds runs its *)
(* handler n seconds later at the earliest and n + Lateness at the latest. *)
(***************************************************************************)
EXTENDS OffsetStats

CONSTANTS
  Offsets,         \* offsets ptp4l prints, in ns
  ServoStates,     \* the digit of s0, s1, s2, ...
  GmIds,           \* grandmaster ids, as the parts between the dots
  Sections,        \* the "ptp" sections config.json holds when it is reloaded
  Mistyped,        \* a section value that is not a number
  None,            \* Python's None, and the absence of a value
  MinutePeriod,    \* seconds the minute loop sleeps (60 in the code)
  Lateness,        \* bound on how late a sleeping loop is resumed
  MaxBurst,        \* bound on the samples of one second
  MaxCount,        \* bound at which the two counters saturate
  MaxAge           \* bound at which the age of the last Sync saturates

\* The keys of _cfg, in the order reload_config assigns them, which is also
\* the order _tick_second evaluates them in.
CfgKeys == <<"lock_threshold_ns", "lock_stable_sec",
             "offset_alert_threshold_ns", "sync_interval">>

\* "unknown".split(".") is one part long; a clock id has three.
Unknown == <<"unknown">>

FreqSlack == 3      \* seconds beyond the expected interval
FreqMisses == 3     \* late seconds in a row that make an error

ASSUME ConstantsAssumption ==
  /\ Offsets \subseteq Int
  /\ ServoStates \subseteq 0..9
  /\ \A g \in GmIds : Len(g) = 3
  /\ \A sec \in Sections :
       \E K \in SUBSET ToSet(CfgKeys) : sec \in [K -> Int \cup {Mistyped}]
  /\ Mistyped \notin Int
  /\ None \notin Int
  /\ MinutePeriod \in Nat \ {0}
  /\ Lateness \in Nat
  /\ MaxBurst \in Nat \ {0}
  /\ MaxCount \in Nat /\ MaxCount >= FreqMisses
  /\ MaxAge \in Nat \ {0}

VARIABLES
  lock_status, gm_id, source_id,              \* _state
  offset_current_ns, offset_stats, lock_stable_count,
  second_samples, minute_samples,             \* working variables
  sync_state,
  since_sync,                 \* seconds since _last_sync_seen_at, or None
  freq_error_miss_count, freq_error_active, offset_threshold_breached,
  cfg,                                        \* _cfg
  since_second, since_minute, \* seconds each loop has slept
  overslept,                  \* history: see tick_second
  jobs                        \* put on the writer's queue by the last handler

sampleVars == <<offset_current_ns, offset_stats, second_samples, minute_samples>>
lockVars == <<lock_status, lock_stable_count, sync_state>>
gmVars == <<gm_id, source_id>>
freqVars == <<since_sync, freq_error_miss_count, freq_error_active, overslept>>
timeVars == <<since_second, since_minute>>
vars == <<sampleVars, lockVars, gmVars, freqVars, offset_threshold_breached,
          cfg, timeVars, jobs>>

Cap(n, bound) == IF n > bound THEN bound ELSE n
Abs(n) == IF n < 0 THEN -n ELSE n

\* 2 ** sync_interval, a fraction of a second if the interval is negative.
\* Seconds being whole, elapsed > fraction + 3 and elapsed > 3 are the same.
ExpectedInterval(k) == IF k < 0 THEN 0 ELSE 2^k

\* The Sync intervals the configuration can name.
Intervals ==
  {sec.sync_interval : sec \in {s \in Sections : "sync_interval" \in DOMAIN s}}

measurement(stats) ==
  [kind |-> "measurement", lock_status |-> lock_status, gm_id |-> gm_id,
   source_id |-> source_id, stats |-> stats]

event(type, detail) ==
  [kind |-> "event", event_type |-> type, detail |-> detail]

\* run() has loaded the configuration: a section without one of the keys
\* ends the task, so the loops only ever start with a complete one.
Init ==
  /\ lock_status = FALSE
  /\ gm_id = Unknown /\ source_id = Unknown
  /\ offset_current_ns = 0 /\ offset_stats = StatsOfReading(0)
  /\ lock_stable_count = 0
  /\ second_samples = <<>> /\ minute_samples = <<>>
  /\ sync_state = 0
  /\ since_sync = None
  /\ freq_error_miss_count = 0 /\ freq_error_active = FALSE /\ overslept = FALSE
  /\ offset_threshold_breached = FALSE
  /\ cfg \in {sec \in Sections : DOMAIN sec = ToSet(CfgKeys)}
  /\ since_second = 0 /\ since_minute = 0
  /\ jobs = <<>>

\* reload_config assigns key by key; the first missing one raises KeyError and
\* leaves the rest as they were.
Assigned(sec) ==
  {CfgKeys[i] : i \in {i \in 1..Len(CfgKeys) :
                         \A j \in 1..i : CfgKeys[j] \in DOMAIN sec}}

reload_config(sec) ==
  /\ cfg' = [k \in DOMAIN cfg |-> IF k \in Assigned(sec) THEN sec[k] ELSE cfg[k]]
  /\ jobs' = <<>>
  /\ UNCHANGED <<sampleVars, lockVars, gmVars, freqVars,
                 offset_threshold_breached, timeVars>>

-----------------------------------------------------------------------------
\* _parse_line. Any other line, a port state change included, changes nothing.

\* Pattern A: "master offset <o> s<s> freq ..."
ParseOffset(o, s) ==
  /\ Len(second_samples) < MaxBurst
  /\ sync_state' = s
  /\ second_samples' = Append(second_samples, o)
  /\ offset_current_ns' = o
  /\ since_sync' = 0
  /\ jobs' = <<>>
  /\ UNCHANGED <<lock_status, gmVars, offset_stats, lock_stable_count,
                 minute_samples, freq_error_miss_count, freq_error_active,
                 overslept, offset_threshold_breached, cfg, timeVars>>

derive_source_id(g) == IF Len(g) # 3 THEN Unknown ELSE <<g[1], g[3]>>

\* Pattern B: "selected best master clock <g>"
ParseBestMaster(g) ==
  /\ gm_id' = g
  /\ source_id' = derive_source_id(g)
  /\ jobs' = IF g # gm_id /\ gm_id # Unknown
             THEN <<event("GM_ID_CHANGED",
                          [previous_gm_id |-> gm_id, new_gm_id |-> g])>>
             ELSE <<>>
  /\ UNCHANGED <<sampleVars, lockVars, freqVars, offset_threshold_breached,
                 cfg, timeVars>>

-----------------------------------------------------------------------------
\* _tick_second: aggregate, judge the lock, look for the two alarms. A
\* mistyped value raises TypeError where it is evaluated: what comes before
\* has been done, what comes after is not, and the loop logs and goes on.

\* The tick evaluates the first n keys of _cfg without raising.
Evaluates(n) == \A i \in 1..n : cfg[CfgKeys[i]] # Mistyped

Qualifies ==
  sync_state = 2 /\ Abs(offset_current_ns) <= cfg.lock_threshold_ns

\* Variants of StableCount that the runs refuse: the count decays instead of
\* starting again; it is kept; a second without samples does not count.
StableCountDecays ==
  IF Qualifies THEN Cap(lock_stable_count + 1, MaxCount) ELSE lock_stable_count - 1

StableCountKept ==
  IF Qualifies THEN Cap(lock_stable_count + 1, MaxCount) ELSE lock_stable_count

StableCountNeedsSample ==
  IF Qualifies /\ second_samples # <<>>
  THEN Cap(lock_stable_count + 1, MaxCount) ELSE 0

StableCount ==
  IF Qualifies THEN Cap(lock_stable_count + 1, MaxCount) ELSE 0

\* Variant: == for >=.
NewLockStatusExactly == StableCount = cfg.lock_stable_sec

NewLockStatus == StableCount >= cfg.lock_stable_sec

BreachedNow == Abs(offset_current_ns) > cfg.offset_alert_threshold_ns

\* Variant: a Sync in time does not start the count again.
MissCountKept ==
  IF since_sync = None THEN freq_error_miss_count
  ELSE IF since_sync > ExpectedInterval(cfg.sync_interval) + FreqSlack
       THEN Cap(freq_error_miss_count + 1, MaxCount)
       ELSE freq_error_miss_count

MissCount ==
  IF since_sync = None THEN freq_error_miss_count
  ELSE IF since_sync > ExpectedInterval(cfg.sync_interval) + FreqSlack
       THEN Cap(freq_error_miss_count + 1, MaxCount)
       ELSE 0

\* Variant: the event is put before lock_stable_sec has been looked at.
LockLostEarly ==
  IF Evaluates(1) /\ lock_status /\ ~Qualifies
  THEN <<event("PTP_LOCK_LOST",
               [previous_offset_ns |-> offset_current_ns, gm_id |-> gm_id])>>
  ELSE <<>>

LockLost ==
  IF Evaluates(2) /\ lock_status /\ ~NewLockStatus
  THEN <<event("PTP_LOCK_LOST",
               [previous_offset_ns |-> offset_current_ns, gm_id |-> gm_id])>>
  ELSE <<>>

\* Variant: no edge detection.
OffsetThresholdLevel ==
  IF Evaluates(3) /\ BreachedNow
  THEN <<event("OFFSET_THRESHOLD",
               [offset_ns |-> offset_current_ns,
                threshold_ns |-> cfg.offset_alert_threshold_ns])>>
  ELSE <<>>

OffsetThreshold ==
  IF Evaluates(3) /\ BreachedNow /\ ~offset_threshold_breached
  THEN <<event("OFFSET_THRESHOLD",
               [offset_ns |-> offset_current_ns,
                threshold_ns |-> cfg.offset_alert_threshold_ns])>>
  ELSE <<>>

PacketFreqError ==
  IF Evaluates(4) /\ MissCount >= FreqMisses /\ ~freq_error_active
  THEN <<event("PACKET_FREQ_ERROR", [packet_type |-> "sync"])>>
  ELSE <<>>

\* Variants: the figures of the second are taken of the minute; the minute's
\* samples are replaced by the second's.
AggregateMinute ==
  /\ offset_stats' = IF minute_samples = <<>> THEN offset_stats
                     ELSE StatsOf(minute_samples)
  /\ minute_samples' = minute_samples \o second_samples
  /\ second_samples' = <<>>

AggregateReplacing ==
  /\ offset_stats' = IF second_samples = <<>> THEN offset_stats
                     ELSE StatsOf(second_samples)
  /\ minute_samples' = second_samples
  /\ second_samples' = <<>>

AggregateSecond ==
  /\ offset_stats' = IF second_samples = <<>> THEN offset_stats
                     ELSE StatsOf(second_samples)
  /\ minute_samples' = minute_samples \o second_samples
  /\ second_samples' = <<>>

JudgeLock ==
  /\ lock_stable_count' = IF Evaluates(1) THEN StableCount ELSE lock_stable_count
  /\ lock_status' = IF Evaluates(2) THEN NewLockStatus ELSE lock_status

WatchOffset ==
  offset_threshold_breached' =
    IF Evaluates(3) THEN BreachedNow ELSE offset_threshold_breached

\* Variants: > for >= where the flag is set; the flag is never taken back.
WatchFrequencyLate ==
  IF Evaluates(4)
  THEN /\ freq_error_miss_count' = MissCount
       /\ freq_error_active' = \/ MissCount > FreqMisses
                               \/ MissCount # 0 /\ freq_error_active
  ELSE UNCHANGED <<freq_error_miss_count, freq_error_active>>

WatchFrequencyLatched ==
  IF Evaluates(4)
  THEN /\ freq_error_miss_count' = MissCount
       /\ freq_error_active' = (MissCount >= FreqMisses \/ freq_error_active)
  ELSE UNCHANGED <<freq_error_miss_count, freq_error_active>>

\* The miss count leaves active alone while it is 1 or 2.
WatchFrequency ==
  IF Evaluates(4)
  THEN /\ freq_error_miss_count' = MissCount
       /\ freq_error_active' = \/ MissCount >= FreqMisses
                               \/ MissCount # 0 /\ freq_error_active
  ELSE UNCHANGED <<freq_error_miss_count, freq_error_active>>

\* overslept: of the ticks that have carried on the present run of misses, one
\* came so late that a Sync seen since the tick before it was too old by then.
Overslept == MissCount > 1 /\ (overslept \/ since_second > FreqSlack)

tick_second ==
  /\ since_second >= 1
  /\ AggregateSecond
  /\ JudgeLock
  /\ WatchOffset
  /\ WatchFrequency
  /\ overslept' = IF Evaluates(4) THEN Overslept ELSE overslept
  /\ jobs' = LockLost \o OffsetThreshold \o PacketFreqError
  /\ since_second' = 0
  /\ UNCHANGED <<offset_current_ns, sync_state, gmVars, since_sync, cfg, since_minute>>

\* _tick_minute: one measurement row over the samples of the minute, or over
\* the last reading when there were none.
tick_minute ==
  /\ since_minute >= MinutePeriod
  /\ jobs' = <<measurement(IF minute_samples = <<>>
                           THEN StatsOfReading(offset_current_ns)
                           ELSE StatsOf(minute_samples))>>
  /\ minute_samples' = <<>>
  /\ since_minute' = 0
  /\ UNCHANGED <<offset_current_ns, offset_stats, second_samples, lockVars, gmVars,
                 freqVars, offset_threshold_breached, cfg, since_second>>

-----------------------------------------------------------------------------
\* One second goes by. No loop is kept waiting longer than Lateness.
Second ==
  /\ since_second < 1 + Lateness
  /\ since_minute < MinutePeriod + Lateness
  /\ since_second' = since_second + 1
  /\ since_minute' = since_minute + 1
  /\ since_sync' = IF since_sync = None THEN None ELSE Cap(since_sync + 1, MaxAge)
  /\ jobs' = <<>>
  /\ UNCHANGED <<sampleVars, lockVars, gmVars, freq_error_miss_count,
                 freq_error_active, overslept, offset_threshold_breached, cfg>>

Next ==
  \/ \E o \in Offsets, s \in ServoStates : ParseOffset(o, s)
  \/ \E g \in GmIds : ParseBestMaster(g)
  \/ \E sec \in Sections : reload_config(sec)
  \/ tick_second
  \/ tick_minute
  \/ Second

Spec == Init /\ [][Next]_vars

\* Time goes on and the event loop resumes a task that is due: nothing else is
\* promised, ptp4l may fall silent at any moment.
Fairness ==
  /\ WF_vars(Second)
  /\ WF_vars(tick_second)
  /\ WF_vars(tick_minute)

FairSpec == Spec /\ Fairness

-----------------------------------------------------------------------------
(* Correctness *)

Jobs == ToSet(jobs)
EventsPut == {j.event_type : j \in {j \in Jobs : j.kind = "event"}}

Number == Int \cup {Mistyped}

\* Every variable stays in the range the code's types give it, and the source
\* id is always the one that belongs to the grandmaster id.
TypeOK ==
  /\ lock_status \in BOOLEAN
  /\ gm_id \in {Unknown} \cup GmIds /\ source_id = derive_source_id(gm_id)
  /\ offset_current_ns \in Offsets \cup {0}
  /\ lock_stable_count \in 0..MaxCount
  /\ second_samples \in Seq(Offsets) /\ minute_samples \in Seq(Offsets)
  /\ sync_state \in 0..9
  /\ since_sync \in 0..MaxAge \cup {None}
  /\ freq_error_miss_count \in 0..MaxCount
  /\ freq_error_active \in BOOLEAN /\ overslept \in BOOLEAN
  /\ offset_threshold_breached \in BOOLEAN
  /\ cfg \in [ToSet(CfgKeys) -> Number]
  /\ since_second \in 0..(1 + Lateness)
  /\ since_minute \in 0..(MinutePeriod + Lateness)

\* The figures shown together make sense together: the average lies between
\* the extremes, and once the second's samples are aggregated so does the
\* current offset, also after seconds in which ptp4l printed nothing.
StatsCoverReading ==
  /\ offset_stats.min <= offset_stats.avg /\ offset_stats.avg <= offset_stats.max
  /\ second_samples = <<>> =>
       /\ offset_stats.min <= offset_current_ns
       /\ offset_current_ns <= offset_stats.max

\* No silence goes unreported for long: when the last Sync is older than the
\* expected interval, the slack and three ticks as late as they may be, the
\* error is active, whatever reloads and other lines came in between.
SilenceFlaggedInTime ==
  \/ since_sync = None
  \/ freq_error_active
  \/ \E k \in Intervals :
       since_sync <= ExpectedInterval(k) + FreqSlack + FreqMisses * (1 + Lateness)

\* And no short one is reported, however late the loop: PACKET_FREQ_ERROR is
\* only put when the last three ticks all found the same Sync too old, unless
\* one of them had been kept waiting longer than the slack (as DELETE can, by
\* holding the event loop up to five seconds).
FreqErrorNeedsSilence ==
  [][ "PACKET_FREQ_ERROR" \in EventsPut' =>
        /\ since_sync # None
        /\ \/ overslept'
           \/ \E k \in Intervals :
                since_sync >= ExpectedInterval(k) + FreqSlack + FreqMisses ]_vars

\* The event log and the status never disagree: a step puts an event exactly
\* when it makes the transition the event names, also a step that a bad
\* setting cuts short.
EventsMatchTransitions ==
  [][ /\ "PTP_LOCK_LOST" \in EventsPut' <=> lock_status /\ ~lock_status'
      /\ "OFFSET_THRESHOLD" \in EventsPut' <=>
           ~offset_threshold_breached /\ offset_threshold_breached'
      /\ "PACKET_FREQ_ERROR" \in EventsPut' <=>
           ~freq_error_active /\ freq_error_active'
      /\ "GM_ID_CHANGED" \in EventsPut' <=> gm_id' # gm_id /\ gm_id # Unknown ]_vars

\* A judgement that comes out "locked" is made in a second in which ptp4l's
\* last line says s2 and the offset is within the threshold (the AND of the
\* comment on line 136).
LockedOnlyWhenQualified ==
  [][ tick_second /\ Evaluates(2) /\ lock_status' => Qualifies ]_vars

\* A lock is reported lost only in a second that does not qualify, as long as
\* lock_stable_sec is not changed while it is held.
LostOnlyWhenDisqualified ==
  [][ "PTP_LOCK_LOST" \in EventsPut' => ~Qualifies ]_vars

\* A clock that stays good is shown as locked, from some second on.
SteadyClockLocks == <>[]Qualifies => <>[]lock_status

\* Sync lines that keep coming end the frequency error.
SyncStreamClearsError ==
  <>[](since_sync # None /\ since_sync <= FreqSlack) => <>[]~freq_error_active

\* Every sample ends up in exactly one measurement row, in order: the log
\* reader implements SampleLedger.
Ledger == INSTANCE SampleLedger WITH
  pending <- minute_samples \o second_samples,
  NoRow <- None, StatsOf <- StatsOf, StatsOfReading <- StatsOfReading,
  row <- IF jobs # <<>> /\ jobs[1].kind = "measurement" THEN jobs[1].stats ELSE None

EverySampleRecordedOnce == Ledger!Spec
=============================================================================
