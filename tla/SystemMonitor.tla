----------------------------- MODULE SystemMonitor -----------------------------
(***************************************************************************)
(* frontend/services/system_monitor.py: the buffer of log records that the *)
(* dashboard shows as the system log, and the traffic rates of the NICs.   *)
(* Both live in the memory of the process and are shared by all pages:     *)
(* each request for the status moves the sample the next rate is taken     *)
(* from. A rate is kept as the bytes it counts; dividing them by the time  *)
(* since the sample is left out.                                           *)
(***************************************************************************)
EXTENDS Integers, SequencesExt

CONSTANTS
  Records,           \* what is logged at WARNING or above
  MaxLogEntries,     \* _MAX_LOG_ENTRIES (500)
  Monitored,         \* NICs
  NoSample,          \* no entry in _prev_counters
  MaxLogged,         \* bound on the records logged in one life
  MaxBytes           \* bound on the bytes a NIC carries

ASSUME MonitorAssumption ==
  /\ MaxLogEntries \in Nat \ {0}
  /\ NoSample \notin Nat
  /\ MaxLogged \in Nat /\ MaxBytes \in Nat

VARIABLES
  log_buffer,        \* _log_buffer
  logged,            \* history: all records since the process began
  prev_counters,     \* _prev_counters, the bytes of it
  total_bytes,       \* the NIC's counter, as psutil reports it
  present,           \* psutil reports the NIC at all
  counted,           \* history: bytes all rates of this life have counted
  carried,           \* history: bytes carried since this life's first sample
  found_away         \* history: NICs away at some request of this life

logVars == <<log_buffer, logged>>
nicVars == <<total_bytes, present>>
rateVars == <<prev_counters, counted, carried, found_away>>
monitorVars == <<logVars, nicVars, rateVars>>

MonitorInit ==
  /\ log_buffer = <<>> /\ logged = <<>>
  /\ prev_counters = [n \in Monitored |-> NoSample]
  /\ total_bytes = [n \in Monitored |-> 0] /\ present = [n \in Monitored |-> TRUE]
  /\ counted = [n \in Monitored |-> 0] /\ carried = [n \in Monitored |-> 0]
  /\ found_away = {}

\* Variant: a full buffer takes no more.
BufferedFirst(buffer, record) ==
  IF Len(buffer) < MaxLogEntries THEN Append(buffer, record) ELSE buffer

\* append of a deque with a maxlen.
Buffered(buffer, record) ==
  IF Len(buffer) < MaxLogEntries THEN Append(buffer, record)
  ELSE Append(Tail(buffer), record)

emit(record) ==
  /\ Len(logged) < MaxLogged
  /\ log_buffer' = Buffered(log_buffer, record)
  /\ logged' = Append(logged, record)

\* list(_log_buffer)[-limit:], with Python's meaning of 0 and of a negative
\* limit: all, and all but the oldest.
get_recent_logs(limit) ==
  LET n == Len(log_buffer)
      from == IF limit > 0 THEN (IF limit < n THEN n - limit ELSE 0)
              ELSE IF -limit < n THEN -limit ELSE n
  IN SubSeq(log_buffer, from + 1, n)

-----------------------------------------------------------------------------

\* Traffic; and a NIC that goes away and comes back. psutil hides that its
\* counter has started anew, unless it was asked while the NIC was away.
Carry(n) ==
  /\ present[n] /\ total_bytes[n] < MaxBytes /\ carried[n] < MaxBytes
  /\ total_bytes' = [total_bytes EXCEPT ![n] = @ + 1]
  /\ carried' = IF prev_counters[n] = NoSample THEN carried
                ELSE [carried EXCEPT ![n] = @ + 1]
  /\ UNCHANGED <<logVars, present, prev_counters, counted, found_away>>

Unplug(n) ==
  /\ present[n]
  /\ present' = [present EXCEPT ![n] = FALSE]
  /\ UNCHANGED <<logVars, total_bytes, rateVars>>

Plug(n) ==
  /\ ~present[n]
  /\ present' = [present EXCEPT ![n] = TRUE]
  /\ UNCHANGED <<logVars, total_bytes, rateVars>>

\* Variants: a counter below the sample is not clipped; only the first sample
\* is kept.
RateBytesSigned(n) ==
  IF prev_counters[n] = NoSample THEN 0 ELSE total_bytes[n] - prev_counters[n]
SampleFirst(n) ==
  IF present[n] /\ prev_counters[n] = NoSample THEN total_bytes[n] ELSE prev_counters[n]

\* The bytes the rate shown for NIC n counts: max(..., 0).
RateBytes(n) ==
  IF prev_counters[n] = NoSample \/ total_bytes[n] < prev_counters[n] THEN 0
  ELSE total_bytes[n] - prev_counters[n]

Sample(n) == IF present[n] THEN total_bytes[n] ELSE prev_counters[n]

\* A NIC that is named twice is sampled twice at the same instant: the second
\* time no time has passed, which counts nothing and stores the same sample.
get_nic_status(names) ==
  /\ prev_counters' = [n \in Monitored |->
                         IF n \in names THEN Sample(n) ELSE prev_counters[n]]
  /\ counted' = [n \in Monitored |->
                   IF n \in names /\ present[n] THEN counted[n] + RateBytes(n)
                   ELSE counted[n]]
  /\ total_bytes' = [n \in Monitored |-> IF present[n] THEN total_bytes[n] ELSE 0]
  /\ found_away' = found_away \cup {n \in Monitored : ~present[n]}
  /\ UNCHANGED <<logVars, present, carried>>

\* The process ends; what it remembers is gone.
ForgetMonitor ==
  /\ log_buffer' = <<>> /\ logged' = <<>>
  /\ prev_counters' = [n \in Monitored |-> NoSample]
  /\ counted' = [n \in Monitored |-> 0] /\ carried' = [n \in Monitored |-> 0]
  /\ found_away' = {}
  /\ UNCHANGED nicVars

Traffic == \E n \in Monitored : Carry(n) \/ Unplug(n) \/ Plug(n)

-----------------------------------------------------------------------------
(* Correctness *)

MonitorTypeOK ==
  /\ log_buffer \in Seq(Records) /\ Len(log_buffer) <= MaxLogEntries
  /\ logged \in Seq(Records)
  /\ prev_counters \in [Monitored -> Nat \cup {NoSample}]
  /\ total_bytes \in [Monitored -> Nat] /\ present \in [Monitored -> BOOLEAN]
  /\ counted \in [Monitored -> Nat] /\ carried \in [Monitored -> Nat]
  /\ found_away \subseteq Monitored

\* The answer is the n records logged last, or as many of them as there are
\* and the buffer keeps.
IsLatest(answer, n) ==
  /\ IsSuffix(answer, logged)
  /\ Len(answer) = Min({n, MaxLogEntries, Len(logged)})

\* GET /api/system/log with a positive limit answers the latest records, as
\* many as asked for: none older in the place of a newer one that the full
\* buffer did not take or the slice left out.
AnswersAreNewest ==
  \A limit \in 1..(MaxLogEntries + 1) : IsLatest(get_recent_logs(limit), limit)

\* The documentation of GET /api/system/log, "the latest N entries", for every
\* N, 0 as well.
LatestForEveryLimit ==
  \A limit \in 0..(MaxLogEntries + 1) : IsLatest(get_recent_logs(limit), limit)

\* The bytes since the sample: what the next rate is going to count.
Pending(n) == IF prev_counters[n] = NoSample THEN 0 ELSE total_bytes[n] - prev_counters[n]

\* However many pages ask, and although each moves the sample of the others,
\* all rates together count each byte once; of a NIC that a request found
\* away, whose counter starts again, no byte twice.
TrafficCountedOnce ==
  \A n \in Monitored :
    IF n \in found_away THEN counted[n] <= carried[n]
    ELSE counted[n] + Pending(n) = carried[n]
=============================================================================
