---------------------------- MODULE MCPtpLogReader ----------------------------
(***************************************************************************)
(* Constants for the runs of PtpLogReader.                                 *)
(***************************************************************************)
EXTENDS PtpLogReader

CONSTANTS a, b   \* vendor and serial parts of the grandmasters' ids

MCGmIds == {<<a, "fffe", a>>, <<a, "fffe", b>>}
MCOneGm == {<<a, "fffe", a>>}

Section(threshold, stable, alert, interval) ==
  [lock_threshold_ns |-> threshold, lock_stable_sec |-> stable,
   offset_alert_threshold_ns |-> alert, sync_interval |-> interval]

\* Within both thresholds, beyond the alert one, beyond both, and negative.
MCOffsets == {-700, 3, 501}
MCTwoOffsets == {-700, 3}

\* Within one of the two thresholds of each section below.
MCBetween == {501}

\* The shipped settings with a lower stable count, and a slower Sync.
MCSections == {Section(500, 2, 600, -7), Section(600, 2, 500, 0)}

\* Settings an import can leave behind: a key missing, a value that is no number.
MCDamagedSections ==
  {Section(500, 2, 500, -7),
   [lock_threshold_ns |-> 800, lock_stable_sec |-> 1],
   Section(500, 2, Mistyped, -7),
   Section(500, Mistyped, 500, -7),
   Section(500, 2, 500, Mistyped)}

\* The number field of the settings page left empty is sent as 0.
MCZeroStable == {Section(500, 0, 500, -7)}
=============================================================================
