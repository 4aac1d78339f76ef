------------------------------ MODULE MCSettings ------------------------------
(***************************************************************************)
(* Constants for the runs of Settings.                                     *)
(***************************************************************************)
EXTENDS Settings

Section(domain, interval, threshold) ==
  [domain |-> domain, sync_interval |-> interval, lock_threshold_ns |-> threshold]

\* A field that is only rendered, one that is only read, and none.
MCPatches == {[domain |-> 0], [lock_threshold_ns |-> 800], <<>>}

\* The shipped section, and imports that lack what is rendered or what is read.
MCSections ==
  {Section(127, -7, 500),
   [sync_interval |-> -3, lock_threshold_ns |-> 900],
   [domain |-> 127, sync_interval |-> -3]}
=============================================================================
