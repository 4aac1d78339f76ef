------------------------------ MODULE OffsetStats ------------------------------
(***************************************************************************)
(* The three figures the reader computes from a list of offset samples     *)
(* (ns), once per second for the dashboard and once per minute for the     *)
(* measurement log: average, maximum, minimum.                             *)
(***************************************************************************)
EXTENDS Integers, SequencesExt

\* sum(samples) // len(samples) floors, as \div does: the average of -3 and 0
\* is -2.
StatsOf(samples) ==
  [avg |-> SumFunction(samples) \div Len(samples),
   max |-> Max(ToSet(samples)),
   min |-> Min(ToSet(samples))]

\* The figures of a single reading, used when there is no sample at all.
StatsOfReading(offset) == [avg |-> offset, max |-> offset, min |-> offset]
=============================================================================
