----------------------------- MODULE SampleLedger -----------------------------
(***************************************************************************)
(* What the log reader promises about offset samples: each one is counted  *)
(* in exactly one measurement row, in the order ptp4l printed them.        *)
(*                                                                         *)
(* pending holds the samples no row has counted yet; row is the row        *)
(* written by the last step, NoRow if that step wrote none.                *)
(***************************************************************************)
EXTENDS Integers, Sequences

CONSTANTS
  Offsets, NoRow,
  StatsOf(_), StatsOfReading(_)   \* the figures of a list, of one reading

VARIABLES pending, row

Init == pending = <<>> /\ row = NoRow

Sample ==
  /\ \E o \in Offsets : pending' = Append(pending, o)
  /\ row' = NoRow

\* A row counts the oldest n pending samples. A row over no sample at all
\* repeats some earlier reading.
Record ==
  \E n \in 0..Len(pending) :
    /\ pending' = SubSeq(pending, n + 1, Len(pending))
    /\ \/ n > 0 /\ row' = StatsOf(SubSeq(pending, 1, n))
       \/ n = 0 /\ \E o \in Offsets \cup {0} : row' = StatsOfReading(o)

Quiet == row' = NoRow /\ UNCHANGED pending

Next == Sample \/ Record \/ Quiet

Spec == Init /\ [][Next]_<<pending, row>>
=============================================================================
