------------------------------- MODULE LogStore -------------------------------
(***************************************************************************)
(* What the database writer promises of the PTP log: jobs take effect one  *)
(* at a time, each as a whole and in the order they were put. A job may be *)
(* dropped, and a crash drops all that are waiting; a row that is in the   *)
(* log leaves it by a clear alone.                                         *)
(***************************************************************************)
EXTENDS Sequences

CONSTANT Jobs      \* records with a kind, which a row keeps

VARIABLES todo, measurements, events

Init == todo = <<>> /\ measurements = <<>> /\ events = <<>>

Put ==
  /\ \E j \in Jobs : todo' = Append(todo, j)
  /\ UNCHANGED <<measurements, events>>

Insert ==
  /\ todo # <<>>
  /\ \/ /\ Head(todo).kind = "measurement"
        /\ measurements' = Append(measurements, Head(todo))
        /\ UNCHANGED events
     \/ /\ Head(todo).kind = "event"
        /\ events' = Append(events, Head(todo))
        /\ UNCHANGED measurements
  /\ todo' = Tail(todo)

Clear ==
  /\ todo # <<>> /\ Head(todo).kind = "clear"
  /\ measurements' = <<>> /\ events' = <<>>
  /\ todo' = Tail(todo)

Drop ==
  /\ todo # <<>>
  /\ todo' = Tail(todo)
  /\ UNCHANGED <<measurements, events>>

Crash == todo' = <<>> /\ UNCHANGED <<measurements, events>>

Next == Put \/ Insert \/ Clear \/ Drop \/ Crash

Spec == Init /\ [][Next]_<<todo, measurements, events>>
=============================================================================
