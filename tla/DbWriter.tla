------------------------------- MODULE DbWriter -------------------------------
(***************************************************************************)
(* frontend/services/db_writer.py and the two handlers of                  *)
(* frontend/routers/ptp.py that meet it, GET and DELETE /api/ptp/log.      *)
(*                                                                         *)
(* Two threads: the event loop, which puts jobs, reads the tables and, in  *)
(* DELETE, blocks until its clear is done or five seconds are over; and    *)
(* the db-writer thread, which takes one job at a time and commits it in a *)
(* transaction of its own.                                                 *)
(*                                                                         *)
(* A job keeps, of its payload, only its era: how many DELETEs had been    *)
(* answered when it was put. For a clear that is the number of its call.   *)
(***************************************************************************)
EXTENDS Integers, SequencesExt

CONSTANTS
  None,           \* no job in hand
  MaxQueue,       \* bound on the jobs waiting
  MaxRows,        \* bound on the rows in the tables
  MaxDeletes      \* bound on the DELETE calls

ASSUME BoundsAssumption ==
  MaxQueue \in Nat /\ MaxRows \in Nat /\ MaxDeletes \in Nat

RowKinds == {"measurement", "event"}
Jobs == [kind : RowKinds \cup {"clear"}, era : 0..MaxDeletes]

ASSUME NoneAssumption == None \notin Jobs

VARIABLES
  queue,          \* _write_queue
  writer,         \* the db-writer thread: absent, idle, busy, signalling (in the
                  \* finally clause), dying (there too, with an exception), dead
  job,            \* the job _process holds
  measurements, events,      \* the two tables, as committed
  loop,           \* the event loop: free, waiting (DELETE) or reading (GET)
  done_event,     \* of the DELETE that waits
  seen,           \* the measurements GET has read
  answered,       \* DELETEs answered so far
  applied,        \* history: the waiting DELETE's clear has been committed
  confirmed       \* history: the last DELETE answered with its clear committed

tables == <<measurements, events>>
threadVars == <<writer, job>>
loopVars == <<loop, done_event, seen, answered, applied, confirmed>>
vars == <<queue, threadVars, tables, loopVars>>

Init ==
  /\ queue = <<>>
  /\ writer = "absent" /\ job = None
  /\ measurements = <<>> /\ events = <<>>
  /\ loop = "free" /\ done_event = FALSE /\ seen = <<>>
  /\ answered = 0 /\ applied = FALSE /\ confirmed = 0

\* Variant: the newest job first.
put_first(j) == queue' = <<j>> \o queue

put_nowait(j) == queue' = Append(queue, j)

-----------------------------------------------------------------------------
\* The event loop. While DELETE waits or GET reads, no other handler runs.

\* start(), called by run() once the configuration has been read; if that
\* fails it never comes. A thread that has died is not started again.
start ==
  /\ loop = "free" /\ writer = "absent"
  /\ writer' = "idle"
  /\ UNCHANGED <<queue, job, tables, loopVars>>

\* enqueue_measurement, enqueue_event: called by the loops that run() begins
\* after start().
enqueue(kind) ==
  /\ loop = "free" /\ writer # "absent" /\ Len(queue) < MaxQueue
  /\ Len(queue) + Len(measurements) + Len(events) < MaxRows
  /\ put_nowait([kind |-> kind, era |-> answered])
  /\ UNCHANGED <<threadVars, tables, loopVars>>

\* Variant: DELETE does not hold the event loop while it waits.
clear_logs_nowait ==
  /\ loop = "free" /\ answered < MaxDeletes
  /\ put_nowait([kind |-> "clear", era |-> answered])
  /\ done_event' = FALSE /\ applied' = FALSE
  /\ UNCHANGED <<threadVars, tables, loop, seen, answered, confirmed>>

clear_logs ==
  /\ loop = "free" /\ answered < MaxDeletes
  /\ put_nowait([kind |-> "clear", era |-> answered])
  /\ loop' = "waiting"
  /\ done_event' = FALSE /\ applied' = FALSE
  /\ UNCHANGED <<threadVars, tables, seen, answered, confirmed>>

\* DELETE answers "cleared" in either case.
Answer ==
  /\ loop' = "free"
  /\ answered' = answered + 1
  /\ confirmed' = IF applied THEN answered + 1 ELSE confirmed
  /\ UNCHANGED <<queue, threadVars, tables, done_event, seen, applied>>

ClearDone == loop = "waiting" /\ done_event /\ Answer

\* Variant: wait() without a timeout.
ClearNoTimeout == FALSE

ClearTimeout == loop = "waiting" /\ ~done_event /\ Answer

\* GET runs two SELECTs; between them the writer thread may commit.
ReadMeasurements ==
  /\ loop = "free"
  /\ loop' = "reading"
  /\ seen' = measurements
  /\ UNCHANGED <<queue, threadVars, tables, done_event, answered, applied, confirmed>>

ReadEvents ==
  /\ loop = "reading"
  /\ loop' = "free"
  /\ seen' = <<>>
  /\ UNCHANGED <<queue, threadVars, tables, done_event, answered, applied, confirmed>>

-----------------------------------------------------------------------------
\* The db-writer thread: _writer_loop and _process.

Take ==
  /\ writer = "idle" /\ queue # <<>>
  /\ job' = Head(queue)
  /\ queue' = Tail(queue)
  /\ writer' = "busy"
  /\ UNCHANGED <<tables, loopVars>>

\* Variant: a clear forgets the events.
CommitHalfClear ==
  /\ writer = "busy"
  /\ \/ /\ job.kind = "measurement"
        /\ measurements' = Append(measurements, job)
        /\ UNCHANGED <<events, applied>>
     \/ /\ job.kind = "event"
        /\ events' = Append(events, job)
        /\ UNCHANGED <<measurements, applied>>
     \/ /\ job.kind = "clear"
        /\ measurements' = <<>> /\ UNCHANGED events
        /\ applied' = (applied \/ (loop = "waiting" /\ job.era = answered))
  /\ writer' = "signalling"
  /\ UNCHANGED <<queue, job, loop, done_event, seen, answered, confirmed>>

\* One transaction per job; a clear deletes from both tables in one.
Commit ==
  /\ writer = "busy"
  /\ \/ /\ job.kind = "measurement"
        /\ measurements' = Append(measurements, job)
        /\ UNCHANGED <<events, applied>>
     \/ /\ job.kind = "event"
        /\ events' = Append(events, job)
        /\ UNCHANGED <<measurements, applied>>
     \/ /\ job.kind = "clear"
        /\ measurements' = <<>> /\ events' = <<>>
        /\ applied' = (applied \/ (loop = "waiting" /\ job.era = answered))
  /\ writer' = "signalling"
  /\ UNCHANGED <<queue, job, loop, done_event, seen, answered, confirmed>>

\* Variant: a job that failed is put back in front, to be tried again.
FailRetried ==
  /\ writer = "busy"
  /\ queue' = <<job>> \o queue
  /\ writer' = "idle" /\ job' = None
  /\ UNCHANGED <<tables, loopVars>>

\* Any exception: rolled back, logged, not tried again; or rollback() raises
\* as well, which nothing catches.
Fail ==
  /\ writer = "busy"
  /\ writer' \in {"signalling", "dying"}
  /\ UNCHANGED <<queue, job, tables, loopVars>>

\* Variant: the thread keeps hold of the job.
SignalKeepingJob ==
  /\ writer \in {"signalling", "dying"}
  /\ done_event' = (done_event \/ (/\ job.kind = "clear"
                                   /\ loop = "waiting" /\ job.era = answered))
  /\ writer' = IF writer = "dying" THEN "dead" ELSE "idle"
  /\ UNCHANGED <<queue, job, tables, loop, seen, answered, applied, confirmed>>

\* The finally clause: the event is set whether the job was done or not. A
\* clear whose DELETE has been answered sets an event nobody waits for.
Signal ==
  /\ writer \in {"signalling", "dying"}
  /\ done_event' = (done_event \/ (/\ job.kind = "clear"
                                   /\ loop = "waiting" /\ job.era = answered))
  /\ writer' = IF writer = "dying" THEN "dead" ELSE "idle"
  /\ job' = None
  /\ UNCHANGED <<queue, tables, loop, seen, answered, applied, confirmed>>

\* SessionLocal() or close() raises: neither is caught, and no event is set.
Die ==
  /\ writer \in {"busy", "signalling", "dying"}
  /\ writer' = "dead" /\ job' = None
  /\ UNCHANGED <<queue, tables, loopVars>>

-----------------------------------------------------------------------------
\* The process ends, by os._exit, a reboot or a kill, and comes back: what was
\* committed is all there is. stop() has no caller, so nothing is drained.
Crash ==
  /\ queue' = <<>>
  /\ writer' = "absent" /\ job' = None
  /\ loop' = "free" /\ done_event' = FALSE /\ seen' = <<>> /\ applied' = FALSE
  /\ UNCHANGED <<tables, answered, confirmed>>

Next ==
  \/ start
  \/ \E kind \in RowKinds : enqueue(kind)
  \/ clear_logs \/ ClearDone \/ ClearTimeout
  \/ ReadMeasurements \/ ReadEvents
  \/ Take \/ Commit \/ Fail \/ Signal \/ Die
  \/ Crash

Spec == Init /\ [][Next]_vars

\* The thread, once started, goes on, unless it dies; wait() returns; a handler
\* that has begun to read ends. Nobody is bound to put, to delete or to crash.
Fairness ==
  /\ WF_vars(Take) /\ WF_vars(Commit \/ Fail) /\ WF_vars(Signal)
  /\ WF_vars(ClearDone \/ ClearTimeout) /\ WF_vars(ReadEvents)

FairSpec == Spec /\ Fairness

-----------------------------------------------------------------------------
(* Correctness *)

\* The job that has been taken and not yet committed or given up.
InHand == IF writer = "busy" THEN <<job>> ELSE <<>>
Waiting == InHand \o queue

ClearOf(call) == [kind |-> "clear", era |-> call]

\* The shape of the state.
TypeOK ==
  /\ queue \in Seq(Jobs)
  /\ writer \in {"absent", "idle", "busy", "signalling", "dying", "dead"}
  /\ job \in Jobs \cup {None}
  /\ job = None <=> writer \in {"absent", "idle", "dead"}
  /\ measurements \in Seq(Jobs) /\ events \in Seq(Jobs)
  /\ loop \in {"free", "waiting", "reading"}
  /\ done_event \in BOOLEAN /\ applied \in BOOLEAN
  /\ seen \in Seq(Jobs)
  /\ answered \in 0..MaxDeletes /\ confirmed \in 0..MaxDeletes
  /\ loop = "waiting" => answered < MaxDeletes

\* A DELETE whose clear was committed before it was answered is final: nothing
\* put before it is in the tables or still on its way to them, across later
\* timeouts, failures and crashes.
ClearedStaysCleared ==
  \A s \in {measurements, events, Waiting} :
    \A i \in DOMAIN s : s[i].era >= confirmed

\* GET does not report measurements that a clear has removed by the time it
\* reads the events, unless an earlier DELETE was answered before its clear
\* was done.
ReadNotTorn ==
  loop = "reading" /\ answered = confirmed => IsPrefix(seen, measurements)

\* The documentation of clear_logs: it waits for the clear to be done.
DeleteAnsweredWhenDone ==
  [][ answered' > answered => applied ]_vars

\* A clear that was put is carried out or given up in the end, unless the
\* thread was never started or has died.
ClearHandled ==
  (\E i \in DOMAIN Waiting : Waiting[i].kind = "clear")
    ~> (writer \in {"absent", "dead"} \/ ~\E i \in DOMAIN Waiting : Waiting[i].kind = "clear")

\* The event loop is never blocked for good.
LoopFreed == loop # "free" ~> loop = "free"

\* The writer implements the store it stands for.
Store == INSTANCE LogStore WITH todo <- Waiting

WriterImplementsStore == Store!Spec
=============================================================================
