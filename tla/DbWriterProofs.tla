----------------------------- MODULE DbWriterProofs -----------------------------
(***************************************************************************)
(* Proofs about DbWriter, for every value of its constants: the writer is  *)
(* a FIFO store whose jobs are atomic, a DELETE that was answered with its *)
(* clear committed is final, and one that neither times out nor fails is   *)
(* answered so.                                                            *)
(***************************************************************************)
EXTENDS DbWriter, SequenceTheorems, TLAPS

-----------------------------------------------------------------------------
(* Sequences of jobs *)

LEMMA JobType ==
  ASSUME NEW j \in Jobs
  PROVE  /\ j.kind \in {"measurement", "event", "clear"}
         /\ j.era \in 0..MaxDeletes
         /\ j # None
BY NoneAssumption DEF Jobs, RowKinds

LEMMA HeadBack ==
  ASSUME NEW q \in Seq(Jobs), q # <<>>
  PROVE  <<Head(q)>> \o Tail(q) = q
<1> DEFINE t == <<Head(q)>> \o Tail(q)
<1>1. /\ Head(q) \in Jobs /\ Tail(q) \in Seq(Jobs)
      /\ Len(Tail(q)) = Len(q) - 1
      /\ \A i \in 1..Len(Tail(q)) : Tail(q)[i] = q[i + 1]
  BY HeadTailProperties
<1>2. <<Head(q)>> \in Seq(Jobs) /\ Len(<<Head(q)>>) = 1 /\ <<Head(q)>>[1] = q[1]
  BY <1>1
<1>3. Len(q) \in Nat /\ Len(Tail(q)) \in Nat
  BY <1>1, LenProperties
<1>4. /\ t \in Seq(Jobs) /\ Len(t) = Len(q)
      /\ \A i \in 1..Len(q) : t[i] = IF i <= 1 THEN <<Head(q)>>[i] ELSE Tail(q)[i - 1]
  BY <1>1, <1>2, <1>3, ConcatProperties
<1>5. \A i \in 1..Len(q) : t[i] = q[i]
  BY <1>1, <1>2, <1>3, <1>4
<1> QED
  BY <1>4, <1>5, SeqEqual

LEMMA InFront ==
  ASSUME NEW j \in Jobs, NEW q \in Seq(Jobs)
  PROVE  /\ <<j>> \o q \in Seq(Jobs) /\ <<j>> \o q # <<>>
         /\ Head(<<j>> \o q) = j /\ Tail(<<j>> \o q) = q
         /\ (<<j>> \o q)[1] = j
<1> DEFINE t == <<j>> \o q
<1>1. <<j>> \in Seq(Jobs) /\ Len(<<j>>) = 1 /\ <<j>>[1] = j
  OBVIOUS
<1>2. Len(q) \in Nat
  BY LenProperties
<1>3. /\ t \in Seq(Jobs) /\ Len(t) = 1 + Len(q)
      /\ \A i \in 1..(1 + Len(q)) : t[i] = IF i <= 1 THEN <<j>>[i] ELSE q[i - 1]
  BY <1>1, ConcatProperties
<1>4. t # <<>>
  BY <1>2, <1>3, EmptySeq
<1>5. t[1] = j
  BY <1>1, <1>2, <1>3
<1>6. Head(t) = t[1]
  OBVIOUS
<1>7. /\ Tail(t) \in Seq(Jobs) /\ Len(Tail(t)) = Len(q)
      /\ \A i \in 1..Len(q) : Tail(t)[i] = t[i + 1]
  BY <1>2, <1>3, <1>4, HeadTailProperties
<1>8. \A i \in 1..Len(q) : Tail(t)[i] = q[i]
  BY <1>2, <1>3, <1>7
<1>9. Tail(t) = q
  BY <1>7, <1>8, SeqEqual
<1> QED
  BY <1>3, <1>4, <1>5, <1>6, <1>9

-----------------------------------------------------------------------------
(* What each step does to the jobs that wait *)

LEMMA WaitingType ==
  ASSUME TypeOK
  PROVE  Waiting \in Seq(Jobs)
<1>1. CASE writer = "busy"
  BY <1>1, InFront DEF TypeOK, Waiting, InHand
<1>2. CASE writer # "busy"
  BY <1>2, ConcatEmptySeq DEF TypeOK, Waiting, InHand
<1> QED BY <1>1, <1>2

LEMMA PutAppends ==
  ASSUME TypeOK, NEW j \in Jobs, put_nowait(j), UNCHANGED threadVars
  PROVE  Waiting' = Append(Waiting, j)
<1>1. queue' = queue \o <<j>>
  BY AppendIsConcat DEF TypeOK, put_nowait
<1>2. InHand' = InHand
  BY DEF threadVars, InHand
<1>3. InHand \in Seq(Jobs)
  BY DEF TypeOK, InHand
<1>4. InHand \o (queue \o <<j>>) = (InHand \o queue) \o <<j>>
  <2>1. queue \in Seq(Jobs) /\ <<j>> \in Seq(Jobs)
    BY DEF TypeOK
  <2> QED BY <1>3, <2>1, ConcatAssociative
<1>5. Waiting \o <<j>> = Append(Waiting, j)
  BY WaitingType, AppendIsConcat
<1> QED
  BY <1>1, <1>2, <1>4, <1>5 DEF Waiting

LEMMA TakeKeeps ==
  ASSUME TypeOK, Take
  PROVE  Waiting' = Waiting
<1>1. Waiting = queue
  BY ConcatEmptySeq DEF TypeOK, Take, Waiting, InHand
<1>2. Waiting' = <<Head(queue)>> \o Tail(queue)
  BY DEF Take, Waiting, InHand
<1> QED
  BY <1>1, <1>2, HeadBack DEF TypeOK, Take

LEMMA HandEmptied ==
  ASSUME TypeOK, Commit \/ Fail \/ (Die /\ writer = "busy")
  PROVE  /\ job \in Jobs
         /\ Waiting # <<>> /\ Head(Waiting) = job /\ Waiting[1] = job
         /\ Waiting' = Tail(Waiting)
<1>1. writer = "busy" /\ writer' # "busy" /\ queue' = queue
  BY DEF Commit, Fail, Die
<1>2. job \in Jobs /\ queue \in Seq(Jobs)
  BY <1>1 DEF TypeOK
<1>3. Waiting = <<job>> \o queue
  BY <1>1 DEF Waiting, InHand
<1>4. Waiting' = queue
  BY <1>1, <1>2, ConcatEmptySeq DEF Waiting, InHand
<1> QED
  BY <1>2, <1>3, <1>4, InFront

LEMMA WaitingKept ==
  ASSUME \/ start \/ ClearDone \/ ClearTimeout
         \/ ReadMeasurements \/ ReadEvents \/ Signal \/ UNCHANGED vars
         \/ Die /\ writer # "busy"
  PROVE  Waiting' = Waiting
BY DEF start, ClearDone, ClearTimeout, Answer, ReadMeasurements, ReadEvents,
       Signal, Die, vars, threadVars, Waiting, InHand

LEMMA CrashEmpties ==
  ASSUME Crash
  PROVE  Waiting' = <<>>
BY DEF Crash, Waiting, InHand

-----------------------------------------------------------------------------
(* Type correctness *)

LEMMA InitTypeOK == Init => TypeOK
<1> SUFFICES ASSUME Init PROVE TypeOK
  OBVIOUS
<1>1. 0 \in 0..MaxDeletes
  BY BoundsAssumption DEF BoundsAssumption
<1>2. <<>> \in Seq(Jobs)
  OBVIOUS
<1>3. /\ queue \in Seq(Jobs) /\ measurements \in Seq(Jobs)
      /\ events \in Seq(Jobs) /\ seen \in Seq(Jobs)
  BY <1>2 DEF Init
<1>4. answered \in 0..MaxDeletes /\ confirmed \in 0..MaxDeletes
  BY <1>1 DEF Init
<1>5. writer = "absent" /\ job = None /\ loop = "free"
  BY DEF Init
<1>6. done_event \in BOOLEAN /\ applied \in BOOLEAN
  BY DEF Init
<1> QED
  BY <1>3, <1>4, <1>5, <1>6 DEF TypeOK

LEMMA StepTypeOK ==
  ASSUME TypeOK, [Next]_vars
  PROVE  TypeOK'
<1> USE BoundsAssumption DEF BoundsAssumption
<1>1. \A kind \in {"measurement", "event", "clear"} :
        [kind |-> kind, era |-> answered] \in Jobs
  BY DEF TypeOK, Jobs, RowKinds
<1>2. CASE start
  BY <1>2 DEF TypeOK, start, tables, loopVars
<1>3. ASSUME NEW kind \in RowKinds, enqueue(kind) PROVE TypeOK'
  <2>1. queue' \in Seq(Jobs)
    BY <1>1, <1>3, AppendProperties DEF TypeOK, enqueue, put_nowait, RowKinds
  <2> QED BY <1>3, <2>1 DEF TypeOK, enqueue, threadVars, tables, loopVars
<1>4. CASE clear_logs
  <2>1. queue' \in Seq(Jobs)
    BY <1>1, <1>4, AppendProperties DEF TypeOK, clear_logs, put_nowait
  <2> QED BY <1>4, <2>1 DEF TypeOK, clear_logs, threadVars, tables
<1>5. CASE ClearDone \/ ClearTimeout
  <2>1. answered + 1 \in 0..MaxDeletes
    BY <1>5 DEF TypeOK, ClearDone, ClearTimeout, Answer
  <2>2. confirmed' \in 0..MaxDeletes /\ answered' \in 0..MaxDeletes
    BY <1>5, <2>1 DEF TypeOK, ClearDone, ClearTimeout, Answer
  <2> QED
    BY <1>5, <2>2 DEF TypeOK, ClearDone, ClearTimeout, Answer, threadVars, tables
<1>6. CASE ReadMeasurements \/ ReadEvents
  <2>1. seen' \in {measurements, <<>>} /\ loop' \in {"free", "reading"}
        /\ UNCHANGED <<queue, writer, job, measurements, events, done_event,
                       answered, applied, confirmed>>
    BY <1>6 DEF ReadMeasurements, ReadEvents, threadVars, tables
  <2>2. seen' \in Seq(Jobs)
    <3>1. measurements \in Seq(Jobs) /\ <<>> \in Seq(Jobs)
      BY DEF TypeOK
    <3> QED BY <2>1, <3>1
  <2> QED BY <2>1, <2>2 DEF TypeOK
<1>7. CASE Take
  <2>1. job' \in Jobs /\ queue' \in Seq(Jobs)
    BY <1>7, HeadTailProperties DEF TypeOK, Take
  <2> QED BY <1>7, <2>1, JobType DEF TypeOK, Take, tables, loopVars
<1>8. CASE Commit
  <2>1. job \in Jobs
    BY <1>8, HandEmptied
  <2>2. measurements' \in Seq(Jobs) /\ events' \in Seq(Jobs)
    <3>1. \A s \in Seq(Jobs) : Append(s, job) \in Seq(Jobs)
      BY <2>1, AppendProperties
    <3>2. /\ measurements' \in {measurements, Append(measurements, job), <<>>}
          /\ events' \in {events, Append(events, job), <<>>}
      BY <1>8 DEF Commit
    <3>3. measurements \in Seq(Jobs) /\ events \in Seq(Jobs) /\ <<>> \in Seq(Jobs)
      BY DEF TypeOK
    <3> QED BY <3>1, <3>2, <3>3
  <2>3. applied' \in BOOLEAN
    BY <1>8 DEF TypeOK, Commit
  <2>4. job # None /\ writer' = "signalling"
        /\ UNCHANGED <<queue, job, loop, done_event, seen, answered, confirmed>>
    BY <1>8, <2>1, JobType DEF Commit
  <2> QED BY <2>1, <2>2, <2>3, <2>4 DEF TypeOK
<1>9. CASE Fail
  BY <1>9, HandEmptied, JobType DEF TypeOK, Fail, tables, loopVars
<1>10. CASE Signal
  <2>1. done_event' \in BOOLEAN
    BY <1>10 DEF TypeOK, Signal
  <2>2. writer' \in {"idle", "dead"} /\ job' = None
        /\ UNCHANGED <<queue, measurements, events, loop, seen, answered,
                       applied, confirmed>>
    BY <1>10 DEF Signal, tables
  <2>3. /\ queue' \in Seq(Jobs) /\ measurements' \in Seq(Jobs)
        /\ events' \in Seq(Jobs) /\ seen' \in Seq(Jobs)
    BY <2>2 DEF TypeOK
  <2>4. /\ applied' \in BOOLEAN /\ loop' \in {"free", "waiting", "reading"}
        /\ answered' \in 0..MaxDeletes /\ confirmed' \in 0..MaxDeletes
        /\ loop' = "waiting" => answered' < MaxDeletes
    BY <2>2 DEF TypeOK
  <2>5. /\ writer' \in {"absent", "idle", "busy", "signalling", "dying", "dead"}
        /\ job' \in Jobs \cup {None}
        /\ (job' = None <=> writer' \in {"absent", "idle", "dead"})
    BY <2>2
  <2> QED BY <2>1, <2>3, <2>4, <2>5 DEF TypeOK
<1>11. CASE Crash
  <2>1. /\ queue' = <<>> /\ seen' = <<>> /\ writer' = "absent" /\ job' = None
        /\ loop' = "free" /\ done_event' = FALSE /\ applied' = FALSE
        /\ UNCHANGED <<measurements, events, answered, confirmed>>
    BY <1>11 DEF Crash, tables
  <2>2. <<>> \in Seq(Jobs)
    OBVIOUS
  <2>3. /\ queue' \in Seq(Jobs) /\ seen' \in Seq(Jobs)
        /\ measurements' \in Seq(Jobs) /\ events' \in Seq(Jobs)
    BY <2>1, <2>2 DEF TypeOK
  <2>4. done_event' \in BOOLEAN /\ applied' \in BOOLEAN
    BY <2>1
  <2> QED BY <2>1, <2>3, <2>4 DEF TypeOK
<1>12. CASE Die
  BY <1>12 DEF TypeOK, Die, tables, loopVars
<1>13. CASE UNCHANGED vars
  BY <1>13 DEF TypeOK, vars, threadVars, tables, loopVars
<1> QED
  BY <1>2, <1>3, <1>4, <1>5, <1>6, <1>7, <1>8, <1>9, <1>10, <1>11, <1>12, <1>13 DEF Next

\* The state keeps its shape: the types, and that the thread holds a job
\* exactly while it works on one.
THEOREM Types == Spec => []TypeOK
<1>1. Init => TypeOK
  BY InitTypeOK
<1>2. TypeOK /\ [Next]_vars => TypeOK'
  BY StepTypeOK
<1> QED BY <1>1, <1>2, PTL DEF Spec

-----------------------------------------------------------------------------
(* The store the writer implements *)

LEMMA StoreStep ==
  ASSUME TypeOK, [Next]_vars
  PROVE  [Store!Next]_<<Waiting, measurements, events>>
<1> DEFINE Same == UNCHANGED <<Waiting, measurements, events>>
<1>1. \A kind \in {"measurement", "event", "clear"} :
        [kind |-> kind, era |-> answered] \in Jobs
  BY DEF TypeOK, Jobs, RowKinds
<1>2. ASSUME NEW j \in Jobs, put_nowait(j), UNCHANGED threadVars, UNCHANGED tables
      PROVE  Store!Next
  BY <1>2, PutAppends DEF tables, Store!Next, Store!Put
<1>3. ASSUME NEW kind \in RowKinds, enqueue(kind) PROVE Store!Next
  BY <1>1, <1>2, <1>3 DEF enqueue, RowKinds
<1>4. CASE clear_logs
  BY <1>1, <1>2, <1>4 DEF clear_logs
<1>5. CASE \/ start \/ ClearDone \/ ClearTimeout
           \/ ReadMeasurements \/ ReadEvents \/ Signal \/ UNCHANGED vars
           \/ Die /\ writer # "busy"
  <2>1. UNCHANGED tables
    BY <1>5 DEF start, ClearDone, ClearTimeout, Answer, ReadMeasurements,
                ReadEvents, Signal, Die, vars
  <2> QED BY <1>5, <2>1, WaitingKept DEF tables
<1>6. CASE Take
  BY <1>6, TakeKeeps DEF Take, tables
<1>7. CASE Commit
  <2>1. /\ Waiting # <<>> /\ Head(Waiting) = job
        /\ Waiting' = Tail(Waiting)
    BY <1>7, HandEmptied
  <2>2. CASE job.kind = "clear"
    BY <1>7, <2>1, <2>2 DEF Commit, Store!Next, Store!Clear
  <2>3. CASE job.kind # "clear"
    BY <1>7, <2>1, <2>3 DEF Commit, Store!Next, Store!Insert
  <2> QED BY <2>2, <2>3
<1>8. CASE Fail \/ (Die /\ writer = "busy")
  BY <1>8, HandEmptied DEF Fail, Die, tables, Store!Next, Store!Drop
<1>9. CASE Crash
  BY <1>9, CrashEmpties DEF Crash, tables, Store!Next, Store!Crash
<1> QED
  BY <1>3, <1>4, <1>5, <1>6, <1>7, <1>8, <1>9 DEF Next

\* Whatever the bounds, and however puts, timeouts, failures and crashes fall:
\* jobs take effect one at a time, as a whole, in the order they were put, and
\* a row leaves the log by a clear alone (_writer_loop and _process).
THEOREM StoreImplemented == Spec => WriterImplementsStore
<1>1. Init => Store!Init
  BY DEF Init, Store!Init, Waiting, InHand
<1>2. TypeOK /\ [Next]_vars => [Store!Next]_<<Waiting, measurements, events>>
  BY StoreStep
<1> QED
  BY <1>1, <1>2, Types, PTL DEF Spec, WriterImplementsStore, Store!Spec

-----------------------------------------------------------------------------
(* A confirmed clear is final *)

\* No job of s was put before DELETE number n was answered.
Recent(s, n) == \A i \in DOMAIN s : s[i].era >= n

\* No job comes from a DELETE that is yet to be made, and the clear of the
\* next one to be answered waits only while that DELETE does, behind all the
\* others.
CallersClearLast ==
  \A i \in DOMAIN Waiting :
    /\ Waiting[i].era <= answered
    /\ Waiting[i] = ClearOf(answered) => loop = "waiting" /\ i = Len(Waiting)

\* When it has been committed, nothing put before it is left anywhere.
NothingLeft ==
  loop = "waiting" /\ applied =>
    Waiting = <<>> /\ measurements = <<>> /\ events = <<>>

\* The inductive invariant.
ClearInv ==
  /\ TypeOK
  /\ confirmed <= answered
  /\ Recent(measurements, confirmed) /\ Recent(events, confirmed)
  /\ Recent(Waiting, confirmed)
  /\ CallersClearLast
  /\ NothingLeft

LEMMA RecentAppend ==
  ASSUME NEW s \in Seq(Jobs), NEW j \in Jobs, NEW n \in Nat,
         Recent(s, n), j.era >= n
  PROVE  Recent(Append(s, j), n)
BY AppendProperties, LenProperties DEF Recent

LEMMA RecentTail ==
  ASSUME NEW s \in Seq(Jobs), NEW n \in Nat, Recent(s, n), s # <<>>
  PROVE  Recent(Tail(s), n) /\ s[1].era >= n
<1>1. /\ DOMAIN s = 1..Len(s) /\ Len(s) \in Nat \ {0}
      /\ DOMAIN Tail(s) = 1..(Len(s) - 1)
      /\ \A i \in 1..(Len(s) - 1) : Tail(s)[i] = s[i + 1]
  BY HeadTailProperties, LenProperties, EmptySeq
<1> QED BY <1>1 DEF Recent

LEMMA InitClearInv == Init => ClearInv
<1> SUFFICES ASSUME Init PROVE ClearInv
  OBVIOUS
<1>1. Waiting = <<>>
  BY DEF Init, Waiting, InHand
<1> QED
  BY <1>1, InitTypeOK DEF Init, ClearInv, Recent, CallersClearLast, NothingLeft

\* A job that is put: behind the others, as recent as can be.
LEMMA PutClearInv ==
  ASSUME ClearInv, TypeOK', NEW j \in Jobs, put_nowait(j),
         UNCHANGED <<threadVars, tables, answered, confirmed>>,
         loop = "free", j.era = answered,
         loop' = "waiting" => ~applied',
         j = ClearOf(answered) => loop' = "waiting"
  PROVE  ClearInv'
<1>1. Waiting' = Append(Waiting, j) /\ Waiting \in Seq(Jobs)
  BY PutAppends, WaitingType DEF ClearInv
<1>2. confirmed \in Nat /\ answered \in Nat /\ confirmed <= answered
  BY BoundsAssumption DEF ClearInv, TypeOK
<1>3. Recent(Waiting, confirmed)'
  BY <1>1, <1>2, RecentAppend DEF ClearInv
<1>4. CallersClearLast'
  <2>1. /\ DOMAIN Waiting = 1..Len(Waiting) /\ Len(Waiting) \in Nat
        /\ DOMAIN Waiting' = 1..(Len(Waiting) + 1)
        /\ Len(Waiting') = Len(Waiting) + 1
        /\ \A i \in 1..Len(Waiting) : Waiting'[i] = Waiting[i]
        /\ Waiting'[Len(Waiting) + 1] = j
    BY <1>1, AppendProperties, LenProperties
  <2>2. ClearOf(answered)' = ClearOf(answered) /\ answered' = answered
    BY DEF ClearOf
  <2>3. SUFFICES ASSUME NEW i \in DOMAIN Waiting'
                 PROVE  /\ Waiting'[i].era <= answered
                        /\ Waiting'[i] = ClearOf(answered) =>
                             loop' = "waiting" /\ i = Len(Waiting')
    BY <2>2 DEF CallersClearLast
  <2>4. CASE i = Len(Waiting) + 1
    BY <1>2, <2>1, <2>4
  <2>5. CASE i # Len(Waiting) + 1
    <3>1. i \in DOMAIN Waiting /\ Waiting'[i] = Waiting[i]
      BY <2>1, <2>5
    <3> QED BY <3>1 DEF ClearInv, CallersClearLast
  <2> QED BY <2>4, <2>5
<1> QED
  BY <1>3, <1>4 DEF ClearInv, tables, Recent, NothingLeft

\* A job that has been committed or given up: the others move up.
LEMMA TailCallersClearLast ==
  ASSUME ClearInv, Waiting # <<>>, Waiting' = Tail(Waiting),
         UNCHANGED <<answered, loop>>
  PROVE  CallersClearLast'
<1>1. Waiting \in Seq(Jobs)
  BY WaitingType DEF ClearInv
<1>2. /\ DOMAIN Waiting = 1..Len(Waiting) /\ Len(Waiting) \in Nat \ {0}
      /\ DOMAIN Waiting' = 1..(Len(Waiting) - 1)
      /\ Len(Waiting') = Len(Waiting) - 1
      /\ \A i \in 1..(Len(Waiting) - 1) : Waiting'[i] = Waiting[i + 1]
  BY <1>1, HeadTailProperties, LenProperties, EmptySeq
<1>3. ClearOf(answered)' = ClearOf(answered)
  BY DEF ClearOf
<1>4. SUFFICES ASSUME NEW i \in DOMAIN Waiting'
               PROVE  /\ Waiting'[i].era <= answered
                      /\ Waiting'[i] = ClearOf(answered) =>
                           loop = "waiting" /\ i = Len(Waiting')
  BY <1>3 DEF CallersClearLast
<1>5. i + 1 \in DOMAIN Waiting /\ Waiting'[i] = Waiting[i + 1]
  BY <1>2
<1> QED
  BY <1>2, <1>5 DEF ClearInv, CallersClearLast

LEMMA CommitClearInv ==
  ASSUME ClearInv, TypeOK', Commit
  PROVE  ClearInv'
<1>1. /\ job \in Jobs /\ Waiting \in Seq(Jobs)
      /\ Waiting # <<>> /\ Waiting[1] = job
      /\ Waiting' = Tail(Waiting)
  BY HandEmptied, WaitingType DEF ClearInv
<1>2. UNCHANGED <<answered, confirmed, loop>>
  BY DEF Commit
<1>3. confirmed \in Nat
  BY BoundsAssumption DEF ClearInv, TypeOK
<1>4. Recent(Waiting, confirmed)' /\ job.era >= confirmed
  BY <1>1, <1>2, <1>3, RecentTail DEF ClearInv, Recent
<1>5. CallersClearLast'
  BY <1>1, <1>2, TailCallersClearLast
<1>6. Recent(measurements, confirmed)' /\ Recent(events, confirmed)'
  <2>1. \A s \in Seq(Jobs) : Recent(s, confirmed) => Recent(Append(s, job), confirmed)
    BY <1>1, <1>3, <1>4, RecentAppend
  <2>2. measurements' \in {measurements, Append(measurements, job), <<>>}
        /\ events' \in {events, Append(events, job), <<>>}
    BY DEF Commit
  <2>3. Recent(<<>>, confirmed)
    BY DEF Recent
  <2>4. /\ Recent(measurements, confirmed) /\ Recent(events, confirmed)
        /\ measurements \in Seq(Jobs) /\ events \in Seq(Jobs)
    BY DEF ClearInv, TypeOK
  <2>5. Recent(measurements', confirmed) /\ Recent(events', confirmed)
    BY <2>1, <2>2, <2>3, <2>4
  <2> QED BY <1>2, <2>5 DEF Recent
<1>7. NothingLeft'
  <2> SUFFICES ASSUME loop' = "waiting", applied'
               PROVE  Waiting' = <<>> /\ measurements' = <<>> /\ events' = <<>>
    BY DEF NothingLeft
  <2>1. ~applied
    BY <1>1, <1>2 DEF ClearInv, NothingLeft
  <2>2. job.kind = "clear" /\ job.era = answered /\ measurements' = <<>> /\ events' = <<>>
    BY <2>1 DEF Commit, ClearInv, TypeOK
  <2>3. job = ClearOf(answered)
    BY <1>1, <2>2 DEF Jobs, ClearOf
  <2>4. 1 \in DOMAIN Waiting /\ Len(Waiting) \in Nat
    BY <1>1, LenProperties, EmptySeq
  <2>5. Len(Waiting) = 1
    BY <1>1, <2>3, <2>4 DEF ClearInv, CallersClearLast
  <2>6. Tail(Waiting) \in Seq(Jobs) /\ Len(Tail(Waiting)) = 0
    BY <1>1, <2>5, HeadTailProperties
  <2>7. Waiting' = <<>>
    BY <1>1, <2>6, EmptySeq
  <2> QED BY <2>2, <2>7
<1> QED
  BY <1>2, <1>4, <1>5, <1>6, <1>7 DEF ClearInv

\* A step that neither moves a job nor answers.
LEMMA StillClearInv ==
  ASSUME ClearInv, TypeOK', Waiting' = Waiting,
         UNCHANGED <<tables, answered, confirmed>>,
         loop = "waiting" => loop' = "waiting",
         loop' = "waiting" => loop = "waiting" /\ applied' = applied
  PROVE  ClearInv'
<1>1. ClearOf(answered)' = ClearOf(answered)
  BY DEF ClearOf
<1> QED
  BY <1>1 DEF ClearInv, tables, Recent, CallersClearLast, NothingLeft

\* An answer, with the clear committed or not.
LEMMA AnswerClearInv ==
  ASSUME ClearInv, TypeOK', Waiting' = Waiting, loop = "waiting", Answer
  PROVE  ClearInv'
<1>1. /\ confirmed \in Nat /\ answered \in Nat /\ answered' = answered + 1
      /\ confirmed' = IF applied THEN answered + 1 ELSE confirmed
      /\ UNCHANGED tables /\ loop' = "free"
  BY BoundsAssumption DEF ClearInv, TypeOK, Answer
<1>2. \A i \in DOMAIN Waiting : Waiting[i].era \in Nat /\ Waiting[i].era <= answered
  <2> TAKE i \in DOMAIN Waiting
  <2>1. Waiting[i] \in Jobs
    BY WaitingType, LenProperties, ElementOfSeq DEF ClearInv
  <2> QED BY <2>1, JobType, BoundsAssumption DEF ClearInv, CallersClearLast
<1>3. \A i \in DOMAIN Waiting : Waiting[i] # ClearOf(answered + 1)
  BY <1>1, <1>2 DEF ClearOf
<1>4. CallersClearLast'
  BY <1>1, <1>2, <1>3 DEF CallersClearLast, ClearOf
<1>5. Recent(measurements, confirmed)' /\ Recent(events, confirmed)' /\ Recent(Waiting, confirmed)'
  <2>1. CASE applied
    <3>1. Waiting = <<>> /\ measurements = <<>> /\ events = <<>>
      BY <2>1 DEF ClearInv, NothingLeft
    <3> QED BY <1>1, <3>1 DEF Recent, tables
  <2>2. CASE ~applied
    BY <1>1, <2>2 DEF ClearInv, Recent, tables
  <2> QED BY <2>1, <2>2
<1>6. (confirmed <= answered)'
  BY <1>1 DEF ClearInv
<1>7. NothingLeft'
  BY <1>1 DEF NothingLeft
<1> QED
  BY <1>4, <1>5, <1>6, <1>7 DEF ClearInv

LEMMA StepClearInv ==
  ASSUME ClearInv, [Next]_vars
  PROVE  ClearInv'
<1>1. TypeOK /\ TypeOK'
  BY StepTypeOK DEF ClearInv
<1>2. \A kind \in {"measurement", "event", "clear"} :
        [kind |-> kind, era |-> answered] \in Jobs
  BY <1>1 DEF TypeOK, Jobs, RowKinds
<1>3. ASSUME NEW kind \in RowKinds, enqueue(kind) PROVE ClearInv'
  <2> DEFINE j == [kind |-> kind, era |-> answered]
  <2>1. j \in Jobs /\ j # ClearOf(answered) /\ j.era = answered
    BY <1>2, <1>3 DEF RowKinds, ClearOf
  <2>2. put_nowait(j) /\ loop = "free"
        /\ UNCHANGED <<threadVars, tables, answered, confirmed, loop>>
    BY <1>3 DEF enqueue, loopVars
  <2> HIDE DEF j
  <2> QED BY <1>1, <2>1, <2>2, PutClearInv
<1>4. CASE clear_logs
  BY <1>1, <1>2, <1>4, PutClearInv DEF clear_logs
<1>5. CASE ClearDone \/ ClearTimeout
  BY <1>1, <1>5, WaitingKept, AnswerClearInv DEF ClearDone, ClearTimeout
<1>6. CASE \/ start \/ ReadMeasurements \/ ReadEvents \/ Signal \/ UNCHANGED vars
           \/ Die /\ writer # "busy"
  BY <1>1, <1>6, WaitingKept, StillClearInv
     DEF start, ReadMeasurements, ReadEvents, Signal, Die, vars, loopVars
<1>7. CASE Take
  BY <1>1, <1>7, TakeKeeps, StillClearInv DEF Take, loopVars
<1>8. CASE Commit
  BY <1>1, <1>8, CommitClearInv
<1>9. CASE Fail \/ (Die /\ writer = "busy")
  <2>1. /\ Waiting # <<>> /\ Waiting' = Tail(Waiting)
        /\ UNCHANGED <<tables, loop, applied, answered, confirmed>>
    BY <1>1, <1>9, HandEmptied DEF Fail, Die, loopVars
  <2>2. confirmed \in Nat /\ Waiting \in Seq(Jobs)
    BY <1>1, WaitingType, BoundsAssumption DEF TypeOK
  <2>3. Recent(Waiting, confirmed)'
    BY <2>1, <2>2, RecentTail DEF ClearInv, Recent
  <2>4. CallersClearLast'
    BY <2>1, TailCallersClearLast
  <2> QED
    BY <1>1, <2>1, <2>3, <2>4 DEF ClearInv, NothingLeft, tables, Recent
<1>10. CASE Crash
  <2>1. Waiting' = <<>> /\ UNCHANGED <<tables, answered, confirmed>> /\ loop' = "free"
    BY <1>10, CrashEmpties DEF Crash
  <2> QED
    BY <1>1, <2>1 DEF ClearInv, Recent, CallersClearLast, NothingLeft, tables
<1> QED
  BY <1>3, <1>4, <1>5, <1>6, <1>7, <1>8, <1>9, <1>10 DEF Next

\* A DELETE answered with its clear committed is final: nothing put before it
\* is in the tables, or will be, whatever later DELETEs, failures and crashes
\* do (clear_logs and _process). The strengthening says where the clear of
\* the waiting DELETE can be: behind everything else, so that the tables and
\* the queue are empty when it has been committed.
THEOREM ClearIsFinal == Spec => []ClearedStaysCleared
<1>1. Init => ClearInv
  BY InitClearInv
<1>2. ClearInv /\ [Next]_vars => ClearInv'
  BY StepClearInv
<1>3. ClearInv => ClearedStaysCleared
  BY DEF ClearInv, ClearedStaysCleared, Recent
<1> QED BY <1>1, <1>2, <1>3, PTL DEF Spec

-----------------------------------------------------------------------------
(* GET reads both tables as of one state *)

\* What GET has read is still there: the tables have only grown.
SeenStays ==
  loop = "reading" /\ answered = confirmed =>
    /\ Len(seen) <= Len(measurements)
    /\ \A i \in 1..Len(seen) : seen[i] = measurements[i]

\* While GET reads, and if no earlier DELETE was answered too early, no clear
\* is on its way: every clear that waits belongs to a DELETE that waits.
LEMMA NoClearComes ==
  ASSUME ClearInv, Commit, loop = "reading", answered = confirmed
  PROVE  job.kind # "clear"
<1>1. job \in Jobs /\ Waiting \in Seq(Jobs) /\ Waiting # <<>> /\ Waiting[1] = job
  BY HandEmptied, WaitingType DEF ClearInv
<1>2. 1 \in DOMAIN Waiting
  BY <1>1, LenProperties, EmptySeq
<1>3. job.era >= confirmed /\ job.era <= answered /\ job # ClearOf(answered)
  BY <1>1, <1>2 DEF ClearInv, Recent, CallersClearLast
<1>4. job.era \in Nat /\ answered \in Nat
  BY <1>1, JobType, BoundsAssumption DEF ClearInv, TypeOK
<1>5. job.era = answered
  BY <1>3, <1>4
<1> QED
  BY <1>1, <1>3, <1>5 DEF Jobs, ClearOf

LEMMA SeenStep ==
  ASSUME ClearInv, SeenStays, [Next]_vars
  PROVE  SeenStays'
<1> SUFFICES ASSUME loop' = "reading", answered' = confirmed'
             PROVE  /\ Len(seen') <= Len(measurements')
                    /\ \A i \in 1..Len(seen') : seen'[i] = measurements'[i]
  BY DEF SeenStays
<1>1. measurements \in Seq(Jobs) /\ seen \in Seq(Jobs)
  BY DEF ClearInv, TypeOK
<1>2. Len(measurements) \in Nat /\ Len(seen) \in Nat
  BY <1>1, LenProperties
<1>3. CASE ReadMeasurements
  BY <1>2, <1>3 DEF ReadMeasurements, tables
<1>4. CASE Commit
  <2>1. loop = "reading" /\ answered = confirmed /\ seen' = seen
    BY <1>4 DEF Commit
  <2>2. measurements' = measurements \/ measurements' = Append(measurements, job)
    BY <1>4, <2>1, NoClearComes DEF Commit
  <2>3. job \in Jobs
    BY <1>4, HandEmptied DEF ClearInv
  <2>4. /\ Len(Append(measurements, job)) = Len(measurements) + 1
        /\ \A i \in 1..Len(measurements) : Append(measurements, job)[i] = measurements[i]
    BY <1>1, <2>3, AppendProperties
  <2> QED
    BY <1>2, <2>1, <2>2, <2>4 DEF SeenStays
<1>5. CASE Take \/ Fail \/ Signal \/ Die \/ UNCHANGED vars
  BY <1>5 DEF SeenStays, Take, Fail, Signal, Die, vars, tables, loopVars
<1>6. ~start /\ ~clear_logs /\ ~ClearDone /\ ~ClearTimeout /\ ~ReadEvents /\ ~Crash
  BY DEF start, clear_logs, ClearDone, ClearTimeout, Answer, ReadEvents, Crash, loopVars
<1>7. ASSUME NEW kind \in RowKinds PROVE ~enqueue(kind)
  BY DEF enqueue, loopVars
<1> QED
  BY <1>3, <1>4, <1>5, <1>6, <1>7 DEF Next

\* GET (get_ptp_log) reads its two tables in two statements, and still never
\* reports measurements that are gone when it reads the events, provided that
\* the last DELETE was answered with its clear committed: DELETE holds the
\* event loop, so no clear is under way while GET is.
THEOREM ReadsAreWhole == Spec => []ReadNotTorn
<1>1. Init => ClearInv /\ SeenStays
  BY InitClearInv DEF Init, SeenStays
<1>2. ClearInv /\ SeenStays /\ [Next]_vars => (ClearInv /\ SeenStays)'
  BY StepClearInv, SeenStep
<1>3. ClearInv /\ SeenStays => ReadNotTorn
  <2> SUFFICES ASSUME ClearInv, SeenStays, loop = "reading", answered = confirmed
               PROVE  IsPrefix(seen, measurements)
    BY DEF ReadNotTorn
  <2>1. measurements \in Seq(Jobs) /\ seen \in Seq(Jobs)
    BY DEF ClearInv, TypeOK
  <2>2. /\ Len(seen) <= Len(measurements)
        /\ \A i \in 1..Len(seen) : seen[i] = measurements[i]
    BY DEF SeenStays
  <2> QED
    BY <2>1, <2>2 DEF IsPrefix
<1> QED BY <1>1, <1>2, <1>3, PTL DEF Spec

-----------------------------------------------------------------------------
(* What clear_logs documents, and what it takes *)

\* No DELETE runs into its timeout, and the clear of one that waits succeeds.
ClearsInTime ==
  [][~ClearTimeout /\ ~(Fail /\ job = ClearOf(answered))]_vars

\* The thread never works on the clear of a DELETE that is yet to be made; on
\* the one of the DELETE that waits it may signal, and its event may be set,
\* only when it has been committed.
DoneInv ==
  /\ writer \in {"signalling", "dying"} =>
       /\ job.era <= answered
       /\ job = ClearOf(answered) => loop = "waiting" /\ applied
  /\ loop = "waiting" /\ done_event => applied

LEMMA DoneStep ==
  ASSUME ClearInv, DoneInv, [Next]_vars,
         ~ClearTimeout, ~(Fail /\ job = ClearOf(answered))
  PROVE  DoneInv'
<1>1. TypeOK /\ TypeOK' /\ answered \in Nat
  BY StepTypeOK, BoundsAssumption DEF ClearInv, TypeOK
<1>2. ClearOf(answered)' = ClearOf(answered') /\ \A n : ClearOf(n).era = n
  BY DEF ClearOf
<1>3. ASSUME Commit \/ Fail
      PROVE  /\ job \in Jobs /\ job.era <= answered
             /\ job = ClearOf(answered) => loop = "waiting"
  <2>1. /\ job \in Jobs /\ Waiting \in Seq(Jobs)
        /\ Waiting # <<>> /\ Waiting[1] = job
    BY <1>1, <1>3, HandEmptied, WaitingType
  <2>2. 1 \in DOMAIN Waiting
    BY <2>1, LenProperties, EmptySeq
  <2> QED BY <2>1, <2>2 DEF ClearInv, CallersClearLast
<1>4. ASSUME UNCHANGED <<writer, job, answered>>,
             \/ UNCHANGED <<loop, done_event, applied>>
             \/ loop = "free" /\ (loop' # "waiting" \/ ~done_event')
      PROVE  DoneInv'
  BY <1>2, <1>4 DEF DoneInv
<1>5. CASE ClearDone
  <2>1. /\ loop' = "free" /\ answered' = answered + 1 /\ UNCHANGED <<writer, job>>
    BY <1>5 DEF ClearDone, Answer, threadVars
  <2>2. ASSUME writer \in {"signalling", "dying"}
        PROVE  job.era <= answered + 1 /\ job # ClearOf(answered + 1)
    <3>1. job \in Jobs /\ job.era \in Int /\ job.era <= answered
      BY <1>1, <2>2, JobType, BoundsAssumption DEF TypeOK, DoneInv
    <3> QED BY <1>1, <1>2, <3>1
  <2> QED BY <1>2, <2>1, <2>2 DEF DoneInv
<1>6. CASE Commit
  <2>1. /\ writer = "busy" /\ writer' = "signalling"
        /\ UNCHANGED <<job, loop, done_event, answered>>
    BY <1>6 DEF Commit
  <2>2. applied' = applied \/ applied' = (applied \/ (loop = "waiting" /\ job.era = answered))
    BY <1>6 DEF Commit
  <2>3. ASSUME job = ClearOf(answered) PROVE loop = "waiting" /\ applied'
    <3>1. loop = "waiting" /\ job.kind = "clear" /\ job.era = answered
      BY <1>3, <1>6, <2>3 DEF ClearOf
    <3>2. applied' = (applied \/ (loop = "waiting" /\ job.era = answered))
      BY <1>6, <3>1 DEF Commit
    <3> QED BY <3>1, <3>2
  <2> QED BY <1>2, <1>3, <1>6, <2>1, <2>2, <2>3 DEF DoneInv
<1>7. CASE Fail
  <2>1. /\ writer = "busy" /\ job # ClearOf(answered)
        /\ UNCHANGED <<job, loop, done_event, answered, applied>>
    BY <1>7 DEF Fail, loopVars
  <2> QED BY <1>2, <1>3, <1>7, <2>1 DEF DoneInv
<1>8. CASE Signal
  <2>1. /\ writer \in {"signalling", "dying"} /\ writer' \in {"idle", "dead"}
        /\ UNCHANGED <<loop, answered, applied>>
        /\ done_event' = (done_event \/ (/\ job.kind = "clear"
                                         /\ loop = "waiting" /\ job.era = answered))
    BY <1>8 DEF Signal
  <2>2. job.kind = "clear" /\ job.era = answered => job = ClearOf(answered)
    BY <1>1, <2>1 DEF TypeOK, Jobs, ClearOf
  <2> QED BY <2>1, <2>2 DEF DoneInv
<1>9. CASE start \/ Take \/ Die \/ Crash
  BY <1>9 DEF start, Take, Die, Crash, loopVars, DoneInv
<1>10. ASSUME NEW kind \in RowKinds, enqueue(kind) PROVE DoneInv'
  BY <1>4, <1>10 DEF enqueue, threadVars, loopVars
<1>11. CASE clear_logs \/ ReadMeasurements \/ ReadEvents \/ UNCHANGED vars
  <2>1. CASE clear_logs
    BY <1>4, <2>1 DEF clear_logs, threadVars
  <2>2. CASE ReadMeasurements
    BY <1>4, <2>2 DEF ReadMeasurements, threadVars
  <2>3. CASE ReadEvents
    BY <2>3 DEF ReadEvents, threadVars, DoneInv, ClearOf
  <2>4. CASE UNCHANGED vars
    BY <1>4, <2>4 DEF vars, threadVars, loopVars
  <2> QED BY <1>11, <2>1, <2>2, <2>3, <2>4
<1> QED
  BY <1>5, <1>6, <1>7, <1>8, <1>9, <1>10, <1>11 DEF Next

\* The timeout and a clear that fails are the only ways a DELETE is answered
\* before its clear has been committed: neither a clear left over by an earlier
\* DELETE nor a crash ever sets its event.
THEOREM AnsweredWhenDone == Spec /\ ClearsInTime => DeleteAnsweredWhenDone
<1>1. Init => ClearInv /\ DoneInv
  BY InitClearInv DEF Init, DoneInv
<1>2. (ClearInv /\ DoneInv) /\ [Next]_vars
        /\ [~ClearTimeout /\ ~(Fail /\ job = ClearOf(answered))]_vars
        => (ClearInv /\ DoneInv)'
  <2>1. ClearInv /\ [Next]_vars => ClearInv'
    BY StepClearInv
  <2>2. CASE UNCHANGED vars
    BY <2>1, <2>2 DEF vars, threadVars, loopVars, DoneInv, ClearOf
  <2> QED BY <2>1, <2>2, DoneStep
<1>3. (ClearInv /\ DoneInv) /\ [Next]_vars
        /\ [~ClearTimeout /\ ~(Fail /\ job = ClearOf(answered))]_vars
        => [answered' > answered => applied]_vars
  <2> SUFFICES ASSUME ClearInv, DoneInv, Next, ~ClearTimeout, answered' > answered
               PROVE  applied
    OBVIOUS
  <2>1. answered \in Nat
    BY BoundsAssumption DEF ClearInv, TypeOK
  <2>2. answered' # answered
    BY <2>1
  <2>3. ClearDone
    BY <2>2 DEF Next, start, enqueue, clear_logs, ReadMeasurements, ReadEvents,
                Take, Commit, Fail, Signal, Die, Crash, loopVars
  <2> QED BY <2>3 DEF ClearDone, DoneInv
<1> QED
  BY <1>1, <1>2, <1>3, PTL DEF Spec, ClearsInTime, DeleteAnsweredWhenDone
=============================================================================
