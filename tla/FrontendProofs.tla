---------------------------- MODULE FrontendProofs ----------------------------
(***************************************************************************)
(* Proofs about Frontend, for every value of its constants: any            *)
(* grandmasters, a log of any length, any number of lines that tail        *)
(* repeats, any number of restarts.                                        *)
(***************************************************************************)
EXTENDS Frontend, SequenceTheorems, TLAPS

-----------------------------------------------------------------------------
(* The shape of the state *)

LEMMA Constants ==
  /\ Other \notin GmIds /\ Unknown \notin GmIds
  /\ TailLines \in Nat /\ TailLines > 0
BY FrontendAssumption DEF FrontendAssumption

\* All that the log says stays where it is.
LEMMA LogGrows ==
  ASSUME TypeOK, Write
  PROVE  /\ lines' \in Seq(GmIds \cup {Other})
         /\ Len(lines) \in Nat /\ Len(lines') = Len(lines) + 1
         /\ \A k \in 1..Len(lines) : lines'[k] = lines[k]
BY DEF TypeOK, Write

\* No action but Write touches the log.
LEMMA LogStays ==
  ASSUME [Next]_vars, ~Write
  PROVE  UNCHANGED lines
BY DEF Next, vars, environment, AskSave, Save, lifespan, Exit, StartTail, TailEnds, Parse,
       connectPtpStream, stream_ptp_status

LEMMA WindowIs == ASSUME TypeOK PROVE Window \in 1..(Len(lines) + 1)
BY Constants DEF TypeOK, Window

\* What a line says, and what Parse makes of it.
LEMMA ParseIs ==
  ASSUME TypeOK, Parse
  PROVE  /\ tail = "following" /\ unread \in 1..Len(lines) /\ unread' = unread + 1
         /\ UNCHANGED <<lines, reader, tail, gapless>>
         /\ lines[unread] \in GmIds =>
              /\ gm_line' = unread
              /\ changes' = IF Changed(lines[unread]) THEN changes \cup {<<gm_line, unread>>}
                            ELSE changes
              /\ last_read' = IF unread > last_read THEN unread ELSE last_read
         /\ lines[unread] \notin GmIds => UNCHANGED <<gm_line, changes, last_read>>
BY Constants DEF TypeOK, Parse, Unread, environment

\* gm_id is a grandmaster as soon as a best-master line has been read.
LEMMA GmIdIs ==
  ASSUME TypeOK, gm_line # 0 => lines[gm_line] \in GmIds
  PROVE  /\ gm_id = Unknown <=> gm_line = 0
         /\ gm_line # 0 => gm_id = lines[gm_line]
         /\ gm_id \in GmIds \cup {Unknown}
BY Constants DEF gm_id

\* What gm_line refers to, while tail goes on: the last best-master line of
\* those that this tail has delivered.
GmLineRead ==
  /\ gm_line # 0 => lines[gm_line] \in GmIds
  /\ tail = "none" => gm_line = 0
  /\ gm_line # 0 /\ tail = "following" =>
       gm_line < unread /\ \A k \in (gm_line + 1)..(unread - 1) : lines[k] \notin GmIds

ShapeInv == TypeOK /\ GmLineRead

LogOK == lines \in Seq(GmIds \cup {Other})
ConfigOK ==
  /\ config \in Configs /\ data \in Configs \cup {NoChange}
  /\ tmp \in {"none", "torn", "written"}
  /\ tmp # "none" => data # NoChange
  /\ data # NoChange => reader # "down"
ReaderOK ==
  /\ reader \in {"down", "ended", "running"} /\ tail \in {"none", "following", "ended"}
  /\ reader # "running" => tail = "none"
PlacesOK ==
  /\ unread \in 1..(Len(lines) + 1)
  /\ gm_line \in 0..Len(lines) /\ last_read \in 0..Len(lines)
  /\ gapless \in 1..(Len(lines) + 1)
DashboardOK ==
  /\ stream \in BOOLEAN /\ page \in GmIds \cup {Unknown}
  /\ stream => reader # "down"
ChangesOK == changes \subseteq (1..Len(lines)) \X (1..Len(lines))

LEMMA TypeIs ==
  TypeOK <=> LogOK /\ ConfigOK /\ ReaderOK /\ PlacesOK /\ DashboardOK /\ ChangesOK
BY DEF TypeOK, LogOK, ConfigOK, ReaderOK, PlacesOK, DashboardOK, ChangesOK

LEMMA ShapeInit == Init => ShapeInv
<1> SUFFICES ASSUME Init PROVE ShapeInv
  OBVIOUS
<1>1. <<>> \in Seq(GmIds \cup {Other}) /\ Len(<<>>) = 0
  OBVIOUS
<1>3. lines = <<>> /\ Len(lines) = 0
  BY <1>1 DEF Init
<1>4. LogOK /\ PlacesOK /\ ChangesOK
  BY <1>1, <1>3 DEF Init, LogOK, PlacesOK, ChangesOK
<1>5. ConfigOK /\ ReaderOK /\ DashboardOK
  BY DEF Init, ConfigInit, ConfigOK, ReaderOK, DashboardOK
<1>2. LogOK /\ ConfigOK /\ ReaderOK /\ PlacesOK /\ DashboardOK /\ ChangesOK
  BY <1>4, <1>5
<1> QED BY <1>2, TypeIs DEF Init, ShapeInv, GmLineRead

\* What a step does to config.json: a request, its end, or nothing.
LEMMA AskIs ==
  ASSUME TypeOK, AskSave
  PROVE  ConfigOK' /\ Atomic!Request
<1>1. PICK k \in {"ptp", "system"}, v \in PtpValues \cup SystemValues :
        /\ v \in IF k = "ptp" THEN PtpValues ELSE SystemValues
        /\ update_section(k, v)
  BY DEF AskSave
<1>2. /\ data = NoChange /\ data' = [config EXCEPT ![k] = v]
      /\ tmp' = "torn" /\ UNCHANGED <<config, reader>> /\ reader # "down"
  BY <1>1 DEF AskSave, update_section, LoopFree, Open
<1>3. config \in Configs /\ DOMAIN config = {"ptp", "system"}
  BY DEF TypeOK, Configs
<1>4. data' \in Configs
  BY <1>1, <1>2, <1>3 DEF Configs
<1>5. data' # NoChange
  BY <1>4, ConfigAssumption DEF ConfigAssumption
<1>6. \A other \in DOMAIN config \ {k} : data'[other] = config[other]
  BY <1>2, <1>3
<1> QED BY <1>2, <1>3, <1>4, <1>5, <1>6 DEF ConfigOK, Atomic!Request

LEMMA ConfigStep ==
  ASSUME TypeOK, [Next]_vars
  PROVE  ConfigOK' /\ [Atomic!Next]_<<config, data>>
<1>1. CASE AskSave
  BY <1>1, AskIs DEF Atomic!Next
<1>2. CASE Save
  <2>1. UNCHANGED reader
    BY <1>2 DEF Save
  <2>2. CASE DumpTmp
    BY <2>1, <2>2 DEF DumpTmp, TypeOK, ConfigOK
  <2>3. CASE Replace
    BY <2>1, <2>3 DEF Replace, TypeOK, ConfigOK, Atomic!Next, Atomic!Store
  <2>4. CASE SaveRaises
    BY <2>1, <2>4 DEF SaveRaises, Abandon, TypeOK, ConfigOK, Atomic!Next, Atomic!Drop
  <2> QED BY <1>2, <2>2, <2>3, <2>4 DEF Save, SaveSteps
<1>3. CASE Exit
  <2>1. UNCHANGED config /\ data' = NoChange /\ tmp' = "none"
    BY <1>3 DEF Exit, Abandon
  <2>2. data # NoChange => Atomic!Drop
    BY <2>1 DEF Atomic!Drop
  <2> QED BY <2>1, <2>2 DEF TypeOK, ConfigOK, Atomic!Next
<1>4. CASE lifespan
  BY <1>4 DEF lifespan, environment, configVars, TypeOK, ConfigOK
<1>5. CASE ~(AskSave \/ Save \/ Exit \/ lifespan)
  <2>1. UNCHANGED <<config, data, tmp, reader>>
    BY <1>5 DEF Next, vars, environment, configVars, Write, StartTail, TailEnds, Parse,
       connectPtpStream, stream_ptp_status
  <2> QED BY <2>1 DEF TypeOK, ConfigOK
<1> QED BY <1>1, <1>2, <1>3, <1>4, <1>5

LEMMA WriteShape == ASSUME ShapeInv, Write PROVE ShapeInv'
<1>1. /\ lines' \in Seq(GmIds \cup {Other})
      /\ Len(lines) \in Nat /\ Len(lines') = Len(lines) + 1
      /\ \A k \in 1..Len(lines) : lines'[k] = lines[k]
  BY LogGrows DEF ShapeInv
<1>2. UNCHANGED <<reader, tail, unread, gm_line, stream, page, changes, last_read, gapless>>
  BY DEF Write, dashboard, history
<1>3. LogOK' /\ ReaderOK' /\ DashboardOK'
  BY <1>1, <1>2 DEF ShapeInv, TypeOK, LogOK, ReaderOK, DashboardOK
<1>7. ConfigOK'
  BY ConfigStep DEF ShapeInv, Next
<1>4. PlacesOK'
  BY <1>1, <1>2 DEF ShapeInv, TypeOK, PlacesOK
<1>5. ChangesOK'
  <2>1. 1..Len(lines) \subseteq 1..Len(lines')
    BY <1>1
  <2> QED BY <1>2, <2>1 DEF ShapeInv, TypeOK, ChangesOK
<1>6. GmLineRead'
  BY <1>1, <1>2 DEF ShapeInv, TypeOK, GmLineRead
<1> QED BY <1>3, <1>4, <1>5, <1>6, <1>7 DEF ShapeInv, TypeOK, LogOK, ConfigOK, ReaderOK,
     PlacesOK, DashboardOK, ChangesOK

LEMMA ParseShape == ASSUME ShapeInv, Parse PROVE ShapeInv'
<1>1. /\ tail = "following" /\ unread \in 1..Len(lines) /\ unread' = unread + 1
      /\ UNCHANGED <<lines, reader, tail, gapless>>
      /\ lines[unread] \in GmIds =>
           /\ gm_line' = unread
           /\ changes' = IF Changed(lines[unread]) THEN changes \cup {<<gm_line, unread>>}
                         ELSE changes
           /\ last_read' = IF unread > last_read THEN unread ELSE last_read
      /\ lines[unread] \notin GmIds => UNCHANGED <<gm_line, changes, last_read>>
  BY ParseIs DEF ShapeInv
<1>2. UNCHANGED <<stream, page>>
  BY DEF Parse, dashboard
<1>3. PlacesOK'
  BY <1>1 DEF ShapeInv, TypeOK, PlacesOK
<1>4. ChangesOK'
  <2>1. lines[unread] \in GmIds /\ Changed(lines[unread]) => gm_line \in 1..Len(lines)
    BY GmIdIs DEF ShapeInv, TypeOK, GmLineRead, Changed
  <2> QED BY <1>1, <2>1 DEF ShapeInv, TypeOK, ChangesOK
<1>5. GmLineRead'
  BY <1>1 DEF ShapeInv, TypeOK, GmLineRead
<1>6. LogOK' /\ ReaderOK' /\ DashboardOK'
  BY <1>1, <1>2 DEF ShapeInv, TypeOK, LogOK, ReaderOK, DashboardOK
<1>7. ConfigOK'
  BY ConfigStep DEF ShapeInv, Next
<1> QED BY <1>3, <1>4, <1>5, <1>6, <1>7 DEF ShapeInv, TypeOK, LogOK, ConfigOK, ReaderOK,
     PlacesOK, DashboardOK, ChangesOK

LEMMA ShapeStep == ASSUME ShapeInv, [Next]_vars PROVE ShapeInv'
<1>0. ConfigOK'
  BY ConfigStep DEF ShapeInv
<1>1. CASE Write
  BY <1>1, WriteShape
<1>2. CASE Parse
  BY <1>2, ParseShape
<1> SUFFICES ASSUME ~Write, ~Parse
             PROVE  (ReaderOK /\ PlacesOK /\ DashboardOK /\ GmLineRead)' /\ UNCHANGED changes
  <2>1. UNCHANGED changes /\ ~Write => (LogOK /\ ChangesOK)'
    BY LogStays DEF ShapeInv, TypeOK, LogOK, ChangesOK
  <2> QED BY <1>0, <1>1, <1>2, <2>1 DEF ShapeInv, TypeOK, LogOK, ConfigOK, ReaderOK,
       PlacesOK, DashboardOK, ChangesOK
<1> USE DEF ReaderOK, PlacesOK, DashboardOK, GmLineRead, ShapeInv, TypeOK
<1>3. CASE StartTail
  <2>1. gm_line = 0 /\ gm_line' = 0 /\ unread' = Window /\ UNCHANGED lines
        /\ gapless' \in {gapless, Window}
    BY <1>3 DEF StartTail, environment
  <2>2. unread' \in 1..(Len(lines) + 1) /\ gapless' \in 1..(Len(lines) + 1)
    BY <2>1, WindowIs
  <2> QED BY <1>3, <2>1, <2>2 DEF StartTail, dashboard
<1>4. CASE lifespan \/ Exit \/ TailEnds
  <2>1. UNCHANGED <<lines, unread, page, changes, last_read, gapless>>
    BY <1>4, LogStays DEF lifespan, Exit, TailEnds, dashboard, history
  <2>2. ReaderOK' /\ DashboardOK'
    BY <1>4 DEF lifespan, Exit, TailEnds, dashboard
  <2>3. PlacesOK' /\ GmLineRead'
    BY <1>4, <2>1 DEF lifespan, Exit, TailEnds
  <2> QED BY <2>1, <2>2, <2>3
<1>5. CASE AskSave \/ Save \/ UNCHANGED vars
  BY <1>5, LogStays DEF AskSave, Save, vars, dashboard, history
<1>6. CASE connectPtpStream
  BY <1>6, LogStays DEF connectPtpStream, Connect, history
<1>7. CASE stream_ptp_status
  <2>1. page' \in GmIds \cup {Unknown}
    BY <1>7, GmIdIs DEF stream_ptp_status
  <2> QED BY <1>7, <2>1, LogStays DEF stream_ptp_status, history
<1> QED BY <1>3, <1>4, <1>5, <1>6, <1>7 DEF Next

\* The log, config.json, the reader, its places in the log and the dashboard
\* keep their types; only a running reader has a tail.
THEOREM Types == Spec => []TypeOK
<1>1. ShapeInv => TypeOK
  BY DEF ShapeInv
<1> QED BY <1>1, ShapeInit, ShapeStep, PTL DEF Spec

\* Wherever a request that saves settings fails, and wherever the process ends
\* in it, config.json has one section changed wholly or is as it was: the
\* saves of config_store.py implement AtomicConfig.
THEOREM SavesImplementAtomic == Spec => SavesAreAtomic
<1>1. Init => Atomic!Init
  BY DEF Init, ConfigInit, Atomic!Init
<1>2. TypeOK /\ [Next]_vars => [Atomic!Next]_<<config, data>>
  BY ConfigStep
<1> QED BY <1>1, <1>2, Types, PTL DEF Spec, SavesAreAtomic, Atomic!Spec

-----------------------------------------------------------------------------
(* What is put happened *)

LEMMA ChangeSame ==
  ASSUME UNCHANGED lines, NEW i, NEW j
  PROVE  Change(i, j)' <=> Change(i, j)
BY DEF Change

LEMMA ChangeKept ==
  ASSUME ShapeInv, [Next]_vars, NEW i, NEW j, Change(i, j)
  PROVE  Change(i, j)'
<1>1. CASE Write
  <2>1. /\ Len(lines) \in Nat /\ DOMAIN lines = 1..Len(lines)
        /\ DOMAIN lines' = 1..(Len(lines) + 1)
        /\ \A k \in 1..Len(lines) : lines'[k] = lines[k]
    BY <1>1, LogGrows DEF ShapeInv, TypeOK
  <2>2. i \in 1..Len(lines) /\ j \in 1..Len(lines) /\ i < j
    BY <2>1 DEF Change
  <2>3. \A k \in (i + 1)..(j - 1) : lines'[k] \notin GmIds
    BY <2>1, <2>2 DEF Change
  <2>4. lines'[i] = lines[i] /\ lines'[j] = lines[j] /\ {i, j} \subseteq DOMAIN lines'
    BY <2>1, <2>2
  <2> QED BY <2>2, <2>3, <2>4 DEF Change
<1>2. CASE ~Write
  BY <1>2, LogStays, ChangeSame
<1> QED BY <1>1, <1>2

LEMMA HappenedStep ==
  ASSUME ShapeInv, EveryChangeHappened, [Next]_vars
  PROVE  EveryChangeHappened'
<1>1. ASSUME UNCHANGED changes PROVE EveryChangeHappened'
  BY <1>1, ChangeKept DEF EveryChangeHappened
<1>2. CASE Parse
  <2>1. /\ tail = "following" /\ unread \in 1..Len(lines) /\ UNCHANGED lines
        /\ lines[unread] \in GmIds =>
             changes' = IF Changed(lines[unread]) THEN changes \cup {<<gm_line, unread>>}
                        ELSE changes
        /\ lines[unread] \notin GmIds => UNCHANGED changes
    BY <1>2, ParseIs DEF ShapeInv
  <2>2. ASSUME lines[unread] \in GmIds, Changed(lines[unread]),
               NEW i, NEW j, i = gm_line, j = unread
        PROVE  Change(i, j)'
    <3>1. gm_line # 0 /\ gm_id = lines[gm_line]
      BY <2>2, GmIdIs DEF ShapeInv, GmLineRead, Changed
    <3>2. gm_line \in 1..Len(lines) /\ gm_line < unread /\ lines[gm_line] \in GmIds
          /\ \A k \in (gm_line + 1)..(unread - 1) : lines[k] \notin GmIds
      BY <3>1, <2>1 DEF ShapeInv, TypeOK, GmLineRead
    <3>3. lines[gm_line] # lines[unread]
      BY <2>2, <3>1 DEF Changed
    <3>4. {gm_line, unread} \subseteq DOMAIN lines
      BY <2>1, <3>2 DEF ShapeInv, TypeOK
    <3>5. Change(i, j)
      BY <2>2, <3>2, <3>3, <3>4 DEF Change
    <3> QED BY <3>5, ChangeKept
  <2> SUFFICES ASSUME NEW c \in changes' PROVE Change(c[1], c[2])'
    BY DEF EveryChangeHappened
  <2>3. CASE c \in changes
    BY <2>3, ChangeKept DEF EveryChangeHappened
  <2>4. CASE c \notin changes
    <3>1. lines[unread] \in GmIds /\ Changed(lines[unread]) /\ c = <<gm_line, unread>>
      BY <2>1, <2>4
    <3>2. c[1] = gm_line /\ c[2] = unread
      BY <3>1
    <3> QED BY <2>2, <3>1, <3>2
  <2> QED BY <2>3, <2>4
<1>3. CASE ~Parse
  BY <1>1, <1>3 DEF Next, vars, history, Write, AskSave, Save, lifespan, Exit, StartTail,
     TailEnds, connectPtpStream, stream_ptp_status
<1> QED BY <1>2, <1>3

\* For any log and any restarts: a GM_ID_CHANGED that is put is about two
\* best-master lines of ptp4l's log that follow one another (_parse_line, run).
THEOREM ChangesHappened == Spec => []EveryChangeHappened
<1>1. Init => ShapeInv /\ EveryChangeHappened
  BY ShapeInit DEF Init, EveryChangeHappened
<1>2. (ShapeInv /\ EveryChangeHappened) /\ [Next]_vars => (ShapeInv /\ EveryChangeHappened)'
  BY ShapeStep, HappenedStep
<1> QED BY <1>1, <1>2, PTL DEF Spec

-----------------------------------------------------------------------------
(* What happened is put *)

\* Of the lines since the gap, this tail knows the last best-master line as
\* soon as it is past the furthest that has ever been read.
ReadUpTo ==
  /\ last_read # 0 => lines[last_read] \in GmIds
  /\ gm_line <= last_read
  /\ tail = "following" =>
       \A k \in gapless..(unread - 1) :
         lines[k] \in GmIds /\ k >= last_read => gm_line >= k

MissedInv == ShapeInv /\ ReadUpTo /\ NoChangeMissed

LEMMA ParseMissed == ASSUME MissedInv, Parse PROVE ReadUpTo' /\ NoChangeMissed'
<1>0. [Next]_vars
  BY DEF Next
<1>1. /\ tail = "following" /\ unread \in 1..Len(lines) /\ unread' = unread + 1
      /\ UNCHANGED <<lines, reader, tail, gapless>>
      /\ lines[unread] \in GmIds =>
           /\ gm_line' = unread
           /\ changes' = IF Changed(lines[unread]) THEN changes \cup {<<gm_line, unread>>}
                         ELSE changes
           /\ last_read' = IF unread > last_read THEN unread ELSE last_read
      /\ lines[unread] \notin GmIds => UNCHANGED <<gm_line, changes, last_read>>
  BY ParseIs DEF MissedInv, ShapeInv
<1>2. /\ last_read \in 0..Len(lines) /\ gm_line \in 0..Len(lines)
      /\ gapless \in 1..(Len(lines) + 1) /\ Len(lines) \in Nat
  BY DEF MissedInv, ShapeInv, TypeOK
<1>3. ReadUpTo'
  BY <1>1, <1>2 DEF MissedInv, ReadUpTo
<1>4. CASE lines[unread] \notin GmIds
  <2> SUFFICES ASSUME NEW i \in gapless'..last_read', NEW j \in gapless'..last_read',
                      Change(i, j)'
               PROVE  <<i, j>> \in changes'
    BY <1>3 DEF NoChangeMissed
  <2>1. Change(i, j)
    BY <1>1, ChangeSame
  <2> QED BY <1>1, <1>4, <2>1 DEF MissedInv, NoChangeMissed
<1>5. CASE lines[unread] \in GmIds
  <2> SUFFICES ASSUME NEW i \in gapless'..last_read', NEW j \in gapless'..last_read',
                      Change(i, j)'
               PROVE  <<i, j>> \in changes'
    BY <1>3 DEF NoChangeMissed
  <2>4. Change(i, j) /\ i \in gapless..last_read' /\ j \in gapless..last_read'
    BY <1>1, ChangeSame
  <2>1. changes \subseteq changes'
    BY <1>1, <1>5
  <2>2. CASE j <= last_read
    <3>1. i \in gapless..last_read /\ j \in gapless..last_read
      BY <1>1, <1>2, <1>5, <2>2, <2>4 DEF Change
    <3> QED BY <2>1, <2>4, <3>1 DEF MissedInv, NoChangeMissed
  <2>3. CASE j > last_read
    <3>1. last_read' = unread /\ j <= unread /\ i < j
          /\ lines[i] \in GmIds /\ lines[j] \in GmIds /\ lines[i] # lines[j]
          /\ \A k \in (i + 1)..(j - 1) : lines[k] \notin GmIds
      BY <1>1, <1>2, <1>5, <2>3, <2>4 DEF Change
    <3>2. j = unread
      <4> SUFFICES ASSUME j < unread PROVE FALSE
        BY <1>1, <1>2, <3>1
      <4>1. gm_line >= j
        BY <1>1, <1>2, <2>3, <3>1 DEF MissedInv, ReadUpTo
      <4>2. gm_line <= last_read
        BY DEF MissedInv, ReadUpTo
      <4> QED BY <1>2, <2>3, <4>1, <4>2
    <3>3. i >= last_read
      <4> SUFFICES ASSUME i < last_read PROVE FALSE
        BY <1>2
      <4>1. lines[last_read] \in GmIds
        BY <1>2, <2>4 DEF MissedInv, ReadUpTo
      <4>2. last_read \in (i + 1)..(j - 1)
        BY <1>2, <2>3, <2>4
      <4> QED BY <3>1, <4>1, <4>2
    <3>4. gm_line = i /\ gm_line # 0
      <4>1. gm_line >= i
        BY <1>1, <1>2, <3>1, <3>2, <3>3 DEF MissedInv, ReadUpTo
      <4>2. gm_line <= last_read
        BY DEF MissedInv, ReadUpTo
      <4> QED BY <1>2, <2>4, <3>3, <4>1, <4>2
    <3>5. Changed(lines[unread])
      <4>1. gm_id = lines[i] /\ gm_id # Unknown
        BY <3>4, GmIdIs DEF MissedInv, ShapeInv, GmLineRead
      <4> QED BY <3>1, <3>2, <4>1 DEF Changed
    <3> QED BY <1>1, <1>5, <3>2, <3>4, <3>5
  <2> QED BY <1>1, <1>2, <1>5, <2>2, <2>3, <2>4
<1> QED BY <1>3, <1>4, <1>5

LEMMA MissedStep == ASSUME MissedInv, [Next]_vars PROVE MissedInv'
<1>1. ShapeInv'
  BY ShapeStep DEF MissedInv
<1>2. /\ last_read \in 0..Len(lines) /\ gm_line \in 0..Len(lines)
      /\ gapless \in 1..(Len(lines) + 1) /\ unread \in 1..(Len(lines) + 1)
      /\ Len(lines) \in Nat /\ DOMAIN lines = 1..Len(lines)
  BY DEF MissedInv, ShapeInv, TypeOK
<1>3. CASE Write
  <2>1. /\ lines' \in Seq(GmIds \cup {Other}) /\ Len(lines') = Len(lines) + 1
        /\ \A k \in 1..Len(lines) : lines'[k] = lines[k]
    BY <1>3, LogGrows DEF MissedInv, ShapeInv
  <2>2. UNCHANGED <<tail, unread, gm_line, changes, last_read, gapless>>
    BY <1>3 DEF Write, history
  <2>3. ReadUpTo'
    BY <1>2, <2>1, <2>2 DEF MissedInv, ReadUpTo
  <2>4. ASSUME NEW i \in gapless..last_read, NEW j \in gapless..last_read, Change(i, j)'
        PROVE  Change(i, j)
    BY <1>2, <2>1, <2>4 DEF Change
  <2> QED BY <1>1, <2>2, <2>3, <2>4 DEF MissedInv, NoChangeMissed
<1>4. CASE Parse
  BY <1>1, <1>4, ParseMissed DEF MissedInv
<1>5. CASE StartTail
  <2>1. /\ gm_line = 0 /\ unread' = Window /\ UNCHANGED <<lines, gm_line, changes, last_read>>
        /\ gapless' = IF last_read # 0 /\ Window <= last_read THEN gapless ELSE Window
    BY <1>5 DEF StartTail, environment, MissedInv, ShapeInv, GmLineRead
  <2>2. Window \in 1..(Len(lines) + 1)
    BY WindowIs DEF MissedInv, ShapeInv
  <2>3. ReadUpTo'
    BY <1>2, <2>1, <2>2 DEF MissedInv, ReadUpTo
  <2>4. NoChangeMissed'
    BY <1>2, <2>1, <2>2 DEF MissedInv, NoChangeMissed, Change
  <2> QED BY <1>1, <2>3, <2>4 DEF MissedInv
<1>6. CASE Exit \/ TailEnds
  <2>1. /\ UNCHANGED <<lines, changes, last_read, gapless>> /\ tail' # "following"
        /\ gm_line' \in {gm_line, 0}
    BY <1>6 DEF Exit, TailEnds, environment, history
  <2> QED BY <1>1, <1>2, <2>1 DEF MissedInv, ReadUpTo, NoChangeMissed, Change
<1>7. CASE \/ AskSave \/ Save \/ lifespan \/ connectPtpStream \/ stream_ptp_status
          \/ UNCHANGED vars
  <2>1. UNCHANGED <<lines, tail, unread, gm_line, changes, last_read, gapless>>
    BY <1>7 DEF AskSave, Save, lifespan, connectPtpStream, stream_ptp_status, vars,
       environment, history
  <2> QED BY <1>1, <2>1 DEF MissedInv, ReadUpTo, NoChangeMissed, Change
<1> QED BY <1>3, <1>4, <1>5, <1>6, <1>7 DEF Next

\* For any number of repeated lines and of restarts: as long as what tail
\* repeats reaches back to the last best-master line read, no change of the
\* grandmaster is missed, also one while the process is away.
THEOREM NothingMissed == Spec => []NoChangeMissed
<1>1. Init => MissedInv
  BY ShapeInit DEF Init, MissedInv, ReadUpTo, NoChangeMissed
<1>2. MissedInv /\ [Next]_vars => MissedInv'
  BY MissedStep
<1>3. MissedInv => NoChangeMissed
  BY DEF MissedInv
<1> QED BY <1>1, <1>2, <1>3, PTL DEF Spec
=============================================================================
