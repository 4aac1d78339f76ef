------------------------------- MODULE Frontend -------------------------------
(***************************************************************************)
(* The frontend process from start to end: the lifespan of main.py, run()  *)
(* and the tail process of ptp_log_reader.py, and a dashboard that follows *)
(* the status over SSE. ptp4l appends to its log whatever the frontend     *)
(* does; the log survives the process, the reader's state does not.        *)
(*                                                                         *)
(* Requests that save settings go step by step, as ConfigStore has them.   *)
(* In the code the loop runs nothing else meanwhile; here it may, which    *)
(* makes no difference, since only requests touch config.json.             *)
(*                                                                         *)
(* Of the status only the grandmaster is kept: each other field is wholly  *)
(* replaced by the next line or tick. Nothing in the repository rotates    *)
(* the log, so it only grows.                                              *)
(***************************************************************************)
EXTENDS ConfigStore, Integers, Sequences

CONSTANTS
  CompletePtp,    \* sections "ptp" with every key reload_config reads
  GmIds,          \* grandmasters that "selected best master clock" names
  Other,          \* any other line
  Unknown,        \* gm_id before the first such line
  TailLines,      \* lines tail prints of what is there when it starts (10)
  MaxLines        \* bound on the lines of the log

ASSUME FrontendAssumption ==
  /\ Other \notin GmIds /\ Unknown \notin GmIds
  /\ TailLines \in Nat \ {0} /\ MaxLines \in Nat

VARIABLES
  lines,          \* logs/ptp4l.log
  reader,         \* _ptp_task: down (no process), ended or running
  tail,           \* the tail process: none, following or ended
  unread,         \* the line the loop over its output gets next
  gm_line,        \* the line gm_id is from, 0 if it is unknown
  stream, page,   \* the dashboard: connected, and the gm_id it shows
  changes,        \* history: lines <<from, to>> of the GM_ID_CHANGEDs put; one
                  \* that tail repeats and Parse puts again is the same pair
  last_read,      \* history: the furthest best-master line parsed
  gapless         \* history: from this line on, none has been passed over

environment == <<lines, configVars>>
dashboard == <<stream, page>>
history == <<changes, last_read, gapless>>
vars == <<environment, reader, tail, unread, gm_line, dashboard, history>>

\* config.json has every key that reload_config reads.
Complete == config # Torn /\ config.ptp \in CompletePtp

gm_id == IF gm_line = 0 THEN Unknown ELSE lines[gm_line]

Init ==
  /\ lines = <<>> /\ ConfigInit /\ Complete
  /\ reader = "down" /\ tail = "none" /\ unread = 1 /\ gm_line = 0
  /\ stream = FALSE /\ page = Unknown
  /\ changes = {} /\ last_read = 0 /\ gapless = 1

\* ptp4l prints a line, which entrypoint.sh appends.
Write ==
  /\ Len(lines) < MaxLines
  /\ \E l \in GmIds \cup {Other} : lines' = Append(lines, l)
  /\ UNCHANGED <<configVars, reader, tail, unread, gm_line, dashboard, history>>

\* A request that changes a section, step by step. An import may leave the
\* section incomplete (its own reload fails then, but the section stays).
AskSave ==
  /\ reader # "down"
  /\ \/ \E v \in PtpValues : update_section("ptp", v)
     \/ \E v \in SystemValues : update_section("system", v)
  /\ UNCHANGED <<lines, reader, tail, unread, gm_line, dashboard, history>>

Save ==
  /\ SaveSteps
  /\ UNCHANGED <<lines, reader, tail, unread, gm_line, dashboard, history>>

-----------------------------------------------------------------------------
\* The life of the process.

\* Variant: the task is not created.
NoReaderTask ==
  /\ reader = "down" /\ reader' = "ended"
  /\ UNCHANGED <<environment, tail, unread, gm_line, dashboard, history>>

\* Docker starts the process; lifespan creates the task. run() ends at its
\* first statement if a key is missing: KeyError, which nobody awaits.
lifespan ==
  /\ reader = "down"
  /\ reader' = IF Complete THEN "running" ELSE "ended"
  /\ UNCHANGED <<environment, tail, unread, gm_line, dashboard, history>>

\* os._exit, a reboot, a kill or an orderly stop.
Exit ==
  /\ reader # "down"
  /\ reader' = "down" /\ tail' = "none" /\ gm_line' = 0
  /\ stream' = FALSE
  /\ Abandon
  /\ UNCHANGED <<lines, unread, page, history>>

\* Variant: the file is shorter than what tail would print.
WindowUnclamped == Len(lines) + 1 - TailLines

\* The first line that tail -F prints.
Window == IF Len(lines) < TailLines THEN 1 ELSE Len(lines) + 1 - TailLines

StartTail ==
  /\ reader = "running" /\ tail = "none"
  /\ tail' = "following" /\ unread' = Window
  /\ gapless' = IF last_read # 0 /\ Window <= last_read THEN gapless ELSE Window
  /\ UNCHANGED <<environment, reader, gm_line, dashboard, changes, last_read>>

\* tail cannot be started, is killed, or a line is too long for the pipe's
\* reader: the loop is over, and nothing begins it again. The ticks go on.
TailEnds ==
  /\ reader = "running" /\ tail # "ended"
  /\ tail' = "ended"
  /\ UNCHANGED <<environment, reader, unread, gm_line, dashboard, history>>

-----------------------------------------------------------------------------
\* _parse_line, as PtpLogReader has it, with the lines it is about.

\* Variants: gm_id is assigned before it is compared; "unknown" is compared
\* like an id.
NeverChanged(gm) == FALSE
ChangedFromUnknown(gm) == gm # gm_id

Changed(gm) == gm # gm_id /\ gm_id # Unknown

\* Variant: a line is delivered when the next one comes.
UnreadLate == unread < Len(lines)

Unread == unread <= Len(lines)

Parse ==
  /\ tail = "following" /\ Unread
  /\ unread' = unread + 1
  /\ LET line == lines[unread] IN
       \/ /\ line \in GmIds
          /\ gm_line' = unread
          /\ changes' = IF Changed(line) THEN changes \cup {<<gm_line, unread>>}
                        ELSE changes
          /\ last_read' = IF unread > last_read THEN unread ELSE last_read
       \/ /\ line = Other
          /\ UNCHANGED <<gm_line, changes, last_read>>
  /\ UNCHANGED <<environment, reader, tail, dashboard, gapless>>

-----------------------------------------------------------------------------
\* The dashboard. It keeps what it shows while the server is away.

\* Variant: the page does not connect again.
ConnectOnce == reader # "down" /\ ~stream /\ page = Unknown /\ stream' = TRUE

Connect == reader # "down" /\ ~stream /\ stream' = TRUE

connectPtpStream ==
  /\ Connect
  /\ UNCHANGED <<environment, reader, tail, unread, gm_line, page, history>>

\* event_generator, once a second.
stream_ptp_status ==
  /\ stream
  /\ page' = gm_id
  /\ UNCHANGED <<environment, reader, tail, unread, gm_line, stream, history>>

Next ==
  \/ Write \/ AskSave \/ Save
  \/ lifespan \/ Exit \/ StartTail \/ TailEnds
  \/ Parse
  \/ connectPtpStream \/ stream_ptp_status

Spec == Init /\ [][Next]_vars

\* Docker restarts the process (unless-stopped), and a request that saves
\* ends. The event loop runs what is ready in turn, also between requests that
\* keep coming; EventSource connects again and the generator goes on.
Fairness ==
  /\ WF_vars(lifespan) /\ WF_vars(Save)
  /\ WF_vars(StartTail) /\ WF_vars(Parse)
  /\ WF_vars(connectPtpStream) /\ WF_vars(stream_ptp_status)

FairSpec == Spec /\ Fairness

-----------------------------------------------------------------------------
(* Correctness *)

\* The shape of the state: a reader that does not run has no tail, and no
\* line is read that is not there.
TypeOK ==
  /\ lines \in Seq(GmIds \cup {Other})
  /\ config \in Configs /\ data \in Configs \cup {NoChange}
  /\ tmp \in {"none", "torn", "written"}
  /\ tmp # "none" => data # NoChange
  /\ data # NoChange => reader # "down"
  /\ reader \in {"down", "ended", "running"}
  /\ tail \in {"none", "following", "ended"}
  /\ reader # "running" => tail = "none"
  /\ unread \in 1..(Len(lines) + 1)
  /\ gm_line \in 0..Len(lines) /\ last_read \in 0..Len(lines)
  /\ gapless \in 1..(Len(lines) + 1)
  /\ stream \in BOOLEAN /\ page \in GmIds \cup {Unknown}
  /\ stream => reader # "down"
  /\ changes \subseteq (1..Len(lines)) \X (1..Len(lines))

\* Lines i and j name two grandmasters, one after the other.
Change(i, j) ==
  /\ {i, j} \subseteq DOMAIN lines /\ i < j
  /\ lines[i] \in GmIds /\ lines[j] \in GmIds /\ lines[i] # lines[j]
  /\ \A k \in (i + 1)..(j - 1) : lines[k] \notin GmIds

\* Every GM_ID_CHANGED that was ever put is about a change in ptp4l's log,
\* although each restart reads its end again with an empty memory.
EveryChangeHappened == \A c \in changes : Change(c[1], c[2])

\* And every change is put, also one that happens while the process is away,
\* as long as the lines that tail repeats reach back to the last best-master
\* line that had been read.
NoChangeMissed ==
  \A i, j \in gapless..last_read : Change(i, j) => <<i, j>> \in changes

\* While tail goes on, the reader ends up having read all there is.
LinesReachStatus == <>[](tail = "following") => <>[](unread = Len(lines) + 1)

\* A reader that ended for an incomplete section runs again after a restart
\* with a complete one.
ReaderComesBack ==
  <>[]Complete /\ []<>(reader = "down") => []<>(reader = "running")

\* A dashboard left open ends up showing the reader's grandmaster, whatever
\* restarts it has lived through.
DashboardFollows ==
  \A gm \in GmIds \cup {Unknown} :
    <>[](reader # "down" /\ gm_id = gm) => <>[](page = gm)
=============================================================================
