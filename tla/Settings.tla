------------------------------- MODULE Settings -------------------------------
(***************************************************************************)
(* How a changed setting reaches the programs that use it: the handlers    *)
(* POST /api/ptp/config, /api/config/import and /api/system/config with    *)
(* config_store.py, the background tasks they leave behind, and the PTP    *)
(* container's entrypoint.sh.                                              *)
(*                                                                         *)
(* The handlers run on one event loop, one at a time, but not against the  *)
(* background tasks, which run in threads, the container, or the end of    *)
(* the process: between saving config.json and rendering ptp4l.conf, and   *)
(* between rendering and answering, anything of those may happen.          *)
(*                                                                         *)
(* Of the settings three keys are kept, one of each use: domain is only    *)
(* rendered, lock_threshold_ns only read by the log reader, sync_interval  *)
(* both; and of the NICs Amber's, the only one that is rendered.           *)
(***************************************************************************)
EXTENDS Integers, Sequences

CONSTANTS
  Sections,       \* "ptp" sections an import can bring
  Patches,        \* fields POST /api/ptp/config can bring
  Nics,           \* names of NICs
  None,           \* a NIC left out
  Absent,         \* ptp4l.conf when there is none
  Default,        \* the ptp4l.conf built into the container
  Slots,          \* bound on the requests whose background tasks run at once
  MaxRequests,    \* bound on the requests
  MaxFaults       \* bound on crashes, exits and failed calls

RenderKeys == {"domain", "sync_interval"}
ReaderKeys == <<"lock_threshold_ns", "sync_interval">>   \* in reload_config's order
Keys == RenderKeys \cup {"lock_threshold_ns"}

Tasks == {"restart_ptp", "restart_system", "reboot_os"}

RenderedConfs == [domain : Int, sync_interval : Int, interface : Nics]

ASSUME SettingsAssumption ==
  /\ \A sec \in Sections \cup Patches :
       /\ DOMAIN sec \subseteq Keys
       /\ \A k \in DOMAIN sec : sec[k] \in Int
  /\ None \notin Nics
  /\ Absent # Default
  /\ Absent \notin RenderedConfs /\ Default \notin RenderedConfs
  /\ MaxRequests \in Nat /\ MaxFaults \in Nat

VARIABLES
  ptp, amber,         \* config.json: the "ptp" section, media_nic_amber
  conf,               \* ptp4l.conf
  pc,                 \* the handler: free, saved or rendered
  request,            \* what it works on
  reader,             \* the log reader's _cfg
  restarting,         \* _restarting
  todo,               \* background tasks of each request, those done removed
  phase,              \* of the first of them
  container,          \* entrypoint.sh: checking, copying, launching, running
  running,            \* the ptp4l.conf ptp4l runs with
  requests, faults,   \* counters, for the bounds
  lost,               \* history: see below
  promised            \* history: an answer said "os_reboot", not yet tried

store == <<ptp, amber>>
handler == <<pc, request>>
background == <<restarting, todo, phase>>
ptpContainer == <<container, running>>
history == <<lost, promised>>
vars == <<store, conf, handler, reader, background, ptpContainer,
          requests, faults, history>>

Idle == [kind |-> "none", restart |-> FALSE, ip |-> FALSE]

ReaderDomain == {ReaderKeys[i] : i \in DOMAIN ReaderKeys}

\* render_ptp4l_conf, which raises KeyError when a key is missing.
CanRender == RenderKeys \subseteq DOMAIN ptp
Rendered == [domain |-> ptp.domain, sync_interval |-> ptp.sync_interval,
             interface |-> amber]

\* reload_config: the keys are assigned in order, up to the first missing one.
Reloaded(cfg) ==
  [k \in ReaderDomain |->
     IF \E i \in DOMAIN ReaderKeys :
          ReaderKeys[i] = k /\ \A j \in 1..i : ReaderKeys[j] \in DOMAIN ptp
     THEN ptp[k] ELSE cfg[k]]
CanReload == ReaderDomain \subseteq DOMAIN ptp

\* What _cfg holds when the module is loaded.
BuiltIn == [lock_threshold_ns |-> 500, sync_interval |-> -7]

Complete(sec) == DOMAIN sec = Keys

Init ==
  /\ ptp \in {sec \in Sections : Complete(sec)}
  /\ amber \in Nics
  /\ conf = Absent
  /\ pc = "free" /\ request = Idle
  /\ reader = [k \in ReaderDomain |-> ptp[k]]
  /\ restarting = FALSE
  /\ todo = [s \in Slots |-> <<>>] /\ phase = [s \in Slots |-> "queued"]
  /\ container = "checking" /\ running = Absent
  /\ requests = 0 /\ faults = 0
  /\ lost = FALSE /\ promised = FALSE

-----------------------------------------------------------------------------
\* The handlers, up to their write of config.json.

Begin ==
  /\ pc = "free" /\ requests < MaxRequests
  /\ \E s \in Slots : todo[s] = <<>>
  /\ requests' = requests + 1
  /\ UNCHANGED <<conf, reader, background, ptpContainer, faults, history>>

\* dict.update
Updated(sec, patch) ==
  [k \in DOMAIN sec \cup DOMAIN patch |->
     IF k \in DOMAIN patch THEN patch[k] ELSE sec[k]]

\* update_section: a missing field keeps its value.
update_ptp_config(patch) ==
  /\ Begin
  /\ ptp' = Updated(ptp, patch)
  /\ pc' = "saved" /\ request' = [Idle EXCEPT !.kind = "ptp"]
  /\ UNCHANGED amber

\* The imported section replaces the stored one whole; "system" is skipped. A
\* file without a "ptp" section leaves the stored one.
import_config(sec) ==
  /\ Begin
  /\ ptp' = sec
  /\ pc' = "saved" /\ request' = [Idle EXCEPT !.kind = "ptp"]
  /\ UNCHANGED amber

\* NICs, IP addresses or both; nic is Amber's, restart tells that some NIC is
\* given. Without nic and ip this is POST /api/system/restart as well, and
\* without nic and restart POST /api/system/reboot and /shutdown.
update_system_config(nic, restart, ip) ==
  /\ Begin
  /\ nic # None => restart
  /\ restart \/ ip
  /\ amber' = IF nic = None THEN amber ELSE nic
  /\ pc' = IF nic = None THEN "rendered" ELSE "saved"
  /\ request' = [kind |-> "system", restart |-> restart, ip |-> ip]
  /\ UNCHANGED ptp

-----------------------------------------------------------------------------
\* The handlers, to their answers.

\* An exception: 500, and the background tasks added so far are dropped.
Raise ==
  /\ pc' = "free" /\ request' = Idle
  /\ lost' = TRUE
  /\ UNCHANGED <<store, conf, background, ptpContainer, requests, promised>>

\* Variant: NICs are saved without rendering ptp4l.conf anew.
RenderPtpOnly ==
  /\ pc = "saved" /\ CanRender
  /\ conf' = IF request.kind = "ptp" THEN Rendered ELSE conf
  /\ pc' = "rendered"
  /\ UNCHANGED <<store, request, reader, background, ptpContainer,
                 requests, faults, history>>

Render ==
  /\ pc = "saved" /\ CanRender
  /\ conf' = Rendered
  /\ pc' = "rendered"
  /\ UNCHANGED <<store, request, reader, background, ptpContainer,
                 requests, faults, history>>

\* KeyError, or a file cannot be read or written: swallowed by
\* update_system_config alone.
RenderRaises ==
  /\ pc = "saved"
  /\ \/ ~CanRender /\ UNCHANGED faults
     \/ faults < MaxFaults /\ faults' = faults + 1
  /\ \/ /\ request.kind = "ptp"
        /\ Raise
     \/ /\ request.kind = "system"
        /\ pc' = "rendered" /\ lost' = TRUE
        /\ UNCHANGED <<store, conf, request, background, ptpContainer,
                       requests, promised>>
  /\ UNCHANGED reader

\* Variant: no second restart while one is under way.
ScheduleOnce(tasks) ==
  IF \E s \in Slots : todo[s] # <<>> THEN UNCHANGED <<todo, phase>>
  ELSE \E s \in Slots :
         /\ todo' = [todo EXCEPT ![s] = tasks]
         /\ UNCHANGED phase

Schedule(tasks) ==
  \E s \in Slots :
    /\ todo[s] = <<>>
    /\ todo' = [todo EXCEPT ![s] = tasks]
    /\ UNCHANGED phase

\* reload_config raises on the first missing key, and what it assigned stays;
\* or it cannot read config.json.
ReloadRaises ==
  /\ pc = "rendered" /\ request.kind = "ptp"
  /\ \/ ~CanReload /\ reader' = Reloaded(reader) /\ UNCHANGED faults
     \/ faults < MaxFaults /\ faults' = faults + 1 /\ UNCHANGED reader
  /\ Raise

AnswerPtp ==
  /\ pc = "rendered" /\ request.kind = "ptp" /\ CanReload
  /\ reader' = Reloaded(reader)
  /\ Schedule(<<"restart_ptp">>)
  /\ pc' = "free" /\ request' = Idle
  /\ lost' = FALSE
  /\ UNCHANGED <<store, conf, restarting, ptpContainer, requests, faults, promised>>

\* _write_netplan cannot write.
NetplanRaises ==
  /\ pc = "rendered" /\ request.ip /\ faults < MaxFaults
  /\ faults' = faults + 1
  /\ Raise
  /\ UNCHANGED reader

AnswerSystem ==
  /\ pc = "rendered" /\ request.kind = "system"
  /\ Schedule((IF request.restart THEN <<"restart_system">> ELSE <<>>)
              \o (IF request.ip THEN <<"reboot_os">> ELSE <<>>))
  /\ pc' = "free" /\ request' = Idle
  /\ promised' = (promised \/ request.ip)
  /\ UNCHANGED <<store, conf, reader, restarting, ptpContainer, requests, faults, lost>>

-----------------------------------------------------------------------------
\* The background tasks: one thread for each request, one task after another.

Current(s, task, ph) == todo[s] # <<>> /\ Head(todo[s]) = task /\ phase[s] = ph

\* restart_ptp_container: set_restarting(True).
SetRestarting(s) ==
  /\ Current(s, "restart_ptp", "queued")
  /\ restarting' = TRUE
  /\ phase' = [phase EXCEPT ![s] = "flagged"]
  /\ UNCHANGED <<store, conf, handler, reader, todo, ptpContainer,
                 requests, faults, history>>

\* Variant: no finally, a call that fails leaves the flag.
DockerRestartNoFinally(s) ==
  /\ Current(s, "restart_ptp", "flagged") \/ Current(s, "restart_system", "queued")
  /\ \/ /\ container' = "checking"
        /\ phase' = [phase EXCEPT ![s] = "called"]
        /\ UNCHANGED <<todo, faults, lost>>
     \/ /\ faults < MaxFaults
        /\ faults' = faults + 1 /\ lost' = TRUE
        /\ todo' = [todo EXCEPT ![s] = Tail(@)]
        /\ phase' = [phase EXCEPT ![s] = "queued"]
        /\ UNCHANGED container
  /\ UNCHANGED <<store, conf, handler, reader, restarting, running,
                 requests, promised>>

\* containers.get("moip-ptp").restart(): the entrypoint begins anew, or the
\* call fails, which is logged.
DockerRestart(s) ==
  /\ Current(s, "restart_ptp", "flagged") \/ Current(s, "restart_system", "queued")
  /\ phase' = [phase EXCEPT ![s] = "called"]
  /\ \/ /\ container' = "checking"
        /\ UNCHANGED <<faults, lost>>
     \/ /\ faults < MaxFaults
        /\ faults' = faults + 1 /\ lost' = TRUE
        /\ UNCHANGED container
  /\ UNCHANGED <<store, conf, handler, reader, restarting, todo, running,
                 requests, promised>>

\* Variant: the phase is kept for the next request.
ClearRestartingDirty(s) ==
  /\ Current(s, "restart_ptp", "called")
  /\ restarting' = FALSE
  /\ todo' = [todo EXCEPT ![s] = Tail(@)]
  /\ UNCHANGED <<store, conf, handler, reader, phase, ptpContainer,
                 requests, faults, history>>

\* The finally clause: set_restarting(False), whoever else is restarting.
ClearRestarting(s) ==
  /\ Current(s, "restart_ptp", "called")
  /\ restarting' = FALSE
  /\ todo' = [todo EXCEPT ![s] = Tail(@)]
  /\ phase' = [phase EXCEPT ![s] = "queued"]
  /\ UNCHANGED <<store, conf, handler, reader, ptpContainer,
                 requests, faults, history>>

\* The process ends and Docker starts it again: run() reloads the reader's
\* settings over the built-in ones (and ends there if a key is missing).
Reborn ==
  /\ pc' = "free" /\ request' = Idle
  /\ reader' = Reloaded(BuiltIn)
  /\ restarting' = FALSE
  /\ todo' = [s \in Slots |-> <<>>] /\ phase' = [s \in Slots |-> "queued"]
  /\ UNCHANGED <<store, conf, running, requests>>

\* _do_restart_system: os._exit, whatever else the process was doing.
Exit(s) ==
  /\ Current(s, "restart_system", "called")
  /\ lost' = (lost \/ pc # "free" \/ \E t \in Slots \ {s} : todo[t] # <<>>)
  /\ Reborn
  /\ UNCHANGED <<container, faults, promised>>

\* _do_reboot_os: the syscall fails, which is logged, or the host goes down
\* and both containers come back (a shutdown and a start do the same).
RebootFails(s) ==
  /\ Current(s, "reboot_os", "queued") /\ faults < MaxFaults
  /\ faults' = faults + 1
  /\ promised' = FALSE
  /\ todo' = [todo EXCEPT ![s] = Tail(@)]
  /\ UNCHANGED <<store, conf, handler, reader, restarting, phase, ptpContainer,
                 requests, lost>>

Reboot(s) ==
  /\ Current(s, "reboot_os", "queued")
  /\ lost' = (lost \/ pc # "free")
  /\ Reborn
  /\ container' = "checking"
  /\ promised' = FALSE
  /\ UNCHANGED faults

\* The process ends for a reason of its own.
Crash ==
  /\ faults < MaxFaults
  /\ faults' = faults + 1
  /\ lost' = (lost \/ pc # "free" \/ \E t \in Slots : todo[t] # <<>>)
  /\ Reborn
  /\ UNCHANGED <<container, promised>>

-----------------------------------------------------------------------------
\* The PTP container: entrypoint.sh, and Docker, which starts it again.

Entrypoint == UNCHANGED <<store, conf, handler, reader, background, requests, faults, history>>

CheckConf ==
  /\ container = "checking"
  /\ container' = IF conf = Absent THEN "copying" ELSE "launching"
  /\ UNCHANGED running
  /\ Entrypoint

CopyDefault ==
  /\ container = "copying"
  /\ container' = "launching"
  /\ conf' = Default
  /\ UNCHANGED <<store, handler, reader, background, running, requests, faults, history>>

Launch ==
  /\ container = "launching"
  /\ container' = "running" /\ running' = conf
  /\ Entrypoint

PtpExits ==
  /\ container # "checking" /\ faults < MaxFaults
  /\ faults' = faults + 1
  /\ container' = "checking"
  /\ UNCHANGED <<store, conf, handler, reader, background, running, requests, history>>

Handlers ==
  \/ \E patch \in Patches : update_ptp_config(patch)
  \/ \E sec \in Sections \cup {ptp} : import_config(sec)
  \/ \E nic \in Nics \cup {None}, restart, ip \in BOOLEAN :
       update_system_config(nic, restart, ip)
  \/ Render \/ RenderRaises
  \/ ReloadRaises \/ AnswerPtp
  \/ NetplanRaises \/ AnswerSystem

Progress(s) ==
  \/ SetRestarting(s) \/ DockerRestart(s) \/ ClearRestarting(s)
  \/ Exit(s) \/ RebootFails(s) \/ Reboot(s)

Next ==
  \/ Handlers
  \/ \E s \in Slots : Progress(s)
  \/ CheckConf \/ CopyDefault \/ Launch \/ PtpExits
  \/ Crash

Spec == Init /\ [][Next]_vars

\* A handler that has begun goes on, a task's thread goes on (the call to
\* Docker has a timeout), the container starts. Nobody is bound to ask for
\* anything, and nothing is bound to fail.
Fairness ==
  /\ WF_vars(Render \/ RenderRaises \/ ReloadRaises \/ AnswerPtp
             \/ NetplanRaises \/ AnswerSystem)
  /\ \A s \in Slots : WF_vars(Progress(s))
  /\ WF_vars(CheckConf \/ CopyDefault \/ Launch)

FairSpec == Spec /\ Fairness

-----------------------------------------------------------------------------
(* Correctness *)

Confs == {Absent, Default} \cup RenderedConfs

\* The shape of the state: a slot without tasks is ready for the next request,
\* and the entrypoint is past its check only if there is something to copy.
TypeOK ==
  /\ DOMAIN ptp \subseteq Keys /\ \A k \in DOMAIN ptp : ptp[k] \in Int
  /\ amber \in Nics
  /\ conf \in Confs /\ running \in Confs
  /\ pc \in {"free", "saved", "rendered"}
  /\ request \in [kind : {"none", "ptp", "system"}, restart : BOOLEAN, ip : BOOLEAN]
  /\ request = Idle <=> pc = "free"
  /\ reader \in [ReaderDomain -> Int]
  /\ restarting \in BOOLEAN
  /\ todo \in [Slots -> Seq(Tasks)]
  /\ phase \in [Slots -> {"queued", "flagged", "called"}]
  /\ \A s \in Slots : todo[s] = <<>> => phase[s] = "queued"
  /\ container \in {"checking", "copying", "launching", "running"}
  /\ requests \in 0..MaxRequests /\ faults \in 0..MaxFaults
  /\ lost \in BOOLEAN /\ promised \in BOOLEAN

\* Nothing is under way and ptp4l runs.
Quiet ==
  /\ pc = "free" /\ container = "running"
  /\ \A s \in Slots : todo[s] = <<>>

\* When all is quiet, and since the last change of the PTP settings that was
\* answered "ok" no step failed and no process ended before its work was done
\* (lost), then everybody goes by config.json: ptp4l runs with the ptp4l.conf
\* there is, that file is rendered from config.json (or the built-in one), and
\* the log reader judges by the same settings.
QuietMeansSettled ==
  Quiet /\ ~lost =>
    /\ running = conf
    /\ conf = Default \/ (CanRender /\ conf = Rendered)
    /\ CanReload /\ reader = Reloaded(reader)

\* The status shows "restarting" only while some restart of the container is
\* under way: whichever of two that overlap ends first, the flag it takes back
\* is never left behind.
FlagMeansRestart ==
  restarting => \E s \in Slots : \E ph \in {"flagged", "called"} :
                  Current(s, "restart_ptp", ph)

\* The status does not show "restarting" for ever, also when the call fails.
RestartingEnds == restarting ~> ~restarting

\* If from some time on no handler is at work and nothing has been lost, ptp4l
\* ends up with the ptp4l.conf there is.
PtpCatchesUp == <>[](pc = "free" /\ ~lost) => <>[](running = conf)

\* entrypoint.sh, lines 10-11: the built-in file is for a container whose
\* ptp4l.conf has not been rendered yet.
DefaultNeverReplacesRendered ==
  [][ conf \notin {Absent, Default} => conf' # Default ]_vars

\* system.py, line 251: a change of IP addresses reboots the server's OS; an
\* answer that says "os_reboot" is followed by the attempt.
RebootFollows == promised ~> ~promised
=============================================================================
