----------------------------- MODULE SettingsProofs -----------------------------
(***************************************************************************)
(* Proofs about Settings, for every value of its constants: any sections,  *)
(* patches and NICs, any number of requests, faults and tasks at once.     *)
(***************************************************************************)
EXTENDS Settings, SequenceTheorems, TLAPS

-----------------------------------------------------------------------------
(* The configuration *)

\* What config.json's "ptp" section can be.
SectionOK(sec) ==
  /\ DOMAIN sec \subseteq Keys
  /\ \A k \in DOMAIN sec : sec[k] \in Int

LEMMA ReaderDomainIs == ReaderDomain = {"lock_threshold_ns", "sync_interval"}
<1>1. DOMAIN ReaderKeys = 1..2
  BY DEF ReaderKeys
<1>2. ReaderKeys[1] = "lock_threshold_ns" /\ ReaderKeys[2] = "sync_interval"
  BY DEF ReaderKeys
<1> QED BY <1>1, <1>2 DEF ReaderDomain

LEMMA PatchedSection ==
  ASSUME NEW sec, SectionOK(sec), NEW patch \in Patches
  PROVE  SectionOK(Updated(sec, patch))
BY SettingsAssumption DEF SettingsAssumption, SectionOK, Updated

\* A complete section leaves nothing of what was there before.
LEMMA ReloadedWhole ==
  ASSUME CanReload, NEW c1, NEW c2
  PROVE  Reloaded(c1) = Reloaded(c2)
<1>1. DOMAIN ReaderKeys = 1..2 /\ ReaderKeys[1] = "lock_threshold_ns"
      /\ ReaderKeys[2] = "sync_interval"
  BY DEF ReaderKeys
<1>2. "lock_threshold_ns" \in DOMAIN ptp /\ "sync_interval" \in DOMAIN ptp
  BY ReaderDomainIs DEF CanReload
<1>3. \A k \in ReaderDomain :
        \E i \in DOMAIN ReaderKeys :
          ReaderKeys[i] = k /\ \A j \in 1..i : ReaderKeys[j] \in DOMAIN ptp
  <2>1. \A i \in 1..2 : \A j \in 1..i : ReaderKeys[j] \in DOMAIN ptp
    <3> SUFFICES ASSUME NEW i \in 1..2, NEW j \in 1..i PROVE ReaderKeys[j] \in DOMAIN ptp
      OBVIOUS
    <3>1. j = 1 \/ j = 2
      OBVIOUS
    <3> QED BY <3>1, <1>1, <1>2
  <2>2. 1 \in DOMAIN ReaderKeys /\ 2 \in DOMAIN ReaderKeys
    BY <1>1
  <2>3. \A k \in ReaderDomain : k = ReaderKeys[1] \/ k = ReaderKeys[2]
    BY <1>1, ReaderDomainIs
  <2> QED BY <1>1, <2>1, <2>2, <2>3
<1> QED BY <1>3 DEF Reloaded

LEMMA ReloadedType ==
  ASSUME SectionOK(ptp), NEW c \in [ReaderDomain -> Int]
  PROVE  Reloaded(c) \in [ReaderDomain -> Int]
<1> SUFFICES ASSUME NEW k \in ReaderDomain,
                    NEW i \in DOMAIN ReaderKeys, ReaderKeys[i] = k,
                    \A j \in 1..i : ReaderKeys[j] \in DOMAIN ptp
             PROVE  ptp[k] \in Int
  BY DEF Reloaded
<1>1. i \in 1..i
  BY DEF ReaderKeys
<1> QED BY <1>1 DEF SectionOK

LEMMA BuiltInType == BuiltIn \in [ReaderDomain -> Int]
BY ReaderDomainIs DEF BuiltIn

LEMMA RenderedType ==
  ASSUME SectionOK(ptp), amber \in Nics, CanRender
  PROVE  Rendered \in RenderedConfs
BY DEF SectionOK, CanRender, RenderKeys, Rendered, RenderedConfs

-----------------------------------------------------------------------------
(* The shape of the state, part by part *)

StoreOK == SectionOK(ptp) /\ amber \in Nics
ConfOK == conf \in Confs /\ running \in Confs
HandlerOK ==
  /\ pc \in {"free", "saved", "rendered"}
  /\ request \in [kind : {"none", "ptp", "system"}, restart : BOOLEAN, ip : BOOLEAN]
  /\ request = Idle <=> pc = "free"
TodoOK ==
  /\ todo \in [Slots -> Seq(Tasks)]
  /\ phase \in [Slots -> {"queued", "flagged", "called"}]
  /\ \A s \in Slots : todo[s] = <<>> => phase[s] = "queued"
ReaderOK == reader \in [ReaderDomain -> Int]
ContainerOK == container \in {"checking", "copying", "launching", "running"}
CountersOK == requests \in 0..MaxRequests /\ faults \in 0..MaxFaults
FlagsOK == restarting \in BOOLEAN /\ lost \in BOOLEAN /\ promised \in BOOLEAN

Shape ==
  /\ StoreOK /\ ConfOK /\ HandlerOK /\ TodoOK /\ ReaderOK
  /\ ContainerOK /\ CountersOK /\ FlagsOK

LEMMA ShapeIsType == Shape <=> TypeOK
BY DEF Shape, StoreOK, ConfOK, HandlerOK, TodoOK, ReaderOK, ContainerOK,
       CountersOK, FlagsOK, TypeOK, SectionOK

LEMMA InitShape == Init => Shape
<1> SUFFICES ASSUME Init PROVE Shape
  OBVIOUS
<1>1. StoreOK
  BY SettingsAssumption DEF SettingsAssumption, Init, StoreOK, SectionOK
<1>2. ConfOK
  BY DEF Init, ConfOK, Confs
<1>3. HandlerOK
  BY DEF Init, HandlerOK, Idle
<1>4. TodoOK
  <2>1. <<>> \in Seq(Tasks)
    OBVIOUS
  <2> QED BY <2>1 DEF Init, TodoOK
<1>5. ReaderOK
  BY <1>1, ReaderDomainIs DEF Init, ReaderOK, StoreOK, SectionOK, Complete, Keys, RenderKeys
<1>6. ContainerOK /\ FlagsOK
  BY DEF Init, ContainerOK, FlagsOK
<1>7. CountersOK
  BY SettingsAssumption DEF SettingsAssumption, Init, CountersOK
<1> QED BY <1>1, <1>2, <1>3, <1>4, <1>5, <1>6, <1>7 DEF Shape

LEMMA StoreStep == ASSUME Shape, [Next]_vars PROVE StoreOK'
<1> USE DEF store
<1>1. ASSUME NEW patch \in Patches, update_ptp_config(patch) PROVE StoreOK'
  BY <1>1, PatchedSection DEF Shape, StoreOK, update_ptp_config
<1>2. ASSUME NEW sec \in Sections \cup {ptp}, import_config(sec) PROVE StoreOK'
  BY <1>2, SettingsAssumption
     DEF SettingsAssumption, Shape, StoreOK, SectionOK, import_config
<1>3. ASSUME NEW nic \in Nics \cup {None}, NEW restart \in BOOLEAN, NEW ip \in BOOLEAN,
             update_system_config(nic, restart, ip)
      PROVE  StoreOK'
  BY <1>3 DEF Shape, StoreOK, SectionOK, update_system_config
<1>4. ASSUME UNCHANGED store PROVE StoreOK'
  BY <1>4 DEF Shape, StoreOK, SectionOK
<1>5. CASE \/ Render \/ RenderRaises \/ ReloadRaises \/ AnswerPtp
           \/ NetplanRaises \/ AnswerSystem
  BY <1>4, <1>5 DEF Render, RenderRaises, ReloadRaises, AnswerPtp,
                    NetplanRaises, AnswerSystem, Raise
<1>6. ASSUME NEW s \in Slots, Progress(s) PROVE StoreOK'
  BY <1>4, <1>6 DEF Progress, SetRestarting, DockerRestart, ClearRestarting,
                    Exit, RebootFails, Reboot, Reborn
<1>7. CASE CheckConf \/ CopyDefault \/ Launch \/ PtpExits \/ Crash \/ UNCHANGED vars
  BY <1>4, <1>7 DEF CheckConf, CopyDefault, Launch, PtpExits, Crash, Reborn,
                    Entrypoint, vars
<1> QED BY <1>1, <1>2, <1>3, <1>5, <1>6, <1>7 DEF Next, Handlers

LEMMA ConfStep == ASSUME Shape, [Next]_vars PROVE ConfOK'
<1>1. ASSUME conf' \in {conf, Default}, running' \in {running, conf} PROVE ConfOK'
  BY <1>1 DEF Shape, ConfOK, Confs
<1>2. ASSUME Handlers, ~Render PROVE UNCHANGED <<conf, running>>
  BY <1>2 DEF Handlers, update_ptp_config, import_config, update_system_config,
       Begin, RenderRaises, ReloadRaises, AnswerPtp, NetplanRaises,
       AnswerSystem, Raise, ptpContainer
<1>3. CASE Render
  BY <1>3, RenderedType DEF Render, Shape, StoreOK, ConfOK, Confs, ptpContainer
<1>4. ASSUME NEW s \in Slots, Progress(s) PROVE UNCHANGED <<conf, running>>
  BY <1>4 DEF Progress, SetRestarting, DockerRestart, ClearRestarting,
       Exit, RebootFails, Reboot, Reborn, ptpContainer
<1>5. CASE CheckConf \/ CopyDefault \/ Launch \/ PtpExits \/ Crash \/ UNCHANGED vars
  BY <1>1, <1>5 DEF CheckConf, CopyDefault, Launch, PtpExits, Crash, Reborn,
       Entrypoint, vars, ptpContainer
<1> QED BY <1>1, <1>2, <1>3, <1>4, <1>5 DEF Next

LEMMA HandlerStep == ASSUME Shape, [Next]_vars PROVE HandlerOK'
<1> USE DEF handler
<1>1. ASSUME NEW patch \in Patches, update_ptp_config(patch) PROVE HandlerOK'
  BY <1>1 DEF Shape, HandlerOK, update_ptp_config, Idle
<1>2. ASSUME NEW sec \in Sections \cup {ptp}, import_config(sec) PROVE HandlerOK'
  BY <1>2 DEF Shape, HandlerOK, import_config, Idle
<1>3. ASSUME NEW nic \in Nics \cup {None}, NEW restart \in BOOLEAN, NEW ip \in BOOLEAN,
             update_system_config(nic, restart, ip)
      PROVE  HandlerOK'
  <2>1. request' = [kind |-> "system", restart |-> restart, ip |-> ip]
        /\ pc' \in {"saved", "rendered"}
    BY <1>3 DEF update_system_config
  <2>2. request' \in [kind : {"none", "ptp", "system"}, restart : BOOLEAN, ip : BOOLEAN]
    BY <2>1
  <2>3. request' # Idle
    BY <2>1 DEF Idle
  <2> QED BY <2>1, <2>2, <2>3 DEF HandlerOK, Idle
<1>4. ASSUME UNCHANGED handler PROVE HandlerOK'
  BY <1>4 DEF Shape, HandlerOK, Idle
<1>5. ASSUME pc' = "free", request' = Idle PROVE HandlerOK'
  BY <1>5 DEF HandlerOK, Idle
<1>6. ASSUME pc = "saved", pc' = "rendered", request' = request PROVE HandlerOK'
  BY <1>6 DEF Shape, HandlerOK, Idle
<1>7. CASE \/ Render \/ RenderRaises \/ ReloadRaises \/ AnswerPtp
           \/ NetplanRaises \/ AnswerSystem
  BY <1>5, <1>6, <1>7 DEF Render, RenderRaises, ReloadRaises, AnswerPtp,
                    NetplanRaises, AnswerSystem, Raise
<1>8. ASSUME NEW s \in Slots, Progress(s) PROVE HandlerOK'
  BY <1>4, <1>5, <1>8 DEF Progress, SetRestarting, DockerRestart, ClearRestarting,
                    Exit, RebootFails, Reboot, Reborn
<1>9. CASE CheckConf \/ CopyDefault \/ Launch \/ PtpExits \/ Crash \/ UNCHANGED vars
  BY <1>4, <1>5, <1>9 DEF CheckConf, CopyDefault, Launch, PtpExits, Crash, Reborn,
                    Entrypoint, vars
<1> QED BY <1>1, <1>2, <1>3, <1>7, <1>8, <1>9 DEF Next, Handlers

\* A request's tasks are given to a free slot.
LEMMA ScheduleStep ==
  ASSUME TodoOK, NEW tasks \in Seq(Tasks), Schedule(tasks)
  PROVE  TodoOK'
<1> PICK s \in Slots : /\ todo[s] = <<>>
                       /\ todo' = [todo EXCEPT ![s] = tasks]
                       /\ UNCHANGED phase
  BY DEF Schedule
<1>1. todo' \in [Slots -> Seq(Tasks)] /\ phase' \in [Slots -> {"queued", "flagged", "called"}]
  BY DEF TodoOK
<1>2. \A t \in Slots : todo'[t] = <<>> => phase'[t] = "queued"
  BY DEF TodoOK
<1> QED BY <1>1, <1>2 DEF TodoOK

\* The task at the head of a slot is over.
LEMMA DoneStep ==
  ASSUME TodoOK, NEW s \in Slots, todo[s] # <<>>,
         todo' = [todo EXCEPT ![s] = Tail(@)],
         phase' = [phase EXCEPT ![s] = "queued"]
  PROVE  TodoOK'
<1>1. Tail(todo[s]) \in Seq(Tasks)
  BY HeadTailProperties DEF TodoOK
<1>2. todo' \in [Slots -> Seq(Tasks)] /\ phase' \in [Slots -> {"queued", "flagged", "called"}]
  BY <1>1 DEF TodoOK
<1>3. \A t \in Slots : todo'[t] = <<>> => phase'[t] = "queued"
  BY DEF TodoOK
<1> QED BY <1>2, <1>3 DEF TodoOK

\* It goes on to its next step.
LEMMA PhaseStep ==
  ASSUME TodoOK, NEW s \in Slots, todo[s] # <<>>, UNCHANGED todo,
         NEW ph \in {"flagged", "called"},
         phase' = [phase EXCEPT ![s] = ph]
  PROVE  TodoOK'
BY DEF TodoOK

LEMMA RebornTodo ==
  ASSUME Reborn
  PROVE  TodoOK'
<1>1. <<>> \in Seq(Tasks)
  OBVIOUS
<1> QED BY <1>1 DEF Reborn, TodoOK

LEMMA TodoStep == ASSUME Shape, [Next]_vars PROVE TodoOK'
<1>1. TodoOK
  BY DEF Shape
<1>2. ASSUME UNCHANGED <<todo, phase>> PROVE TodoOK'
  BY <1>1, <1>2 DEF TodoOK
<1>3. ASSUME Handlers, ~AnswerPtp, ~AnswerSystem PROVE UNCHANGED <<todo, phase>>
  BY <1>3 DEF Handlers, update_ptp_config, import_config, update_system_config,
       Begin, Render, RenderRaises, ReloadRaises, NetplanRaises, Raise, background
<1>4. CASE AnswerPtp
  <2>1. <<"restart_ptp">> \in Seq(Tasks)
    BY DEF Tasks
  <2> QED BY <1>1, <1>4, <2>1, ScheduleStep DEF AnswerPtp
<1>5. CASE AnswerSystem
  <2>1. <<>> \in Seq(Tasks) /\ <<"restart_system">> \in Seq(Tasks) /\ <<"reboot_os">> \in Seq(Tasks)
    BY DEF Tasks
  <2>2. \A x, y \in Seq(Tasks) : x \o y \in Seq(Tasks)
    BY ConcatProperties
  <2>3. ((IF request.restart THEN <<"restart_system">> ELSE <<>>)
         \o (IF request.ip THEN <<"reboot_os">> ELSE <<>>)) \in Seq(Tasks)
    BY <2>1, <2>2
  <2> QED BY <1>1, <1>5, <2>3, ScheduleStep DEF AnswerSystem
<1>6. ASSUME NEW s \in Slots, SetRestarting(s) PROVE TodoOK'
  BY <1>1, <1>6, PhaseStep DEF SetRestarting, Current
<1>7. ASSUME NEW s \in Slots, DockerRestart(s) PROVE TodoOK'
  BY <1>1, <1>7, PhaseStep DEF DockerRestart, Current
<1>8. ASSUME NEW s \in Slots, ClearRestarting(s) PROVE TodoOK'
  BY <1>1, <1>8, DoneStep DEF ClearRestarting, Current
<1>9. ASSUME NEW s \in Slots, RebootFails(s) PROVE TodoOK'
  <2>1. phase[s] = "queued" /\ todo[s] # <<>> /\ UNCHANGED phase
        /\ todo' = [todo EXCEPT ![s] = Tail(@)]
    BY <1>9 DEF RebootFails, Current
  <2>2. phase' = [phase EXCEPT ![s] = "queued"]
    BY <1>1, <2>1 DEF TodoOK
  <2> QED BY <1>1, <2>1, <2>2, DoneStep
<1>10. ASSUME NEW s \in Slots, Exit(s) \/ Reboot(s) PROVE TodoOK'
  BY <1>10, RebornTodo DEF Exit, Reboot
<1>11. CASE Crash
  BY <1>11, RebornTodo DEF Crash
<1>12. CASE CheckConf \/ CopyDefault \/ Launch \/ PtpExits \/ UNCHANGED vars
  BY <1>2, <1>12 DEF CheckConf, CopyDefault, Launch, PtpExits,
                     Entrypoint, vars, background
<1> QED
  BY <1>2, <1>3, <1>4, <1>5, <1>6, <1>7, <1>8, <1>9, <1>10, <1>11, <1>12
     DEF Next, Progress

LEMMA ReaderStep == ASSUME Shape, [Next]_vars PROVE ReaderOK'
<1>1. ReaderOK /\ SectionOK(ptp)
  BY DEF Shape, StoreOK
<1>2. ASSUME UNCHANGED reader PROVE ReaderOK'
  BY <1>1, <1>2 DEF ReaderOK
<1>3. ASSUME reader' \in {Reloaded(reader), Reloaded(BuiltIn)} PROVE ReaderOK'
  BY <1>1, <1>3, ReloadedType, BuiltInType DEF ReaderOK
<1>4. CASE Handlers
  BY <1>2, <1>3, <1>4 DEF Handlers, update_ptp_config, import_config,
       update_system_config, Begin, Render, RenderRaises, ReloadRaises,
       AnswerPtp, NetplanRaises, AnswerSystem
<1>5. ASSUME NEW s \in Slots, Progress(s) PROVE ReaderOK'
  BY <1>2, <1>3, <1>5 DEF Progress, SetRestarting, DockerRestart, ClearRestarting,
       Exit, RebootFails, Reboot, Reborn
<1>6. CASE CheckConf \/ CopyDefault \/ Launch \/ PtpExits \/ Crash \/ UNCHANGED vars
  BY <1>2, <1>3, <1>6 DEF CheckConf, CopyDefault, Launch, PtpExits, Crash, Reborn,
       Entrypoint, vars
<1> QED BY <1>4, <1>5, <1>6 DEF Next

LEMMA ContainerStep == ASSUME Shape, [Next]_vars PROVE ContainerOK'
<1>1. ASSUME container' \in {container, "checking", "copying", "launching", "running"}
      PROVE  ContainerOK'
  BY <1>1 DEF Shape, ContainerOK
<1>2. CASE Handlers
  BY <1>1, <1>2 DEF Handlers, update_ptp_config, import_config,
       update_system_config, Begin, Render, RenderRaises, ReloadRaises,
       AnswerPtp, NetplanRaises, AnswerSystem, Raise, ptpContainer
<1>3. ASSUME NEW s \in Slots, Progress(s) PROVE ContainerOK'
  BY <1>1, <1>3 DEF Progress, SetRestarting, DockerRestart, ClearRestarting,
       Exit, RebootFails, Reboot, Reborn, ptpContainer
<1>4. CASE CheckConf \/ CopyDefault \/ Launch \/ PtpExits \/ Crash \/ UNCHANGED vars
  BY <1>1, <1>4 DEF CheckConf, CopyDefault, Launch, PtpExits, Crash, Reborn,
       Entrypoint, vars, ptpContainer
<1> QED BY <1>2, <1>3, <1>4 DEF Next

LEMMA CountersStep == ASSUME Shape, [Next]_vars PROVE CountersOK'
<1>1. /\ requests \in Nat /\ faults \in Nat /\ MaxRequests \in Nat /\ MaxFaults \in Nat
      /\ requests <= MaxRequests /\ faults <= MaxFaults
  BY SettingsAssumption DEF SettingsAssumption, Shape, CountersOK
<1>2. ASSUME \/ requests' = requests
             \/ requests < MaxRequests /\ requests' = requests + 1,
             \/ faults' = faults
             \/ faults < MaxFaults /\ faults' = faults + 1
      PROVE  CountersOK'
  BY <1>1, <1>2 DEF CountersOK
<1>3. CASE Handlers
  BY <1>2, <1>3 DEF Handlers, update_ptp_config, import_config,
       update_system_config, Begin, Render, RenderRaises, ReloadRaises,
       AnswerPtp, NetplanRaises, AnswerSystem, Raise
<1>4. ASSUME NEW s \in Slots, Progress(s) PROVE CountersOK'
  BY <1>2, <1>4 DEF Progress, SetRestarting, DockerRestart, ClearRestarting,
       Exit, RebootFails, Reboot, Reborn
<1>5. CASE CheckConf \/ CopyDefault \/ Launch \/ PtpExits \/ Crash \/ UNCHANGED vars
  BY <1>2, <1>5 DEF CheckConf, CopyDefault, Launch, PtpExits, Crash, Reborn,
       Entrypoint, vars
<1> QED BY <1>3, <1>4, <1>5 DEF Next

LEMMA FlagsStep == ASSUME Shape, [Next]_vars PROVE FlagsOK'
<1>1. restarting \in BOOLEAN /\ lost \in BOOLEAN /\ promised \in BOOLEAN
      /\ request.ip \in BOOLEAN
  BY DEF Shape, FlagsOK, HandlerOK
<1>2. ASSUME restarting' \in {restarting, TRUE, FALSE}, lost' \in BOOLEAN,
             promised' \in BOOLEAN
      PROVE  FlagsOK'
  BY <1>1, <1>2 DEF FlagsOK
<1>3. CASE Handlers
  <2>1. /\ restarting' = restarting
        /\ lost' \in {lost, TRUE, FALSE}
        /\ promised' \in {promised, (promised \/ request.ip)}
    BY <1>3 DEF Handlers, update_ptp_config, import_config,
         update_system_config, Begin, Render, RenderRaises, ReloadRaises,
         AnswerPtp, NetplanRaises, AnswerSystem, Raise, background, history
  <2>2. (promised \/ request.ip) \in BOOLEAN
    OBVIOUS
  <2> QED BY <1>1, <1>2, <2>1, <2>2
<1>4. ASSUME NEW s \in Slots, Progress(s) PROVE FlagsOK'
  <2>1. /\ restarting' \in {restarting, TRUE, FALSE}
        /\ lost' \in {lost, TRUE, (lost \/ pc # "free"),
                     (lost \/ pc # "free" \/ \E t \in Slots \ {s} : todo[t] # <<>>)}
        /\ promised' \in {promised, FALSE}
    BY <1>4 DEF Progress, SetRestarting, DockerRestart, ClearRestarting,
         Exit, RebootFails, Reboot, Reborn, history
  <2>2. /\ (lost \/ pc # "free") \in BOOLEAN
        /\ (lost \/ pc # "free" \/ \E t \in Slots \ {s} : todo[t] # <<>>) \in BOOLEAN
    OBVIOUS
  <2>3. lost' \in BOOLEAN
    BY <1>1, <2>1, <2>2
  <2> QED BY <1>1, <1>2, <2>1, <2>3
<1>5. CASE Crash
  <2>1. lost' \in BOOLEAN /\ restarting' = FALSE /\ promised' = promised
    BY <1>5 DEF Crash, Reborn
  <2> QED BY <1>1, <1>2, <2>1
<1>6. CASE CheckConf \/ CopyDefault \/ Launch \/ PtpExits \/ UNCHANGED vars
  BY <1>1, <1>2, <1>6 DEF CheckConf, CopyDefault, Launch, PtpExits,
       Entrypoint, vars, background, history
<1> QED BY <1>3, <1>4, <1>5, <1>6 DEF Next

LEMMA ShapeStep == ASSUME Shape, [Next]_vars PROVE Shape'
BY StoreStep, ConfStep, HandlerStep, TodoStep, ReaderStep, ContainerStep,
   CountersStep, FlagsStep DEF Shape

\* The state keeps its shape: the types, no handler without a request, and no
\* slot left in the middle of a task that is over.
THEOREM Types == Spec => []TypeOK
<1>1. Init => Shape
  BY InitShape
<1>2. Shape /\ [Next]_vars => Shape'
  BY ShapeStep
<1>3. Shape => TypeOK
  BY ShapeIsType
<1> QED BY <1>1, <1>2, <1>3, PTL DEF Spec

-----------------------------------------------------------------------------
(* Everybody goes by config.json *)

\* ptp4l.conf says what config.json says, and so does the reader's cache.
Fresh == conf \in {Absent, Default} \/ (CanRender /\ conf = Rendered)
ReaderFresh == CanReload /\ reader = Reloaded(reader)

\* Slot s is about to restart the container.
Pending(s) ==
  \/ Current(s, "restart_ptp", "queued")
  \/ Current(s, "restart_ptp", "flagged")
  \/ Current(s, "restart_system", "queued")

\* A restart is on the way, from a handler or from a task.
Asked == pc # "free" /\ (request.kind = "ptp" \/ request.restart)
RestartComes == Asked \/ \E s \in Slots : Pending(s)

\* A saved change always asks for a restart.
SavedAsks == pc = "saved" => Asked
RenderedFresh == pc = "rendered" /\ request.kind = "ptp" => Fresh
ConfFresh == ~lost /\ pc # "saved" => Fresh
CacheFresh == ~lost /\ (pc = "free" \/ request.kind = "system") => ReaderFresh
OldRunsOnlyUntilRestart ==
  ~lost /\ container = "running" => running = conf \/ RestartComes
ConfThere == container \in {"launching", "running"} => conf # Absent

\* The inductive invariant: what QuietMeansSettled says of a quiet state,
\* extended to handlers that are at work (what they have not done yet may be
\* stale) and to tasks (an old ptp4l runs only while a restart is to come).
SettledInv ==
  /\ Shape
  /\ SavedAsks
  /\ RenderedFresh
  /\ ConfFresh
  /\ CacheFresh
  /\ OldRunsOnlyUntilRestart
  /\ ConfThere

LEMMA InitSettledInv == Init => SettledInv
<1> SUFFICES ASSUME Init PROVE SettledInv
  OBVIOUS
<1>1. Shape
  BY InitShape
<1>2. conf = Absent /\ pc = "free" /\ container = "checking" /\ lost = FALSE
  BY DEF Init
<1>3. ReaderFresh
  <2>1. DOMAIN ptp = Keys /\ reader = [k \in ReaderDomain |-> ptp[k]]
    BY DEF Init, Complete
  <2>2. CanReload
    BY <2>1, ReaderDomainIs DEF CanReload, Keys, RenderKeys
  <2>3. reader = Reloaded(reader)
    <3>1. \A k \in ReaderDomain : Reloaded(reader)[k] = reader[k]
      BY <2>1 DEF Reloaded
    <3>2. DOMAIN Reloaded(reader) = ReaderDomain /\ DOMAIN reader = ReaderDomain
      BY <2>1 DEF Reloaded
    <3>3. Reloaded(reader) = [k \in ReaderDomain |-> Reloaded(reader)[k]]
      BY DEF Reloaded
    <3> QED BY <2>1, <3>1, <3>2, <3>3
  <2> QED BY <2>2, <2>3 DEF ReaderFresh
<1> QED
  BY <1>1, <1>2, <1>3 DEF SettledInv, SavedAsks, RenderedFresh, ConfFresh,
     CacheFresh, OldRunsOnlyUntilRestart, ConfThere, Fresh

\* What is not touched stays fresh.
LEMMA FreshKept ==
  ASSUME UNCHANGED <<ptp, amber, conf>>
  PROVE  Fresh' <=> Fresh
BY DEF Fresh, CanRender, Rendered

LEMMA ReaderFreshKept ==
  ASSUME UNCHANGED <<ptp, reader>>
  PROVE  ReaderFresh' <=> ReaderFresh
BY DEF ReaderFresh, CanReload, Reloaded

LEMMA PendingKept ==
  ASSUME UNCHANGED <<todo, phase>>, NEW s \in Slots
  PROVE  Pending(s)' <=> Pending(s)
BY DEF Pending, Current

\* A reload from a complete section makes the cache fresh.
LEMMA ReloadMakesFresh ==
  ASSUME CanReload, UNCHANGED ptp, NEW c, reader' = Reloaded(c)
  PROVE  ReaderFresh'
<1>1. CanReload' /\ Reloaded(reader') = Reloaded(c)
  BY ReloadedWhole DEF CanReload
<1>2. Reloaded(reader)' = Reloaded(reader')
  BY DEF Reloaded
<1> QED BY <1>1, <1>2 DEF ReaderFresh

LEMMA BeginPtpSettled ==
  ASSUME SettledInv, Shape', Begin, pc' = "saved", request'.kind = "ptp"
  PROVE  SettledInv'
<1>1. UNCHANGED <<conf, reader, todo, phase, container, running, lost>>
  BY DEF Begin, background, ptpContainer, history
<1>2. Asked'
  BY DEF Asked
<1> QED
  BY <1>1, <1>2 DEF SettledInv, SavedAsks, RenderedFresh, ConfFresh,
     CacheFresh, OldRunsOnlyUntilRestart, ConfThere, RestartComes

LEMMA BeginSystemSettled ==
  ASSUME SettledInv, Shape', NEW nic \in Nics \cup {None},
         NEW restart \in BOOLEAN, NEW ip \in BOOLEAN,
         update_system_config(nic, restart, ip)
  PROVE  SettledInv'
<1>1. /\ UNCHANGED <<ptp, conf, reader, todo, phase, container, running, lost>>
      /\ pc = "free"
  BY DEF update_system_config, Begin, background, ptpContainer, history
<1>2. request' = [kind |-> "system", restart |-> restart, ip |-> ip]
  BY DEF update_system_config
<1>3. request'.kind = "system" /\ request'.restart = restart
  BY <1>2
<1>4. SavedAsks'
  BY <1>3 DEF update_system_config, SavedAsks, Asked
<1>5. RenderedFresh'
  BY <1>3 DEF RenderedFresh
<1>6. ConfFresh'
  <2>1. pc' # "saved" => amber' = amber
    BY DEF update_system_config
  <2> QED BY <1>1, <2>1, FreshKept DEF SettledInv, ConfFresh
<1>7. CacheFresh'
  BY <1>1, ReaderFreshKept DEF SettledInv, CacheFresh
<1>8. OldRunsOnlyUntilRestart'
  <2>1. RestartComes => RestartComes'
    <3>1. ~Asked
      BY <1>1 DEF Asked
    <3> QED BY <1>1, <3>1, PendingKept DEF RestartComes
  <2> QED BY <1>1, <2>1 DEF SettledInv, OldRunsOnlyUntilRestart
<1> QED
  BY <1>1, <1>4, <1>5, <1>6, <1>7, <1>8 DEF SettledInv, ConfThere

LEMMA RenderSettled ==
  ASSUME SettledInv, Shape', Render
  PROVE  SettledInv'
<1>1. /\ UNCHANGED <<ptp, amber, request, reader, todo, phase, container, running, lost>>
      /\ pc = "saved" /\ pc' = "rendered" /\ CanRender /\ conf' = Rendered
  BY DEF Render, store, background, ptpContainer, history
<1>2. Fresh'
  BY <1>1 DEF Fresh, CanRender, Rendered
<1>3. Asked'
  BY <1>1 DEF SettledInv, SavedAsks, Asked
<1>4. conf' # Absent
  BY <1>1, RenderedType, SettingsAssumption
     DEF SettingsAssumption, SettledInv, Shape, StoreOK
<1>5. CacheFresh'
  BY <1>1, ReaderFreshKept DEF SettledInv, CacheFresh
<1> QED
  BY <1>1, <1>2, <1>3, <1>4, <1>5 DEF SettledInv, SavedAsks, RenderedFresh, ConfFresh,
     OldRunsOnlyUntilRestart, ConfThere, RestartComes

\* After an exception nothing is claimed any more.
LEMMA LostSettled ==
  ASSUME SettledInv, Shape', lost', UNCHANGED <<conf, container>>,
         pc' = "free" \/ (pc' = "rendered" /\ request'.kind = "system")
  PROVE  SettledInv'
BY DEF SettledInv, SavedAsks, RenderedFresh, ConfFresh, CacheFresh,
   OldRunsOnlyUntilRestart, ConfThere

LEMMA RaisesSettled ==
  ASSUME SettledInv, Shape', RenderRaises \/ ReloadRaises \/ NetplanRaises
  PROVE  SettledInv'
<1>1. lost' /\ UNCHANGED <<conf, container>>
  BY DEF RenderRaises, ReloadRaises, NetplanRaises, Raise, ptpContainer
<1>2. pc' = "free" \/ (pc' = "rendered" /\ request'.kind = "system")
  BY DEF RenderRaises, ReloadRaises, NetplanRaises, Raise
<1> QED BY <1>1, <1>2, LostSettled

\* New tasks leave those of the other slots alone.
LEMMA ScheduleKeepsPending ==
  ASSUME TodoOK, NEW tasks \in Seq(Tasks), Schedule(tasks)
  PROVE  /\ \A t \in Slots : Pending(t) => Pending(t)'
         /\ tasks # <<>> /\ Head(tasks) \in {"restart_ptp", "restart_system"} =>
              \E s \in Slots : Pending(s)'
<1> PICK s \in Slots : /\ todo[s] = <<>>
                       /\ todo' = [todo EXCEPT ![s] = tasks]
                       /\ UNCHANGED phase
  BY DEF Schedule
<1>1. todo'[s] = tasks /\ phase'[s] = "queued"
  BY DEF TodoOK
<1>2. \A t \in Slots : t # s => todo'[t] = todo[t] /\ phase'[t] = phase[t]
  BY DEF TodoOK
<1>3. ASSUME NEW t \in Slots, Pending(t) PROVE Pending(t)'
  <2>1. t # s
    BY <1>3 DEF Pending, Current
  <2> QED BY <1>2, <1>3, <2>1 DEF Pending, Current
<1>4. tasks # <<>> /\ Head(tasks) \in {"restart_ptp", "restart_system"} => Pending(s)'
  BY <1>1 DEF Pending, Current
<1> QED BY <1>3, <1>4

LEMMA AnswerPtpSettled ==
  ASSUME SettledInv, Shape', AnswerPtp
  PROVE  SettledInv'
<1>1. /\ UNCHANGED <<ptp, amber, conf, container, running>>
      /\ pc = "rendered" /\ request.kind = "ptp" /\ CanReload
      /\ reader' = Reloaded(reader) /\ Schedule(<<"restart_ptp">>) /\ pc' = "free"
  BY DEF AnswerPtp, store, ptpContainer
<1>2. Fresh'
  BY <1>1, FreshKept DEF SettledInv, RenderedFresh
<1>3. ReaderFresh'
  BY <1>1, ReloadMakesFresh
<1>4. \E s \in Slots : Pending(s)'
  <2>1. <<"restart_ptp">> \in Seq(Tasks) /\ <<"restart_ptp">> # <<>>
        /\ Head(<<"restart_ptp">>) = "restart_ptp"
    BY DEF Tasks
  <2> QED BY <1>1, <2>1, ScheduleKeepsPending DEF SettledInv, Shape
<1> QED
  BY <1>1, <1>2, <1>3, <1>4 DEF SettledInv, SavedAsks, RenderedFresh, ConfFresh,
     CacheFresh, OldRunsOnlyUntilRestart, ConfThere, RestartComes

LEMMA AnswerSystemSettled ==
  ASSUME SettledInv, Shape', AnswerSystem
  PROVE  SettledInv'
<1> DEFINE tasks == (IF request.restart THEN <<"restart_system">> ELSE <<>>)
                    \o (IF request.ip THEN <<"reboot_os">> ELSE <<>>)
<1>1. /\ UNCHANGED <<ptp, amber, conf, reader, container, running, lost>>
      /\ pc = "rendered" /\ request.kind = "system"
      /\ Schedule(tasks) /\ pc' = "free"
  BY DEF AnswerSystem, store, ptpContainer
<1>2. tasks \in Seq(Tasks) /\ (request.restart => tasks # <<>> /\ Head(tasks) = "restart_system")
  <2> DEFINE a == <<"restart_system">>
             b == IF request.ip THEN <<"reboot_os">> ELSE <<>>
  <2>1. a \in Seq(Tasks) /\ b \in Seq(Tasks) /\ <<>> \in Seq(Tasks) /\ Len(a) = 1
        /\ a[1] = "restart_system"
    BY DEF Tasks
  <2>2. /\ a \o b \in Seq(Tasks) /\ <<>> \o b \in Seq(Tasks)
        /\ Len(a \o b) = 1 + Len(b) /\ Len(b) \in Nat
    BY <2>1, ConcatProperties, LenProperties
  <2>3. (a \o b)[1] = "restart_system"
    BY <2>1, <2>2, ConcatProperties
  <2>4. a \o b # <<>> /\ Head(a \o b) = "restart_system"
    BY <2>2, <2>3, EmptySeq
  <2> QED BY <2>2, <2>4
<1> HIDE DEF tasks
<1>3. \A t \in Slots : Pending(t) => Pending(t)'
  BY <1>1, <1>2, ScheduleKeepsPending DEF SettledInv, Shape
<1>4. request.restart => \E s \in Slots : Pending(s)'
  BY <1>1, <1>2, ScheduleKeepsPending DEF SettledInv, Shape
<1>5. RestartComes => RestartComes'
  BY <1>1, <1>3, <1>4 DEF RestartComes, Asked
<1>6. ConfFresh' /\ CacheFresh'
  BY <1>1, FreshKept, ReaderFreshKept DEF SettledInv, ConfFresh, CacheFresh
<1> QED
  BY <1>1, <1>5, <1>6 DEF SettledInv, SavedAsks, RenderedFresh,
     OldRunsOnlyUntilRestart, ConfThere

\* A step of a task that leaves files, handler and cache alone, and takes no
\* restart away.
LEMMA TaskSettled ==
  ASSUME SettledInv, Shape',
         UNCHANGED <<ptp, amber, conf, pc, request, reader, container, running, lost>>,
         \A t \in Slots : Pending(t) => Pending(t)'
  PROVE  SettledInv'
<1>1. Fresh' <=> Fresh
  BY FreshKept
<1>2. ReaderFresh' <=> ReaderFresh
  BY ReaderFreshKept
<1>3. RestartComes => RestartComes'
  BY DEF RestartComes, Asked
<1> QED
  BY <1>1, <1>2, <1>3 DEF SettledInv, SavedAsks, Asked, RenderedFresh, ConfFresh,
     CacheFresh, OldRunsOnlyUntilRestart, ConfThere

LEMMA SetRestartingSettled ==
  ASSUME SettledInv, Shape', NEW s \in Slots, SetRestarting(s)
  PROVE  SettledInv'
<1>1. UNCHANGED <<ptp, amber, conf, pc, request, reader, container, running, lost>>
  BY DEF SetRestarting, store, handler, ptpContainer, history
<1>2. \A t \in Slots : Pending(t) => Pending(t)'
  BY DEF SetRestarting, Pending, Current, SettledInv, Shape, TodoOK
<1> QED BY <1>1, <1>2, TaskSettled

LEMMA DockerRestartSettled ==
  ASSUME SettledInv, Shape', NEW s \in Slots, DockerRestart(s)
  PROVE  SettledInv'
<1>1. UNCHANGED <<ptp, amber, conf, pc, request, reader>>
  BY DEF DockerRestart, store, handler
<1>2. Fresh' <=> Fresh
  BY <1>1, FreshKept
<1>3. ReaderFresh' <=> ReaderFresh
  BY <1>1, ReaderFreshKept
<1>4. CASE container' = "checking" /\ lost' = lost
  BY <1>1, <1>2, <1>3, <1>4 DEF SettledInv, SavedAsks, Asked, RenderedFresh,
     ConfFresh, CacheFresh, OldRunsOnlyUntilRestart, ConfThere
<1>5. CASE lost' /\ container' = container
  BY <1>1, <1>2, <1>5 DEF SettledInv, SavedAsks, Asked, RenderedFresh,
     ConfFresh, CacheFresh, OldRunsOnlyUntilRestart, ConfThere
<1> QED BY <1>4, <1>5 DEF DockerRestart

LEMMA DoneSettled ==
  ASSUME SettledInv, Shape', NEW s \in Slots, ClearRestarting(s) \/ RebootFails(s)
  PROVE  SettledInv'
<1>1. UNCHANGED <<ptp, amber, conf, pc, request, reader, container, running, lost>>
  BY DEF ClearRestarting, RebootFails, store, handler, ptpContainer, history
<1>2. ~Pending(s)
  BY DEF ClearRestarting, RebootFails, Pending, Current
<1>3. \A t \in Slots : t # s => todo'[t] = todo[t] /\ phase'[t] = phase[t]
  BY DEF ClearRestarting, RebootFails, SettledInv, Shape, TodoOK
<1>4. \A t \in Slots : Pending(t) => Pending(t)'
  BY <1>2, <1>3 DEF Pending, Current
<1> QED BY <1>1, <1>4, TaskSettled

\* The process ends. If nothing is lost by it, no restart was to come either.
LEMMA RebornSettled ==
  ASSUME SettledInv, Shape', Reborn, ~lost' => ~lost /\ pc = "free",
         container' \in {container, "checking"},
         ~lost' /\ container' = container => ~RestartComes
  PROVE  SettledInv'
<1>1. UNCHANGED <<ptp, amber, conf, running>> /\ pc' = "free" /\ reader' = Reloaded(BuiltIn)
  BY DEF Reborn, store
<1>2. Fresh' <=> Fresh
  BY <1>1, FreshKept
<1>3. ~lost' => ReaderFresh'
  <2>1. ~lost' => CanReload
    BY DEF SettledInv, CacheFresh, ReaderFresh
  <2> QED BY <1>1, <2>1, ReloadMakesFresh
<1>4. OldRunsOnlyUntilRestart'
  BY <1>1 DEF SettledInv, OldRunsOnlyUntilRestart
<1>5. ConfThere'
  BY <1>1 DEF SettledInv, ConfThere
<1> QED
  BY <1>1, <1>2, <1>3, <1>4, <1>5 DEF SettledInv, SavedAsks, RenderedFresh,
     ConfFresh, CacheFresh

LEMMA ExitSettled ==
  ASSUME SettledInv, Shape', NEW s \in Slots, Exit(s)
  PROVE  SettledInv'
<1>1. Reborn /\ container' = container
      /\ lost' = (lost \/ pc # "free" \/ \E t \in Slots \ {s} : todo[t] # <<>>)
  BY DEF Exit
<1>2. ~Pending(s)
  BY DEF Exit, Pending, Current
<1>3. ~lost' => ~RestartComes
  BY <1>1, <1>2 DEF RestartComes, Asked, Pending, Current
<1> QED BY <1>1, <1>3, RebornSettled

LEMMA RebootSettled ==
  ASSUME SettledInv, Shape', NEW s \in Slots, Reboot(s)
  PROVE  SettledInv'
<1>1. Reborn /\ container' = "checking" /\ lost' = (lost \/ pc # "free")
  BY DEF Reboot
<1>2. ~lost' /\ container' = container => ~RestartComes \/ container = "checking"
  BY <1>1
<1>3. UNCHANGED <<ptp, amber, conf, running>> /\ pc' = "free" /\ reader' = Reloaded(BuiltIn)
  BY <1>1 DEF Reborn, store
<1>4. Fresh' <=> Fresh
  BY <1>3, FreshKept
<1>5. ~lost' => ReaderFresh'
  <2>1. ~lost' => CanReload
    BY <1>1 DEF SettledInv, CacheFresh, ReaderFresh
  <2> QED BY <1>3, <2>1, ReloadMakesFresh
<1> QED
  BY <1>1, <1>3, <1>4, <1>5 DEF SettledInv, SavedAsks, RenderedFresh,
     ConfFresh, CacheFresh, OldRunsOnlyUntilRestart, ConfThere

LEMMA CrashSettled ==
  ASSUME SettledInv, Shape', Crash
  PROVE  SettledInv'
<1>1. Reborn /\ container' = container
      /\ lost' = (lost \/ pc # "free" \/ \E t \in Slots : todo[t] # <<>>)
  BY DEF Crash
<1>2. ~lost' => ~RestartComes
  BY <1>1 DEF RestartComes, Asked, Pending, Current
<1> QED BY <1>1, <1>2, RebornSettled

LEMMA EntrypointSettled ==
  ASSUME SettledInv, Shape', CheckConf \/ CopyDefault \/ Launch \/ PtpExits
  PROVE  SettledInv'
<1>1. UNCHANGED <<ptp, amber, pc, request, reader, todo, phase, lost>>
  BY DEF CheckConf, CopyDefault, Launch, PtpExits, Entrypoint, store, handler,
         background, history
<1>2. Fresh => Fresh'
  BY <1>1, FreshKept DEF CheckConf, CopyDefault, Launch, PtpExits, Entrypoint, Fresh
<1>3. ReaderFresh' <=> ReaderFresh
  BY <1>1, ReaderFreshKept
<1>4. OldRunsOnlyUntilRestart'
  BY DEF CheckConf, CopyDefault, Launch, PtpExits, Entrypoint, OldRunsOnlyUntilRestart
<1>5. ConfThere'
  BY SettingsAssumption DEF SettingsAssumption, CheckConf, CopyDefault, Launch,
     PtpExits, Entrypoint, SettledInv, ConfThere
<1> QED
  BY <1>1, <1>2, <1>3, <1>4, <1>5 DEF SettledInv, SavedAsks, Asked, RenderedFresh,
     ConfFresh, CacheFresh

LEMMA StutterSettled ==
  ASSUME SettledInv, Shape', UNCHANGED vars
  PROVE  SettledInv'
<1>1. UNCHANGED <<ptp, amber, conf, pc, request, reader, container, running, lost,
                  todo, phase>>
  BY DEF vars, store, handler, ptpContainer, history, background
<1>2. \A t \in Slots : Pending(t) => Pending(t)'
  BY <1>1, PendingKept
<1> QED BY <1>1, <1>2, TaskSettled

LEMMA StepSettledInv ==
  ASSUME SettledInv, [Next]_vars
  PROVE  SettledInv'
<1>1. Shape'
  BY ShapeStep DEF SettledInv
<1>2. ASSUME NEW patch \in Patches, update_ptp_config(patch) PROVE SettledInv'
  BY <1>1, <1>2, BeginPtpSettled DEF update_ptp_config, Idle
<1>3. ASSUME NEW sec \in Sections \cup {ptp}, import_config(sec) PROVE SettledInv'
  BY <1>1, <1>3, BeginPtpSettled DEF import_config, Idle
<1>4. ASSUME NEW nic \in Nics \cup {None}, NEW restart \in BOOLEAN, NEW ip \in BOOLEAN,
             update_system_config(nic, restart, ip)
      PROVE  SettledInv'
  BY <1>1, <1>4, BeginSystemSettled
<1>5. CASE Render
  BY <1>1, <1>5, RenderSettled
<1>6. CASE RenderRaises \/ ReloadRaises \/ NetplanRaises
  BY <1>1, <1>6, RaisesSettled
<1>7. CASE AnswerPtp
  BY <1>1, <1>7, AnswerPtpSettled
<1>8. CASE AnswerSystem
  BY <1>1, <1>8, AnswerSystemSettled
<1>9. ASSUME NEW s \in Slots, Progress(s) PROVE SettledInv'
  BY <1>1, <1>9, SetRestartingSettled, DockerRestartSettled, DoneSettled,
     ExitSettled, RebootSettled DEF Progress
<1>10. CASE CheckConf \/ CopyDefault \/ Launch \/ PtpExits
  BY <1>1, <1>10, EntrypointSettled
<1>11. CASE Crash
  BY <1>1, <1>11, CrashSettled
<1>12. CASE UNCHANGED vars
  BY <1>1, <1>12, StutterSettled
<1> QED
  BY <1>2, <1>3, <1>4, <1>5, <1>6, <1>7, <1>8, <1>9, <1>10, <1>11, <1>12
     DEF Next, Handlers

\* For any settings, any number of requests at once and of faults: once all is
\* quiet and nothing has been lost, ptp4l, ptp4l.conf and the log reader go by
\* config.json (the three handlers, restart_ptp_container, entrypoint.sh).
THEOREM Settled == Spec => []QuietMeansSettled
<1>1. Init => SettledInv
  BY InitSettledInv
<1>2. SettledInv /\ [Next]_vars => SettledInv'
  BY StepSettledInv
<1>3. SettledInv => QuietMeansSettled
  <2> SUFFICES ASSUME SettledInv, Quiet, ~lost
               PROVE  /\ running = conf
                      /\ conf = Default \/ (CanRender /\ conf = Rendered)
                      /\ CanReload /\ reader = Reloaded(reader)
    BY DEF QuietMeansSettled
  <2>1. ~RestartComes
    BY DEF Quiet, RestartComes, Asked, Pending, Current
  <2>2. running = conf /\ conf # Absent
    BY <2>1 DEF Quiet, SettledInv, OldRunsOnlyUntilRestart, ConfThere
  <2>3. Fresh /\ ReaderFresh
    BY DEF Quiet, SettledInv, ConfFresh, CacheFresh
  <2> QED BY <2>2, <2>3 DEF Fresh, ReaderFresh
<1> QED BY <1>1, <1>2, <1>3, PTL DEF Spec

-----------------------------------------------------------------------------
(* The flag the status shows *)

UnderWay(s) ==
  todo[s] # <<>> /\ Head(todo[s]) = "restart_ptp" /\ phase[s] \in {"flagged", "called"}

LEMMA FlagIs == FlagMeansRestart <=> (restarting => \E s \in Slots : UnderWay(s))
BY DEF FlagMeansRestart, Current, UnderWay

\* A restart that is under way in slot t goes on unless the step is t's own,
\* and a slot whose task has only been queued is not the one.
LEMMA UnderWayKept ==
  ASSUME Shape, NEW t \in Slots, UnderWay(t), NEW s \in Slots,
         \/ UNCHANGED <<todo, phase>>
         \/ todo[s] = <<>> /\ UNCHANGED phase
            /\ \E tasks : todo' = [todo EXCEPT ![s] = tasks]
         \/ phase[s] = "queued" /\ UNCHANGED phase
            /\ \E tasks : todo' = [todo EXCEPT ![s] = tasks]
         \/ UNCHANGED todo /\ \E ph \in {"flagged", "called"} : phase' = [phase EXCEPT ![s] = ph]
  PROVE  UnderWay(t)'
BY DEF Shape, TodoOK, UnderWay

LEMMA FlagStep ==
  ASSUME Shape, FlagMeansRestart, [Next]_vars
  PROVE  FlagMeansRestart'
<1>1. ASSUME ~restarting' PROVE FlagMeansRestart'
  BY <1>1 DEF FlagMeansRestart
<1>2. ASSUME restarting' = restarting, \A t \in Slots : UnderWay(t) => UnderWay(t)'
      PROVE  FlagMeansRestart'
  BY <1>2, FlagIs DEF FlagMeansRestart, Current, UnderWay
<1>3. ASSUME UNCHANGED <<restarting, todo, phase>> PROVE FlagMeansRestart'
  BY <1>2, <1>3 DEF UnderWay
<1>4. ASSUME NEW tasks, Schedule(tasks), UNCHANGED restarting PROVE FlagMeansRestart'
  BY <1>2, <1>4, UnderWayKept DEF Schedule
<1>5. CASE Handlers
  <2>1. ASSUME ~AnswerPtp, ~AnswerSystem PROVE UNCHANGED <<restarting, todo, phase>>
    BY <1>5, <2>1 DEF Handlers, update_ptp_config, import_config, update_system_config,
         Begin, Render, RenderRaises, ReloadRaises, NetplanRaises, Raise, background
  <2> QED BY <1>3, <1>4, <2>1 DEF AnswerPtp, AnswerSystem
<1>6. ASSUME NEW s \in Slots, SetRestarting(s) PROVE FlagMeansRestart'
  <2>1. UnderWay(s)'
    BY <1>6 DEF SetRestarting, Current, UnderWay, Shape, TodoOK
  <2> QED BY <2>1 DEF FlagMeansRestart, Current, UnderWay
<1>7. ASSUME NEW s \in Slots, DockerRestart(s) PROVE FlagMeansRestart'
  BY <1>2, <1>7, UnderWayKept DEF DockerRestart
<1>8. ASSUME NEW s \in Slots, RebootFails(s) PROVE FlagMeansRestart'
  BY <1>2, <1>8, UnderWayKept DEF RebootFails, Current
<1>9. ASSUME NEW s \in Slots, ClearRestarting(s) \/ Exit(s) \/ Reboot(s)
      PROVE  FlagMeansRestart'
  BY <1>1, <1>9 DEF ClearRestarting, Exit, Reboot, Reborn
<1>10. CASE Crash
  BY <1>1, <1>10 DEF Crash, Reborn
<1>11. CASE CheckConf \/ CopyDefault \/ Launch \/ PtpExits \/ UNCHANGED vars
  BY <1>3, <1>11 DEF CheckConf, CopyDefault, Launch, PtpExits, Entrypoint, vars, background
<1> QED
  BY <1>5, <1>6, <1>7, <1>8, <1>9, <1>10, <1>11 DEF Next, Progress

\* For any number of restarts at once: whenever the status shows "restarting",
\* restart_ptp_container is between its set_restarting(True) and its finally.
THEOREM FlagIsEarned == Spec => []FlagMeansRestart
<1>1. Init => Shape /\ FlagMeansRestart
  BY InitShape DEF Init, FlagMeansRestart
<1>2. (Shape /\ FlagMeansRestart) /\ [Next]_vars => (Shape /\ FlagMeansRestart)'
  BY ShapeStep, FlagStep
<1> QED BY <1>1, <1>2, PTL DEF Spec

-----------------------------------------------------------------------------
(* The built-in ptp4l.conf *)

\* Between the entrypoint's test and its copy no handler renders the file.
NoRenderWhileCopying == [][container = "copying" => ~Render]_vars

\* Then the test still holds when the copy is made.
CopyInv == container = "copying" => conf = Absent

LEMMA ConfChange ==
  ASSUME [Next]_vars
  PROVE  conf' = conf \/ Render \/ CopyDefault
<1>1. CASE Handlers
  BY <1>1 DEF Handlers, update_ptp_config, import_config, update_system_config, Begin,
              RenderRaises, ReloadRaises, AnswerPtp, NetplanRaises, AnswerSystem,
              Raise, store
<1>2. ASSUME NEW s \in Slots, Progress(s) PROVE conf' = conf
  BY <1>2 DEF Progress, SetRestarting, DockerRestart, ClearRestarting,
              Exit, RebootFails, Reboot, Reborn
<1>3. CASE CheckConf \/ Launch \/ PtpExits \/ Crash \/ UNCHANGED vars
  BY <1>3 DEF CheckConf, Launch, PtpExits, Crash, Reborn, Entrypoint, vars
<1> QED BY <1>1, <1>2, <1>3 DEF Next

LEMMA CopyingBegins ==
  ASSUME [Next]_vars, container' = "copying", container # "copying"
  PROVE  CheckConf
<1>1. CASE Handlers
  BY <1>1 DEF Handlers, update_ptp_config, import_config, update_system_config, Begin,
              Render, RenderRaises, ReloadRaises, AnswerPtp, NetplanRaises, AnswerSystem,
              Raise, ptpContainer
<1>2. ASSUME NEW s \in Slots, Progress(s) PROVE CheckConf
  BY <1>2 DEF Progress, SetRestarting, DockerRestart, ClearRestarting,
              Exit, RebootFails, Reboot, Reborn, ptpContainer
<1>3. CASE CopyDefault \/ Launch \/ PtpExits \/ Crash \/ UNCHANGED vars
  BY <1>3 DEF CopyDefault, Launch, PtpExits, Crash, Reborn, vars, ptpContainer
<1> QED BY <1>1, <1>2, <1>3 DEF Next

LEMMA CopyStep ==
  ASSUME CopyInv, [Next]_vars, container = "copying" => ~Render
  PROVE  CopyInv'
<1> SUFFICES ASSUME container' = "copying" PROVE conf' = Absent
  BY DEF CopyInv
<1>1. CASE container = "copying"
  <2>1. ~CopyDefault
    BY DEF CopyDefault
  <2> QED BY <1>1, <2>1, ConfChange DEF CopyInv
<1>2. CASE container # "copying"
  <2>1. CheckConf
    BY <1>2, CopyingBegins
  <2> QED BY <2>1 DEF CheckConf, Entrypoint
<1> QED BY <1>1, <1>2

LEMMA CopyReplacesNothing ==
  ASSUME Shape, CopyInv, [Next]_vars, conf \notin {Absent, Default}
  PROVE  conf' # Default
<1>1. conf # Default
  OBVIOUS
<1>2. CASE conf' = conf
  BY <1>1, <1>2
<1>3. CASE Render
  BY <1>3, RenderedType, SettingsAssumption
     DEF Render, Shape, StoreOK, SettingsAssumption
<1>4. CASE CopyDefault
  BY <1>4 DEF CopyDefault, CopyInv
<1> QED BY <1>2, <1>3, <1>4, ConfChange

\* A handler that renders inside the entrypoint's window is the only way a
\* rendered file is lost: without one, what lines 10-11 promise holds, however
\* crashes, restarts and exits of the container fall.
THEOREM DefaultIsForTheUnrendered ==
  Spec /\ NoRenderWhileCopying => DefaultNeverReplacesRendered
<1>1. Init => CopyInv
  BY DEF Init, CopyInv
<1>2. CopyInv /\ [Next]_vars /\ [container = "copying" => ~Render]_vars => CopyInv'
  <2>1. CASE UNCHANGED vars
    BY <2>1 DEF vars, CopyInv, ptpContainer
  <2> QED BY <2>1, CopyStep
<1>3. TypeOK /\ CopyInv /\ [Next]_vars
        => [conf \notin {Absent, Default} => conf' # Default]_vars
  BY CopyReplacesNothing, ShapeIsType
<1> QED
  BY <1>1, <1>2, <1>3, Types, PTL
  DEF Spec, NoRenderWhileCopying, DefaultNeverReplacesRendered

-----------------------------------------------------------------------------
(* A promised reboot *)

\* A reboot is among the tasks of slot s.
RebootAhead(s) == \E i \in DOMAIN todo[s] : todo[s][i] = "reboot_os"

\* An answer has promised one, it has not been tried, and nobody is to do it.
Forgotten == promised /\ \A s \in Slots : ~RebootAhead(s)

\* Done with another task, a slot has its reboot still ahead.
LEMMA RebootKept ==
  ASSUME Shape, NEW s \in Slots, todo[s] # <<>>, Head(todo[s]) # "reboot_os",
         todo' = [todo EXCEPT ![s] = Tail(@)], NEW t \in Slots, RebootAhead(t)
  PROVE  RebootAhead(t)'
<1>1. CASE t # s
  BY <1>1 DEF RebootAhead, Shape, TodoOK
<1>2. CASE t = s
  <2>1. todo[s] \in Seq(Tasks) /\ todo'[s] = Tail(todo[s])
    BY DEF Shape, TodoOK
  <2>2. /\ DOMAIN todo[s] = 1..Len(todo[s]) /\ Len(todo[s]) \in Nat \ {0}
        /\ DOMAIN Tail(todo[s]) = 1..(Len(todo[s]) - 1)
        /\ \A i \in 1..(Len(todo[s]) - 1) : Tail(todo[s])[i] = todo[s][i + 1]
        /\ Head(todo[s]) = todo[s][1]
    BY <2>1, HeadTailProperties, LenProperties, EmptySeq
  <2>3. PICK i \in DOMAIN todo[s] : todo[s][i] = "reboot_os"
    BY <1>2 DEF RebootAhead
  <2>4. i # 1 /\ i - 1 \in DOMAIN Tail(todo[s]) /\ Tail(todo[s])[i - 1] = "reboot_os"
    BY <2>2, <2>3
  <2> QED BY <1>2, <2>1, <2>4 DEF RebootAhead
<1> QED BY <1>1, <1>2

LEMMA ScheduledReboot ==
  ASSUME Shape, NEW before \in Seq(Tasks), Schedule(before \o <<"reboot_os">>)
  PROVE  \E s \in Slots : RebootAhead(s)'
<1> DEFINE tasks == before \o <<"reboot_os">>
<1>1. /\ <<"reboot_os">> \in Seq(Tasks) /\ Len(<<"reboot_os">>) = 1
      /\ <<"reboot_os">>[1] = "reboot_os"
  BY DEF Tasks
<1>2. /\ tasks \in Seq(Tasks) /\ Len(tasks) = Len(before) + 1 /\ Len(before) \in Nat
      /\ \A i \in 1..(Len(before) + 1) :
           tasks[i] = IF i <= Len(before) THEN before[i] ELSE <<"reboot_os">>[i - Len(before)]
  BY <1>1, ConcatProperties, LenProperties
<1>3. Len(before) + 1 \in DOMAIN tasks /\ tasks[Len(before) + 1] = "reboot_os"
  BY <1>1, <1>2, LenProperties
<1> HIDE DEF tasks
<1>4. PICK s \in Slots : todo' = [todo EXCEPT ![s] = tasks]
  BY DEF Schedule, tasks
<1>5. todo'[s] = tasks
  BY <1>4 DEF Shape, TodoOK
<1> QED BY <1>3, <1>5 DEF RebootAhead

LEMMA ScheduleKeepsReboot ==
  ASSUME Shape, NEW tasks, Schedule(tasks), NEW t \in Slots, RebootAhead(t)
  PROVE  RebootAhead(t)'
<1>1. PICK s \in Slots : todo[s] = <<>> /\ todo' = [todo EXCEPT ![s] = tasks]
  BY DEF Schedule
<1>2. t # s
  BY <1>1, LenProperties DEF RebootAhead
<1> QED BY <1>1, <1>2 DEF RebootAhead, Shape, TodoOK

LEMMA RebootStep ==
  ASSUME Shape, [Next]_vars, ~Crash, \A s \in Slots : ~Exit(s), ~Forgotten
  PROVE  ~Forgotten'
<1>1. ASSUME promised' = promised, UNCHANGED todo PROVE ~Forgotten'
  BY <1>1 DEF Forgotten, RebootAhead
<1>2. ASSUME ~promised' PROVE ~Forgotten'
  BY <1>2 DEF Forgotten
<1>3. ASSUME promised' = promised, \A t \in Slots : RebootAhead(t) => RebootAhead(t)'
      PROVE  ~Forgotten'
  BY <1>3 DEF Forgotten
<1>4. CASE AnswerPtp
  BY <1>3, <1>4, ScheduleKeepsReboot DEF AnswerPtp
<1>5. CASE AnswerSystem
  <2> DEFINE before == IF request.restart THEN <<"restart_system">> ELSE <<>>
  <2>1. Schedule(before \o (IF request.ip THEN <<"reboot_os">> ELSE <<>>))
        /\ promised' = (promised \/ request.ip)
    BY <1>5 DEF AnswerSystem
  <2>2. before \in Seq(Tasks)
    <3>1. "restart_system" \in Tasks
      BY DEF Tasks
    <3>2. <<"restart_system">> \in Seq(Tasks) /\ <<>> \in Seq(Tasks)
      BY <3>1
    <3> QED BY <3>2
  <2> HIDE DEF before
  <2>3. CASE request.ip
    BY <2>1, <2>2, <2>3, ScheduledReboot DEF Forgotten
  <2>4. CASE ~request.ip
    <3>1. promised' = promised
      BY <2>1, <2>4 DEF Shape, FlagsOK
    <3>2. Schedule(before \o <<>>)
      BY <2>1, <2>4
    <3> QED BY <1>3, <3>1, <3>2, ScheduleKeepsReboot
  <2> QED BY <2>3, <2>4
<1>6. CASE Handlers /\ ~AnswerPtp /\ ~AnswerSystem
  <2>1. promised' = promised /\ UNCHANGED todo
    BY <1>6 DEF Handlers, update_ptp_config, import_config, update_system_config,
         Begin, Render, RenderRaises, ReloadRaises, NetplanRaises, Raise,
         background, history
  <2> QED BY <1>1, <2>1
<1>7. ASSUME NEW s \in Slots, SetRestarting(s) \/ DockerRestart(s) PROVE ~Forgotten'
  BY <1>1, <1>7 DEF SetRestarting, DockerRestart, history
<1>8. ASSUME NEW s \in Slots, ClearRestarting(s) PROVE ~Forgotten'
  <2>1. /\ todo[s] # <<>> /\ Head(todo[s]) # "reboot_os"
        /\ todo' = [todo EXCEPT ![s] = Tail(@)] /\ promised' = promised
    BY <1>8 DEF ClearRestarting, Current, history
  <2> QED BY <1>3, <2>1, RebootKept
<1>9. ASSUME NEW s \in Slots, RebootFails(s) \/ Reboot(s) PROVE ~Forgotten'
  BY <1>2, <1>9 DEF RebootFails, Reboot
<1>10. CASE CheckConf \/ CopyDefault \/ Launch \/ PtpExits \/ UNCHANGED vars
  BY <1>1, <1>10 DEF CheckConf, CopyDefault, Launch, PtpExits, Entrypoint, vars,
                     background, history
<1> QED
  BY <1>4, <1>5, <1>6, <1>7, <1>8, <1>9, <1>10 DEF Next, Progress

\* The end of the process is the only thing that makes an answered "os_reboot"
\* an empty promise: os._exit in _do_restart_system, that of the same request
\* or another's, or a crash. Whatever fails, overlaps or is asked for besides,
\* the task is still in some slot until it has been tried.
THEOREM ExitForgetsReboot ==
  Spec => [][Forgotten' => Forgotten \/ Crash \/ \E s \in Slots : Exit(s)]_vars
<1>1. TypeOK /\ [Next]_vars
        => [Forgotten' => Forgotten \/ Crash \/ \E s \in Slots : Exit(s)]_vars
  BY RebootStep, ShapeIsType
<1> QED BY <1>1, Types, PTL DEF Spec
=============================================================================
