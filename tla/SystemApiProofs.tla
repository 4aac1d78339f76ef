---------------------------- MODULE SystemApiProofs ----------------------------
(***************************************************************************)
(* Proofs about SystemApi, for every value of its constants: any NICs and  *)
(* netplan files, any number of requests, crashes and boots, any size of   *)
(* the log buffer.                                                         *)
(***************************************************************************)
EXTENDS SystemApi, SequenceTheorems, TLAPS

-----------------------------------------------------------------------------
(* The steps of the whole, as its two parts see them *)

NetplanStep ==
  \/ write_netplan \/ NetplanWorks \/ NetplanFails
  \/ NetplanDown \/ NetplanUp \/ HostBoots

LEMMA StepOfNetplan ==
  ASSUME [Next]_vars PROVE NetplanStep \/ UNCHANGED netplanVars
BY DEF Next, vars, NetplanStep, post_config, netplan_step, netplan_failure,
       other_failure, get_system_status, traffic, down, up

MonitorStep ==
  \/ \E r \in Records : emit(r) /\ UNCHANGED <<nicVars, rateVars>>
  \/ \E names \in SUBSET Monitored : get_nic_status(names)
  \/ Traffic \/ ForgetMonitor

LEMMA StepOfMonitor ==
  ASSUME [Next]_vars PROVE MonitorStep \/ UNCHANGED monitorVars
<1>1. NetplanRecord \in Records /\ OtherRecord \in Records
  BY RecordsAssumption DEF RecordsAssumption
<1> QED
  BY <1>1 DEF Next, vars, MonitorStep, post_config, netplan_step,
     netplan_failure, other_failure, get_system_status, traffic, down, up

-----------------------------------------------------------------------------
(* The shape of the netplan part *)

LEMMA Constants ==
  /\ NoDef \notin Defs /\ NoRequest \notin Requests
  /\ Len(Others) \in Nat /\ DOMAIN Others = 1..Len(Others)
  /\ \A i \in 1..Len(Others) : Others[i] \in OtherFiles /\ Others[i] # Own
  /\ \A i, j \in 1..Len(Others) : Others[i] = Others[j] => i = j
  /\ CloudFile \in OtherFiles /\ Own \notin OtherFiles
  /\ Original \in [OtherFiles -> Contents]
<1>1. Others \in Seq(OtherFiles)
  BY NetplanAssumption DEF NetplanAssumption
<1>2. Len(Others) \in Nat /\ DOMAIN Others = 1..Len(Others)
  BY <1>1
<1>3. \A i \in 1..Len(Others) : Others[i] \in OtherFiles
  BY <1>1, <1>2 DEF OtherFiles
<1> QED
  BY <1>2, <1>3, NetplanAssumption DEF NetplanAssumption, Requests

LEMMA EmptyType == Empty \in Contents
BY DEF Empty, Contents

LEMMA RemainingType ==
  ASSUME NetplanTypeOK, NEW f \in Files PROVE Remaining(f) \in Contents
BY DEF NetplanTypeOK, Remaining, Contents

FilesOK ==
  /\ netplan \in [Files -> Contents] /\ cloud_init \in BOOLEAN /\ data \in Contents
HandlerOK ==
  /\ step \in {"down", "free", "cloud", "cloud_open", "strip", "rewrite", "own"}
  /\ at \in 1..(Len(Others) + 1)
  /\ step = "rewrite" => at <= Len(Others)
  /\ request \in Requests \cup {NoRequest}
  /\ step \notin {"down", "free"} => request # NoRequest
HistoryOK ==
  /\ asked \in 0..MaxRequests /\ named \subseteq Nics /\ cut \subseteq OtherFiles
  /\ clean \in BOOLEAN /\ answered \in Requests \cup {NoRequest}

LEMMA NetplanTypeIs == NetplanTypeOK <=> FilesOK /\ HandlerOK /\ HistoryOK
BY DEF NetplanTypeOK, FilesOK, HandlerOK, HistoryOK

LEMMA InitNetplanType == NetplanInit => NetplanTypeOK
<1> SUFFICES ASSUME NetplanInit PROVE NetplanTypeOK
  OBVIOUS
<1>1. FilesOK
  BY Constants, EmptyType DEF NetplanInit, FilesOK, Files
<1>2. HandlerOK
  BY Constants DEF NetplanInit, HandlerOK
<1>3. HistoryOK
  BY NetplanAssumption DEF NetplanAssumption, NetplanInit, HistoryOK
<1> QED BY <1>1, <1>2, <1>3, NetplanTypeIs

\* The file the loop is at.
LEMMA FileIs ==
  ASSUME NetplanTypeOK, AtFile \/ step = "rewrite"
  PROVE  at \in 1..Len(Others) /\ File \in OtherFiles /\ File \in Files
BY Constants DEF NetplanTypeOK, AtFile, File, Files

LEMMA FilesStep ==
  ASSUME NetplanTypeOK, NetplanStep \/ UNCHANGED netplanVars
  PROVE  FilesOK'
<1>1. ASSUME netplan' \in [Files -> Contents], cloud_init' \in {cloud_init, TRUE, FALSE},
             data' \in {data, Empty}
      PROVE  FilesOK'
  BY <1>1, EmptyType DEF NetplanTypeOK, FilesOK
<1>2. ASSUME UNCHANGED netplan, cloud_init' \in {cloud_init, TRUE, FALSE},
             data' \in {data, Empty}
      PROVE  FilesOK'
  BY <1>1, <1>2 DEF NetplanTypeOK
<1>3. ASSUME NEW f \in Files, NEW c \in Contents PROVE [netplan EXCEPT ![f] = c] \in [Files -> Contents]
  BY <1>3 DEF NetplanTypeOK
<1>4. CASE write_netplan \/ OpenCloud \/ _disable_cloud_init_networking
           \/ NothingToRemove \/ LeaveFile \/ NetplanDown \/ NetplanUp \/ UNCHANGED netplanVars
  BY <1>2, <1>4 DEF write_netplan, OpenCloud, _disable_cloud_init_networking,
     CloudOff, NothingToRemove, LeaveFile, NetplanDown, NetplanUp, EndRequest, netplanVars
<1>5. CASE OpenFile
  <2>1. File \in Files
    BY <1>5, FileIs DEF OpenFile
  <2>2. data' \in Contents
    BY <1>5, <2>1, RemainingType DEF OpenFile
  <2>3. netplan' \in [Files -> Contents]
    BY <1>5, <2>1, <1>3, EmptyType DEF OpenFile
  <2> QED BY <1>5, <2>2, <2>3 DEF OpenFile, NetplanTypeOK, FilesOK
<1>6. CASE RewriteFile \/ RewriteFails
  <2>1. File \in Files /\ data \in Contents
    BY <1>6, FileIs DEF RewriteFile, RewriteFails, NetplanTypeOK
  <2>2. [netplan EXCEPT ![File] = data] \in [Files -> Contents]
    BY <2>1, <1>3
  <2>3. netplan' \in [Files -> Contents]
    BY <1>6, <2>2 DEF RewriteFile, RewriteFails, NetplanTypeOK
  <2> QED BY <1>6, <1>1, <2>3 DEF RewriteFile, RewriteFails
<1>7. CASE OpenOwn
  <2>1. netplan' \in [Files -> Contents]
    BY <1>7, <1>3, EmptyType DEF OpenOwn, Files
  <2> QED BY <1>7, <1>1, <2>1 DEF OpenOwn
<1>8. CASE WriteOwn \/ Raises
  <2>1. step = "own" => request \in Contents
    BY DEF NetplanTypeOK, Requests
  <2>2. netplan' \in [Files -> Contents]
    BY <1>8, <1>3, <2>1 DEF WriteOwn, Raises, Files, NetplanTypeOK
  <2> QED BY <1>8, <1>1, <2>2 DEF WriteOwn, Raises, EndRequest
<1>9. CASE HostBoots
  <2>1. Original[CloudFile] \in Contents /\ CloudFile \in Files
    BY Constants DEF Files
  <2>2. netplan' \in [Files -> Contents]
    BY <1>9, <1>3, <2>1 DEF HostBoots, NetplanTypeOK
  <2> QED BY <1>9, <1>1, <2>2 DEF HostBoots
<1> QED
  BY <1>4, <1>5, <1>6, <1>7, <1>8, <1>9 DEF NetplanStep, NetplanWorks, NetplanFails

LEMMA HandlerStep ==
  ASSUME NetplanTypeOK, NetplanStep \/ UNCHANGED netplanVars
  PROVE  HandlerOK'
<1> USE Constants
<1>1. CASE write_netplan
  BY <1>1 DEF write_netplan, HandlerOK
<1>2. CASE OpenCloud \/ _disable_cloud_init_networking \/ OpenOwn
  BY <1>2 DEF NetplanTypeOK, HandlerOK, OpenCloud, _disable_cloud_init_networking,
     CloudOff, OpenOwn
<1>3. CASE NothingToRemove \/ LeaveFile
  BY <1>3 DEF NetplanTypeOK, HandlerOK, NothingToRemove, LeaveFile, AtFile
<1>4. CASE OpenFile
  BY <1>4 DEF NetplanTypeOK, HandlerOK, OpenFile, AtFile
<1>5. CASE RewriteFile \/ RewriteFails
  BY <1>5 DEF NetplanTypeOK, HandlerOK, RewriteFile, RewriteFails
<1>6. CASE WriteOwn \/ Raises \/ NetplanDown
  BY <1>6 DEF HandlerOK, WriteOwn, Raises, NetplanDown, EndRequest
<1>7. CASE NetplanUp \/ HostBoots \/ UNCHANGED netplanVars
  BY <1>7 DEF NetplanTypeOK, HandlerOK, NetplanUp, HostBoots, netplanVars
<1> QED
  BY <1>1, <1>2, <1>3, <1>4, <1>5, <1>6, <1>7 DEF NetplanStep, NetplanWorks, NetplanFails

LEMMA HistoryStep ==
  ASSUME NetplanTypeOK, NetplanStep \/ UNCHANGED netplanVars
  PROVE  HistoryOK'
<1>1. MaxRequests \in Nat
  BY NetplanAssumption DEF NetplanAssumption
<1>2. CASE write_netplan
  BY <1>1, <1>2 DEF write_netplan, NetplanTypeOK, HistoryOK, Interfaces
<1>3. CASE LeaveFile
  BY <1>3 DEF LeaveFile, NetplanTypeOK, HistoryOK
<1>4. CASE RewriteFails \/ NetplanDown
  <2>1. cut' \subseteq OtherFiles
    BY <1>4, FileIs DEF RewriteFails, NetplanDown, NetplanTypeOK
  <2> QED BY <1>4, <2>1 DEF RewriteFails, NetplanDown, NetplanTypeOK, HistoryOK
<1>5. CASE WriteOwn
  BY <1>5 DEF WriteOwn, NetplanTypeOK, HistoryOK
<1>6. CASE UNCHANGED netplanHistory
  BY <1>6 DEF netplanHistory, NetplanTypeOK, HistoryOK
<1> QED
  BY <1>2, <1>3, <1>4, <1>5, <1>6 DEF NetplanStep, NetplanWorks, NetplanFails,
     OpenCloud, _disable_cloud_init_networking, NothingToRemove, OpenFile, RewriteFile,
     OpenOwn, Raises, NetplanUp, HostBoots, netplanVars

LEMMA NetplanTypeStep ==
  ASSUME NetplanTypeOK, NetplanStep \/ UNCHANGED netplanVars
  PROVE  NetplanTypeOK'
BY FilesStep, HandlerStep, HistoryStep, NetplanTypeIs
   DEF NetplanTypeOK, FilesOK, HandlerOK, HistoryOK

-----------------------------------------------------------------------------
(* The own file is the only source *)

\* File f says nothing of the NICs of request r.
Silent(contents, r) == \A n \in Interfaces(r) : contents[n] = NoDef

\* From the disabling of cloud-init on, nobody but the handler writes.
CloudStaysOff ==
  step \in {"strip", "rewrite", "own"} \/ answered # NoRequest => ~cloud_init

\* The files the loop has passed say nothing of the request's NICs, and what
\* is written back into the one it is at does not either.
PassedSilent ==
  step \in {"strip", "rewrite", "own"} /\ clean =>
    \A i \in 1..Len(Others) : i < at => Silent(netplan[Others[i]], request)
RewriteSilent == step = "rewrite" => Silent(data, request)
FileCut == step = "rewrite" => Silent(netplan[File], request)
LoopPlace ==
  /\ step \in {"cloud", "cloud_open"} => at = 1
  /\ step = "own" => at = Len(Others) + 1

\* What an answered request has established.
AnsweredHolds ==
  answered # NoRequest =>
    /\ step \in {"free", "down"}
    /\ netplan[Own] = answered
    /\ \A i \in 1..Len(Others) : Silent(netplan[Others[i]], answered)

SourceInv ==
  /\ NetplanTypeOK
  /\ CloudStaysOff /\ PassedSilent /\ RewriteSilent /\ FileCut /\ LoopPlace
  /\ AnsweredHolds

LEMMA SourceInvInit == NetplanInit => SourceInv
BY InitNetplanType
   DEF NetplanInit, SourceInv, CloudStaysOff, PassedSilent, RewriteSilent, FileCut,
       LoopPlace, AnsweredHolds

LEMMA OtherFilesAre == OtherFiles = {Others[i] : i \in 1..Len(Others)}
BY Constants DEF OtherFiles

LEMMA RemainingSilent == ASSUME NEW f PROVE Silent(Remaining(f), request)
BY DEF Remaining, Silent, Interfaces

LEMMA EmptySilent == ASSUME NEW r PROVE Silent(Empty, r)
BY DEF Empty, Silent, Interfaces

\* A step of the loop leaves a file that is silent, or is not clean.
LEMMA LoopSource ==
  ASSUME SourceInv, NetplanTypeOK',
         NothingToRemove \/ LeaveFile \/ OpenFile \/ RewriteFile \/ RewriteFails
  PROVE  SourceInv'
<1>1. /\ step \in {"strip", "rewrite"} /\ step' \in {"strip", "rewrite"}
      /\ UNCHANGED <<request, answered, cloud_init>>
  BY DEF NothingToRemove, LeaveFile, OpenFile, RewriteFile, RewriteFails, AtFile, netplanHistory
<1>2. answered = NoRequest /\ ~cloud_init
  BY <1>1 DEF SourceInv, AnsweredHolds, CloudStaysOff
<1>3. at \in 1..Len(Others)
  BY FileIs DEF SourceInv, NothingToRemove, LeaveFile, OpenFile, RewriteFile, RewriteFails
<1>4. \A i \in 1..Len(Others) : i # at => netplan'[Others[i]] = netplan[Others[i]]
  <2>1. \A i \in 1..Len(Others) : i # at => Others[i] # File
    BY <1>3, Constants DEF File
  <2> QED
    BY <2>1, Constants DEF SourceInv, NetplanTypeOK, Files, NothingToRemove, LeaveFile,
       OpenFile, RewriteFile, RewriteFails
<1>5. CASE OpenFile
  <2>1. at' = at /\ clean' = clean /\ data' = Remaining(File) /\ step = "strip"
    BY <1>5 DEF OpenFile, netplanHistory, AtFile
  <2>2. Silent(data, request)'
    BY <2>1, <1>1, RemainingSilent DEF Silent, Interfaces
  <2>3. PassedSilent'
    BY <1>1, <1>3, <1>4, <2>1 DEF SourceInv, PassedSilent, Silent, Interfaces
  <2>4. netplan'[File] = Empty /\ File' = File
    BY <1>5, <2>1, FileIs DEF OpenFile, SourceInv, NetplanTypeOK, File
  <2>5. FileCut'
    BY <2>4, EmptySilent DEF FileCut, Silent, Interfaces
  <2> QED
    BY <1>1, <1>2, <2>2, <2>3, <2>5
       DEF SourceInv, CloudStaysOff, RewriteSilent, LoopPlace, AnsweredHolds
<1>6. CASE ~OpenFile
  <2>1. at' = at + 1 /\ step' = "strip" /\ (clean' => clean)
    <3>1. at' = at + 1 /\ step' = "strip"
      BY <1>6 DEF NothingToRemove, LeaveFile, RewriteFile, RewriteFails, AtFile
    <3>2. CASE LeaveFile
      BY <3>1, <3>2 DEF LeaveFile
    <3>3. CASE ~LeaveFile
      BY <1>6, <3>1, <3>3 DEF NothingToRemove, RewriteFile, RewriteFails, netplanHistory
    <3> QED BY <3>2, <3>3
  <2>2. clean' => Silent(netplan'[Others[at]], request)
    <3>1. CASE NothingToRemove \/ LeaveFile
      <4>1. Len(Others) \in Nat /\ netplan[File] \in Contents
        BY FileIs, <3>1 DEF SourceInv, NetplanTypeOK, NothingToRemove, LeaveFile
      <4>2. netplan' = netplan /\ (clean' => removed = {})
        BY <3>1 DEF NothingToRemove, LeaveFile
      <4> QED BY <4>1, <4>2 DEF removed, Interfaces, Silent, File
    <3>2. CASE RewriteFile \/ RewriteFails
      <4>1. Silent(data, request) /\ File \in Files
        BY <3>2, FileIs DEF SourceInv, RewriteSilent, RewriteFile, RewriteFails
      <4>2. netplan' \in {netplan, [netplan EXCEPT ![File] = data]}
        BY <3>2 DEF RewriteFile, RewriteFails
      <4>3. CASE netplan' = [netplan EXCEPT ![File] = data]
        BY <4>1, <4>3 DEF SourceInv, NetplanTypeOK, File
      <4>4. CASE netplan' = netplan
        BY <3>2, <4>4 DEF SourceInv, FileCut, File, RewriteFile, RewriteFails
      <4> QED BY <4>2, <4>3, <4>4
    <3> QED BY <1>6, <3>1, <3>2
  <2>3. PassedSilent'
    BY <1>1, <1>3, <1>4, <2>1, <2>2 DEF SourceInv, PassedSilent, Silent, Interfaces
  <2> QED
    BY <1>1, <1>2, <2>1, <2>3
       DEF SourceInv, CloudStaysOff, RewriteSilent, FileCut, LoopPlace, AnsweredHolds
<1> QED BY <1>5, <1>6

LEMMA SourceStep ==
  ASSUME SourceInv, NetplanStep \/ UNCHANGED netplanVars
  PROVE  SourceInv'
<1>1. NetplanTypeOK'
  BY NetplanTypeStep DEF SourceInv
<1> USE Constants DEF SourceInv, CloudStaysOff, PassedSilent, RewriteSilent, FileCut,
        LoopPlace, AnsweredHolds
<1>2. CASE write_netplan \/ OpenCloud
  BY <1>1, <1>2 DEF write_netplan, OpenCloud, netplanHistory
<1>3. CASE _disable_cloud_init_networking
  <2>1. at = 1
    BY <1>3 DEF _disable_cloud_init_networking, CloudOff
  <2> QED
    BY <1>1, <1>3, <2>1 DEF _disable_cloud_init_networking, CloudOff, netplanHistory
<1>4. CASE NothingToRemove \/ LeaveFile \/ OpenFile \/ RewriteFile \/ RewriteFails
  BY <1>1, <1>4, LoopSource
<1>5. CASE OpenOwn
  <2>1. \A i \in 1..Len(Others) : netplan'[Others[i]] = netplan[Others[i]]
    BY <1>5 DEF OpenOwn, NetplanTypeOK, Files
  <2>2. at = Len(Others) + 1 /\ at' = at
    BY <1>5 DEF OpenOwn, NetplanTypeOK
  <2> QED BY <1>1, <1>5, <2>1, <2>2 DEF OpenOwn, netplanHistory, Silent, Interfaces
<1>6. CASE WriteOwn
  <2>1. \A i \in 1..Len(Others) : netplan'[Others[i]] = netplan[Others[i]]
    BY <1>6 DEF WriteOwn, NetplanTypeOK, Files
  <2>2. netplan'[Own] = request /\ ~cloud_init /\ ~cloud_init'
    BY <1>6 DEF WriteOwn, NetplanTypeOK, Files
  <2>3. clean => \A i \in 1..Len(Others) : Silent(netplan[Others[i]], request)
    BY <1>6 DEF WriteOwn
  <2>4. answered' # NoRequest => answered' = request /\ clean
    BY <1>6 DEF WriteOwn
  <2>5. AnsweredHolds'
    BY <1>6, <2>1, <2>2, <2>3, <2>4 DEF WriteOwn, Silent, Interfaces
  <2> QED BY <1>1, <1>6, <2>2, <2>5 DEF WriteOwn
<1>7. CASE Raises
  BY <1>1, <1>7 DEF Raises, netplanHistory
<1>8. CASE NetplanDown \/ NetplanUp
  BY <1>1, <1>8 DEF NetplanDown, NetplanUp, netplanHistory
<1>9. CASE HostBoots
  BY <1>1, <1>9 DEF HostBoots, netplanHistory
<1>10. CASE UNCHANGED netplanVars
  BY <1>1, <1>10 DEF netplanVars, netplanHistory, File, Silent, Interfaces
<1> QED
  BY <1>2, <1>3, <1>4, <1>5, <1>6, <1>7, <1>8, <1>9, <1>10
     DEF NetplanStep, NetplanWorks, NetplanFails

\* For any files, NICs, requests, failures, crashes and boots: a request that
\* was answered and has left no file alone is the only one that netplan finds
\* to speak of its NICs (_write_netplan).
THEOREM OnlySource == Spec => []AnsweredIsOnlySource
<1>1. Init => SourceInv
  BY SourceInvInit DEF Init
<1>2. SourceInv /\ [Next]_vars => SourceInv'
  BY StepOfNetplan, SourceStep
<1>3. SourceInv => AnsweredIsOnlySource
  <2> SUFFICES ASSUME SourceInv, answered # NoRequest, NEW n \in Interfaces(answered)
               PROVE  Merged(n) = {answered[n]}
    BY DEF AnsweredIsOnlySource
  <2>1. netplan[Own] = answered /\ answered[n] # NoDef
    BY DEF SourceInv, AnsweredHolds, Interfaces
  <2>2. \A f \in OtherFiles : netplan[f][n] = NoDef
    BY OtherFilesAre DEF SourceInv, AnsweredHolds, Silent
  <2> QED BY <2>1, <2>2 DEF Merged, Files
<1> QED BY <1>1, <1>2, <1>3, PTL DEF Spec

-----------------------------------------------------------------------------
(* What no request has named stays *)

\* What file f is going to say once its rewriting is over.
Said(f) == IF step = "rewrite" /\ f = File THEN data ELSE netplan[f]

KeptInv ==
  /\ NetplanTypeOK
  /\ request # NoRequest => Interfaces(request) \subseteq named
  /\ \A f \in OtherFiles \ cut, n \in Nics \ named : Said(f)[n] = Original[f][n]

LEMMA KeptStep ==
  ASSUME KeptInv, NetplanStep \/ UNCHANGED netplanVars
  PROVE  KeptInv'
<1>1. NetplanTypeOK'
  BY NetplanTypeStep DEF KeptInv
<1>2. ASSUME request' = NoRequest \/ (request' = request /\ named \subseteq named')
             \/ (request' # NoRequest /\ Interfaces(request') \subseteq named'),
             cut \subseteq cut', named \subseteq named',
             \A f \in OtherFiles \ cut', n \in Nics \ named' : Said(f)'[n] = Said(f)[n]
      PROVE  KeptInv'
  BY <1>1, <1>2 DEF KeptInv, Interfaces
<1> USE Constants
<1>3. CASE write_netplan
  <2>1. request' # NoRequest /\ Interfaces(request') \subseteq named'
    BY <1>3 DEF write_netplan
  <2> QED BY <1>2, <1>3, <2>1 DEF write_netplan, Said
<1>4. CASE OpenCloud \/ _disable_cloud_init_networking \/ NothingToRemove \/ LeaveFile
  BY <1>2, <1>4 DEF OpenCloud, _disable_cloud_init_networking, CloudOff,
     NothingToRemove, LeaveFile, AtFile, netplanHistory, Said
<1>5. CASE OpenFile
  <2>1. File \in Files /\ File' = File /\ request # NoRequest
    BY <1>5, FileIs DEF OpenFile, KeptInv, File, NetplanTypeOK, AtFile
  <2>2. ASSUME NEW f \in OtherFiles \ cut', NEW n \in Nics \ named' PROVE Said(f)'[n] = Said(f)[n]
    <3>1. n \notin Interfaces(request)
      BY <1>5, <2>1, <2>2 DEF OpenFile, KeptInv, netplanHistory
    <3>2. CASE f = File
      BY <1>5, <2>1, <3>1, <3>2 DEF OpenFile, AtFile, Said, Remaining
    <3>3. CASE f # File
      BY <1>5, <2>1, <3>3 DEF OpenFile, AtFile, Said, KeptInv, NetplanTypeOK, Files
    <3> QED BY <3>2, <3>3
  <2> QED BY <1>2, <1>5, <2>2 DEF OpenFile, netplanHistory
<1>6. CASE RewriteFile \/ RewriteFails
  <2>1. File \in Files /\ step = "rewrite" /\ step' = "strip" /\ data \in Contents
    BY <1>6, FileIs DEF RewriteFile, RewriteFails, KeptInv, NetplanTypeOK
  <2>2. ASSUME NEW f \in OtherFiles \ cut' PROVE Said(f)' = Said(f)
    <3>1. CASE RewriteFile
      BY <3>1, <2>1 DEF RewriteFile, Said, KeptInv, NetplanTypeOK, Files
    <3>2. CASE RewriteFails
      <4>1. f # File
        BY <3>2, <2>2 DEF RewriteFails
      <4> QED BY <3>2, <2>1, <4>1 DEF RewriteFails, Said, KeptInv, NetplanTypeOK, Files
    <3> QED BY <1>6, <3>1, <3>2
  <2> QED BY <1>2, <1>6, <2>2 DEF RewriteFile, RewriteFails, netplanHistory
<1>7. CASE OpenOwn \/ WriteOwn \/ Raises
  <2>1. \A f \in OtherFiles : netplan'[f] = netplan[f]
    BY <1>7 DEF OpenOwn, WriteOwn, Raises, KeptInv, NetplanTypeOK, Files
  <2>2. step # "rewrite" /\ step' # "rewrite"
    BY <1>7 DEF OpenOwn, WriteOwn, Raises
  <2> QED
    BY <1>2, <1>7, <2>1, <2>2 DEF OpenOwn, WriteOwn, Raises, EndRequest, netplanHistory, Said
<1>8. CASE NetplanDown \/ NetplanUp
  BY <1>2, <1>8 DEF NetplanDown, NetplanUp, EndRequest, netplanHistory, Said
<1>9. CASE HostBoots
  <2>1. ASSUME NEW f \in OtherFiles PROVE netplan'[f] \in {netplan[f], Original[f]}
    BY <1>9 DEF HostBoots, KeptInv, NetplanTypeOK, Files
  <2> QED BY <1>1, <1>9, <2>1 DEF HostBoots, netplanHistory, Said, KeptInv, Interfaces
<1>10. CASE UNCHANGED netplanVars
  BY <1>2, <1>10 DEF netplanVars, netplanHistory, Said, File
<1> QED
  BY <1>3, <1>4, <1>5, <1>6, <1>7, <1>8, <1>9, <1>10
     DEF NetplanStep, NetplanWorks, NetplanFails

\* For any files, NICs and requests, across failures, crashes and boots: what
\* no request has named is left as it was, but in a file whose rewriting was
\* cut short (_neutralize_conflicting_netplan_files).
THEOREM UnnamedStays == Spec => []UnnamedKept
<1>1. Init => KeptInv
  BY InitNetplanType, Constants DEF Init, NetplanInit, KeptInv, Said, Files
<1>2. KeptInv /\ [Next]_vars => KeptInv'
  BY StepOfNetplan, KeptStep
<1>3. KeptInv => UnnamedKept
  BY DEF KeptInv, UnnamedKept, Said
<1> QED BY <1>1, <1>2, <1>3, PTL DEF Spec

-----------------------------------------------------------------------------
(* The log *)

Shorter(a, b) == IF a < b THEN a ELSE b

\* The buffer is the end of what has been logged.
LogInv ==
  /\ log_buffer \in Seq(Records) /\ logged \in Seq(Records)
  /\ Len(log_buffer) = Shorter(Len(logged), MaxLogEntries)
  /\ \A i \in 1..Len(log_buffer) :
       log_buffer[i] = logged[Len(logged) - Len(log_buffer) + i]

LEMMA EmitLog ==
  ASSUME LogInv, NEW r \in Records, emit(r)
  PROVE  LogInv'
<1> DEFINE n == Len(log_buffer)
           m == Len(logged)
<1>1. n \in Nat /\ m \in Nat /\ MaxLogEntries \in Nat /\ MaxLogEntries > 0
  BY MonitorAssumption DEF MonitorAssumption, LogInv
<1>2. logged' = Append(logged, r) /\ logged' \in Seq(Records) /\ Len(logged') = m + 1
      /\ (\A i \in 1..m : logged'[i] = logged[i]) /\ logged'[m + 1] = r
  BY DEF emit, LogInv
<1>3. CASE n < MaxLogEntries
  <2>1. log_buffer' = Append(log_buffer, r)
    BY <1>3 DEF emit, Buffered
  <2>2. log_buffer' \in Seq(Records) /\ Len(log_buffer') = n + 1 /\ n = m
        /\ (\A i \in 1..n : log_buffer'[i] = log_buffer[i]) /\ log_buffer'[n + 1] = r
    BY <2>1, <1>1, <1>3 DEF LogInv, Shorter
  <2>3. Len(log_buffer') = Shorter(Len(logged'), MaxLogEntries)
    BY <1>1, <1>2, <1>3, <2>2 DEF Shorter
  <2>4. \A i \in 1..(n + 1) : log_buffer'[i] = logged'[i]
    <3>1. \A i \in 1..n : log_buffer[i] = logged[m - n + i] /\ m - n + i = i
      BY <1>1, <2>2 DEF LogInv
    <3> QED BY <3>1, <1>1, <1>2, <2>2
  <2>5. \A i \in 1..Len(log_buffer') :
          log_buffer'[i] = logged'[Len(logged') - Len(log_buffer') + i]
    <3>1. \A i \in 1..(n + 1) : Len(logged') - Len(log_buffer') + i = i
      BY <1>1, <1>2, <2>2
    <3> QED BY <2>2, <2>4, <3>1
  <2> QED BY <1>2, <2>2, <2>3, <2>5 DEF LogInv
<1>4. CASE ~(n < MaxLogEntries)
  <2>1. n = MaxLogEntries /\ n <= m
    BY <1>1, <1>4 DEF LogInv, Shorter
  <2>2. log_buffer # <<>>
    BY <1>1, <2>1
  <2>3. /\ Tail(log_buffer) \in Seq(Records) /\ Len(Tail(log_buffer)) = n - 1
        /\ \A i \in 1..(n - 1) : Tail(log_buffer)[i] = log_buffer[i + 1]
    BY <2>2, HeadTailProperties DEF LogInv
  <2>4. log_buffer' = Append(Tail(log_buffer), r)
    BY <1>4 DEF emit, Buffered
  <2>5. /\ log_buffer' \in Seq(Records) /\ Len(log_buffer') = n
        /\ (\A i \in 1..(n - 1) : log_buffer'[i] = log_buffer[i + 1]) /\ log_buffer'[n] = r
    BY <2>3, <2>4, <1>1, <2>1
  <2>6. \A i \in 1..(n - 1) : log_buffer'[i] = logged'[m + 1 - n + i]
    <3> SUFFICES ASSUME NEW i \in 1..(n - 1) PROVE log_buffer'[i] = logged'[m + 1 - n + i]
      OBVIOUS
    <3>1. i + 1 \in 1..n /\ m - n + (i + 1) \in 1..m
      BY <1>1, <2>1
    <3>2. log_buffer[i + 1] = logged[m - n + (i + 1)]
      BY <3>1 DEF LogInv
    <3>3. m - n + (i + 1) = m + 1 - n + i
      BY <1>1
    <3> QED BY <3>1, <3>2, <3>3, <2>5, <1>2
  <2>7. \A i \in 1..n : log_buffer'[i] = logged'[m + 1 - n + i]
    <3> SUFFICES ASSUME NEW i \in 1..n PROVE log_buffer'[i] = logged'[m + 1 - n + i]
      OBVIOUS
    <3>1. CASE i = n
      BY <3>1, <1>1, <1>2, <2>5
    <3>2. CASE i # n
      BY <3>2, <1>1, <2>6
    <3> QED BY <3>1, <3>2
  <2>8. Len(log_buffer') = Shorter(Len(logged'), MaxLogEntries)
    BY <1>1, <1>2, <2>1, <2>5 DEF Shorter
  <2>9. \A i \in 1..Len(log_buffer') :
          log_buffer'[i] = logged'[Len(logged') - Len(log_buffer') + i]
    <3>1. \A i \in 1..n : Len(logged') - Len(log_buffer') + i = m + 1 - n + i
      BY <1>1, <1>2, <2>5
    <3> QED BY <2>5, <2>7, <3>1
  <2> QED BY <1>2, <2>5, <2>8, <2>9 DEF LogInv
<1> QED BY <1>3, <1>4

LEMMA LogStep ==
  ASSUME LogInv, MonitorStep \/ UNCHANGED monitorVars
  PROVE  LogInv'
<1>1. ASSUME UNCHANGED logVars PROVE LogInv'
  BY <1>1 DEF LogInv, logVars, Shorter
<1>2. ASSUME NEW r \in Records, emit(r) PROVE LogInv'
  BY <1>2, EmitLog
<1>3. CASE ForgetMonitor
  <2>1. <<>> \in Seq(Records) /\ Len(<<>>) = 0
    OBVIOUS
  <2>2. log_buffer' = <<>> /\ logged' = <<>>
    BY <1>3 DEF ForgetMonitor
  <2>3. 0 = Shorter(0, MaxLogEntries)
    BY MonitorAssumption DEF MonitorAssumption, Shorter
  <2> QED BY <2>1, <2>2, <2>3 DEF LogInv
<1> QED
  BY <1>1, <1>2, <1>3 DEF MonitorStep, monitorVars, get_nic_status, Traffic, Carry, Unplug, Plug

LEMMA LogInvInit == MonitorInit => LogInv
<1>1. <<>> \in Seq(Records) /\ Len(<<>>) = 0
  OBVIOUS
<1>2. 0 = Shorter(0, MaxLogEntries)
  BY MonitorAssumption DEF MonitorAssumption, Shorter
<1> QED BY <1>1, <1>2 DEF MonitorInit, LogInv

\* A sequence that agrees with the end of another is its suffix.
LEMMA EndIsSuffix ==
  ASSUME NEW S, NEW s \in Seq(S), NEW t \in Seq(S), Len(s) <= Len(t),
         \A i \in 1..Len(s) : s[i] = t[Len(t) - Len(s) + i]
  PROVE  IsSuffix(s, t)
<1>1. Len(s) \in Nat /\ Len(t) \in Nat
  OBVIOUS
<1>2. /\ Reverse(s) \in Seq(S) /\ Len(Reverse(s)) = Len(s)
      /\ Reverse(t) \in Seq(S) /\ Len(Reverse(t)) = Len(t)
  BY <1>1 DEF Reverse
<1>3. \A i \in 1..Len(s) : Reverse(s)[i] = Reverse(t)[i]
  BY <1>1 DEF Reverse
<1>4. SubSeq(Reverse(s), 1, Len(s)) = SubSeq(Reverse(t), 1, Len(s))
  BY <1>1, <1>2, <1>3
<1> QED BY <1>1, <1>2, <1>4 DEF IsSuffix, IsPrefix

\* get_recent_logs returns the end of the buffer, as long as it was asked to.
LEMMA AnswerIsEnd ==
  ASSUME LogInv, NEW limit \in Int
  PROVE  LET answer == get_recent_logs(limit)
             n == Len(log_buffer)
         IN /\ answer \in Seq(Records) /\ Len(answer) <= n
            /\ \A i \in 1..Len(answer) : answer[i] = log_buffer[n - Len(answer) + i]
            /\ limit > 0 => Len(answer) = Shorter(limit, n)
<1> DEFINE n == Len(log_buffer)
           from == IF limit > 0 THEN (IF limit < n THEN n - limit ELSE 0)
                   ELSE IF -limit < n THEN -limit ELSE n
           answer == get_recent_logs(limit)
<1>1. n \in Nat /\ from \in 0..n
  BY DEF LogInv
<1>2. answer = SubSeq(log_buffer, from + 1, n)
  BY DEF get_recent_logs
<1>5. limit > 0 => n - from = Shorter(limit, n)
  BY <1>1 DEF Shorter
<1> HIDE DEF answer, from
<1>7. from + 1 \in Int /\ n \in Int /\ \A i \in (from + 1)..n : log_buffer[i] \in Records
  BY <1>1 DEF LogInv
<1>8. /\ answer \in Seq(Records)
      /\ Len(answer) = IF from + 1 <= n THEN n - (from + 1) + 1 ELSE 0
      /\ \A i \in 1..(n - (from + 1) + 1) : answer[i] = log_buffer[from + 1 + i - 1]
  BY <1>2, <1>7, SubSeqProperties
<1>3. answer \in Seq(Records) /\ Len(answer) = n - from
  BY <1>1, <1>8
<1>4. \A i \in 1..Len(answer) : answer[i] = log_buffer[from + i]
  BY <1>1, <1>3, <1>8
<1>6. \A i \in 1..Len(answer) : answer[i] = log_buffer[n - Len(answer) + i]
  BY <1>1, <1>3, <1>4
<1> QED BY <1>1, <1>3, <1>5, <1>6 DEF answer

LEMMA LeastOfThree ==
  ASSUME NEW x \in Int, NEW y \in Int, NEW z \in Int
  PROVE  Min({x, y, z}) = Shorter(x, Shorter(z, y))
<1> DEFINE w == Shorter(x, Shorter(z, y))
<1>1. w \in {x, y, z} /\ \A v \in {x, y, z} : w <= v
  BY DEF Shorter
<1>2. \A u \in {x, y, z} : (\A v \in {x, y, z} : u <= v) => u = w
  BY <1>1
<1> HIDE DEF w
<1> QED BY <1>1, <1>2 DEF Min, w

\* For any size of the buffer, any records and any limit from 1 to one more
\* than the size: the answer of GET /api/system/log is the end of what has been
\* logged, exactly as long as asked for or as it can be (emit, get_recent_logs).
THEOREM NewestAnswered == Spec => []AnswersAreNewest
<1>1. Init => LogInv
  BY LogInvInit DEF Init
<1>2. LogInv /\ [Next]_vars => LogInv'
  BY StepOfMonitor, LogStep
<1>3. LogInv => AnswersAreNewest
  <2> SUFFICES ASSUME LogInv, NEW limit \in 1..(MaxLogEntries + 1)
               PROVE  IsLatest(get_recent_logs(limit), limit)
    BY DEF AnswersAreNewest
  <2> DEFINE answer == get_recent_logs(limit)
             n == Len(log_buffer)
             m == Len(logged)
  <2>1. limit \in Int /\ limit > 0 /\ n \in Nat /\ m \in Nat /\ MaxLogEntries \in Nat
        /\ n = Shorter(m, MaxLogEntries)
    BY MonitorAssumption DEF MonitorAssumption, LogInv
  <2>2. /\ answer \in Seq(Records) /\ Len(answer) <= n
        /\ \A i \in 1..Len(answer) : answer[i] = log_buffer[n - Len(answer) + i]
        /\ Len(answer) = Shorter(limit, n)
    BY <2>1, AnswerIsEnd
  <2> HIDE DEF answer
  <2>3. n <= m
    BY <2>1 DEF Shorter
  <2>4. \A i \in 1..Len(answer) : answer[i] = logged[m - Len(answer) + i]
    <3> SUFFICES ASSUME NEW i \in 1..Len(answer) PROVE answer[i] = logged[m - Len(answer) + i]
      OBVIOUS
    <3> DEFINE j == n - Len(answer) + i
    <3>1. j \in 1..n /\ m - n + j = m - Len(answer) + i
      BY <2>1, <2>2, <2>3
    <3>2. answer[i] = log_buffer[j]
      BY <2>2
    <3>3. log_buffer[j] = logged[m - n + j]
      BY <3>1 DEF LogInv
    <3> QED BY <3>1, <3>2, <3>3
  <2>5. IsSuffix(answer, logged)
    <3>1. logged \in Seq(Records) /\ Len(answer) <= Len(logged)
      BY <2>1, <2>2, <2>3 DEF LogInv
    <3> QED BY <2>2, <2>4, <3>1, EndIsSuffix
  <2>6. Len(answer) = Min({limit, MaxLogEntries, m})
    <3>1. Min({limit, MaxLogEntries, m}) = Shorter(limit, Shorter(m, MaxLogEntries))
      BY <2>1, LeastOfThree
    <3> QED BY <2>1, <2>2, <3>1
  <2> QED BY <2>5, <2>6 DEF answer, IsLatest
<1> QED BY <1>1, <1>2, <1>3, PTL DEF Spec

-----------------------------------------------------------------------------
(* The rates *)

MonitorShape ==
  /\ prev_counters \in [Monitored -> Nat \cup {NoSample}]
  /\ total_bytes \in [Monitored -> Nat] /\ present \in [Monitored -> BOOLEAN]
  /\ counted \in [Monitored -> Nat] /\ carried \in [Monitored -> Nat]
  /\ found_away \subseteq Monitored

\* What one NIC's numbers have in common: nothing is counted before there is a
\* sample; then all is, and of a NIC that was found away not more than all.
Counts(p, t, c, k, away) ==
  IF p = NoSample THEN c = 0 /\ k = 0
  ELSE /\ c + (IF t < p THEN 0 ELSE t - p) <= k
       /\ ~away => p <= t /\ c + (t - p) = k

RateInv ==
  /\ MonitorShape
  /\ \A n \in Monitored :
       Counts(prev_counters[n], total_bytes[n], counted[n], carried[n], n \in found_away)

LEMMA RateBytesType ==
  ASSUME RateInv, NEW n \in Monitored PROVE RateBytes(n) \in Nat
BY DEF RateInv, MonitorShape, RateBytes

LEMMA StatusRate ==
  ASSUME RateInv, NEW names \in SUBSET Monitored, get_nic_status(names)
  PROVE  RateInv'
<1>0. NoSample \notin Nat
  BY MonitorAssumption DEF MonitorAssumption
<1>1. prev_counters' \in [Monitored -> Nat \cup {NoSample}]
  BY DEF get_nic_status, Sample, RateInv, MonitorShape
<1>2. counted' \in [Monitored -> Nat]
  BY RateBytesType DEF get_nic_status, RateInv, MonitorShape
<1>3. total_bytes' \in [Monitored -> Nat] /\ found_away' \subseteq Monitored
      /\ UNCHANGED <<present, carried>>
  BY DEF get_nic_status, RateInv, MonitorShape
<1>4. MonitorShape'
  BY <1>1, <1>2, <1>3 DEF RateInv, MonitorShape
<1>5. ASSUME NEW n \in Monitored
      PROVE  Counts(prev_counters[n], total_bytes[n], counted[n], carried[n], n \in found_away)'
  <2> DEFINE p == prev_counters[n]
             t == total_bytes[n]
             c == counted[n]
             k == carried[n]
  <2>1. /\ p \in Nat \cup {NoSample} /\ t \in Nat /\ c \in Nat /\ k \in Nat
        /\ Counts(p, t, c, k, n \in found_away) /\ k' = k
    BY <1>3 DEF RateInv, MonitorShape
  <2>2. CASE present[n] /\ n \in names
    <3>1. p' = t /\ t' = t /\ c' = c + RateBytes(n) /\ (n \in found_away' <=> n \in found_away)
      BY <2>2 DEF get_nic_status, Sample
    <3>2. RateBytes(n) = IF p = NoSample \/ t < p THEN 0 ELSE t - p
      BY DEF RateBytes
    <3> QED BY <1>0, <2>1, <3>1, <3>2 DEF Counts
  <2>3. CASE present[n] /\ n \notin names
    <3>1. p' = p /\ t' = t /\ c' = c /\ (n \in found_away' <=> n \in found_away)
      BY <2>3 DEF get_nic_status
    <3> QED BY <2>1, <3>1 DEF Counts
  <2>4. CASE ~present[n]
    <3>1. p' = p /\ t' = 0 /\ c' = c /\ n \in found_away'
      BY <2>4 DEF get_nic_status, Sample
    <3> QED BY <1>0, <2>1, <3>1 DEF Counts
  <2> QED BY <2>2, <2>3, <2>4
<1> QED BY <1>4, <1>5 DEF RateInv

LEMMA TrafficRate ==
  ASSUME RateInv, Traffic
  PROVE  RateInv'
<1>0. NoSample \notin Nat
  BY MonitorAssumption DEF MonitorAssumption
<1>1. ASSUME NEW m \in Monitored, Carry(m) PROVE RateInv'
  <2>1. /\ total_bytes' = [total_bytes EXCEPT ![m] = total_bytes[m] + 1]
        /\ carried' = IF prev_counters[m] = NoSample THEN carried
                      ELSE [carried EXCEPT ![m] = carried[m] + 1]
        /\ UNCHANGED <<present, prev_counters, counted, found_away>>
    BY <1>1 DEF Carry
  <2>2. MonitorShape'
    BY <2>1 DEF RateInv, MonitorShape
  <2>3. ASSUME NEW n \in Monitored
        PROVE  Counts(prev_counters[n], total_bytes[n], counted[n], carried[n], n \in found_away)'
    <3>1. /\ prev_counters[n] \in Nat \cup {NoSample} /\ total_bytes[n] \in Nat
          /\ counted[n] \in Nat /\ carried[n] \in Nat
          /\ Counts(prev_counters[n], total_bytes[n], counted[n], carried[n], n \in found_away)
      BY DEF RateInv, MonitorShape
    <3>2. CASE n = m /\ prev_counters[n] # NoSample
      <4>1. total_bytes'[n] = total_bytes[n] + 1 /\ carried'[n] = carried[n] + 1
            /\ prev_counters'[n] = prev_counters[n] /\ counted'[n] = counted[n]
            /\ found_away' = found_away
        BY <3>2, <2>1 DEF RateInv, MonitorShape
      <4> QED BY <1>0, <3>1, <3>2, <4>1 DEF Counts
    <3>3. CASE n = m /\ prev_counters[n] = NoSample
      BY <3>1, <3>3, <2>1 DEF Counts
    <3>4. CASE n # m
      <4>1. total_bytes'[n] = total_bytes[n] /\ carried'[n] = carried[n]
        BY <3>4, <2>1 DEF RateInv, MonitorShape
      <4> QED BY <3>1, <4>1, <2>1 DEF Counts
    <3> QED BY <3>2, <3>3, <3>4
  <2> QED BY <2>2, <2>3 DEF RateInv
<1>2. ASSUME NEW m \in Monitored, Unplug(m) \/ Plug(m) PROVE RateInv'
  <2>1. UNCHANGED <<total_bytes, prev_counters, counted, carried, found_away>>
    BY <1>2 DEF Unplug, Plug, rateVars
  <2>2. present' \in [Monitored -> BOOLEAN]
    BY <1>2 DEF Unplug, Plug, RateInv, MonitorShape
  <2> QED BY <2>1, <2>2 DEF RateInv, MonitorShape, Counts
<1> QED BY <1>1, <1>2 DEF Traffic

LEMMA RateStep ==
  ASSUME RateInv, MonitorStep \/ UNCHANGED monitorVars
  PROVE  RateInv'
<1>1. CASE UNCHANGED <<nicVars, rateVars>>
  BY <1>1 DEF RateInv, MonitorShape, Counts, nicVars, rateVars
<1>2. CASE ForgetMonitor
  <2>1. \A n \in Monitored : prev_counters'[n] = NoSample /\ counted'[n] = 0 /\ carried'[n] = 0
    BY <1>2 DEF ForgetMonitor
  <2>2. MonitorShape'
    BY <1>2 DEF ForgetMonitor, nicVars, RateInv, MonitorShape
  <2> QED BY <2>1, <2>2 DEF RateInv, Counts
<1> QED
  BY <1>1, <1>2, StatusRate, TrafficRate DEF MonitorStep, monitorVars

LEMMA RateInvInit == MonitorInit => RateInv
BY DEF MonitorInit, RateInv, MonitorShape, Counts

\* For any NICs and any number of pages that ask: every byte is in one rate,
\* or still to be counted; of a NIC whose counter has begun again, at most in
\* one (get_nic_status, _prev_counters).
THEOREM TrafficIsCountedOnce == Spec => []TrafficCountedOnce
<1>1. Init => RateInv
  BY RateInvInit DEF Init
<1>2. RateInv /\ [Next]_vars => RateInv'
  BY StepOfMonitor, RateStep
<1>3. RateInv => TrafficCountedOnce
  <2> SUFFICES ASSUME RateInv, NEW n \in Monitored
               PROVE  IF n \in found_away THEN counted[n] <= carried[n]
                      ELSE counted[n] + Pending(n) = carried[n]
    BY DEF TrafficCountedOnce
  <2>1. /\ prev_counters[n] \in Nat \cup {NoSample} /\ total_bytes[n] \in Nat
        /\ counted[n] \in Nat /\ carried[n] \in Nat
        /\ Counts(prev_counters[n], total_bytes[n], counted[n], carried[n], n \in found_away)
    BY DEF RateInv, MonitorShape
  <2> QED BY <2>1, MonitorAssumption DEF MonitorAssumption, Counts, Pending
<1> QED BY <1>1, <1>2, <1>3, PTL DEF Spec

-----------------------------------------------------------------------------
(* The shape of the whole state *)

\* The files, the handler, the log and the samples keep their types, for any
\* values of the constants.
THEOREM Types == Spec => []TypeOK
<1>1. Init => NetplanTypeOK /\ LogInv /\ RateInv
  BY InitNetplanType, LogInvInit, RateInvInit DEF Init
<1>2. (NetplanTypeOK /\ LogInv /\ RateInv) /\ [Next]_vars => (NetplanTypeOK /\ LogInv /\ RateInv)'
  BY StepOfNetplan, StepOfMonitor, NetplanTypeStep, LogStep, RateStep
<1>3. NetplanTypeOK /\ LogInv /\ RateInv => TypeOK
  <2>1. LogInv => Len(log_buffer) <= MaxLogEntries
    BY MonitorAssumption DEF MonitorAssumption, LogInv, Shorter
  <2> QED BY <2>1 DEF TypeOK, MonitorTypeOK, LogInv, RateInv, MonitorShape
<1> QED BY <1>1, <1>2, <1>3, PTL DEF Spec
=============================================================================
