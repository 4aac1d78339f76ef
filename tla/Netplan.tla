-------------------------------- MODULE Netplan --------------------------------
(***************************************************************************)
(* _write_netplan of frontend/routers/system.py: cloud-init is told to     *)
(* leave the network alone, the definitions of the requested NICs are      *)
(* removed from the other netplan files, and the own file is replaced. A   *)
(* file is opened, which empties it, and then written; the process or the  *)
(* host may go down between any two of these steps. At boot, netplan       *)
(* merges what all files say of a NIC, after cloud-init has written its    *)
(* file anew unless it is disabled.                                        *)
(*                                                                         *)
(* A definition is a value: what it says (dhcp4, addresses, routes) is     *)
(* left out. What a power cut takes from the page cache is left out too.   *)
(***************************************************************************)
EXTENDS Integers, Sequences

CONSTANTS
  Nics, Defs,        \* NICs, and what a file may say of one
  NoDef,             \* nothing is said of a NIC
  Own,               \* NETPLAN_PATH
  Others,            \* the other .yaml and .yml files, sorted by name
  CloudFile,         \* the one of them that cloud-init writes
  Original,          \* [file -> [NIC -> definition]] before the first request
  NoRequest,
  MaxRequests        \* bound on the requests

OtherFiles == {Others[i] : i \in DOMAIN Others}
Files == OtherFiles \cup {Own}
Contents == [Nics -> Defs \cup {NoDef}]
Requests == {r \in Contents : \E n \in Nics : r[n] # NoDef}
Empty == [n \in Nics |-> NoDef]

ASSUME NetplanAssumption ==
  /\ NoDef \notin Defs /\ NoRequest \notin Contents
  /\ Others \in Seq(OtherFiles) /\ Own \notin OtherFiles
  /\ \A i, j \in DOMAIN Others : Others[i] = Others[j] => i = j
  /\ CloudFile \in OtherFiles
  /\ Original \in [OtherFiles -> Contents]
  /\ MaxRequests \in Nat

VARIABLES
  netplan,           \* what each file says
  cloud_init,        \* cloud-init writes CloudFile at each boot
  step,              \* what the handler does next; free, or down: no process
  at,                \* the file of the loop
  request,           \* patch.ip_addresses
  data,              \* what was read of the file that is being rewritten
  asked,             \* number of requests
  named,             \* history: the NICs any request has named
  cut,               \* history: files whose rewriting failed or was cut short
  clean,             \* history: the loop has not left a conflicting file alone
  answered           \* history: the last request, if it was answered

netplanHistory == <<asked, named, cut, clean, answered>>
netplanVars == <<netplan, cloud_init, step, at, request, data, netplanHistory>>

NetplanInit ==
  /\ netplan = [f \in Files |-> IF f = Own THEN Empty ELSE Original[f]]
  /\ cloud_init = TRUE
  /\ step = "free" /\ at = 1 /\ request = NoRequest /\ data = Empty
  /\ asked = 0 /\ named = {} /\ cut = {} /\ clean = TRUE /\ answered = NoRequest

Interfaces(r) == {n \in Nics : r[n] # NoDef}

\* POST /api/system/config with addresses. An interface that it lists twice
\* has the later entry.
write_netplan ==
  /\ step = "free" /\ asked < MaxRequests
  /\ request' \in Requests
  /\ step' = "cloud" /\ at' = 1 /\ asked' = asked + 1
  /\ named' = named \cup Interfaces(request')
  /\ clean' = TRUE /\ answered' = NoRequest
  /\ UNCHANGED <<netplan, cloud_init, data, cut>>

\* The handler ends, and what it has in local variables is gone.
EndRequest == at' = 1 /\ request' = NoRequest /\ data' = Empty

-----------------------------------------------------------------------------
\* _disable_cloud_init_networking. Variant: it writes what cloud-init ignores.
CloudLeftOn == step = "cloud_open" /\ step' = "strip" /\ UNCHANGED cloud_init

OpenCloud ==
  /\ step = "cloud" /\ step' = "cloud_open"
  /\ cloud_init' = TRUE
  /\ UNCHANGED <<netplan, at, request, data, netplanHistory>>

CloudOff == step = "cloud_open" /\ step' = "strip" /\ cloud_init' = FALSE

_disable_cloud_init_networking ==
  /\ CloudOff
  /\ UNCHANGED <<netplan, at, request, data, netplanHistory>>

-----------------------------------------------------------------------------
\* _neutralize_conflicting_netplan_files, file by file.

File == Others[at]
AtFile == step = "strip" /\ at <= Len(Others)
removed == Interfaces(request) \cap Interfaces(netplan[File])

\* Variant: the file is rewritten with nothing in it.
DropsAll(f) == Empty

\* The file's definitions without those of the requested NICs.
Remaining(f) ==
  [n \in Nics |-> IF n \in Interfaces(request) THEN NoDef ELSE netplan[f][n]]

NothingToRemove ==
  /\ AtFile /\ removed = {}
  /\ at' = at + 1
  /\ UNCHANGED <<netplan, cloud_init, step, request, data, netplanHistory>>

\* Reading the file raises, or opening it to write it: logged, and it stays.
LeaveFile ==
  /\ AtFile
  /\ at' = at + 1
  /\ clean' = (clean /\ removed = {})
  /\ UNCHANGED <<netplan, cloud_init, step, request, data, asked, named, cut, answered>>

OpenFile ==
  /\ AtFile /\ removed # {}
  /\ data' = Remaining(File)
  /\ netplan' = [netplan EXCEPT ![File] = Empty]
  /\ step' = "rewrite"
  /\ UNCHANGED <<cloud_init, at, request, netplanHistory>>

RewriteFile ==
  /\ step = "rewrite"
  /\ netplan' = [netplan EXCEPT ![File] = data]
  /\ step' = "strip" /\ at' = at + 1 /\ data' = Empty
  /\ UNCHANGED <<cloud_init, request, netplanHistory>>

\* Writing raises, and the file stays empty, or chmod does: logged as well.
RewriteFails ==
  /\ step = "rewrite"
  /\ netplan' \in {netplan, [netplan EXCEPT ![File] = data]}
  /\ cut' = cut \cup {File}
  /\ step' = "strip" /\ at' = at + 1 /\ data' = Empty
  /\ UNCHANGED <<cloud_init, request, asked, named, clean, answered>>

-----------------------------------------------------------------------------

OpenOwn ==
  /\ step = "strip" /\ at > Len(Others)
  /\ netplan' = [netplan EXCEPT ![Own] = Empty]
  /\ step' = "own"
  /\ UNCHANGED <<cloud_init, at, request, data, netplanHistory>>

\* The own file holds this request and nothing of the ones before; the answer
\* is sent, and a reboot is scheduled.
WriteOwn ==
  /\ step = "own"
  /\ netplan' = [netplan EXCEPT ![Own] = request]
  /\ answered' = IF clean THEN request ELSE NoRequest
  /\ step' = "free" /\ EndRequest
  /\ UNCHANGED <<cloud_init, asked, named, cut, clean>>

\* What is not caught ends the request with a 500, where it stands: an
\* unwritable file, a directory that cannot be listed, a file that is no
\* mapping; or the chmod of the own file, which then is written.
Raises ==
  /\ step \in {"cloud", "cloud_open", "strip", "own"}
  /\ netplan' \in {netplan} \cup
                  {[netplan EXCEPT ![Own] = request] : s \in {step} \cap {"own"}}
  /\ step' = "free" /\ EndRequest
  /\ UNCHANGED <<cloud_init, netplanHistory>>

-----------------------------------------------------------------------------
\* The process ends: a restart, a reboot, also one that an earlier request
\* has scheduled, or a crash.
NetplanDown ==
  /\ step # "down" /\ step' = "down" /\ EndRequest
  /\ cut' = IF step = "rewrite" THEN cut \cup {File} ELSE cut
  /\ UNCHANGED <<netplan, cloud_init, asked, named, clean, answered>>

NetplanUp ==
  /\ step = "down" /\ step' = "free"
  /\ UNCHANGED <<netplan, cloud_init, at, request, data, netplanHistory>>

\* The host boots, and with it the process.
HostBoots ==
  /\ step = "down" /\ step' = "free"
  /\ netplan' = IF cloud_init THEN [netplan EXCEPT ![CloudFile] = Original[CloudFile]]
                ELSE netplan
  /\ UNCHANGED <<cloud_init, at, request, data, netplanHistory>>

NetplanFails == LeaveFile \/ RewriteFails
NetplanWorks ==
  \/ OpenCloud \/ _disable_cloud_init_networking
  \/ NothingToRemove \/ OpenFile \/ RewriteFile
  \/ OpenOwn \/ WriteOwn \/ Raises

-----------------------------------------------------------------------------
(* Correctness *)

NetplanTypeOK ==
  /\ netplan \in [Files -> Contents] /\ cloud_init \in BOOLEAN
  /\ step \in {"down", "free", "cloud", "cloud_open", "strip", "rewrite", "own"}
  /\ at \in 1..(Len(Others) + 1)
  /\ step = "rewrite" => at <= Len(Others)
  /\ request \in Requests \cup {NoRequest}
  /\ step \notin {"down", "free"} => request # NoRequest
  /\ data \in Contents /\ asked \in 0..MaxRequests
  /\ named \subseteq Nics /\ cut \subseteq OtherFiles
  /\ clean \in BOOLEAN /\ answered \in Requests \cup {NoRequest}

\* What netplan merges for a NIC.
Merged(n) == {netplan[f][n] : f \in Files} \ {NoDef}

\* A request that was answered and has logged no failure has left its own file
\* as the only one that speaks of its NICs, and that stays so across restarts
\* and boots, whatever earlier requests or crashes had left behind.
AnsweredIsOnlySource ==
  answered # NoRequest =>
    \A n \in Interfaces(answered) : Merged(n) = {answered[n]}

\* NICs that no request has named keep what the other files say of them,
\* unless such a file's rewriting failed or was cut short.
UnnamedKept ==
  \A f \in OtherFiles \ cut, n \in Nics \ named :
    ~(step = "rewrite" /\ f = File) => netplan[f][n] = Original[f][n]
=============================================================================
