------------------------------- MODULE SystemApi -------------------------------
(***************************************************************************)
(* frontend/routers/system.py around its monitor and its netplan writer.   *)
(* The handlers are coroutines that never await: none begins before the    *)
(* one that runs has ended, so no status is taken while netplan is being   *)
(* written. What fails there is swallowed and only shows in the log the    *)
(* monitor keeps; the log and the rates go with the process, the files     *)
(* stay.                                                                   *)
(***************************************************************************)
EXTENDS Netplan, SystemMonitor

CONSTANTS
  NetplanRecord,     \* "failed to read / to rewrite netplan file"
  OtherRecord        \* any other record, as that of an ip command that failed

ASSUME RecordsAssumption == {NetplanRecord, OtherRecord} \subseteq Records

vars == <<netplanVars, monitorVars>>

Init == NetplanInit /\ MonitorInit

post_config == write_netplan /\ UNCHANGED monitorVars

netplan_step == NetplanWorks /\ UNCHANGED monitorVars

netplan_failure == NetplanFails /\ emit(NetplanRecord) /\ UNCHANGED <<nicVars, rateVars>>

\* list_network_interfaces logs what it catches, as do others of the process.
other_failure ==
  /\ step # "down"
  /\ emit(OtherRecord)
  /\ UNCHANGED <<netplanVars, nicVars, rateVars>>

get_system_status ==
  /\ step = "free"
  /\ \E names \in SUBSET Monitored : get_nic_status(names)
  /\ UNCHANGED netplanVars

traffic == Traffic /\ UNCHANGED netplanVars

down == NetplanDown /\ ForgetMonitor

up == (NetplanUp \/ HostBoots) /\ UNCHANGED monitorVars

Next ==
  \/ post_config \/ netplan_step \/ netplan_failure
  \/ other_failure \/ get_system_status \/ traffic
  \/ down \/ up

Spec == Init /\ [][Next]_vars

\* The shape of the state of both parts.
TypeOK == NetplanTypeOK /\ MonitorTypeOK
=============================================================================
