------------------------------ MODULE MCSystemApi ------------------------------
(***************************************************************************)
(* Two NICs and two other netplan files. cloud-init has defined both NICs; *)
(* the site's file defines one of them a second time.                      *)
(***************************************************************************)
EXTENDS SystemApi

CONSTANTS amber, control, cloud, site, old, new, warning, error

MCNics == {amber, control}
MCDefs == {old, new}
MCOthers == <<cloud, site>>
MCOriginal ==
  [f \in {cloud, site} |->
     [n \in MCNics |-> IF f = cloud \/ n = control THEN old ELSE NoDef]]
MCRecords == {warning, error}
MCMonitored == {amber}
=============================================================================
