----------------------------- MODULE AtomicConfig -----------------------------
(***************************************************************************)
(* What config_store.py promises of config.json: a request changes one     *)
(* section, at once and whole, or it changes nothing, wherever it fails or *)
(* the process ends.                                                       *)
(***************************************************************************)
CONSTANTS
  Configs,        \* the contents config.json may have
  NoChange        \* no request is at work

VARIABLES
  file,           \* what a reader finds
  pending         \* what the request at work makes of it

Init == file \in Configs /\ pending = NoChange

Request ==
  /\ pending = NoChange /\ pending' \in Configs
  /\ \E k \in DOMAIN file : \A other \in DOMAIN file \ {k} : pending'[other] = file[other]
  /\ UNCHANGED file

Store == pending # NoChange /\ file' = pending /\ pending' = NoChange

Drop == pending # NoChange /\ UNCHANGED file /\ pending' = NoChange

Next == Request \/ Store \/ Drop

Spec == Init /\ [][Next]_<<file, pending>>
=============================================================================
