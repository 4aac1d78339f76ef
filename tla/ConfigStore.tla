------------------------------ MODULE ConfigStore ------------------------------
(***************************************************************************)
(* config.json and frontend/services/config_store.py: a request loads the  *)
(* whole file, changes one section, writes all to a temporary file and     *)
(* puts that in the place of the first. No handler awaits in between, so   *)
(* no other request does the same meanwhile; but any file access may fail  *)
(* or be the last thing the process does.                                  *)
(***************************************************************************)
CONSTANTS
  PtpValues, SystemValues,   \* what the two sections may hold
  Torn,           \* a file that has been opened to be written
  NoChange        \* no request is at work

Configs == [ptp : PtpValues, system : SystemValues]

ASSUME ConfigAssumption == Torn \notin Configs /\ NoChange \notin Configs

VARIABLES
  config,         \* config.json
  data,           \* what the request at work writes
  tmp             \* config.json.tmp: torn or written; none when no request is
                  \* at work, since what one has left is never read

configVars == <<config, data, tmp>>

ConfigInit == config \in Configs /\ data = NoChange /\ tmp = "none"

LoopFree == data = NoChange

\* Variant: config.json itself is opened.
OpenInPlace == tmp' = "torn" /\ config' = Torn

Open == tmp' = "torn" /\ UNCHANGED config

\* update_section, and import_config, which does not touch "system": the file
\* is loaded, and the temporary one opened.
update_section(k, v) ==
  /\ LoopFree /\ config # Torn
  /\ data' = [config EXCEPT ![k] = v]
  /\ Open

DumpTmp ==
  /\ tmp = "torn" /\ tmp' = "written"
  /\ UNCHANGED <<config, data>>

Replace ==
  /\ tmp = "written"
  /\ config' = data
  /\ data' = NoChange /\ tmp' = "none"

\* An access raises, or the process ends.
Abandon == data' = NoChange /\ tmp' = "none" /\ UNCHANGED config

SaveRaises == data # NoChange /\ Abandon

SaveSteps == DumpTmp \/ Replace \/ SaveRaises

\* A request to change a section changes all of it or nothing, and nothing
\* else: what a reader finds is never a part of what was written.
Atomic == INSTANCE AtomicConfig WITH file <- config, pending <- data

SavesAreAtomic == Atomic!Spec
=============================================================================
