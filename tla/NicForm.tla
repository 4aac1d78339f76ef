-------------------------------- MODULE NicForm --------------------------------
(***************************************************************************)
(* The NIC assignment of the settings page (frontend/static/settings.js):  *)
(* three selects, filled from the NICs the host reports and then set to    *)
(* what the configuration holds. Opening the system tab fills them again.  *)
(* An answer of the server is as fresh as its use.                         *)
(***************************************************************************)
EXTENDS SequencesExt

CONSTANTS
  Blue, OtherRoles,  \* the role that may be unused, and the others
  Listings,          \* what ip link show may list: sequences of NICs
  Unused             \* the empty value

Roles == OtherRoles \cup {Blue}
Nics == UNION {Range(l) : l \in Listings}

VARIABLES
  detected,          \* the host's NICs
  config,            \* section system of config.json
  phase,             \* nics, config or ready: how far the page has loaded
  options, value,    \* of each select
  shown              \* config as the page has loaded it

vars == <<detected, config, phase, options, value, shown>>

\* The page opens on a host whose configured NICs are there, or not.
Init ==
  /\ detected \in Listings
  /\ config \in [Roles -> Nics]
  /\ phase = "nics"
  /\ options = [r \in Roles |-> <<>>] /\ value = [r \in Roles |-> Unused]
  /\ shown = [r \in Roles |-> Unused]

\* The options of a select, in order: Blue's first one is the empty one.
Listed(r) == IF r = Blue THEN <<Unused>> \o detected ELSE detected

\* A select that is filled anew shows its first option, unless its previous
\* value is among the options.
Fill ==
  /\ options' = [r \in Roles |-> Listed(r)]
  /\ value' = [r \in Roles |->
                 IF value[r] \in Range(Listed(r)) THEN value[r]
                 ELSE IF Listed(r) = <<>> THEN Unused ELSE Head(Listed(r))]

\* At first for the page, then whenever the system tab is opened.
loadAvailableNics ==
  /\ Fill
  /\ phase' = IF phase = "nics" THEN "config" ELSE phase
  /\ UNCHANGED <<detected, config, shown>>

\* setSelectValueSafe for each role: a NIC that is not listed is added.
loadSystemConfig ==
  /\ phase = "config" /\ phase' = "ready"
  /\ shown' = config
  /\ options' = [r \in Roles |->
                   IF config[r] \in Range(options[r]) \cup {Unused} THEN options[r]
                   ELSE Append(options[r], config[r])]
  /\ value' = [r \in Roles |-> IF config[r] = Unused THEN value[r] ELSE config[r]]
  /\ UNCHANGED <<detected, config>>

Choose(r) ==
  /\ \E v \in Range(options[r]) : value' = [value EXCEPT ![r] = v]
  /\ UNCHANGED <<detected, config, phase, options, shown>>

\* The save button sends all three; the page stays open.
save_nics ==
  /\ config' = value
  /\ UNCHANGED <<detected, phase, options, value, shown>>

Hotplug ==
  /\ detected' \in Listings
  /\ UNCHANGED <<config, phase, options, value, shown>>

Next ==
  \/ loadAvailableNics \/ loadSystemConfig
  \/ \E r \in Roles : Choose(r)
  \/ save_nics \/ Hotplug

Spec == Init /\ [][Next]_vars

-----------------------------------------------------------------------------
(* Correctness *)

\* Once loaded, the page keeps each configured NIC as a choice, also one that
\* the host does not report at the moment: else the select shows another NIC
\* as if it were configured, and the next save makes it so.
ConfiguredStaysChoice ==
  phase = "ready" =>
    \A r \in Roles : shown[r] \in Range(options[r]) \cup {Unused}
=============================================================================
