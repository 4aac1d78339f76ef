---------------------------- MODULE NicFormProofs ----------------------------
(***************************************************************************)
(* Proofs about NicForm, for any roles and any NICs the host may list.     *)
(***************************************************************************)
EXTENDS NicForm, SequenceTheorems, TLAPS

\* What a select can show.
Values == Nics \cup {Unused}

\* The tab of the NICs is only opened while the host reports every NIC the
\* page has been told is configured.
RefilledWhenListed ==
  [][loadAvailableNics => \A r \in Roles : shown[r] \in Range(detected) \cup {Unused}]_vars

TypesOK ==
  /\ detected \in Seq(Nics)
  /\ config \in [Roles -> Values] /\ value \in [Roles -> Values]
  /\ shown \in [Roles -> Values]
  /\ options \in [Roles -> Seq(Values)]

\* A sequence is in the range of what is appended to it, in front or behind.
LEMMA RangeOfAppended ==
  ASSUME NEW S, NEW s \in Seq(S), NEW e \in S
  PROVE  /\ e \in Range(Append(s, e))
         /\ Range(s) \subseteq Range(Append(s, e))
<1>1. /\ DOMAIN Append(s, e) = 1..(Len(s) + 1) /\ DOMAIN s = 1..Len(s) /\ Len(s) \in Nat
      /\ Append(s, e)[Len(s) + 1] = e
      /\ \A i \in 1..Len(s) : Append(s, e)[i] = s[i]
  BY AppendProperties, LenProperties
<1> QED BY <1>1 DEF Range

LEMMA RangeOfPrefixed ==
  ASSUME NEW S, NEW s \in Seq(S), NEW e \in S
  PROVE  /\ <<e>> \o s \in Seq(S)
         /\ Range(s) \cup {e} \subseteq Range(<<e>> \o s)
<1> DEFINE t == <<e>> \o s
<1>1. <<e>> \in Seq(S) /\ Len(<<e>>) = 1 /\ <<e>>[1] = e
  OBVIOUS
<1>2. DOMAIN s = 1..Len(s) /\ Len(s) \in Nat
  BY LenProperties
<1>3. /\ t \in Seq(S) /\ Len(t) = 1 + Len(s)
      /\ \A i \in 1..(1 + Len(s)) : t[i] = IF i <= 1 THEN <<e>>[i] ELSE s[i - 1]
  BY <1>1, ConcatProperties
<1>4. DOMAIN t = 1..(1 + Len(s)) /\ t[1] = e
  BY <1>1, <1>2, <1>3, LenProperties
<1>5. \A i \in 1..Len(s) : t[i + 1] = s[i] /\ i + 1 \in DOMAIN t
  BY <1>2, <1>3, <1>4
<1> HIDE DEF t
<1>6. Range(s) \cup {e} \subseteq Range(t)
  BY <1>2, <1>4, <1>5 DEF Range
<1> QED BY <1>3, <1>6 DEF t

LEMMA RangeType ==
  ASSUME NEW S, NEW s \in Seq(S)
  PROVE  Range(s) \subseteq S
BY ElementOfSeq, LenProperties DEF Range

\* The options of a select are NICs, and all that the host lists.
LEMMA ListedType ==
  ASSUME TypesOK, NEW r \in Roles
  PROVE  /\ Listed(r) \in Seq(Values)
         /\ Range(detected) \subseteq Range(Listed(r))
<1>1. detected \in Seq(Values) /\ Unused \in Values
  <2>1. Nics \subseteq Values
    BY DEF Values
  <2> QED BY <2>1, SeqMonotonic DEF TypesOK, Values
<1> QED BY <1>1, RangeOfPrefixed DEF Listed

LEMMA InitTypes ==
  ASSUME Listings \subseteq Seq(Nics), Init
  PROVE  TypesOK
BY DEF Init, TypesOK, Values

LEMMA TypesStep ==
  ASSUME Listings \subseteq Seq(Nics), TypesOK, [Next]_vars
  PROVE  TypesOK'
<1>1. CASE loadAvailableNics
  <2>1. options' \in [Roles -> Seq(Values)]
    BY <1>1, ListedType DEF loadAvailableNics, Fill
  <2>2. value' \in [Roles -> Values]
    <3>1. ASSUME NEW r \in Roles PROVE Listed(r) # <<>> => Head(Listed(r)) \in Values
      BY ListedType, HeadTailProperties
    <3>2. Unused \in Values /\ \A r \in Roles : value[r] \in Values
      BY DEF Values, TypesOK
    <3> QED BY <1>1, <3>1, <3>2 DEF loadAvailableNics, Fill
  <2> QED BY <1>1, <2>1, <2>2 DEF loadAvailableNics, TypesOK
<1>2. CASE loadSystemConfig
  <2>1. options' \in [Roles -> Seq(Values)]
    <3>1. \A r \in Roles : Append(options[r], config[r]) \in Seq(Values)
      BY AppendProperties DEF TypesOK
    <3> QED BY <1>2, <3>1 DEF loadSystemConfig, TypesOK
  <2> QED BY <1>2, <2>1 DEF loadSystemConfig, TypesOK
<1>3. ASSUME NEW r \in Roles, Choose(r) PROVE TypesOK'
  <2>1. Range(options[r]) \subseteq Values
    BY RangeType DEF TypesOK
  <2> QED BY <1>3, <2>1 DEF Choose, TypesOK
<1>4. CASE save_nics \/ Hotplug \/ UNCHANGED vars
  BY <1>4 DEF save_nics, Hotplug, vars, TypesOK
<1> QED BY <1>1, <1>2, <1>3, <1>4 DEF Next

LEMMA ChoiceStep ==
  ASSUME TypesOK, ConfiguredStaysChoice, [Next]_vars,
         loadAvailableNics => \A r \in Roles : shown[r] \in Range(detected) \cup {Unused}
  PROVE  ConfiguredStaysChoice'
<1>1. CASE loadAvailableNics
  <2>1. \A r \in Roles : options'[r] = Listed(r) /\ shown' = shown
    BY <1>1 DEF loadAvailableNics, Fill
  <2> QED BY <1>1, <2>1, ListedType DEF ConfiguredStaysChoice
<1>2. CASE loadSystemConfig
  <2> SUFFICES ASSUME NEW r \in Roles
               PROVE  config[r] \in Range(options'[r]) \cup {Unused}
    BY <1>2 DEF ConfiguredStaysChoice, loadSystemConfig
  <2>1. config[r] \in Range(Append(options[r], config[r]))
    BY RangeOfAppended DEF TypesOK
  <2> QED BY <1>2, <2>1 DEF loadSystemConfig
<1>3. ASSUME UNCHANGED <<phase, options, shown>> PROVE ConfiguredStaysChoice'
  BY <1>3 DEF ConfiguredStaysChoice
<1>4. ASSUME NEW r \in Roles, Choose(r) PROVE ConfiguredStaysChoice'
  BY <1>3, <1>4 DEF Choose
<1>5. CASE save_nics \/ Hotplug \/ UNCHANGED vars
  BY <1>3, <1>5 DEF save_nics, Hotplug, vars
<1> QED BY <1>1, <1>2, <1>4, <1>5 DEF Next

\* What setSelectValueSafe adds is lost by one thing only, filling the selects
\* anew while a configured NIC is not reported: a NIC that is unplugged, a
\* save, any choice of the user leave it there.
THEOREM ChoiceLostByRefillOnly ==
  ASSUME Listings \subseteq Seq(Nics)
  PROVE  Spec /\ RefilledWhenListed => []ConfiguredStaysChoice
<1>1. Init => TypesOK /\ ConfiguredStaysChoice
  BY InitTypes DEF Init, ConfiguredStaysChoice
<1>2. (TypesOK /\ ConfiguredStaysChoice) /\ [Next]_vars
        /\ [loadAvailableNics =>
              \A r \in Roles : shown[r] \in Range(detected) \cup {Unused}]_vars
        => (TypesOK /\ ConfiguredStaysChoice)'
  <2>1. CASE UNCHANGED vars
    BY <2>1 DEF vars, TypesOK, ConfiguredStaysChoice
  <2> QED BY <2>1, TypesStep, ChoiceStep
<1> QED BY <1>1, <1>2, PTL DEF Spec, RefilledWhenListed
=============================================================================
