----------------------- MODULE ConfiguredCadenceProofs ----------------------
(***************************************************************************)
(* Proofs about ConfiguredCadence: the tables for every set of rows, the   *)
(* edges of a rule for every interval that stays within MAX_SNAPSHOT_AGE.  *)
(***************************************************************************)
EXTENDS ConfiguredCadence, AlertConfigProofs

-----------------------------------------------------------------------------
(* AlertCadence: what the intervals have to satisfy for edge-triggered      *)
(* alerts, whatever their values are.                                       *)

\* While every snapshot is replaced before it goes stale, ERROR never occurs.
IInv == TypeOK /\ status # "ERROR" /\ EdgesPaired

\* The type invariant holds whatever the intervals are.
THEOREM TypeCorrect == Spec => []TypeOK
<1>1. Init => TypeOK
  BY CadenceAssumption DEF Init, TypeOK, Statuses
<1>2. TypeOK /\ [Next]_vars => TypeOK'
  BY CadenceAssumption
     DEF TypeOK, Next, vars, Change, Elapse, Collect, Evaluate, Verdict, Latest, Statuses
<1> QED
  BY <1>1, <1>2, PTL DEF Spec

LEMMA Initially == Init => IInv
  BY CadenceAssumption DEF Init, IInv, TypeOK, Statuses, EdgesPaired

\* A reading is never stale, so a verdict is never ERROR.
LEMMA Step ==
  ASSUME Every + Delay <= MaxAge, IInv, [Next]_vars
  PROVE  IInv'
<1> USE DEF IInv, TypeOK, Statuses, EdgesPaired
<1>1. CASE Change
  BY <1>1 DEF Change
<1>2. CASE Elapse
  BY <1>2, CadenceAssumption DEF Elapse
<1>3. CASE Collect
  BY <1>3, CadenceAssumption DEF Collect
<1>4. CASE Evaluate
  <2>1. Latest \in {"ok", "bad"}
    BY CadenceAssumption DEF Latest
  <2>2. Verdict(Latest, status) \in
          IF status = "TRIGGERED" THEN {"OK", "RECOVERED"} ELSE {"OK", "TRIGGERED"}
    BY <2>1 DEF Verdict
  <2> QED
    BY <1>4, <2>2 DEF Evaluate
<1>5. CASE UNCHANGED vars
  BY <1>5 DEF vars
<1> QED
  BY <1>1, <1>2, <1>3, <1>4, <1>5 DEF Next

\* If a snapshot is always replaced before it is older than MAX_SNAPSHOT_AGE,
\* every TRIGGERED row is answered by exactly one RECOVERED row.
THEOREM EdgesArePaired ==
  ASSUME Every + Delay <= MaxAge
  PROVE  Spec => []EdgesPaired
<1>1. Init => IInv
  BY Initially
<1>2. IInv /\ [Next]_vars => IInv'
  BY Step
<1>3. IInv => EdgesPaired
  BY DEF IInv
<1> QED
  BY <1>1, <1>2, <1>3, PTL DEF Spec
-----------------------------------------------------------------------------
(* The rule of AlertCadence on the tables of AlertConfig.                   *)

cvars == <<config, edits, vars>>

\* What a step is to the tables.
LEMMA Handlers == [ConfiguredNext]_cvars => [ConfigNext]_<<config, edits>>
  BY DEF ConfiguredNext, EditRules, EditReceivers, RemoveChannel, RemoveAlert, Sample,
         EvaluateEnabled, ConfigNext, cvars, config

LEMMA ConfigInvariant == ConfiguredSpec => []ConfigInv
<1>1. ConfiguredInit => ConfigInv
  BY ConfigStarts DEF ConfiguredInit
<1>2. ConfigInv /\ [ConfiguredNext]_cvars => ConfigInv'
  BY ConfigStep, Handlers
<1> QED
  BY <1>1, <1>2, PTL DEF ConfiguredSpec, cvars

\* The configuration tables keep their types.
THEOREM ConfigTypeCorrect == ConfiguredSpec => []ConfigTypeOK
<1>1. ConfigInv => ConfigTypeOK
  BY DEF ConfigInv
<1> QED
  BY <1>1, ConfigInvariant, PTL

\* load_enabled_rules only ever returns channels that exist: deletions leave
\* no override behind that names a channel that is gone.
THEOREM ChannelsExist == ConfiguredSpec => []NoDanglingChannel
  BY ConfigInvariant, ChannelsResolve, PTL

\* No handler called for one team changes which rules are evaluated for
\* another.
THEOREM IndependentTeams == ConfiguredSpec => TeamsAreIndependent
<1>1. \A t \in Teams :
         (/\ alert' = alert
          /\ \A a \in Templates : override'[<<a, t>>] = override[<<a, t>>]
          /\ \A c \in Channels : ChannelTeam[c] = t => channel'[c] = channel[c])
         => \A a \in Alerts : (<<a, t>> \in EnabledRules') <=> (<<a, t>> \in EnabledRules)
  BY OwnRows
<1> QED
  BY <1>1, PTL DEF TeamsAreIndependent

\* However the rule is switched off and on, opted out of, deleted and made
\* again, and with it its history: if snapshots are replaced in time, every
\* TRIGGERED row is answered by one RECOVERED row.
THEOREM EdgesStayPaired ==
  ASSUME Every + Delay <= MaxAge
  PROVE  ConfiguredSpec => []EdgesPaired
<1>1. ConfiguredInit => IInv
  BY Initially DEF ConfiguredInit
<1>2. IInv /\ [ConfiguredNext]_cvars => IInv'
  <2> SUFFICES ASSUME IInv, [ConfiguredNext]_cvars PROVE IInv'
    OBVIOUS
  <2>1. CASE [Next]_vars
    BY <2>1, Step
  <2>2. CASE RemoveAlert
    BY <2>2 DEF RemoveAlert, DropHistory, IInv, TypeOK, EdgesPaired, Statuses
  <2>3. ConfiguredNext => [Next]_vars \/ RemoveAlert
    BY DEF ConfiguredNext, EditRules, EditReceivers, RemoveChannel, Sample, EvaluateEnabled, Next
  <2> QED
    BY <2>1, <2>2, <2>3 DEF cvars
<1>3. IInv => EdgesPaired
  BY DEF IInv
<1> QED
  BY <1>1, <1>2, <1>3, PTL DEF ConfiguredSpec, cvars
=============================================================================
