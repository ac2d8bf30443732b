-------------------------- MODULE AlertConfigProofs -------------------------
(***************************************************************************)
(* Proofs about AlertConfig, for every set of alerts, templates, teams,    *)
(* channels and links.  ConfiguredCadenceProofs and AlertEvaluatorProofs   *)
(* use them for the specifications in which the handlers run.              *)
(***************************************************************************)
EXTENDS AlertConfig, TLAPS

\* ON DELETE SET NULL at work: an override names a channel that is there.
OverridesLive ==
    \A p \in Templates \X Teams : override[p].channel \in LiveChannels \cup {NoChannel}

ConfigInv == ConfigTypeOK /\ OverridesLive

LEMMA ConfigStarts == ConfigInit => ConfigInv
<1> SUFFICES ASSUME ConfigInit PROVE ConfigInv
  OBVIOUS
<1>1. NoOverride \in Override /\ NoOverride.channel = NoChannel
  BY DEF NoOverride, Override
<1>2. override = [p \in Templates \X Teams |-> NoOverride]
  BY DEF ConfigInit
<1>3. /\ override \in [Templates \X Teams -> Override]
      /\ \A p \in Templates \X Teams : override[p].channel = NoChannel
  BY <1>1, <1>2
<1>4. /\ alert \in [Alerts -> {"absent", "on", "off", "gone"}]
      /\ channel \in [Channels -> Row \cup {NoRow("absent"), NoRow("gone")}]
      /\ edits \in 0 .. MaxEdits
  BY ConfigAssumption DEF ConfigInit
<1> QED
  BY <1>3, <1>4 DEF ConfigInv, ConfigTypeOK, OverridesLive

LEMMA ConfigStep ==
    ASSUME ConfigInv, [ConfigNext]_<<config, edits>>
    PROVE  ConfigInv'
<1> USE ConfigAssumption DEF ConfigInv, ConfigTypeOK, OverridesLive, LiveChannels, Edit
<1>1. CASE EditAlerts
  <2>1. UNCHANGED channel
    BY <1>1 DEF EditAlerts, CreateAlert, UpdateAlert, UpsertOverride
  <2>2. edits' \in 0 .. MaxEdits /\ alert' \in [Alerts -> {"absent", "on", "off", "gone"}]
    <3>1. Edit
      BY <1>1 DEF EditAlerts, CreateAlert, UpdateAlert, UpsertOverride
    <3>2. \/ UNCHANGED alert
          \/ \E a \in Alerts, v \in {"on", "off"} : alert' = [alert EXCEPT ![a] = v]
      BY <1>1 DEF EditAlerts, CreateAlert, UpdateAlert, UpsertOverride
    <3> QED
      BY <3>1, <3>2
  <2>3. CASE UNCHANGED override
    BY <2>1, <2>2, <2>3
  <2>4. CASE ~UNCHANGED override
    <3>1. PICK a \in Templates, t \in Teams, enabled \in BOOLEAN, c \in Channels \cup {NoChannel} :
            UpsertOverride(a, t, enabled, c)
      BY <1>1, <2>4 DEF EditAlerts, CreateAlert, UpdateAlert
    <3> DEFINE new == [exists |-> TRUE, enabled |-> enabled, channel |-> c]
    <3>2. new \in Override /\ new.channel \in LiveChannels \cup {NoChannel}
      BY <3>1 DEF UpsertOverride, Override
    <3>3. override' = [override EXCEPT ![<<a, t>>] = new]
      BY <3>1 DEF UpsertOverride
    <3> HIDE DEF new
    <3> QED
      BY <2>1, <2>2, <3>2, <3>3
  <2> QED
    BY <2>3, <2>4
<1>2. CASE EditChannels
  <2>1. PICK c \in Channels, row \in Row : CreateChannel(c, row) \/ UpdateChannel(c, row)
    BY <1>2 DEF EditChannels
  <2>2. /\ channel' = [channel EXCEPT ![c] = row] /\ row.state = "live"
        /\ UNCHANGED <<alert, override>> /\ edits' \in 0 .. MaxEdits
    BY <2>1 DEF CreateChannel, UpdateChannel, Row
  <2>3. \A d \in LiveChannels : d \in LiveChannels'
    BY <2>2
  <2> QED
    BY <2>2, <2>3
<1>3. CASE \E a \in Alerts : DeleteAlert(a)
  <2>1. PICK a \in Alerts : DeleteAlert(a)
    BY <1>3
  <2>2. NoOverride \in Override /\ NoOverride.channel = NoChannel
    BY DEF NoOverride, Override
  <2>3. /\ UNCHANGED channel /\ edits' \in 0 .. MaxEdits
        /\ alert' = [alert EXCEPT ![a] = "gone"]
        /\ override' = [p \in Templates \X Teams |-> IF p[1] = a THEN NoOverride ELSE override[p]]
    BY <2>1 DEF DeleteAlert
  <2> QED
    BY <2>2, <2>3
<1>4. CASE \E c \in Channels : DeleteChannel(c)
  <2>1. PICK c \in Channels : DeleteChannel(c)
    BY <1>4
  <2> DEFINE cleared(p) == [override[p] EXCEPT !.channel = NoChannel]
  <2>2. \A p \in Templates \X Teams : cleared(p) \in Override /\ cleared(p).channel = NoChannel
    BY DEF Override
  <2>3. /\ UNCHANGED alert /\ edits' \in 0 .. MaxEdits
        /\ channel' = [channel EXCEPT ![c] = NoRow("gone")]
        /\ override' = [p \in Templates \X Teams |->
                          IF override[p].channel = c THEN cleared(p) ELSE override[p]]
    BY <2>1 DEF DeleteChannel, ClearOverride
  <2> HIDE DEF cleared
  <2>4. NoRow("gone").state = "gone"
    BY DEF NoRow
  <2>5. \A d \in LiveChannels \ {c} : d \in LiveChannels'
    BY <2>3
  <2> QED
    BY <2>2, <2>3, <2>4, <2>5
<1>5. CASE UNCHANGED <<config, edits>>
  BY <1>5 DEF config
<1> QED
  BY <1>1, <1>2, <1>3, <1>4, <1>5 DEF ConfigNext

\* Channels and alerts that are gone stay gone, others only go.
LEMMA OnlyGone ==
    ASSUME ConfigInv, ConfigNext
    PROVE  /\ \A a \in Alerts : alert[a] # "absent" =>
                alert'[a] # "absent" /\ (alert[a] = "gone" => alert'[a] = "gone")
           /\ \A c \in Channels : channel[c].state # "absent" =>
                channel'[c].state # "absent" /\ (channel[c].state = "gone" => channel'[c].state = "gone")
<1> USE ConfigAssumption DEF ConfigInv, ConfigTypeOK, LiveAlerts, LiveChannels, Edit
<1>1. CASE EditAlerts
  BY <1>1 DEF EditAlerts, CreateAlert, UpdateAlert, UpsertOverride
<1>2. CASE EditChannels
  BY <1>2 DEF EditChannels, CreateChannel, UpdateChannel, Row
<1>3. CASE \E a \in Alerts : DeleteAlert(a)
  BY <1>3 DEF DeleteAlert
<1>4. CASE \E c \in Channels : DeleteChannel(c)
  BY <1>4 DEF DeleteChannel, NoRow
<1> QED
  BY <1>1, <1>2, <1>3, <1>4 DEF ConfigNext

\* A rule that is returned has an alert that is there.
LEMMA RulesExist ==
    ASSUME NEW r \in EnabledRules
    PROVE  r \in Alerts \X Teams /\ alert[r[1]] = "on"
  BY ConfigAssumption DEF EnabledRules, TeamsSeen, LiveChannels

LEMMA ChannelsResolve == ConfigInv => NoDanglingChannel
<1> SUFFICES ASSUME ConfigInv, NEW r \in EnabledRules, NEW c \in ChannelsOf(r[1], r[2])
             PROVE  c \in LiveChannels
  BY DEF NoDanglingChannel
<1>1. CASE r[1] \in Templates
  <2>1. r[2] \in Teams
    BY <1>1, ConfigAssumption DEF EnabledRules, TeamsSeen, LiveChannels
  <2>2. override[<<r[1], r[2]>>].channel \in LiveChannels \cup {NoChannel}
    BY <1>1, <2>1 DEF ConfigInv, OverridesLive
  <2> QED
    BY <2>2, ConfigAssumption DEF ChannelsOf, LinkedChannels, PrimaryChannels
<1>2. CASE r[1] \notin Templates
  BY <1>2 DEF ChannelsOf, LinkedChannels, PrimaryChannels
<1> QED
  BY <1>1, <1>2

\* What load_enabled_rules evaluates for a team depends on the alerts and on
\* the team's own rows.
LEMMA OwnRows ==
    ASSUME NEW t \in Teams, alert' = alert,
           \A a \in Templates : override'[<<a, t>>] = override[<<a, t>>],
           \A c \in Channels : ChannelTeam[c] = t => channel'[c] = channel[c],
           NEW a \in Alerts
    PROVE  <<a, t>> \in EnabledRules' <=> <<a, t>> \in EnabledRules
<1>1. t \in TeamsSeen' <=> t \in TeamsSeen
  BY DEF TeamsSeen, LiveChannels
<1>2. a \in Templates => (OptedOut(a, t)' <=> OptedOut(a, t))
  BY DEF OptedOut
<1> QED
  BY <1>1, <1>2 DEF EnabledRules
=============================================================================
