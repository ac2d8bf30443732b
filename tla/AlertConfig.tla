---------------------------- MODULE AlertConfig ----------------------------
(***************************************************************************)
(* The configuration tables of the alerting system (alert,                 *)
(* team_alert_override, alert_integration) with the API handlers that      *)
(* write them, and what load_enabled_rules reads out of them: which rules  *)
(* (alert, team) are evaluated and which channels each one notifies.       *)
(*                                                                         *)
(* A handler is one transaction.  Rows are removed by foreign-key          *)
(* cascades: deleting an alert takes its overrides and links, deleting a   *)
(* channel takes its links and sets override.integration_id to NULL.       *)
(* A row's id is never used again.                                         *)
(***************************************************************************)
EXTENDS Naturals, FiniteSets

CONSTANTS Alerts,        \* alert rows that may exist
          Templates,     \* the operator templates among them
          Teams,
          AlertTeam,     \* the team_id of an alert that is not a template
          Channels,      \* alert_integration rows that may exist
          ChannelTeam,   \* their team_id
          ChannelKind,   \* their kind
          Links,         \* alert_integration_link rows; no handler writes them
          NoChannel,     \* an override's integration_id when it is NULL
          MaxEdits       \* bound: handler calls in a behaviour

ASSUME ConfigAssumption ==
    /\ Templates \subseteq Alerts
    /\ AlertTeam \in [Alerts \ Templates -> Teams]
    /\ ChannelTeam \in [Channels -> Teams]
    /\ DOMAIN ChannelKind = Channels
    /\ Links \subseteq Alerts \X Channels
    /\ NoChannel \notin Channels
    /\ MaxEdits \in Nat

VARIABLES alert,      \* each alert row: is_enabled, or not there
          override,   \* each team's override row of each template
          channel,    \* each channel row, or not there
          edits       \* handler calls so far

config == <<alert, override, channel>>

Override == [exists : BOOLEAN, enabled : BOOLEAN, channel : Channels \cup {NoChannel}]
NoOverride == [exists |-> FALSE, enabled |-> TRUE, channel |-> NoChannel]
Row == [state : {"live"}, primary : BOOLEAN, active : BOOLEAN]
NoRow(s) == [state |-> s, primary |-> FALSE, active |-> FALSE]

ConfigTypeOK ==
    /\ alert \in [Alerts -> {"absent", "on", "off", "gone"}]
    /\ override \in [Templates \X Teams -> Override]
    /\ channel \in [Channels -> Row \cup {NoRow("absent"), NoRow("gone")}]
    /\ edits \in 0 .. MaxEdits

LiveChannels == {c \in Channels : channel[c].state = "live"}
LiveAlerts   == {a \in Alerts : alert[a] \in {"on", "off"}}

-----------------------------------------------------------------------------
(* What load_enabled_rules returns when no handler runs beside it.  Its     *)
(* reads are separate statements: AlertEvaluator takes them one by one.     *)

\* The teams a template is evaluated for: those with an override of any
\* template and those with a channel.
TeamsSeen == {t \in Teams : \E a \in Templates : override[<<a, t>>].exists}
             \cup {ChannelTeam[c] : c \in LiveChannels}

\* Mutant: the override of any team counts.
OptedOutByAnyone(a, t) ==
    \E u \in Teams : ~override[<<a, u>>].enabled

OptedOut(a, t) == ~override[<<a, t>>].enabled

EnabledRules ==
    {<<a, AlertTeam[a]>> : a \in {b \in Alerts \ Templates : alert[b] = "on"}}
    \cup {r \in {a \in Templates : alert[a] = "on"} \X TeamsSeen :
            ~OptedOut(r[1], r[2])}

\* A link goes with its alert and with its channel.
LinkedChannels(a) == {c \in LiveChannels : a \in LiveAlerts /\ <<a, c>> \in Links}

PrimaryChannels(t) ==
    {c \in LiveChannels : ChannelTeam[c] = t /\ channel[c].primary /\ channel[c].active}

\* Override channel, linked channels and the team's active primary ones.
ChannelsOf(a, t) ==
    {c \in Channels : a \in Templates /\ c = override[<<a, t>>].channel}
    \cup LinkedChannels(a) \cup PrimaryChannels(t)

-----------------------------------------------------------------------------
(* The handlers *)

Edit == edits < MaxEdits /\ edits' = edits + 1

CreateAlert(a, enabled) ==
    /\ Edit /\ alert[a] = "absent"
    /\ alert' = [alert EXCEPT ![a] = IF enabled THEN "on" ELSE "off"]
    /\ UNCHANGED <<override, channel>>

UpdateAlert(a, enabled) ==
    /\ Edit /\ a \in LiveAlerts
    /\ alert' = [alert EXCEPT ![a] = IF enabled THEN "on" ELSE "off"]
    /\ UNCHANGED <<override, channel>>

\* The cascade takes the alert's overrides (and, elsewhere, its history).
DeleteAlert(a) ==
    /\ Edit /\ a \in LiveAlerts
    /\ alert' = [alert EXCEPT ![a] = "gone"]
    /\ override' = [p \in DOMAIN override |->
                      IF p[1] = a THEN NoOverride ELSE override[p]]
    /\ UNCHANGED channel

\* Only templates are overridden; the first call creates the row.
UpsertOverride(a, t, enabled, c) ==
    /\ Edit /\ a \in Templates \cap LiveAlerts
    /\ c \in LiveChannels \cup {NoChannel}
    /\ override' = [override EXCEPT ![<<a, t>>] = [exists |-> TRUE, enabled |-> enabled, channel |-> c]]
    /\ UNCHANGED <<alert, channel>>

\* The partial unique index: one primary channel per team and kind.
PrimaryTaken(c) ==
    \E d \in LiveChannels \ {c} : /\ channel[d].primary
                                  /\ ChannelTeam[d] = ChannelTeam[c]
                                  /\ ChannelKind[d] = ChannelKind[c]

CreateChannel(c, row) ==
    /\ Edit /\ channel[c].state = "absent"
    /\ ~(row.primary /\ PrimaryTaken(c))
    /\ channel' = [channel EXCEPT ![c] = row]
    /\ UNCHANGED <<alert, override>>

UpdateChannel(c, row) ==
    /\ Edit /\ c \in LiveChannels
    /\ ~(row.primary /\ PrimaryTaken(c))
    /\ channel' = [channel EXCEPT ![c] = row]
    /\ UNCHANGED <<alert, override>>

\* Mutant: the override keeps the id of the deleted channel.
ClearOverrideKeeps(c) == override' = override

\* ON DELETE SET NULL.
ClearOverride(c) ==
    override' = [p \in DOMAIN override |->
                   IF override[p].channel = c
                   THEN [override[p] EXCEPT !.channel = NoChannel]
                   ELSE override[p]]

DeleteChannel(c) ==
    /\ Edit /\ c \in LiveChannels
    /\ channel' = [channel EXCEPT ![c] = NoRow("gone")]
    /\ ClearOverride(c)
    /\ UNCHANGED alert

EditAlerts ==
    \/ \E a \in Alerts, enabled \in BOOLEAN :
         CreateAlert(a, enabled) \/ UpdateAlert(a, enabled)
    \/ \E a \in Templates, t \in Teams, enabled \in BOOLEAN,
          c \in Channels \cup {NoChannel} : UpsertOverride(a, t, enabled, c)

EditChannels ==
    \E c \in Channels, row \in Row : CreateChannel(c, row) \/ UpdateChannel(c, row)

-----------------------------------------------------------------------------
(* The tables on their own *)

ConfigInit ==
    /\ alert = [a \in Alerts |-> "absent"]
    /\ override = [p \in Templates \X Teams |-> NoOverride]
    /\ channel = [c \in Channels |-> NoRow("absent")]
    /\ edits = 0

ConfigNext == \/ EditAlerts \/ EditChannels
              \/ \E a \in Alerts : DeleteAlert(a)
              \/ \E c \in Channels : DeleteChannel(c)

ConfigSpec == ConfigInit /\ [][ConfigNext]_<<config, edits>>

\* Whatever was deleted before, at no instant do the tables name a channel row
\* that does not exist as the receiver of a rule.  (What a load returns when a
\* channel goes between two of its reads is another matter: AlertEvaluator.)
NoDanglingChannel ==
    \A r \in EnabledRules : ChannelsOf(r[1], r[2]) \subseteq LiveChannels

\* A call on behalf of one team never changes which rules are evaluated for
\* another: rules change with their alert, or with the team's own rows.
TeamsAreIndependent ==
    [][\A t \in Teams :
         (/\ alert' = alert
          /\ \A a \in Templates : override'[<<a, t>>] = override[<<a, t>>]
          /\ \A c \in Channels : ChannelTeam[c] = t => channel'[c] = channel[c])
         => \A a \in Alerts : (<<a, t>> \in EnabledRules') <=> (<<a, t>> \in EnabledRules)
      ]_<<config, edits>>
=============================================================================
