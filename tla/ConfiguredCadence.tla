-------------------------- MODULE ConfiguredCadence -------------------------
(***************************************************************************)
(* AlertConfig and AlertCadence together: teams edit alerts, overrides and *)
(* channels while one rule, an alert as one team sees it, is evaluated     *)
(* against its snapshots.  Only rules that load_enabled_rules returns are  *)
(* evaluated, so a rule may be left out for any number of ticks at any     *)
(* point of its history and come back.                                     *)
(***************************************************************************)
EXTENDS AlertConfig, AlertCadence

CONSTANTS Rule   \* <<alert, team>>

ASSUME RuleAssumption == Rule \in Alerts \X Teams

\* ON DELETE CASCADE: with the alert goes its history.
DropHistory(a) ==
    IF a = Rule[1] THEN status' = "OK" /\ open' = 0 ELSE UNCHANGED <<status, open>>

\* A tick of the evaluator that has the rule among those it loaded.  One rule
\* is followed here, and its load is one step (AlertEvaluator takes it apart).
EvaluateEnabled == Rule \in EnabledRules /\ Evaluate /\ UNCHANGED <<config, edits>>

ConfiguredInit == ConfigInit /\ Init

EditRules     == EditAlerts /\ UNCHANGED vars
EditReceivers == EditChannels /\ UNCHANGED vars
RemoveChannel == \E c \in Channels : DeleteChannel(c) /\ UNCHANGED vars
RemoveAlert   == \E a \in Alerts : DeleteAlert(a) /\ DropHistory(a) /\ UNCHANGED <<now, value, age>>
Sample        == (Change \/ Elapse \/ Collect) /\ UNCHANGED <<config, edits>>

ConfiguredNext == \/ EditRules \/ EditReceivers \/ RemoveAlert \/ RemoveChannel
                  \/ Sample \/ EvaluateEnabled

ConfiguredSpec == ConfiguredInit /\ [][ConfiguredNext]_<<config, edits, vars>>
=============================================================================
