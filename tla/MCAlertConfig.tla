---------------------------- MODULE MCAlertConfig ---------------------------
(* A template, an alert of team t1, and two teams with a channel each: an   *)
(* override may name either channel and lose it, one team opts out while    *)
(* the other does not.                                                      *)
EXTENDS ConfiguredCadence

CONSTANTS tpl, own, t1, t2, c1, c2

TheRule        == <<tpl, t1>>
TheAlertTeam   == [a \in {own} |-> t1]
TheChannelTeam == [c \in {c1, c2} |-> IF c = c1 THEN t1 ELSE t2]
TheChannelKind == [c \in {c1, c2} |-> "EMAIL"]
=============================================================================
