-------------------------- MODULE MCAlertEvaluator --------------------------
(* A template that both teams are evaluated for, with a channel linked to  *)
(* it: an edge of team t1 has two receivers, and a channel can go while    *)
(* the other stays; the channel of team t2 going stands in the way of      *)
(* team t1's edge.                                                         *)
EXTENDS AlertEvaluator

CONSTANTS a1, t1, t2, c1, c2

TheAlertTeam   == [a \in {a1} \ Templates |-> t1]
TheChannelTeam == [c \in Channels |-> IF c = c1 THEN t1 ELSE t2]
TheChannelKind == [c \in Channels |-> "EMAIL"]
TheLinks       == {<<a1, c2>>}
=============================================================================
