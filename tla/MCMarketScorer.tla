--------------------------- MODULE MCMarketScorer ---------------------------
(* A protocol with two markets, run one after the other; the first has a    *)
(* default profile of its own, both have one of the protocol, and another   *)
(* may be made.  A weight of 3 turns an anchor of 1/2 or 3/4 round.         *)
EXTENDS MarketScorer

CONSTANTS aave, m1, m2, pm, pn, pp

TheMarkets   == [c \in {aave} |-> {m1, m2}]
TheScopes    == [p \in {pm, pn, pp} |-> IF p = pp THEN "protocol" ELSE "market"]
Light        == [anchors |-> 0, controls |-> 2, assurance |-> 1]
Heavy        == [anchors |-> 3, controls |-> 1, assurance |-> 0]
TheProfiles  == pm :> Row(m1, Light, 0) @@ pp :> Row(aave, Heavy, 0)
TheWeights   == {Light, Heavy}
TheReports   == {[anchors |-> <<3, 2>>, controls |-> <<8>>], [anchors |-> <<5>>, controls |-> <<>>]}
TheManuals   == {[anchors |-> <<1>>, assurance |-> <<3, 4>>]}
=============================================================================
