------------------------------ MODULE MarketPd ------------------------------
(***************************************************************************)
(* compute_market_pd: the probability of default of one market from the    *)
(* anchors and controls its scorer reported, the weights in force and the  *)
(* metrics the operators entered by hand.  Probabilities and multipliers   *)
(* are counted in quarters, weights are natural numbers, and a result is a *)
(* fraction of natural numbers, so that signs and bounds are exact.        *)
(***************************************************************************)
EXTENDS Integers, Sequences

Quarter == 4

\* A profile names the weight of a category; every other one is 1.
NoWeights == [anchors |-> 1, controls |-> 1, assurance |-> 1]

ProductOf(s) ==
    LET upTo[i \in 0 .. Len(s)] == IF i = 0 THEN 1 ELSE upTo[i - 1] * s[i]
    IN  upTo[Len(s)]

\* A whole in the unit of a product of as many quarters.
Quarters(s) == ProductOf([i \in DOMAIN s |-> Quarter])

\* Fractions n / d with d > 0.
One == [n |-> 1, d |-> 1]
Times(p, q) == [n |-> p.n * q.n, d |-> p.d * q.d]
Within(p, low, high) == low * p.d <= p.n /\ p.n <= high * p.d

\* _clamp to [0.75, 1.25].
Clamp(p) == CASE Quarter * p.n < 3 * p.d -> [n |-> 3, d |-> Quarter]
              [] Quarter * p.n > 5 * p.d -> [n |-> 5, d |-> Quarter]
              [] OTHER -> p

\* Mutant: nothing bounds a probability from above.
NotNegative(pd) == 0 <= pd

Valid(pd) == 0 <= pd /\ pd < Quarter

\* compute_market_pd raises MarketScoringError.
Invalid(report, manual) ==
    \/ \E i \in DOMAIN report.anchors : ~Valid(report.anchors[i])
    \/ \E i \in DOMAIN manual.anchors : ~Valid(manual.anchors[i])
    \/ \E i \in DOMAIN report.controls : report.controls[i] < 0
    \/ \E i \in DOMAIN manual.assurance : manual.assurance[i] < 0

\* 1 - the product of (1 - pd * weight); a manual anchor has weight 1.
AnchorsTerm(reported, weight, manual) ==
    LET left == [i \in DOMAIN reported |-> Quarter - reported[i] * weight]
                \o [i \in DOMAIN manual |-> Quarter - manual[i]]
        d == Quarters(left)
    IN  IF left = <<>> THEN One ELSE [n |-> d - ProductOf(left), d |-> d]

\* The clamped product of (multiplier * weight).
FactorTerm(multipliers, weight) ==
    IF multipliers = <<>> THEN One
    ELSE Clamp([n |-> ProductOf([i \in DOMAIN multipliers |-> multipliers[i] * weight]),
                d |-> Quarters(multipliers)])

Pd(report, weights, manual) ==
    LET anchors == AnchorsTerm(report.anchors, weights.anchors, manual.anchors)
        control == FactorTerm(report.controls, weights.controls)
        assured == FactorTerm(manual.assurance, weights.assurance)
    IN  [anchors |-> anchors, final |-> Times(anchors, Times(control, assured))]

\* The columns of market_score: CHECK (.. >= 0) and NUMERIC(8, 6).
Storable(pd) ==
    /\ Within(pd.anchors, 0, 99)
    /\ Within(pd.final, 0, 99)
=============================================================================
