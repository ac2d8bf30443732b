----------------------------- MODULE AlertRules -----------------------------
(***************************************************************************)
(* What evaluate_rules decides for one rule, from the reading of its       *)
(* target and the status of its latest history row.  A reading is "bad"    *)
(* when the rule's predicate holds of it, "ok" when it does not, and       *)
(* "none" when there is no usable snapshot: a missing one, a stale one, or *)
(* one on which the predicate raises.                                      *)
(***************************************************************************)

Statuses == {"OK", "TRIGGERED", "RECOVERED", "ERROR"}
Readings == {"ok", "bad", "none"}

\* Mutant: the transitions as the documentation lists them; nothing follows
\* an ERROR row.
VerdictFromOk(reading, previous) ==
    IF reading = "none" THEN "ERROR"
    ELSE IF reading = "bad" /\ previous = "OK" THEN "TRIGGERED"
    ELSE IF reading = "ok" /\ previous = "TRIGGERED" THEN "RECOVERED"
    ELSE "OK"

\* Mutant: the recovery looks for the wrong previous status.
VerdictSwapped(reading, previous) ==
    IF reading = "none" THEN "ERROR"
    ELSE IF reading = "bad" /\ previous # "TRIGGERED" THEN "TRIGGERED"
    ELSE IF reading = "ok" /\ previous = "RECOVERED" THEN "RECOVERED"
    ELSE "OK"

\* The status of the event to emit; OK is no event.
Verdict(reading, previous) ==
    IF reading = "none" THEN "ERROR"
    ELSE IF reading = "bad" /\ previous # "TRIGGERED" THEN "TRIGGERED"
    ELSE IF reading = "ok" /\ previous = "TRIGGERED" THEN "RECOVERED"
    ELSE "OK"
=============================================================================
