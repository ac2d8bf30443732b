---------------------------- MODULE AlertCadence ----------------------------
(***************************************************************************)
(* One enabled rule when nothing fails: a collector schedule stores a      *)
(* snapshot of its target every so often, the evaluator looks at the       *)
(* latest one and ignores it when it is older than MAX_SNAPSHOT_AGE.  The  *)
(* two intervals are set in different places (the schedules of the metrics *)
(* worker, a constant of the alerts activities), and this module is about  *)
(* how they have to relate.  Time is counted in minutes.                   *)
(***************************************************************************)
EXTENDS AlertRules, Naturals

CONSTANTS Every,     \* the interval of the collector's schedule
          Delay,     \* how much earlier or later than that a snapshot may be
          MaxAge,    \* MAX_SNAPSHOT_AGE
          MaxOpen    \* bound: TRIGGERED rows counted

ASSUME CadenceAssumption ==
    Every \in Nat \ {0} /\ Delay \in Nat /\ MaxAge \in Nat /\ MaxOpen \in Nat

VARIABLES now,       \* "bad" while the rule's condition is met, else "ok"
          value,     \* the same, when the latest snapshot was taken
          age,       \* the age of that snapshot
          status,    \* the status of the rule's latest history row
          open       \* TRIGGERED rows since the last RECOVERED row

vars == <<now, value, age, status, open>>

TypeOK ==
    /\ now \in {"ok", "bad"} /\ value \in {"ok", "bad"}
    /\ age \in 0 .. Every + Delay
    /\ status \in Statuses
    /\ open \in Nat

Init == now = "ok" /\ value = "ok" /\ age = 0 /\ status = "OK" /\ open = 0

Change == now' = (IF now = "ok" THEN "bad" ELSE "ok") /\ UNCHANGED <<value, age, status, open>>

Elapse == age < Every + Delay /\ age' = age + 1 /\ UNCHANGED <<now, value, status, open>>

\* The scheduled workflow fetches the value and stores it.
Collect ==
    /\ age > 0 /\ age + Delay >= Every
    /\ age' = 0 /\ value' = now
    /\ UNCHANGED <<now, status, open>>

\* Mutant: the comparison with MAX_SNAPSHOT_AGE is not strict.
LatestStrict == IF age >= MaxAge THEN "none" ELSE value

Latest == IF age > MaxAge THEN "none" ELSE value

\* One tick of the evaluator, from the snapshot to the history row.
Evaluate ==
    /\ open < MaxOpen
    /\ LET v == Verdict(Latest, status)
       IN /\ status' = IF v = "OK" THEN status ELSE v
          /\ open' = IF v = "TRIGGERED" THEN open + 1
                     ELSE IF v = "RECOVERED" THEN 0 ELSE open
    /\ UNCHANGED <<now, value, age>>

Next == Change \/ Elapse \/ Collect \/ Evaluate

Spec == Init /\ [][Next]_vars

-----------------------------------------------------------------------------
(* Properties *)

\* Every TRIGGERED row is answered by one RECOVERED row before the next
\* TRIGGERED row: a rule is open exactly while its latest row says so.
EdgesPaired == open = (IF status = "TRIGGERED" THEN 1 ELSE 0)

\* "a row is written only when the rule transitions OK -> TRIGGERED or
\* TRIGGERED -> RECOVERED": two TRIGGERED rows have a RECOVERED row between.
NoRepeatedTrigger == open <= 1
=============================================================================
