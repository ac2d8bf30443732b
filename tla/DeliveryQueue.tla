---------------------------- MODULE DeliveryQueue ----------------------------
(***************************************************************************)
(* What the notification table promises the rest of the alerting system,   *)
(* with no worker in sight: a row is queued, is delivered any number of    *)
(* times while it is queued, and is settled once.  A row is settled as     *)
(* "sent" only after a delivery, and once settled it is neither delivered  *)
(* nor settled again; only the cascade of a deleted alert or channel can   *)
(* take it away.                                                           *)
(***************************************************************************)
EXTENDS Naturals

CONSTANT Notes                \* the notification rows that may ever exist

VARIABLES state,              \* where each row stands
          delivered           \* how often its channel accepted it

vars == <<state, delivered>>

States == {"absent", "queued", "sent", "failed", "dropped"}

TypeOK == /\ state \in [Notes -> States]
          /\ delivered \in [Notes -> Nat]

Init == /\ state = [n \in Notes |-> "absent"]
        /\ delivered = [n \in Notes |-> 0]

\* The evaluator adds the rows of one tick together.
Submit(S) ==
    /\ \A n \in S : state[n] = "absent"
    /\ state' = [n \in Notes |-> IF n \in S THEN "queued" ELSE state[n]]
    /\ UNCHANGED delivered

Deliver(n) ==
    /\ state[n] = "queued"
    /\ delivered' = [delivered EXCEPT ![n] = @ + 1]
    /\ UNCHANGED state

Settle(n) ==
    /\ state[n] = "queued"
    /\ \/ delivered[n] > 0 /\ state' = [state EXCEPT ![n] = "sent"]
       \/ state' = [state EXCEPT ![n] = "failed"]
    /\ UNCHANGED delivered

\* A foreign-key cascade removes a set of rows in one statement.
Drop(S) ==
    /\ \A n \in S : state[n] # "absent"
    /\ state' = [n \in Notes |-> IF n \in S THEN "dropped" ELSE state[n]]
    /\ UNCHANGED delivered

Next == \/ \E S \in SUBSET Notes : Submit(S) \/ Drop(S)
        \/ \E n \in Notes : Deliver(n) \/ Settle(n)

Spec == Init /\ [][Next]_vars
=============================================================================
