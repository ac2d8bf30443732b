------------------------ MODULE NotificationDispatch ------------------------
(***************************************************************************)
(* NotificationDispatchWorkflow and its four activities, over the          *)
(* notification table.                                                     *)
(*                                                                         *)
(* A schedule starts a run every 15 seconds and never two at a time.  A    *)
(* run claims a batch of PENDING / RETRYING rows in one transaction, then  *)
(* dispatches and marks them one after the other.  Every step is a         *)
(* Temporal activity: an attempt of it may fail before its effect, or      *)
(* commit its effect and lose its completion, and is then retried up to a  *)
(* limit; when the limit is reached the whole run fails, and the rows it   *)
(* had claimed and not marked stay RETRYING.  An attempt that is given up  *)
(* has taken its effect by then or never takes it.                         *)
(***************************************************************************)
EXTENDS Integers, FiniteSets

CONSTANTS Notes,          \* the rows that may ever be inserted
          Poison,         \* rows whose dispatch raises until they are repaired
          NoNote,         \* "no row": the value of cur outside a dispatch
          MaxAttempts,    \* MAX_NOTIFICATION_ATTEMPTS
          BatchSize,      \* DEFAULT_DISPATCH_BATCH
          DbTries,        \* maximum_attempts of _DB_RETRY
          DispatchTries,  \* maximum_attempts of _DISPATCH_RETRY
          MaxFaults       \* bound: attempts that fail, raise or lose their
                          \* completion; Poison rows are repaired after them

ASSUME NotesAssumption == IsFiniteSet(Notes) /\ Poison \subseteq Notes
ASSUME NoNoteAssumption == NoNote \notin Notes
ASSUME LimitAssumption ==
    /\ MaxAttempts \in Nat \ {0}
    /\ BatchSize \in Nat \ {0}
    /\ DbTries \in Nat \ {0}
    /\ DispatchTries \in Nat \ {0}
    /\ MaxFaults \in Nat

VARIABLES
    \* the notification table
    status,      \* Notification.status, with ABSENT before the insert and
                 \* GONE after a cascade
    attempts,    \* Notification.attempt_count
    created,     \* Notification.created_at, 0 before the insert
    \* the run of the workflow
    pc,          \* the activity the run is executing
    batch,       \* the claimed rows it has not marked, the current one included
    cur,         \* the row being dispatched or marked
    tries,       \* the attempt number of the current activity
    \* history variables and the fault budget
    delivered,   \* how often the channel accepted the row
    aborted,     \* how many claims of the row ended without a mark
    faults

table   == <<status, attempts, created>>
run     == <<pc, batch, cur, tries>>
history == <<delivered, aborted>>
vars    == <<table, run, history, faults>>

Statuses == {"ABSENT", "PENDING", "RETRYING", "SENT", "FAILED", "GONE"}
Steps    == {"idle", "claim", "dispatch", "markSent", "markFailed"}

TypeOK ==
    /\ status \in [Notes -> Statuses]
    /\ attempts \in [Notes -> Nat]
    /\ created \in [Notes -> Nat]
    /\ pc \in Steps
    /\ batch \in SUBSET Notes
    /\ cur \in Notes \cup {NoNote}
    /\ tries \in 0 .. DbTries + DispatchTries
    /\ delivered \in [Notes -> Nat]
    /\ aborted \in [Notes -> Nat]
    /\ faults \in 0 .. MaxFaults

Init ==
    /\ status = [n \in Notes |-> "ABSENT"]
    /\ attempts = [n \in Notes |-> 0]
    /\ created = [n \in Notes |-> 0]
    /\ pc = "idle" /\ batch = {} /\ cur = NoNote /\ tries = 0
    /\ delivered = [n \in Notes |-> 0]
    /\ aborted = [n \in Notes |-> 0]
    /\ faults = 0

-----------------------------------------------------------------------------
(* Helpers *)

\* Mutants of the filter: FAILED rows come back; RETRYING rows do not.
ClaimableForever == {n \in Notes : status[n] \in {"PENDING", "RETRYING", "FAILED"}}
ClaimableOnce    == {n \in Notes : status[n] = "PENDING"}

Claimable == {n \in Notes : status[n] \in {"PENDING", "RETRYING"}}

\* The rows with the least created_at among S; rows of one transaction tie.
Oldest(S) == {n \in S : \A m \in S : created[n] <= created[m]}

\* The batches ORDER BY created_at LIMIT batch_size may return.
Picks ==
    {B \in SUBSET Claimable :
        /\ Cardinality(B) <= BatchSize
        /\ B # Claimable => Cardinality(B) = BatchSize
        /\ \A b \in B, m \in Claimable \ B : created[b] <= created[m]}

Bump(f, S) == [n \in Notes |-> IF n \in S THEN f[n] + 1 ELSE f[n]]

Goto(step, note) == pc' = step /\ cur' = note /\ tries' = 1

\* The loop moves to the next claimed row, or the run completes.
Continue(rest) ==
    /\ batch' = rest
    /\ \/ rest = {} /\ pc' = "idle" /\ cur' = NoNote /\ tries' = 0
       \/ \E n \in Oldest(rest) : Goto("dispatch", n)

\* The activity's error reaches the workflow and fails the run: what is left
\* of the batch has used up an attempt for nothing.
FailRun ==
    /\ pc' = "idle" /\ batch' = {} /\ cur' = NoNote /\ tries' = 0
    /\ aborted' = Bump(aborted, batch)

\* Mutant: the attempts of an activity are not limited.
RetryForever(limit) == tries' = tries + 1 /\ UNCHANGED <<pc, batch, cur, aborted>>

\* One attempt of the current activity is over without a completion.
RetryOrFail(limit) ==
    \/ /\ tries < limit
       /\ tries' = tries + 1
       /\ UNCHANGED <<pc, batch, cur, aborted>>
    \/ tries >= limit /\ FailRun

Fault == faults < MaxFaults /\ faults' = faults + 1

\* An integration that cannot be parsed, decrypted or sent to makes its rows
\* raise until someone edits it; that happens once the fault budget is spent.
Broken(n) == n \in Poison /\ faults < MaxFaults

-----------------------------------------------------------------------------
(* The other writers of the table *)

\* enqueue_notifications commits the rows of one tick.
Insert(S) ==
    /\ \A n \in S : status[n] = "ABSENT"
    /\ status' = [n \in Notes |-> IF n \in S THEN "PENDING" ELSE status[n]]
    /\ created' = [n \in Notes |->
                     IF n \in S
                     THEN 1 + Cardinality({m \in Notes : status[m] # "ABSENT"})
                     ELSE created[n]]
    /\ UNCHANGED <<attempts, run, history, faults>>

\* Deleting an alert or an integration cascades to its notifications.
Vanish(S) ==
    /\ \A n \in S : status[n] # "ABSENT"
    /\ status' = [n \in Notes |-> IF n \in S THEN "GONE" ELSE status[n]]
    /\ UNCHANGED <<attempts, created, run, history, faults>>

-----------------------------------------------------------------------------
(* The workflow *)

\* The schedule starts a run; with one running it skips the tick.
Tick ==
    /\ pc = "idle"
    /\ Goto("claim", NoNote)
    /\ UNCHANGED <<table, batch, history, faults>>

\* Mutant: only the first claim of a row counts an attempt.
CommitFirstClaim(B) ==
    /\ status' = [n \in Notes |-> IF n \in B THEN "RETRYING" ELSE status[n]]
    /\ attempts' = Bump(attempts, {n \in B : status[n] = "PENDING"})
    /\ UNCHANGED created

CommitClaim(B) ==
    /\ status' = [n \in Notes |-> IF n \in B THEN "RETRYING" ELSE status[n]]
    /\ attempts' = Bump(attempts, B)
    /\ UNCHANGED created

ClaimPending ==
    /\ pc = "claim"
    /\ \E B \in Picks : CommitClaim(B) /\ Continue(B)
    /\ UNCHANGED <<history, faults>>

\* The claim commits, the completion is lost, the next attempt claims again.
ClaimLost ==
    /\ pc = "claim"
    /\ Fault
    /\ \E B \in Picks :
         /\ CommitClaim(B)
         /\ aborted' = Bump(aborted, B)
    /\ \/ tries < DbTries /\ tries' = tries + 1 /\ UNCHANGED <<pc, batch, cur>>
       \/ /\ tries >= DbTries
          /\ pc' = "idle" /\ tries' = 0 /\ UNCHANGED <<batch, cur>>
    /\ UNCHANGED delivered

\* The row is gone: a failed outcome, nothing sent.
DispatchMissing ==
    /\ pc = "dispatch" /\ status[cur] = "GONE"
    /\ Goto("markFailed", cur)
    /\ UNCHANGED <<table, batch, history, faults>>

DispatchSucceeds ==
    /\ pc = "dispatch" /\ status[cur] # "GONE" /\ ~Broken(cur)
    /\ delivered' = [delivered EXCEPT ![cur] = @ + 1]
    /\ Goto("markSent", cur)
    /\ UNCHANGED <<table, batch, aborted, faults>>

\* A refusal, or an error after the receiver (or one of several e-mail
\* recipients) had already accepted it.
DispatchRefused ==
    /\ pc = "dispatch" /\ status[cur] # "GONE" /\ ~Broken(cur)
    /\ \E d \in {0, 1} : delivered' = [delivered EXCEPT ![cur] = @ + d]
    /\ Goto("markFailed", cur)
    /\ UNCHANGED <<table, batch, aborted, faults>>

\* The attempt times out, the worker restarts, or an exception escapes.
DispatchTimesOut ==
    /\ pc = "dispatch"
    /\ Fault
    /\ \E d \in {0, 1} :
         /\ d = 1 => status[cur] # "GONE" /\ ~Broken(cur)
         /\ delivered' = [delivered EXCEPT ![cur] = @ + d]
    /\ RetryOrFail(DispatchTries)
    /\ UNCHANGED table

\* The exception of a broken row escapes every attempt; a ValidationError is
\* not even retried.
DispatchRaises ==
    /\ pc = "dispatch" /\ status[cur] # "GONE" /\ Broken(cur)
    /\ Fault
    /\ RetryOrFail(DispatchTries) \/ FailRun
    /\ UNCHANGED <<table, delivered>>

\* Mutant: the mark does not look whether the row is still there.
CommitSentBlind == status' = [status EXCEPT ![cur] = "SENT"]

CommitSent ==
    status' = [status EXCEPT ![cur] = IF @ = "GONE" THEN @ ELSE "SENT"]

\* Mutant: an off-by-one in the comparison with the budget.
CommitFailedLate ==
    status' = [status EXCEPT ![cur] =
                 IF @ = "GONE" THEN @
                 ELSE IF attempts[cur] > MaxAttempts THEN "FAILED"
                 ELSE "RETRYING"]

CommitFailed ==
    status' = [status EXCEPT ![cur] =
                 IF @ = "GONE" THEN @
                 ELSE IF attempts[cur] >= MaxAttempts THEN "FAILED"
                 ELSE "RETRYING"]

MarkSent ==
    /\ pc = "markSent"
    /\ CommitSent
    /\ Continue(batch \ {cur})
    /\ UNCHANGED <<attempts, created, history, faults>>

MarkSentLost ==
    /\ pc = "markSent"
    /\ Fault
    /\ CommitSent
    /\ RetryOrFail(DbTries)
    /\ UNCHANGED <<attempts, created, delivered>>

MarkFailed ==
    /\ pc = "markFailed"
    /\ CommitFailed
    /\ Continue(batch \ {cur})
    /\ UNCHANGED <<attempts, created, history, faults>>

MarkFailedLost ==
    /\ pc = "markFailed"
    /\ Fault
    /\ CommitFailed
    /\ RetryOrFail(DbTries)
    /\ UNCHANGED <<attempts, created, delivered>>

\* An attempt of a database activity fails before its commit.
DbAttemptFails ==
    /\ pc \in {"claim", "markSent", "markFailed"}
    /\ Fault
    /\ RetryOrFail(DbTries)
    /\ UNCHANGED <<table, delivered>>

Dispatch == \/ DispatchMissing \/ DispatchSucceeds \/ DispatchRefused
            \/ DispatchTimesOut \/ DispatchRaises

Run == \/ Tick \/ ClaimPending \/ ClaimLost \/ Dispatch
       \/ MarkSent \/ MarkSentLost \/ MarkFailed \/ MarkFailedLost
       \/ DbAttemptFails

Writers == \E S \in SUBSET Notes \ {{}} : Insert(S) \/ Vanish(S)

Next == Run \/ Writers

Spec == Init /\ [][Next]_vars

\* The schedule keeps firing and the worker keeps polling its queue, so a run
\* that can take its next step takes it; faults are bounded and never fair.
Fairness == WF_vars(Tick \/ ClaimPending \/ Dispatch \/ MarkSent \/ MarkFailed)

FairSpec == Spec /\ Fairness

-----------------------------------------------------------------------------
(* The inductive invariant *)

\* Where the run stands: rows are held only between a claim and its marks.
RunShape ==
    /\ pc \in {"idle", "claim"} => batch = {} /\ cur = NoNote
    /\ pc \in {"dispatch", "markSent", "markFailed"} => cur \in batch
    /\ pc = "dispatch" => tries \in 1 .. DispatchTries

\* A held row is RETRYING until it is marked; only a cascade, or a mark whose
\* completion was lost, changes it earlier.
HeldRows ==
    \A n \in batch :
        /\ attempts[n] > 0
        /\ \/ status[n] \in {"RETRYING", "GONE"}
           \/ n = cur /\ pc = "markSent" /\ status[n] = "SENT"
           \/ n = cur /\ pc = "markFailed" /\ status[n] = "FAILED"

\* The dispatch attempts a held row may still make on its present claim.
Unused(n) ==
    IF n \in batch /\ (n # cur \/ pc = "dispatch")
    THEN DispatchTries - (IF n = cur THEN tries - 1 ELSE 0)
    ELSE 0

\* Deliveries made and attempts still to make are paid for by attempt_count.
DeliveryInv ==
    \A n \in Notes : delivered[n] + Unused(n) <= DispatchTries * attempts[n]

SentInv ==
    /\ \A n \in Notes : status[n] = "SENT" => delivered[n] > 0
    /\ pc = "markSent" => delivered[cur] > 0

\* A row that may be claimed again has budget left, or has lost a claim.
BudgetInv ==
    \A n \in Notes :
        /\ status[n] = "ABSENT" => attempts[n] = 0
        /\ attempts[n] <= MaxAttempts + aborted[n]
        /\ n \in Claimable \ batch => attempts[n] < MaxAttempts + aborted[n]
        /\ status[n] = "FAILED" => attempts[n] >= MaxAttempts

IInv == TypeOK /\ RunShape /\ HeldRows /\ DeliveryInv /\ SentInv /\ BudgetInv

-----------------------------------------------------------------------------
(* Properties *)

\* No notification is recorded as SENT unless its channel accepted it at
\* least once, whatever attempts were lost or repeated on the way.
SentWasDelivered ==
    \A n \in Notes : status[n] = "SENT" => delivered[n] > 0

\* At-least-once is not without limit: a row reaches its channel at most
\* DispatchTries times per attempt counted in attempt_count.
DeliveriesBounded ==
    \A n \in Notes : delivered[n] <= DispatchTries * attempts[n]

\* attempt_count exceeds MAX_NOTIFICATION_ATTEMPTS only by claims that were
\* thrown away with a failed run, and a row is given up only after the
\* full budget.
BudgetAccounted ==
    \A n \in Notes :
        /\ attempts[n] <= MaxAttempts + aborted[n]
        /\ status[n] = "FAILED" => attempts[n] >= MaxAttempts

\* SENT and FAILED are final: the row is not claimed, delivered or marked
\* otherwise again, only a cascade removes it, and a removed row stays removed.
SettledStays ==
    \A n \in Notes :
        status[n] \in {"SENT", "FAILED", "GONE"} =>
           /\ status'[n] \in {status[n], "GONE"}
           /\ attempts'[n] = attempts[n]
           /\ delivered'[n] = delivered[n]

SettledIsFinal == [][SettledStays]_vars

\* "The dispatcher worker drains rows in PENDING / RETRYING and drives them
\* to SENT or FAILED": every queued row is eventually settled or removed.
EveryRowSettles ==
    \A n \in Notes :
        status[n] = "PENDING" ~> status[n] \in {"SENT", "FAILED", "GONE"}

\* The retry budget as the documentation states it: no row is attempted more
\* than MAX_NOTIFICATION_ATTEMPTS times.
AttemptsCapped == \A n \in Notes : attempts[n] <= MaxAttempts

\* The table, seen through the promise of DeliveryQueue.
StateOf(st) ==
    IF st \in {"PENDING", "RETRYING"} THEN "queued"
    ELSE IF st = "SENT" THEN "sent"
    ELSE IF st = "FAILED" THEN "failed"
    ELSE IF st = "ABSENT" THEN "absent" ELSE "dropped"

Queue == INSTANCE DeliveryQueue WITH
    state <- [n \in Notes |-> StateOf(status[n])],
    delivered <- delivered

\* Every run of the dispatcher, faults included, keeps the promise of
\* DeliveryQueue.
ImplementsQueue == Queue!Spec
=============================================================================
