--------------------- MODULE NotificationDispatchProofs ---------------------
(***************************************************************************)
(* The invariants of NotificationDispatch, for every set of rows, every    *)
(* batch size, every retry limit and every number of faults.               *)
(*                                                                         *)
(* The three safety invariants are proved together from IInv: RunShape and *)
(* HeldRows say what a run holds, and DeliveryInv, SentInv and BudgetInv   *)
(* strengthen one invariant each with what is true in the middle of a run. *)
(***************************************************************************)
EXTENDS NotificationDispatch, FiniteSetTheorems, TLAPS

-----------------------------------------------------------------------------
(* Lemmas about the helpers *)

\* Adding one to some counters keeps them counters.
LEMMA BumpType ==
    ASSUME NEW f \in [Notes -> Nat], NEW S \in SUBSET Notes
    PROVE  /\ Bump(f, S) \in [Notes -> Nat]
           /\ \A n \in Notes : Bump(f, S)[n] = IF n \in S THEN f[n] + 1 ELSE f[n]
  BY DEF Bump

\* One more attempt pays for DispatchTries more deliveries.
LEMMA OneMoreAttempt ==
    ASSUME NEW a \in Nat
    PROVE  /\ DispatchTries * a \in Nat
           /\ DispatchTries * (a + 1) = DispatchTries * a + DispatchTries
  BY LimitAssumption

\* A batch only holds claimable rows.
LEMMA PicksClaimable == \A B \in Picks : B \subseteq Claimable /\ B \subseteq Notes
  BY DEF Picks, Claimable

\* What Continue may do to the run.
LEMMA ContinueShape ==
    ASSUME NEW rest \in SUBSET Notes, Continue(rest)
    PROVE  /\ batch' = rest
           /\ \/ rest = {} /\ pc' = "idle" /\ cur' = NoNote /\ tries' = 0
              \/ cur' \in rest /\ pc' = "dispatch" /\ tries' = 1
  BY DEF Continue, Goto, Oldest

-----------------------------------------------------------------------------
(* The initial states *)

\* The empty table and the idle run satisfy the invariant.
LEMMA InitIInv == Init => IInv
<1> SUFFICES ASSUME Init PROVE IInv
  OBVIOUS
<1> USE LimitAssumption DEF Init
<1>1. TypeOK
  BY DEF TypeOK, Statuses, Steps
<1>2. RunShape /\ HeldRows
  BY DEF RunShape, HeldRows
<1>3. DeliveryInv
  <2> SUFFICES ASSUME NEW n \in Notes
               PROVE  delivered[n] + Unused(n) <= DispatchTries * attempts[n]
    BY DEF DeliveryInv
  <2>1. delivered[n] = 0 /\ Unused(n) = 0 /\ attempts[n] = 0
    BY DEF Unused
  <2> QED
    BY <2>1, OneMoreAttempt
<1>4. SentInv
  BY DEF SentInv
<1>5. BudgetInv
  BY DEF BudgetInv, Claimable
<1> QED
  BY <1>1, <1>2, <1>3, <1>4, <1>5 DEF IInv

-----------------------------------------------------------------------------
(* The other writers *)

\* Rows inserted by the evaluator keep the invariant.
LEMMA InsertIInv == ASSUME IInv, NEW S \in SUBSET Notes, Insert(S) PROVE IInv'
<1> USE LimitAssumption DEF IInv, Insert
<1>1. TypeOK'
  <2>1. Cardinality({m \in Notes : status[m] # "ABSENT"}) \in Nat
    BY NotesAssumption, FS_Subset, FS_CardinalityType
  <2> QED
    BY <2>1 DEF TypeOK, Statuses, run, history
<1>2. RunShape'
  BY DEF RunShape, run
<1>3. HeldRows'
  BY DEF HeldRows, run, TypeOK
<1>4. DeliveryInv'
  BY DEF DeliveryInv, Unused, run, history
<1>5. SentInv'
  BY DEF SentInv, run, history, TypeOK
<1>6. BudgetInv'
  BY DEF BudgetInv, Claimable, run, history, TypeOK
<1> QED
  BY <1>1, <1>2, <1>3, <1>4, <1>5, <1>6

\* A cascade keeps the invariant, also when it takes rows of the batch.
LEMMA VanishIInv == ASSUME IInv, NEW S \in SUBSET Notes, Vanish(S) PROVE IInv'
<1> USE DEF IInv, Vanish, run, history
<1>1. TypeOK'
  BY DEF TypeOK, Statuses
<1>2. RunShape'
  BY DEF RunShape
<1>3. HeldRows'
  BY DEF HeldRows, TypeOK
<1>4. DeliveryInv'
  BY DEF DeliveryInv, Unused
<1>5. SentInv'
  BY DEF SentInv, TypeOK
<1>6. BudgetInv'
  BY DEF BudgetInv, Claimable, TypeOK
<1> QED
  BY <1>1, <1>2, <1>3, <1>4, <1>5, <1>6

-----------------------------------------------------------------------------
(* Claiming *)

\* Starting a run holds nothing yet.
LEMMA TickIInv == ASSUME IInv, Tick PROVE IInv'
<1> USE LimitAssumption DEF IInv, Tick, Goto, table, history
<1>1. TypeOK'
  BY DEF TypeOK, Steps
<1>2. RunShape' /\ HeldRows'
  BY DEF RunShape, HeldRows
<1>3. DeliveryInv'
  BY DEF DeliveryInv, Unused, RunShape
<1>4. SentInv' /\ BudgetInv'
  BY DEF SentInv, BudgetInv, Claimable
<1> QED
  BY <1>1, <1>2, <1>3, <1>4

\* What a committed claim does to the rows, whatever becomes of the run.
LEMMA CommitClaimEffect ==
    ASSUME TypeOK, BudgetInv, NEW B \in Picks, CommitClaim(B)
    PROVE  /\ status' \in [Notes -> Statuses] /\ attempts' \in [Notes -> Nat]
           /\ \A n \in B : /\ status[n] \in {"PENDING", "RETRYING"}
                           /\ status'[n] = "RETRYING"
                           /\ attempts'[n] = attempts[n] + 1
           /\ \A n \in Notes \ B :
                status'[n] = status[n] /\ attempts'[n] = attempts[n]
<1>1. B \in SUBSET Notes /\ B \subseteq Claimable
  BY PicksClaimable
<1> QED
  BY <1>1, BumpType DEF CommitClaim, TypeOK, Statuses, Claimable

\* The claimed batch starts with its attempt paid and nothing delivered on it.
LEMMA ClaimPendingIInv == ASSUME IInv, ClaimPending PROVE IInv'
<1> USE LimitAssumption DEF IInv
<1>1. PICK B \in Picks : CommitClaim(B) /\ Continue(B)
  BY DEF ClaimPending
<1>2. /\ pc = "claim" /\ batch = {} /\ B \in SUBSET Notes
      /\ UNCHANGED <<delivered, aborted, faults, created>>
  BY <1>1, PicksClaimable DEF ClaimPending, CommitClaim, RunShape, history
<1>3. /\ batch' = B
      /\ \/ B = {} /\ pc' = "idle" /\ cur' = NoNote /\ tries' = 0
         \/ cur' \in B /\ pc' = "dispatch" /\ tries' = 1
  BY <1>1, <1>2, ContinueShape
<1>4. /\ status' \in [Notes -> Statuses] /\ attempts' \in [Notes -> Nat]
      /\ \A n \in B : /\ status[n] \in {"PENDING", "RETRYING"}
                      /\ status'[n] = "RETRYING"
                      /\ attempts'[n] = attempts[n] + 1
      /\ \A n \in Notes \ B :
           status'[n] = status[n] /\ attempts'[n] = attempts[n]
  BY <1>1, CommitClaimEffect
<1>5. TypeOK'
  BY <1>2, <1>3, <1>4 DEF TypeOK, Steps
<1>6. RunShape' /\ HeldRows'
  BY <1>2, <1>3, <1>4 DEF RunShape, HeldRows, TypeOK
<1>7. DeliveryInv'
  <2> SUFFICES ASSUME NEW n \in Notes
               PROVE  (delivered[n] + Unused(n) <= DispatchTries * attempts[n])'
    BY DEF DeliveryInv
  <2>1. Unused(n) = 0 /\ delivered[n] \in Nat /\ attempts[n] \in Nat
    BY <1>2 DEF Unused, TypeOK
  <2>2. delivered[n] <= DispatchTries * attempts[n]
    BY <2>1 DEF DeliveryInv
  <2>3. CASE n \in B
    <3>1. Unused(n)' = DispatchTries
      BY <1>3, <2>3 DEF Unused
    <3>2. delivered'[n] = delivered[n] /\ attempts'[n] = attempts[n] + 1
      BY <1>2, <1>4, <2>3
    <3>3. /\ DispatchTries * attempts[n] \in Nat
          /\ DispatchTries * attempts'[n]
               = DispatchTries * attempts[n] + DispatchTries
      BY <2>1, <3>2, OneMoreAttempt
    <3> QED
      BY <2>1, <2>2, <3>1, <3>2, <3>3
  <2>4. CASE n \notin B
    <3>1. Unused(n)' = 0
      BY <1>3, <2>4 DEF Unused
    <3> QED
      BY <1>2, <1>4, <2>1, <2>2, <2>4, <3>1
  <2> QED
    BY <2>3, <2>4
<1>8. SentInv'
  BY <1>2, <1>3, <1>4 DEF SentInv
<1>9. BudgetInv'
  BY <1>2, <1>3, <1>4 DEF BudgetInv, Claimable, TypeOK
<1> QED
  BY <1>5, <1>6, <1>7, <1>8, <1>9

\* A claim whose completion is lost costs its rows an attempt and counts as
\* thrown away.
LEMMA ClaimLostIInv == ASSUME IInv, ClaimLost PROVE IInv'
<1> USE LimitAssumption DEF IInv
<1>1. PICK B \in Picks : CommitClaim(B) /\ aborted' = Bump(aborted, B)
  BY DEF ClaimLost
<1>2. /\ pc = "claim" /\ batch = {} /\ cur = NoNote /\ B \in SUBSET Notes
      /\ batch' = batch /\ cur' = cur /\ delivered' = delivered
      /\ created' = created
      /\ \/ tries < DbTries /\ tries' = tries + 1 /\ pc' = pc
         \/ tries' = 0 /\ pc' = "idle"
      /\ faults < MaxFaults /\ faults' = faults + 1
  BY <1>1, PicksClaimable DEF ClaimLost, CommitClaim, RunShape, Fault
<1>3. /\ aborted' \in [Notes -> Nat]
      /\ \A n \in Notes : aborted'[n] = IF n \in B THEN aborted[n] + 1 ELSE aborted[n]
  BY <1>1, <1>2, BumpType DEF TypeOK
<1>4. /\ status' \in [Notes -> Statuses] /\ attempts' \in [Notes -> Nat]
      /\ \A n \in B : /\ status[n] \in {"PENDING", "RETRYING"}
                      /\ status'[n] = "RETRYING"
                      /\ attempts'[n] = attempts[n] + 1
      /\ \A n \in Notes \ B :
           status'[n] = status[n] /\ attempts'[n] = attempts[n]
  BY <1>1, CommitClaimEffect
<1>5. TypeOK'
  BY <1>2, <1>3, <1>4 DEF TypeOK, Steps
<1>6. RunShape' /\ HeldRows'
  BY <1>2 DEF RunShape, HeldRows
<1>7. DeliveryInv'
  <2> SUFFICES ASSUME NEW n \in Notes
               PROVE  (delivered[n] + Unused(n) <= DispatchTries * attempts[n])'
    BY DEF DeliveryInv
  <2>1. /\ Unused(n) = 0 /\ Unused(n)' = 0
        /\ delivered[n] \in Nat /\ attempts[n] \in Nat
    BY <1>2 DEF Unused, TypeOK
  <2>2. delivered[n] <= DispatchTries * attempts[n]
    BY <2>1 DEF DeliveryInv
  <2>3. attempts'[n] \in {attempts[n], attempts[n] + 1}
    BY <1>4
  <2> QED
    BY <1>2, <2>1, <2>2, <2>3, OneMoreAttempt
<1>8. SentInv'
  BY <1>2, <1>4 DEF SentInv
<1>9. BudgetInv'
  BY <1>2, <1>3, <1>4 DEF BudgetInv, Claimable, TypeOK
<1> QED
  BY <1>5, <1>6, <1>7, <1>8, <1>9

-----------------------------------------------------------------------------
(* Ends of an attempt *)

\* An attempt that ends without a completion is retried or fails the run; the
\* rows a failed run held are counted as aborted.
LEMMA RetryOrFailShape ==
    ASSUME TypeOK, NEW limit \in Nat, RetryOrFail(limit) \/ FailRun
    PROVE  /\ aborted' \in [Notes -> Nat]
           /\ \/ /\ tries < limit /\ tries' = tries + 1
                 /\ pc' = pc /\ batch' = batch /\ cur' = cur
                 /\ aborted' = aborted
              \/ /\ pc' = "idle" /\ batch' = {} /\ cur' = NoNote /\ tries' = 0
                 /\ \A n \in Notes : aborted'[n] =
                      IF n \in batch THEN aborted[n] + 1 ELSE aborted[n]
  BY BumpType DEF RetryOrFail, FailRun, TypeOK

\* A failed run, or one more attempt, with the table and the deliveries as
\* they were, keeps the parts of the invariant that do not count deliveries.
LEMMA AttemptEnds ==
    ASSUME IInv, NEW limit \in {DbTries, DispatchTries},
           RetryOrFail(limit) \/ FailRun,
           pc = "dispatch" => limit = DispatchTries,
           UNCHANGED table, faults' \in 0 .. MaxFaults,
           delivered' \in [Notes -> Nat],
           \A n \in Notes : delivered'[n] >= delivered[n]
    PROVE  TypeOK' /\ RunShape' /\ HeldRows' /\ SentInv' /\ BudgetInv'
<1> USE LimitAssumption DEF IInv, table
<1>1. /\ aborted' \in [Notes -> Nat]
      /\ \/ /\ tries < limit /\ tries' = tries + 1
            /\ pc' = pc /\ batch' = batch /\ cur' = cur
            /\ aborted' = aborted
         \/ /\ pc' = "idle" /\ batch' = {} /\ cur' = NoNote /\ tries' = 0
            /\ \A n \in Notes : aborted'[n] =
                 IF n \in batch THEN aborted[n] + 1 ELSE aborted[n]
  BY RetryOrFailShape
<1>2. TypeOK'
  BY <1>1 DEF TypeOK, Steps
<1>3. RunShape' /\ HeldRows'
  BY <1>1 DEF RunShape, HeldRows, TypeOK
<1>4. SentInv'
  BY <1>1 DEF SentInv, TypeOK, RunShape
<1>5. BudgetInv'
  BY <1>1 DEF BudgetInv, Claimable, TypeOK
<1> QED
  BY <1>2, <1>3, <1>4, <1>5

-----------------------------------------------------------------------------
(* Dispatching *)

\* A vanished row is dispatched to nobody.
LEMMA DispatchMissingIInv == ASSUME IInv, DispatchMissing PROVE IInv'
<1> USE LimitAssumption DEF IInv, DispatchMissing, Goto, table, history
<1>1. TypeOK'
  BY DEF TypeOK, Steps
<1>2. RunShape' /\ HeldRows'
  BY DEF RunShape, HeldRows
<1>3. DeliveryInv'
  <2> SUFFICES ASSUME NEW n \in Notes
               PROVE  (delivered[n] + Unused(n) <= DispatchTries * attempts[n])'
    BY DEF DeliveryInv
  <2>1. Unused(n)' \in Nat /\ Unused(n) \in Nat /\ Unused(n)' <= Unused(n)
    BY DEF Unused, RunShape
  <2>2. /\ delivered[n] + Unused(n) <= DispatchTries * attempts[n]
        /\ delivered[n] \in Nat /\ DispatchTries * attempts[n] \in Nat
    BY OneMoreAttempt DEF DeliveryInv, TypeOK
  <2> QED
    BY <2>1, <2>2
<1>4. SentInv' /\ BudgetInv'
  BY DEF SentInv, BudgetInv, Claimable
<1> QED
  BY <1>1, <1>2, <1>3, <1>4

\* One dispatch attempt that returns uses up one of the row's attempts.
LEMMA DispatchReturnsIInv ==
    ASSUME IInv, DispatchSucceeds \/ DispatchRefused PROVE IInv'
<1> USE LimitAssumption DEF IInv
<1>1. /\ pc = "dispatch" /\ cur \in batch /\ cur \in Notes
      /\ pc' \in {"markSent", "markFailed"}
      /\ cur' = cur /\ tries' = 1 /\ batch' = batch
      /\ status' = status /\ attempts' = attempts /\ created' = created
      /\ aborted' = aborted /\ faults' = faults
  BY DEF DispatchSucceeds, DispatchRefused, Goto, table, RunShape, TypeOK
<1>2. PICK d \in {0, 1} : /\ delivered' = [delivered EXCEPT ![cur] = @ + d]
                          /\ pc' = "markSent" => d = 1
  BY DEF DispatchSucceeds, DispatchRefused, Goto
<1>3. TypeOK'
  BY <1>1, <1>2 DEF TypeOK, Steps
<1>4. RunShape' /\ HeldRows'
  BY <1>1 DEF RunShape, HeldRows
<1>5. DeliveryInv'
  <2> SUFFICES ASSUME NEW n \in Notes
               PROVE  (delivered[n] + Unused(n) <= DispatchTries * attempts[n])'
    BY DEF DeliveryInv
  <2>1. /\ delivered[n] + Unused(n) <= DispatchTries * attempts[n]
        /\ delivered[n] \in Nat /\ DispatchTries * attempts[n] \in Nat
    BY OneMoreAttempt DEF DeliveryInv, TypeOK
  <2>2. CASE n = cur
    <3>1. Unused(n) >= 1 /\ Unused(n) \in Nat /\ Unused(n)' = 0
      BY <1>1, <2>2 DEF Unused, RunShape
    <3>2. delivered'[n] \in {delivered[n], delivered[n] + 1}
      BY <1>2, <2>2 DEF TypeOK
    <3> QED
      BY <1>1, <2>1, <3>1, <3>2
  <2>3. CASE n # cur
    <3>1. Unused(n)' = Unused(n) /\ delivered'[n] = delivered[n]
      BY <1>1, <1>2, <2>3 DEF Unused, TypeOK
    <3> QED
      BY <1>1, <2>1, <3>1
  <2> QED
    BY <2>2, <2>3
<1>6. SentInv'
  BY <1>1, <1>2 DEF SentInv, TypeOK
<1>7. BudgetInv'
  BY <1>1 DEF BudgetInv, Claimable
<1> QED
  BY <1>3, <1>4, <1>5, <1>6, <1>7

\* So does one that raises or times out, which may have delivered too.
LEMMA DispatchFaultIInv ==
    ASSUME IInv, DispatchTimesOut \/ DispatchRaises PROVE IInv'
<1> USE LimitAssumption DEF IInv
<1>1. /\ pc = "dispatch" /\ cur \in batch /\ cur \in Notes
      /\ UNCHANGED table /\ faults' \in 0 .. MaxFaults
      /\ RetryOrFail(DispatchTries) \/ FailRun
  BY DEF DispatchTimesOut, DispatchRaises, Fault, RunShape, TypeOK
<1>2. PICK d \in {0, 1} : delivered' = [delivered EXCEPT ![cur] = @ + d]
  <2>1. CASE DispatchTimesOut
    BY <2>1 DEF DispatchTimesOut
  <2>2. CASE DispatchRaises
    <3>1. delivered' = [delivered EXCEPT ![cur] = @ + 0]
      BY <1>1, <2>2 DEF DispatchRaises, TypeOK
    <3> QED
      BY <3>1
  <2> QED
    BY <2>1, <2>2
<1>3. /\ delivered' \in [Notes -> Nat]
      /\ \A n \in Notes : delivered'[n] >= delivered[n]
  BY <1>1, <1>2 DEF TypeOK
<1>4. TypeOK' /\ RunShape' /\ HeldRows' /\ SentInv' /\ BudgetInv'
  BY <1>1, <1>3, AttemptEnds
<1>5. DeliveryInv'
  <2> SUFFICES ASSUME NEW n \in Notes
               PROVE  (delivered[n] + Unused(n) <= DispatchTries * attempts[n])'
    BY DEF DeliveryInv
  <2>1. /\ delivered[n] + Unused(n) <= DispatchTries * attempts[n]
        /\ delivered[n] \in Nat /\ DispatchTries * attempts[n] \in Nat
    BY OneMoreAttempt DEF DeliveryInv, TypeOK
  <2>2. /\ attempts'[n] = attempts[n]
        /\ \/ tries' = tries + 1 /\ pc' = pc /\ batch' = batch /\ cur' = cur
           \/ batch' = {}
    BY <1>1, RetryOrFailShape DEF table
  <2>3. CASE n = cur
    <3>1. Unused(n) >= 1 /\ Unused(n) \in Nat
      BY <1>1, <2>3 DEF Unused, RunShape
    <3>2. Unused(n)' \in {0, Unused(n) - 1}
      BY <1>1, <2>2, <2>3 DEF Unused, RunShape, TypeOK
    <3>3. delivered'[n] \in {delivered[n], delivered[n] + 1}
      BY <1>2, <2>3 DEF TypeOK
    <3> QED
      BY <2>1, <2>2, <3>1, <3>2, <3>3
  <2>4. CASE n # cur
    <3>1. delivered'[n] = delivered[n]
      BY <1>2, <2>4 DEF TypeOK
    <3>2. Unused(n) \in Nat /\ Unused(n)' \in {0, Unused(n)}
      BY <2>2, <2>4 DEF Unused
    <3> QED
      BY <2>1, <2>2, <3>1, <3>2
  <2> QED
    BY <2>3, <2>4
<1> QED
  BY <1>4, <1>5

-----------------------------------------------------------------------------
(* Marking *)

\* A mark only touches the current row, and settles it as the step says.
LEMMA MarkEffect ==
    ASSUME IInv,
           \/ pc = "markSent" /\ CommitSent
           \/ pc = "markFailed" /\ CommitFailed
    PROVE  /\ cur \in batch /\ cur \in Notes
           /\ status' \in [Notes -> Statuses]
           /\ \A n \in Notes \ {cur} : status'[n] = status[n]
           /\ \/ status[cur] = "GONE" /\ status'[cur] = "GONE"
              \/ /\ pc = "markSent" /\ status'[cur] = "SENT"
                 /\ status[cur] # "GONE"
              \/ /\ pc = "markFailed" /\ status'[cur] = "FAILED"
                 /\ attempts[cur] >= MaxAttempts /\ status[cur] # "GONE"
              \/ /\ pc = "markFailed" /\ status'[cur] = "RETRYING"
                 /\ ~(attempts[cur] >= MaxAttempts) /\ status[cur] # "GONE"
<1>1. cur \in batch /\ cur \in Notes /\ status \in [Notes -> Statuses]
  BY DEF IInv, RunShape, TypeOK
<1> QED
  BY <1>1 DEF CommitSent, CommitFailed, Statuses

\* The mark commits and the loop goes on with the rest of the batch.
LEMMA MarkIInv == ASSUME IInv, MarkSent \/ MarkFailed PROVE IInv'
<1> USE LimitAssumption DEF IInv
<1>1. /\ pc \in {"markSent", "markFailed"}
      /\ Continue(batch \ {cur})
      /\ attempts' = attempts /\ created' = created /\ delivered' = delivered
      /\ aborted' = aborted /\ faults' = faults
  BY DEF MarkSent, MarkFailed, history
<1>2. /\ cur \in batch /\ cur \in Notes
      /\ status' \in [Notes -> Statuses]
      /\ \A n \in Notes \ {cur} : status'[n] = status[n]
      /\ \/ status[cur] = "GONE" /\ status'[cur] = "GONE"
         \/ pc = "markSent" /\ status'[cur] = "SENT" /\ status[cur] # "GONE"
         \/ /\ pc = "markFailed" /\ status'[cur] = "FAILED"
            /\ attempts[cur] >= MaxAttempts /\ status[cur] # "GONE"
         \/ /\ pc = "markFailed" /\ status'[cur] = "RETRYING"
            /\ ~(attempts[cur] >= MaxAttempts) /\ status[cur] # "GONE"
  BY MarkEffect DEF MarkSent, MarkFailed
<1>3. batch \ {cur} \in SUBSET Notes
  BY DEF TypeOK
<1>4. /\ batch' = batch \ {cur}
      /\ \/ batch' = {} /\ pc' = "idle" /\ cur' = NoNote /\ tries' = 0
         \/ cur' \in batch' /\ pc' = "dispatch" /\ tries' = 1
  BY <1>1, <1>3, ContinueShape
<1>5. TypeOK'
  BY <1>1, <1>2, <1>3, <1>4 DEF TypeOK, Steps
<1>6. RunShape'
  BY <1>4 DEF RunShape
<1>7. HeldRows'
  BY <1>1, <1>2, <1>3, <1>4 DEF HeldRows
<1>8. DeliveryInv'
  <2> SUFFICES ASSUME NEW n \in Notes
               PROVE  (delivered[n] + Unused(n) <= DispatchTries * attempts[n])'
    BY DEF DeliveryInv
  <2>1. /\ delivered[n] + Unused(n) <= DispatchTries * attempts[n]
        /\ delivered[n] \in Nat /\ DispatchTries * attempts[n] \in Nat
    BY OneMoreAttempt DEF DeliveryInv, TypeOK
  <2>2. Unused(n) = IF n \in batch /\ n # cur THEN DispatchTries ELSE 0
    BY <1>1 DEF Unused
  <2>3. Unused(n)' = IF n \in batch /\ n # cur THEN DispatchTries ELSE 0
    BY <1>4 DEF Unused
  <2> QED
    BY <1>1, <2>1, <2>2, <2>3
<1>9. SentInv'
  BY <1>1, <1>2, <1>4 DEF SentInv
<1>10. BudgetInv'
  BY <1>1, <1>2, <1>4 DEF BudgetInv, Claimable, TypeOK
<1> QED
  BY <1>5, <1>6, <1>7, <1>8, <1>9, <1>10

\* The mark commits and its completion is lost: a retry or a failed run finds
\* the row already marked.
LEMMA MarkLostIInv == ASSUME IInv, MarkSentLost \/ MarkFailedLost PROVE IInv'
<1> USE LimitAssumption DEF IInv
<1>1. /\ pc \in {"markSent", "markFailed"}
      /\ RetryOrFail(DbTries)
      /\ attempts' = attempts /\ created' = created /\ delivered' = delivered
      /\ faults' \in 0 .. MaxFaults
  BY DEF MarkSentLost, MarkFailedLost, Fault, TypeOK
<1>2. /\ cur \in batch /\ cur \in Notes
      /\ status' \in [Notes -> Statuses]
      /\ \A n \in Notes \ {cur} : status'[n] = status[n]
      /\ \/ status[cur] = "GONE" /\ status'[cur] = "GONE"
         \/ pc = "markSent" /\ status'[cur] = "SENT" /\ status[cur] # "GONE"
         \/ /\ pc = "markFailed" /\ status'[cur] = "FAILED"
            /\ attempts[cur] >= MaxAttempts /\ status[cur] # "GONE"
         \/ /\ pc = "markFailed" /\ status'[cur] = "RETRYING"
            /\ ~(attempts[cur] >= MaxAttempts) /\ status[cur] # "GONE"
  BY MarkEffect DEF MarkSentLost, MarkFailedLost
<1>3. /\ aborted' \in [Notes -> Nat]
      /\ \/ /\ tries < DbTries /\ tries' = tries + 1
            /\ pc' = pc /\ batch' = batch /\ cur' = cur
            /\ aborted' = aborted
         \/ /\ pc' = "idle" /\ batch' = {} /\ cur' = NoNote /\ tries' = 0
            /\ \A n \in Notes : aborted'[n] =
                 IF n \in batch THEN aborted[n] + 1 ELSE aborted[n]
  BY <1>1, RetryOrFailShape
<1>4. TypeOK'
  BY <1>1, <1>2, <1>3 DEF TypeOK, Steps
<1>5. RunShape'
  BY <1>1, <1>3 DEF RunShape
<1>6. HeldRows'
  BY <1>1, <1>2, <1>3 DEF HeldRows, TypeOK
<1>7. DeliveryInv'
  <2> SUFFICES ASSUME NEW n \in Notes
               PROVE  (delivered[n] + Unused(n) <= DispatchTries * attempts[n])'
    BY DEF DeliveryInv
  <2>1. /\ delivered[n] + Unused(n) <= DispatchTries * attempts[n]
        /\ delivered[n] \in Nat /\ DispatchTries * attempts[n] \in Nat
    BY OneMoreAttempt DEF DeliveryInv, TypeOK
  <2>2. Unused(n) \in Nat /\ Unused(n)' \in {0, Unused(n)}
    BY <1>1, <1>3 DEF Unused
  <2> QED
    BY <1>1, <2>1, <2>2
<1>8. SentInv'
  BY <1>1, <1>2, <1>3 DEF SentInv
<1>9. BudgetInv'
  BY <1>1, <1>2, <1>3 DEF BudgetInv, Claimable, TypeOK
<1> QED
  BY <1>4, <1>5, <1>6, <1>7, <1>8, <1>9

\* A database attempt that fails before its commit changes the run only.
LEMMA DbAttemptFailsIInv == ASSUME IInv, DbAttemptFails PROVE IInv'
<1> USE LimitAssumption DEF IInv
<1>1. /\ pc \in {"claim", "markSent", "markFailed"}
      /\ RetryOrFail(DbTries) /\ UNCHANGED table /\ delivered' = delivered
      /\ faults' \in 0 .. MaxFaults
  BY DEF DbAttemptFails, Fault, TypeOK
<1>2. TypeOK' /\ RunShape' /\ HeldRows' /\ SentInv' /\ BudgetInv'
  BY <1>1, AttemptEnds DEF TypeOK
<1>3. DeliveryInv'
  <2> SUFFICES ASSUME NEW n \in Notes
               PROVE  (delivered[n] + Unused(n) <= DispatchTries * attempts[n])'
    BY DEF DeliveryInv
  <2>1. /\ delivered[n] + Unused(n) <= DispatchTries * attempts[n]
        /\ delivered[n] \in Nat /\ DispatchTries * attempts[n] \in Nat
    BY OneMoreAttempt DEF DeliveryInv, TypeOK
  <2>2. \/ pc' = pc /\ batch' = batch /\ cur' = cur
        \/ batch' = {}
    BY <1>1, RetryOrFailShape
  <2>3. Unused(n) \in Nat /\ Unused(n)' \in {0, Unused(n)}
    BY <1>1, <2>2 DEF Unused
  <2> QED
    BY <1>1, <2>1, <2>3 DEF table
<1> QED
  BY <1>2, <1>3

-----------------------------------------------------------------------------
(* The invariance theorem and the properties *)

\* IInv holds in every state the dispatcher and the table can reach.
THEOREM Invariance == Spec => []IInv
<1>1. Init => IInv
  BY InitIInv
<1>2. IInv /\ [Next]_vars => IInv'
  <2> SUFFICES ASSUME IInv, [Next]_vars PROVE IInv'
    OBVIOUS
  <2>1. CASE Writers
    BY <2>1, InsertIInv, VanishIInv DEF Writers
  <2>2. CASE Tick
    BY <2>2, TickIInv
  <2>3. CASE ClaimPending \/ ClaimLost
    BY <2>3, ClaimPendingIInv, ClaimLostIInv
  <2>4. CASE Dispatch
    BY <2>4, DispatchMissingIInv, DispatchReturnsIInv, DispatchFaultIInv
       DEF Dispatch
  <2>5. CASE MarkSent \/ MarkSentLost \/ MarkFailed \/ MarkFailedLost
    BY <2>5, MarkIInv, MarkLostIInv
  <2>6. CASE DbAttemptFails
    BY <2>6, DbAttemptFailsIInv
  <2>7. CASE UNCHANGED vars
    BY <2>7 DEF vars, table, run, history, IInv, TypeOK, RunShape, HeldRows,
                DeliveryInv, Unused, SentInv, BudgetInv, Claimable
  <2> QED
    BY <2>1, <2>2, <2>3, <2>4, <2>5, <2>6, <2>7 DEF Next, Run
<1> QED
  BY <1>1, <1>2, PTL DEF Spec

\* Every variable keeps its type.
THEOREM TypeCorrect == Spec => []TypeOK
<1>1. IInv => TypeOK
  BY DEF IInv
<1> QED
  BY <1>1, Invariance, PTL

\* A row is recorded as SENT only after a delivery.
THEOREM SentDelivered == Spec => []SentWasDelivered
<1>1. IInv => SentWasDelivered
  BY DEF IInv, SentInv, SentWasDelivered
<1> QED
  BY <1>1, Invariance, PTL

\* No row reaches its channel more than DispatchTries times per attempt.
THEOREM BoundedDeliveries == Spec => []DeliveriesBounded
<1>1. IInv => DeliveriesBounded
  <2> SUFFICES ASSUME IInv, NEW n \in Notes
               PROVE  delivered[n] <= DispatchTries * attempts[n]
    BY DEF DeliveriesBounded
  <2>1. /\ delivered[n] + Unused(n) <= DispatchTries * attempts[n]
        /\ delivered[n] \in Nat /\ DispatchTries * attempts[n] \in Nat
    BY OneMoreAttempt DEF IInv, DeliveryInv, TypeOK
  <2>2. Unused(n) \in Nat
    BY LimitAssumption DEF Unused, IInv, RunShape
  <2> QED
    BY <2>1, <2>2
<1> QED
  BY <1>1, Invariance, PTL

\* The retry budget is exceeded only by attempts a failed run threw away.
THEOREM AccountedBudget == Spec => []BudgetAccounted
<1>1. IInv => BudgetAccounted
  BY DEF IInv, BudgetInv, BudgetAccounted
<1> QED
  BY <1>1, Invariance, PTL

-----------------------------------------------------------------------------
(* Settled rows, and the promise of DeliveryQueue *)

\* What one step of the dispatcher or of the writers does to each row: the
\* two theorems below read it off.
RowStep ==
    \/ \E S \in SUBSET Notes :
         /\ delivered' = delivered /\ attempts' = attempts
         /\ \/ /\ \A n \in S : status[n] = "ABSENT" /\ status'[n] = "PENDING"
               /\ \A n \in Notes \ S : status'[n] = status[n]
            \/ /\ \A n \in S : status[n] # "ABSENT" /\ status'[n] = "GONE"
               /\ \A n \in Notes \ S : status'[n] = status[n]
    \/ /\ delivered' = delivered
       /\ \A n \in Notes :
            \/ status'[n] = status[n] /\ attempts'[n] = attempts[n]
            \/ /\ status[n] \in {"PENDING", "RETRYING"}
               /\ status'[n] = "RETRYING"
    \/ /\ status' = status /\ attempts' = attempts
       /\ \E n \in Notes :
            /\ status[n] = "RETRYING"
            /\ delivered' = [delivered EXCEPT ![n] = @ + 1]
    \/ /\ delivered' = delivered /\ attempts' = attempts
       /\ \E n \in Notes :
            /\ status[n] = "RETRYING"
            /\ \/ status'[n] = "SENT" /\ delivered[n] > 0
               \/ status'[n] = "FAILED"
            /\ \A m \in Notes \ {n} : status'[m] = status[m]

\* Deliveries happen to RETRYING rows only.
LEMMA DispatchRowStep == ASSUME IInv, Dispatch PROVE RowStep
<1>1. /\ pc = "dispatch" /\ cur \in Notes /\ status[cur] \in {"RETRYING", "GONE"}
      /\ status' = status /\ attempts' = attempts
  BY DEF Dispatch, DispatchMissing, DispatchSucceeds, DispatchRefused,
         DispatchTimesOut, DispatchRaises, table, IInv, RunShape, HeldRows, TypeOK
<1>2. \/ delivered' = delivered
      \/ /\ status[cur] # "GONE"
         /\ \E d \in {0, 1} : delivered' = [delivered EXCEPT ![cur] = @ + d]
  <2>1. CASE DispatchMissing \/ DispatchRaises
    BY <2>1 DEF DispatchMissing, DispatchRaises, history
  <2>2. CASE DispatchSucceeds
    BY <2>2 DEF DispatchSucceeds
  <2>3. CASE DispatchRefused
    BY <2>3 DEF DispatchRefused
  <2>4. CASE DispatchTimesOut
    <3>1. PICK d \in {0, 1} : /\ d = 1 => status[cur] # "GONE"
                              /\ delivered' = [delivered EXCEPT ![cur] = @ + d]
      BY <2>4 DEF DispatchTimesOut
    <3>2. CASE d = 1
      BY <3>1, <3>2
    <3>3. CASE d = 0
      BY <3>1, <3>3 DEF IInv, TypeOK
    <3> QED
      BY <3>2, <3>3
  <2> QED
    BY <2>1, <2>2, <2>3, <2>4 DEF Dispatch
<1>3. CASE delivered' = delivered
  BY <1>1, <1>3 DEF RowStep
<1>4. CASE /\ status[cur] # "GONE"
           /\ \E d \in {0, 1} : delivered' = [delivered EXCEPT ![cur] = @ + d]
  <2>1. PICK d \in {0, 1} : delivered' = [delivered EXCEPT ![cur] = @ + d]
    BY <1>4
  <2>2. CASE d = 0
    <3>1. delivered' = delivered
      BY <2>1, <2>2 DEF IInv, TypeOK
    <3> QED
      BY <1>1, <3>1 DEF RowStep
  <2>3. CASE d = 1
    BY <1>1, <1>4, <2>1, <2>3 DEF RowStep
  <2> QED
    BY <2>2, <2>3
<1> QED
  BY <1>2, <1>3, <1>4

\* A mark settles a RETRYING row, leaves it RETRYING, or finds it as it is.
LEMMA MarkRowStep ==
    ASSUME IInv, MarkSent \/ MarkSentLost \/ MarkFailed \/ MarkFailedLost
    PROVE  RowStep
<1>1. /\ delivered' = delivered /\ attempts' = attempts
      /\ \/ pc = "markSent" /\ CommitSent
         \/ pc = "markFailed" /\ CommitFailed
  BY DEF MarkSent, MarkSentLost, MarkFailed, MarkFailedLost, history
<1>2. /\ cur \in batch /\ cur \in Notes
      /\ \A n \in Notes \ {cur} : status'[n] = status[n]
      /\ \/ status[cur] = "GONE" /\ status'[cur] = "GONE"
         \/ pc = "markSent" /\ status'[cur] = "SENT" /\ status[cur] # "GONE"
         \/ /\ pc = "markFailed" /\ status'[cur] = "FAILED"
            /\ status[cur] # "GONE"
         \/ /\ pc = "markFailed" /\ status'[cur] = "RETRYING"
            /\ ~(attempts[cur] >= MaxAttempts) /\ status[cur] # "GONE"
  BY <1>1, MarkEffect
<1>3. /\ \/ status[cur] \in {"RETRYING", "GONE"}
         \/ pc = "markSent" /\ status[cur] = "SENT"
         \/ pc = "markFailed" /\ status[cur] = "FAILED"
      /\ status[cur] = "FAILED" => attempts[cur] >= MaxAttempts
      /\ pc = "markSent" => delivered[cur] > 0
  BY <1>2 DEF IInv, HeldRows, BudgetInv, SentInv
<1> QED
  BY <1>1, <1>2, <1>3 DEF RowStep

\* Every step is a RowStep.
LEMMA NextRowStep == IInv /\ [Next]_vars => RowStep
<1> SUFFICES ASSUME IInv, [Next]_vars PROVE RowStep
  OBVIOUS
<1>1. CASE Writers
  <2>1. PICK S \in SUBSET Notes : Insert(S) \/ Vanish(S)
    BY <1>1 DEF Writers
  <2>2. CASE Insert(S)
    BY <2>2 DEF Insert, RowStep, history
  <2>3. CASE Vanish(S)
    BY <2>3 DEF Vanish, RowStep, history
  <2> QED
    BY <2>1, <2>2, <2>3
<1>2. CASE Tick \/ DbAttemptFails \/ UNCHANGED vars
  BY <1>2 DEF Tick, DbAttemptFails, vars, table, history, RowStep
<1>3. CASE ClaimPending \/ ClaimLost
  <2>1. PICK B \in Picks : CommitClaim(B)
    BY <1>3 DEF ClaimPending, ClaimLost
  <2>2. delivered' = delivered /\ B \subseteq Notes
    BY <1>3, PicksClaimable DEF ClaimPending, ClaimLost, history
  <2> QED
    BY <2>1, <2>2, CommitClaimEffect DEF IInv, RowStep
<1>4. CASE Dispatch
  BY <1>4, DispatchRowStep
<1>5. CASE MarkSent \/ MarkSentLost \/ MarkFailed \/ MarkFailedLost
  BY <1>5, MarkRowStep
<1> QED
  BY <1>1, <1>2, <1>3, <1>4, <1>5 DEF Next, Run

\* A settled row is neither claimed, delivered nor marked again.
THEOREM Finality == Spec => SettledIsFinal
<1>1. IInv /\ [Next]_vars => [SettledStays]_vars
  <2> SUFFICES ASSUME IInv, RowStep PROVE SettledStays
    BY NextRowStep
  <2>1. delivered \in [Notes -> Nat]
    BY DEF IInv, TypeOK
  <2> QED
    BY <2>1 DEF RowStep, SettledStays
<1> QED
  BY <1>1, Invariance, PTL DEF Spec, SettledIsFinal

\* Every behaviour of the dispatcher is a behaviour of DeliveryQueue.
THEOREM Refinement == Spec => ImplementsQueue
<1>1. Init => Queue!Init
  BY DEF Init, Queue!Init, StateOf
<1>2. IInv /\ [Next]_vars => [Queue!Next]_(Queue!vars)
  <2> SUFFICES ASSUME IInv, RowStep PROVE [Queue!Next]_(Queue!vars)
    BY NextRowStep
  <2> DEFINE st == [n \in Notes |-> StateOf(status[n])]
  <2>0. /\ delivered \in [Notes -> Nat]
        /\ status \in [Notes -> Statuses]
    BY DEF IInv, TypeOK
  <2>1. CASE \E S \in SUBSET Notes :
               /\ delivered' = delivered
               /\ \A n \in S : status[n] = "ABSENT" /\ status'[n] = "PENDING"
               /\ \A n \in Notes \ S : status'[n] = status[n]
    <3>1. PICK S \in SUBSET Notes :
               /\ delivered' = delivered
               /\ \A n \in S : status[n] = "ABSENT" /\ status'[n] = "PENDING"
               /\ \A n \in Notes \ S : status'[n] = status[n]
      BY <2>1
    <3>2. Queue!Submit(S)
      BY <3>1 DEF Queue!Submit, StateOf
    <3> QED
      BY <3>2 DEF Queue!Next
  <2>2. CASE \E S \in SUBSET Notes :
               /\ delivered' = delivered
               /\ \A n \in S : status[n] # "ABSENT" /\ status'[n] = "GONE"
               /\ \A n \in Notes \ S : status'[n] = status[n]
    <3>1. PICK S \in SUBSET Notes :
               /\ delivered' = delivered
               /\ \A n \in S : status[n] # "ABSENT" /\ status'[n] = "GONE"
               /\ \A n \in Notes \ S : status'[n] = status[n]
      BY <2>2
    <3>2. Queue!Drop(S)
      BY <2>0, <3>1 DEF Queue!Drop, StateOf, Statuses
    <3> QED
      BY <3>2 DEF Queue!Next
  <2>3. CASE /\ delivered' = delivered
             /\ \A n \in Notes :
                  \/ status'[n] = status[n]
                  \/ /\ status[n] \in {"PENDING", "RETRYING"}
                     /\ status'[n] = "RETRYING"
    <3>1. \A n \in Notes : StateOf(status'[n]) = StateOf(status[n])
      BY <2>3 DEF StateOf
    <3>2. UNCHANGED Queue!vars
      BY <2>3, <3>1 DEF Queue!vars
    <3> QED
      BY <3>2
  <2>4. CASE /\ status' = status
             /\ \E n \in Notes :
                  /\ status[n] = "RETRYING"
                  /\ delivered' = [delivered EXCEPT ![n] = @ + 1]
    <3>1. PICK n \in Notes : /\ status[n] = "RETRYING"
                             /\ delivered' = [delivered EXCEPT ![n] = @ + 1]
      BY <2>4
    <3>2. Queue!Deliver(n)
      BY <2>4, <3>1 DEF Queue!Deliver, StateOf
    <3> QED
      BY <3>2 DEF Queue!Next
  <2>5. CASE /\ delivered' = delivered
             /\ \E n \in Notes :
                  /\ status[n] = "RETRYING"
                  /\ \/ status'[n] = "SENT" /\ delivered[n] > 0
                     \/ status'[n] = "FAILED"
                  /\ \A m \in Notes \ {n} : status'[m] = status[m]
    <3>1. PICK n \in Notes :
                  /\ status[n] = "RETRYING"
                  /\ \/ status'[n] = "SENT" /\ delivered[n] > 0
                     \/ status'[n] = "FAILED"
                  /\ \A m \in Notes \ {n} : status'[m] = status[m]
      BY <2>5
    <3>2. Queue!Settle(n)
      BY <2>5, <3>1 DEF Queue!Settle, StateOf
    <3> QED
      BY <3>2 DEF Queue!Next
  <2> QED
    BY <2>1, <2>2, <2>3, <2>4, <2>5 DEF RowStep
<1> QED
  BY <1>1, <1>2, Invariance, PTL DEF Spec, Queue!Spec, ImplementsQueue

=============================================================================
