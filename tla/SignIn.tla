------------------------------- MODULE SignIn -------------------------------
(***************************************************************************)
(* Password sign-in of one account with a second factor: the failure       *)
(* counters of user_lockout (one row per address the attempts come from),  *)
(* the unlock links, the MFA attempts and the recovery codes.              *)
(*                                                                         *)
(* A login is one transaction at READ COMMITTED with a slow password check *)
(* in its middle: the lock is looked at in BeginLogin, the counter is read *)
(* after the check (ReadCounter) and written at the end, from where on the *)
(* row is locked.  A transaction that has deleted rows and not committed   *)
(* holds them: whoever writes one waits.  Time is counted in windows of 10 *)
(* minutes; an unlock link lives for a day, longer than a behaviour.       *)
(***************************************************************************)
EXTENDS Naturals, FiniteSets

CONSTANTS Ips,               \* where attempts come from
          Codes,             \* the account's recovery codes
          FailureThreshold,  \* FAILURE_THRESHOLD
          Window,            \* LOCKOUT_WINDOW
          Duration,          \* LOCKOUT_DURATION
          Throttle,          \* UNLOCK_EMAIL_THROTTLE
          Requests,          \* handlers in flight at once
          MaxNow,            \* bound: time
          MaxCalls           \* bound: handler calls in a behaviour

ASSUME SignInAssumption ==
    /\ FailureThreshold \in Nat \ {0} /\ Window \in Nat /\ Duration \in Nat /\ Throttle \in Nat
    /\ MaxNow \in Nat \ {0} /\ MaxCalls \in Nat
    /\ IsFiniteSet(Requests)

VARIABLES lock,      \* user_lockout: the row of each address, if there is one
          flag,      \* user_account.has_active_lockout
          emailed,   \* user_account.last_unlock_email_at, 0 for NULL
          unlock,    \* user_unlock_token: the one a call has made
          attempt,   \* mfa_attempt: the one a call has made
          code,      \* user_recovery_code
          request,   \* what each handler in flight has read
          now, calls,
          sessions,  \* history: sessions opened with an attempt
          spent,     \* history: sessions opened with a code
          crossed    \* history: a lock was set while rows were being cleared

lockout == <<lock, flag, emailed, unlock>>
factors == <<attempt, code, sessions, spent>>
vars    == <<lock, flag, emailed, unlock, attempt, code, request, now, calls,
             sessions, spent, crossed>>

Ids == 1 .. MaxCalls
NoRow == [made |-> 0, count |-> 0, first |-> 0, until |-> 0]
Row == {row \in [made : 0 .. MaxCalls, count : Nat, first : 0 .. MaxNow, until : Nat] :
          row.made = 0 => row = NoRow}

Locked(i) == lock[i].until > now

\* Rows that a transaction in flight has deleted.
Held(i) == \E r \in Requests :
    request[r].op = "clear" /\ lock[i].made # 0 /\ lock[i].made \in request[r].rows

Idle == [op |-> "idle"]

Begin(r, read) ==
    /\ request[r] = Idle
    /\ calls < MaxCalls /\ calls' = calls + 1
    /\ request' = [request EXCEPT ![r] = read]
    /\ UNCHANGED now

Continue(r, read) == request' = [request EXCEPT ![r] = read] /\ UNCHANGED <<calls, now>>

Done(r) == Continue(r, Idle)

Tick ==
    /\ now < MaxNow /\ now' = now + 1
    /\ UNCHANGED <<lockout, factors, request, calls, crossed>>

-----------------------------------------------------------------------------
(* Login: a wrong password *)

\* assert_not_locked
BeginLogin(r, i) ==
    /\ ~Locked(i)
    /\ Begin(r, [op |-> "login", ip |-> i, made |-> calls + 1])
    /\ UNCHANGED <<lockout, factors, crossed>>

\* record_failure reads the row; if it is locked by now, that is all.
ReadCounter(r) ==
    LET q == request[r] IN
    /\ q.op = "login" /\ ~Locked(q.ip)
    /\ Continue(r, [op |-> "count", ip |-> q.ip, made |-> q.made, at |-> now, row |-> lock[q.ip]])
    /\ UNCHANGED <<lockout, factors, crossed>>

\* The window of the row, as read, has passed: the counter starts again.
Passed(q) == q.row # NoRow /\ q.row.first + Window <= q.at

ResetCounter(r) ==
    LET q == request[r] IN
    /\ q.op = "count" /\ Passed(q) /\ ~Held(q.ip)
    /\ lock' = IF lock[q.ip].made = q.row.made
               THEN [lock EXCEPT ![q.ip] = [made |-> q.row.made, count |-> 1,
                                            first |-> q.at, until |-> 0]]
               ELSE lock
    /\ Done(r)
    /\ UNCHANGED <<flag, emailed, unlock, factors, crossed>>

\* Mutant: the row is taken to exist.
CountedBlind(q) == [lock[q.ip] EXCEPT !.count = @ + 1]

\* The row after the upsert.
Counted(q) ==
    IF lock[q.ip] = NoRow THEN [made |-> q.made, count |-> 1, first |-> q.at, until |-> 0]
    ELSE [lock[q.ip] EXCEPT !.count = @ + 1]

\* What the SELECT after the upsert returns: a row the session holds already
\* is that object, with the values it was loaded with.
ReadBack(q) == IF q.row.made = Counted(q).made THEN q.row ELSE Counted(q)

\* Mutant: one failure later.
CrossesLate(row) == row.count > FailureThreshold /\ row.until = 0

Crosses(row) == row.count >= FailureThreshold /\ row.until = 0

\* enqueue_unlock_email_if_due
Due(q) == emailed = 0 \/ emailed + Throttle <= q.at

\* The upsert, and when the count as read back crosses the threshold the lock
\* (unless one is set), the flag and the mail with the unlock link.
CountFailure(r) ==
    LET q == request[r]  locks == Crosses(ReadBack(q)) IN
    /\ q.op = "count" /\ ~Passed(q) /\ ~Held(q.ip)
    /\ lock' = [lock EXCEPT ![q.ip] =
                   IF locks /\ Counted(q).until = 0
                   THEN [Counted(q) EXCEPT !.until = q.at + Duration] ELSE Counted(q)]
    /\ flag' = (flag \/ locks)
    /\ emailed' = IF locks /\ Due(q) THEN q.at ELSE emailed
    /\ unlock' = IF locks /\ Due(q) THEN [unlock EXCEPT ![q.made] = "open"] ELSE unlock
    /\ crossed' = (crossed \/ (locks /\ \E o \in Requests : request[o].op = "clear"))
    /\ Done(r)
    /\ UNCHANGED factors

-----------------------------------------------------------------------------
(* Clearing rows: a right password, an unlock link, the operator's panel *)

\* Mutant: the locks of other addresses are not counted.
CalmAlways(i) == TRUE

\* No other row is locked.
Calm(i) == \A o \in Ips \ {i} : ~Locked(o)

\* record_success deletes the address's row and counts the locked ones left.
RecordSuccess(r) ==
    LET q == request[r] IN
    /\ q.op = "login" /\ ~Held(q.ip)
    /\ Continue(r, [op |-> "clear", why |-> "success", made |-> q.made,
                    rows |-> {lock[q.ip].made}, calm |-> Calm(q.ip)])
    /\ UNCHANGED <<lockout, factors, crossed>>

Clear(rows) == lock' = [i \in Ips |-> IF lock[i].made \in rows THEN NoRow ELSE lock[i]]

\* The commit; the MFA attempt is added in a transaction of its own.
CommitSuccess(r) ==
    LET q == request[r] IN
    /\ q.op = "clear" /\ q.why = "success"
    /\ Clear(q.rows)
    /\ flag' = (flag /\ ~q.calm)
    /\ attempt' \in {attempt, [attempt EXCEPT ![q.made] = "open"]}
    /\ Done(r)
    /\ UNCHANGED <<emailed, unlock, code, sessions, spent, crossed>>

\* consume_unlock
BeginUnlock(r, n) ==
    /\ unlock[n] = "open"
    /\ Begin(r, [op |-> "unlock", token |-> n])
    /\ UNCHANGED <<lockout, factors, crossed>>

\* The token is claimed first (another claim of it waits), then every row is
\* deleted: force_unlock_user.
ClaimUnlock(r) ==
    LET q == request[r] IN
    /\ q.op = "unlock" /\ unlock[q.token] = "open"
    /\ \A o \in Requests : request[o].op = "clear" /\ request[o].why = "unlock"
                              => request[o].token # q.token
    /\ \A i \in Ips : ~Held(i)
    /\ Continue(r, [op |-> "clear", why |-> "unlock", token |-> q.token,
                    rows |-> {lock[i].made : i \in Ips}])
    /\ UNCHANGED <<lockout, factors, crossed>>

\* force_unlock_member
ForceUnlock(r) ==
    /\ \A i \in Ips : ~Held(i)
    /\ Begin(r, [op |-> "clear", why |-> "force", token |-> 0, rows |-> {lock[i].made : i \in Ips}])
    /\ UNCHANGED <<lockout, factors, crossed>>

CommitUnlock(r) ==
    LET q == request[r] IN
    /\ q.op = "clear" /\ q.why \in {"unlock", "force"}
    /\ Clear(q.rows)
    /\ flag' = FALSE /\ emailed' = 0
    /\ unlock' = IF q.why = "unlock" THEN [unlock EXCEPT ![q.token] = "used"] ELSE unlock
    /\ Done(r)
    /\ UNCHANGED <<factors, crossed>>

-----------------------------------------------------------------------------
(* The second factor *)

\* Mutant: the attempt is not looked at again.
UnclaimedRead(n) == TRUE

\* claim_mfa_attempt_consumed
Unclaimed(n) == attempt[n] \in {"open", "expired"}

ExpireAttempt(n) ==
    /\ attempt[n] = "open"
    /\ attempt' = [attempt EXCEPT ![n] = "expired"]
    /\ UNCHANGED <<lockout, code, request, now, calls, sessions, spent, crossed>>

BeginVerify(r, n) ==
    /\ attempt[n] = "open"
    /\ Begin(r, [op |-> "verify", attempt |-> n])
    /\ UNCHANGED <<lockout, factors, crossed>>

\* verify_totp, verify_passkey: one try, right or wrong.
Verify(r, ok) ==
    LET n == request[r].attempt IN
    /\ request[r].op = "verify" /\ Unclaimed(n)
    /\ attempt' = [attempt EXCEPT ![n] = IF ok THEN "success" ELSE "fail"]
    /\ sessions' = [sessions EXCEPT ![n] = IF ok THEN @ + 1 ELSE @]
    /\ Done(r)
    /\ UNCHANGED <<lockout, code, spent, crossed>>

\* verify_recovery: the code is found among the unused ones, claimed, and
\* then the attempt; a code is used up whether or not the attempt is left.
BeginRecovery(r, n, c) ==
    /\ attempt[n] = "open" /\ code[c] = "unused"
    /\ Begin(r, [op |-> "recover", attempt |-> n, code |-> c])
    /\ UNCHANGED <<lockout, factors, crossed>>

VerifyRecovery(r) ==
    LET q == request[r]  ok == code[q.code] = "unused"  opens == ok /\ Unclaimed(q.attempt) IN
    /\ q.op = "recover"
    /\ code' = [code EXCEPT ![q.code] = "used"]
    /\ attempt' = [attempt EXCEPT ![q.attempt] =
                      IF Unclaimed(q.attempt) THEN (IF ok THEN "success" ELSE "fail") ELSE @]
    /\ sessions' = [sessions EXCEPT ![q.attempt] = IF opens THEN @ + 1 ELSE @]
    /\ spent' = [spent EXCEPT ![q.code] = IF opens THEN @ + 1 ELSE @]
    /\ Done(r)
    /\ UNCHANGED <<lockout, crossed>>

-----------------------------------------------------------------------------
(* Specification *)

\* A claim that finds no row, an error or a crash: nothing is written.
Fail(r) ==
    /\ request[r] # Idle
    /\ Done(r)
    /\ UNCHANGED <<lockout, factors, crossed>>

Init ==
    /\ lock = [i \in Ips |-> NoRow] /\ flag = FALSE /\ emailed = 0
    /\ unlock = [n \in Ids |-> "none"]
    /\ attempt = [n \in Ids |-> "none"] /\ code = [c \in Codes |-> "unused"]
    /\ request = [r \in Requests |-> Idle]
    /\ now = 1 /\ calls = 0
    /\ sessions = [n \in Ids |-> 0] /\ spent = [c \in Codes |-> 0] /\ crossed = FALSE

Next ==
    \/ Tick
    \/ \E n \in Ids : ExpireAttempt(n)
    \/ \E r \in Requests :
          \/ \E i \in Ips : BeginLogin(r, i)
          \/ ReadCounter(r) \/ ResetCounter(r) \/ CountFailure(r)
          \/ RecordSuccess(r) \/ CommitSuccess(r)
          \/ ForceUnlock(r) \/ ClaimUnlock(r) \/ CommitUnlock(r)
          \/ \E n \in Ids : BeginUnlock(r, n) \/ BeginVerify(r, n)
          \/ \E ok \in BOOLEAN : Verify(r, ok)
          \/ \E n \in Ids, c \in Codes : BeginRecovery(r, n, c)
          \/ VerifyRecovery(r)
          \/ Fail(r)

Spec == Init /\ [][Next]_vars

-----------------------------------------------------------------------------
(* Properties *)

Read == [op : {"idle"}]
        \cup [op : {"login"}, ip : Ips, made : Ids]
        \cup [op : {"count"}, ip : Ips, made : Ids, at : 1 .. MaxNow, row : Row]
        \cup [op : {"clear"}, why : {"success"}, made : Ids, rows : SUBSET (0 .. MaxCalls), calm : BOOLEAN]
        \cup [op : {"clear"}, why : {"unlock", "force"}, token : 0 .. MaxCalls,
              rows : SUBSET (0 .. MaxCalls)]
        \cup [op : {"unlock"}, token : Ids]
        \cup [op : {"verify"}, attempt : Ids]
        \cup [op : {"recover"}, attempt : Ids, code : Codes]

TypeOK ==
    /\ lock \in [Ips -> Row]
    /\ flag \in BOOLEAN /\ emailed \in 0 .. MaxNow
    /\ unlock \in [Ids -> {"none", "open", "used"}]
    /\ attempt \in [Ids -> {"none", "open", "expired", "success", "fail"}]
    /\ code \in [Codes -> {"unused", "used"}]
    /\ request \in [Requests -> Read]
    /\ now \in 1 .. MaxNow /\ calls \in 0 .. MaxCalls
    /\ sessions \in [Ids -> Nat] /\ spent \in [Codes -> Nat] /\ crossed \in BOOLEAN

\* record_failure: a counter that is not locked exceeds the threshold only by
\* the failures that ran beside the last one.
FailuresBounded ==
    \A i \in Ips : lock[i].until = 0 => lock[i].count <= FailureThreshold + Cardinality(Requests) - 1

\* record_failure, enqueue_unlock_email_if_due and force_unlock_user: while a
\* lock holds, the account is flagged and an unlock link nobody has used is in
\* the mail, unless the lock was set while another request cleared rows.
LockIsAnnounced ==
    (\E i \in Ips : Locked(i)) => crossed \/ (flag /\ \E n \in Ids : unlock[n] = "open")

\* claim_mfa_attempt_consumed, claim_recovery_code_used: an attempt is tried
\* once and opens a session at most, and so does a recovery code, whatever is
\* submitted with them at the same time.
SecondFactorOnce ==
    /\ \A n \in Ids : sessions[n] = IF attempt[n] = "success" THEN 1 ELSE 0
    /\ \A c \in Codes : spent[c] <= 1 /\ (spent[c] = 1 => code[c] = "used")

\* When failed_count crosses the threshold, locked_until is set.
LockedAtThreshold ==
    \A i \in Ips : lock[i].count >= FailureThreshold => lock[i].until # 0
=============================================================================
