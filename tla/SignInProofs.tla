---------------------------- MODULE SignInProofs ----------------------------
(***************************************************************************)
(* Proofs about SignIn, for every set of addresses, codes and requests,    *)
(* every threshold, window and duration, and every number of calls.        *)
(***************************************************************************)
EXTENDS SignIn, FiniteSetTheorems, TLAPS

\* The requests that may still make rows under the number of their call.
Carries(r) == \/ request[r].op \in {"login", "count"}
              \/ request[r].op = "clear" /\ request[r].why = "success"

\* A call's number is its own, and no attempt has been made under it.
FreshInv ==
    /\ \A n \in Ids : n > calls => attempt[n] = "none"
    /\ \A r \in Requests : Carries(r) =>
          request[r].made <= calls /\ attempt[request[r].made] = "none"
    /\ \A r, s \in Requests :
          Carries(r) /\ Carries(s) /\ request[r].made = request[s].made => r = s

\* The requests that will count a failure and not lock, by what they read.
Stale(i) == {r \in Requests :
    /\ request[r].op = "count" /\ request[r].ip = i
    /\ request[r].row.count < FailureThreshold \/ request[r].row.until # 0}

\* A counter that is not locked has room for each of them.
CountInv ==
    \A i \in Ips : lock[i].until = 0 =>
        lock[i].count + Cardinality(Stale(i)) <= FailureThreshold - 1 + Cardinality(Requests)

\* The requests that clear every lock there is, as far as they know.
Sweeps(r) == request[r].op = "clear" /\ (request[r].why = "success" => request[r].calm)

\* Unless a lock was set beside one, none is left when it commits; until then
\* whoever is locked out is flagged and has been mailed a link.
AnnounceInv ==
    /\ emailed # 0 => \E n \in Ids : unlock[n] = "open"
    /\ ~crossed =>
          /\ (\E i \in Ips : Locked(i)) => flag /\ emailed # 0
          /\ \A r \in Requests : Sweeps(r) =>
                \A i \in Ips : Locked(i) => lock[i].made \in request[r].rows

IInv == TypeOK /\ FreshInv /\ SecondFactorOnce /\ CountInv /\ AnnounceInv

-----------------------------------------------------------------------------
(* What the types say of a request *)

LEMMA Shapes ==
    ASSUME TypeOK, NEW r \in Requests
    PROVE  LET q == request[r] IN
           /\ q.op \in {"idle", "login", "count", "clear", "unlock", "verify", "recover"}
           /\ q.op = "idle" => q = Idle
           /\ q.op = "login" => q.ip \in Ips /\ q.made \in Ids
           /\ q.op = "count" => q.ip \in Ips /\ q.made \in Ids /\ q.at \in 1 .. MaxNow /\ q.row \in Row
           /\ q.op = "clear" => /\ q.why \in {"success", "unlock", "force"}
                                /\ q.rows \subseteq 0 .. MaxCalls
                                /\ q.why = "success" => q.made \in Ids /\ q.calm \in BOOLEAN
                                /\ q.why # "success" => q.token \in 0 .. MaxCalls
           /\ q.op = "unlock" => q.token \in Ids
           /\ q.op = "verify" => q.attempt \in Ids
           /\ q.op = "recover" => q.attempt \in Ids /\ q.code \in Codes
<1>1. request[r] \in Read
  BY DEF TypeOK
<1> QED
  BY <1>1 DEF Read, Idle

LEMMA IdleRead == Idle \in Read /\ Idle.op = "idle"
  BY DEF Idle, Read

\* A row of the counter after a failure.
LEMMA CountedRow ==
    ASSUME TypeOK, NEW r \in Requests, request[r].op = "count"
    PROVE  LET q == request[r]  i == q.ip IN
           /\ Counted(q) \in Row /\ Counted(q).made # 0
           /\ \/ lock[i] = NoRow /\ Counted(q).count = 1 /\ Counted(q).until = 0
              \/ /\ Counted(q).count = lock[i].count + 1 /\ Counted(q).until = lock[i].until
                 /\ Counted(q).made = lock[i].made /\ Counted(q).first = lock[i].first
<1> DEFINE q == request[r]  i == q.ip
<1>1. i \in Ips /\ q.made \in Ids /\ q.at \in 1 .. MaxNow
  BY Shapes
<1>2. lock[i] \in Row
  BY <1>1 DEF TypeOK
<1>3. CASE lock[i] = NoRow
  <2>1. Counted(q) = [made |-> q.made, count |-> 1, first |-> q.at, until |-> 0]
    BY <1>3 DEF Counted
  <2> QED
    BY <1>1, <1>3, <2>1 DEF Row, Ids
<1>4. CASE lock[i] # NoRow
  <2>1. Counted(q) = [lock[i] EXCEPT !.count = @ + 1]
    BY <1>4 DEF Counted
  <2> QED
    BY <1>2, <1>4, <2>1 DEF Row
<1> QED
  BY <1>3, <1>4

\* A locked row, and what a step makes of the others.
LEMMA LockAfter ==
    ASSUME TypeOK, NEW r \in Requests, CountFailure(r)
    PROVE  LET q == request[r]  i == q.ip IN
           /\ q.op = "count" /\ i \in Ips /\ ~Passed(q)
           /\ \A j \in Ips \ {i} : lock'[j] = lock[j]
           /\ lock' \in [Ips -> Row] /\ lock'[i].made = Counted(q).made /\ lock'[i].made # 0
           /\ lock'[i].count = Counted(q).count
           /\ \/ lock'[i].until = Counted(q).until
              \/ Crosses(ReadBack(q)) /\ lock'[i].until = q.at + Duration
           /\ Crosses(ReadBack(q)) => lock'[i].until # 0
<1> DEFINE q == request[r]  i == q.ip  old == Counted(q)
           new == IF Crosses(ReadBack(q)) /\ old.until = 0
                  THEN [old EXCEPT !.until = q.at + Duration] ELSE old
<1>1. q.op = "count" /\ ~Passed(q)
  BY DEF CountFailure
<1>2. i \in Ips /\ q.at \in 1 .. MaxNow
  BY <1>1, Shapes
<1>3. old \in Row /\ old.made # 0
  BY <1>1, CountedRow
<1>4. lock' = [lock EXCEPT ![i] = new] /\ lock \in [Ips -> Row]
  BY DEF CountFailure, TypeOK
<1> HIDE DEF old
<1>5. /\ new \in Row /\ new.made = old.made /\ new.count = old.count
      /\ new.until = old.until \/ (Crosses(ReadBack(q)) /\ new.until = q.at + Duration)
      /\ Crosses(ReadBack(q)) => new.until # 0
  BY <1>2, <1>3, SignInAssumption DEF Row
<1> HIDE DEF new
<1>6. lock' \in [Ips -> Row] /\ lock'[i] = new /\ \A j \in Ips \ {i} : lock'[j] = lock[j]
  BY <1>2, <1>4, <1>5
<1> QED
  BY <1>1, <1>2, <1>3, <1>5, <1>6 DEF old

LEMMA Continues ==
    ASSUME TypeOK, NEW r \in Requests, NEW read \in Read, Begin(r, read) \/ Continue(r, read)
    PROVE  /\ request' = [request EXCEPT ![r] = read] /\ request' \in [Requests -> Read]
           /\ now' = now /\ calls' \in 0 .. MaxCalls /\ calls \in Nat /\ calls <= calls'
  BY SignInAssumption DEF Begin, Continue, TypeOK

-----------------------------------------------------------------------------
(* Types *)

LEMMA TypesStart == Init => TypeOK
<1> SUFFICES ASSUME Init PROVE TypeOK
  OBVIOUS
<1>1. NoRow \in Row
  BY SignInAssumption DEF NoRow, Row
<1>2. lock \in [Ips -> Row] /\ request \in [Requests -> Read]
  BY <1>1, IdleRead DEF Init
<1>3. flag \in BOOLEAN /\ crossed \in BOOLEAN
  BY DEF Init
<1>4. emailed \in 0 .. MaxNow /\ now \in 1 .. MaxNow /\ calls \in 0 .. MaxCalls
  BY SignInAssumption DEF Init
<1>5. /\ unlock \in [Ids -> {"none", "open", "used"}]
      /\ attempt \in [Ids -> {"none", "open", "expired", "success", "fail"}]
      /\ code \in [Codes -> {"unused", "used"}]
      /\ sessions \in [Ids -> Nat] /\ spent \in [Codes -> Nat]
  BY DEF Init
<1> QED
  BY <1>2, <1>3, <1>4, <1>5 DEF TypeOK

LEMMA LoginTypes ==
    ASSUME TypeOK, NEW r \in Requests,
           (\E i \in Ips : BeginLogin(r, i)) \/ ReadCounter(r) \/ RecordSuccess(r)
    PROVE  TypeOK'
<1>1. UNCHANGED <<lockout, factors, crossed>>
  BY DEF BeginLogin, ReadCounter, RecordSuccess
<1>2. \E read \in Read : Begin(r, read) \/ Continue(r, read)
  <2>1. ASSUME NEW i \in Ips, BeginLogin(r, i)
        PROVE  \E read \in Read : Begin(r, read) \/ Continue(r, read)
    <3>1. calls + 1 \in Ids
      BY <2>1, SignInAssumption DEF BeginLogin, Begin, TypeOK, Ids
    <3>2. [op |-> "login", ip |-> i, made |-> calls + 1] \in Read
      BY <3>1 DEF Read
    <3> QED
      BY <2>1, <3>2 DEF BeginLogin
  <2>2. CASE ReadCounter(r)
    <3> DEFINE q == request[r]
    <3>1. q.ip \in Ips /\ q.made \in Ids
      BY <2>2, Shapes DEF ReadCounter
    <3>2. lock[q.ip] \in Row /\ now \in 1 .. MaxNow
      BY <3>1 DEF TypeOK
    <3>3. [op |-> "count", ip |-> q.ip, made |-> q.made, at |-> now, row |-> lock[q.ip]] \in Read
      BY <3>1, <3>2 DEF Read
    <3> QED
      BY <2>2, <3>3 DEF ReadCounter
  <2>3. CASE RecordSuccess(r)
    <3> DEFINE q == request[r]
    <3>1. q.ip \in Ips /\ q.made \in Ids
      BY <2>3, Shapes DEF RecordSuccess
    <3>2. lock[q.ip] \in Row
      BY <3>1 DEF TypeOK
    <3>3. {lock[q.ip].made} \in SUBSET (0 .. MaxCalls) /\ Calm(q.ip) \in BOOLEAN
      BY <3>2 DEF Row, Calm
    <3>4. [op |-> "clear", why |-> "success", made |-> q.made,
           rows |-> {lock[q.ip].made}, calm |-> Calm(q.ip)] \in Read
      BY <3>1, <3>3 DEF Read
    <3> QED
      BY <2>3, <3>4 DEF RecordSuccess
  <2> QED
    BY <2>1, <2>2, <2>3
<1>3. request' \in [Requests -> Read] /\ now' = now /\ calls' \in 0 .. MaxCalls
  BY <1>2, Continues
<1> QED
  BY <1>1, <1>3 DEF TypeOK, lockout, factors

LEMMA BeginTypes ==
    ASSUME TypeOK, NEW r \in Requests,
           \/ \E n \in Ids : BeginUnlock(r, n) \/ BeginVerify(r, n)
           \/ \E n \in Ids, c \in Codes : BeginRecovery(r, n, c)
           \/ ClaimUnlock(r) \/ ForceUnlock(r) \/ Fail(r)
    PROVE  TypeOK'
<1>1. UNCHANGED <<lockout, factors, crossed>>
  BY DEF BeginUnlock, ClaimUnlock, ForceUnlock, BeginVerify, BeginRecovery, Fail
<1>2. {lock[i].made : i \in Ips} \in SUBSET (0 .. MaxCalls)
  BY DEF TypeOK, Row
<1>3. \E read \in Read : Begin(r, read) \/ Continue(r, read)
  <2>1. ASSUME NEW n \in Ids, BeginUnlock(r, n)
        PROVE  \E read \in Read : Begin(r, read) \/ Continue(r, read)
    <3>1. [op |-> "unlock", token |-> n] \in Read
      BY DEF Read
    <3> QED
      BY <2>1, <3>1 DEF BeginUnlock
  <2>2. CASE ClaimUnlock(r)
    <3>1. request[r].token \in 0 .. MaxCalls
      BY <2>2, Shapes, SignInAssumption DEF ClaimUnlock, Ids
    <3>2. [op |-> "clear", why |-> "unlock", token |-> request[r].token,
           rows |-> {lock[i].made : i \in Ips}] \in Read
      BY <1>2, <3>1 DEF Read
    <3> QED
      BY <2>2, <3>2 DEF ClaimUnlock
  <2>3. CASE ForceUnlock(r)
    <3>1. 0 \in 0 .. MaxCalls
      BY SignInAssumption
    <3>2. [op |-> "clear", why |-> "force", token |-> 0, rows |-> {lock[i].made : i \in Ips}] \in Read
      BY <1>2, <3>1 DEF Read
    <3> QED
      BY <2>3, <3>2 DEF ForceUnlock
  <2>4. ASSUME NEW n \in Ids, BeginVerify(r, n)
        PROVE  \E read \in Read : Begin(r, read) \/ Continue(r, read)
    <3>1. [op |-> "verify", attempt |-> n] \in Read
      BY DEF Read
    <3> QED
      BY <2>4, <3>1 DEF BeginVerify
  <2>5. ASSUME NEW n \in Ids, NEW c \in Codes, BeginRecovery(r, n, c)
        PROVE  \E read \in Read : Begin(r, read) \/ Continue(r, read)
    <3>1. [op |-> "recover", attempt |-> n, code |-> c] \in Read
      BY DEF Read
    <3> QED
      BY <2>5, <3>1 DEF BeginRecovery
  <2>6. CASE Fail(r)
    BY <2>6, IdleRead DEF Fail, Done
  <2> QED
    BY <2>1, <2>2, <2>3, <2>4, <2>5, <2>6
<1>4. request' \in [Requests -> Read] /\ now' = now /\ calls' \in 0 .. MaxCalls
  BY <1>3, Continues
<1> QED
  BY <1>1, <1>4 DEF TypeOK, lockout, factors

LEMMA DoneTypes ==
    ASSUME TypeOK, NEW r \in Requests, Done(r)
    PROVE  /\ request' \in [Requests -> Read] /\ now' \in 1 .. MaxNow /\ calls' \in 0 .. MaxCalls
           /\ request' = [request EXCEPT ![r] = Idle]
  BY Continues, IdleRead DEF Done, Continue, TypeOK

LEMMA WriteTypes ==
    ASSUME TypeOK, NEW r \in Requests,
           ResetCounter(r) \/ CountFailure(r) \/ CommitSuccess(r) \/ CommitUnlock(r)
    PROVE  TypeOK'
<1> DEFINE q == request[r]
<1>1. request' \in [Requests -> Read] /\ now' \in 1 .. MaxNow /\ calls' \in 0 .. MaxCalls
  BY DoneTypes DEF ResetCounter, CountFailure, CommitSuccess, CommitUnlock
<1>2. CASE ResetCounter(r)
  <2>1. q.ip \in Ips /\ q.at \in 1 .. MaxNow /\ q.row \in Row
    BY <1>2, Shapes DEF ResetCounter
  <2> DEFINE new == [made |-> q.row.made, count |-> 1, first |-> q.at, until |-> 0]
  <2>2. q.row.made # 0
    BY <1>2, <2>1 DEF ResetCounter, Passed, Row
  <2>3. new \in Row
    BY <2>1, <2>2 DEF Row
  <2>4. lock' = lock \/ lock' = [lock EXCEPT ![q.ip] = new]
    BY <1>2 DEF ResetCounter
  <2> HIDE DEF new
  <2>6. lock' \in [Ips -> Row]
    BY <2>1, <2>3, <2>4 DEF TypeOK
  <2> QED
    BY <1>1, <1>2, <2>6 DEF ResetCounter, factors, TypeOK
<1>3. CASE CountFailure(r)
  <2>1. lock' \in [Ips -> Row]
    BY <1>3, LockAfter
  <2>2. q.at \in 1 .. MaxNow /\ q.made \in Ids
    BY <1>3, Shapes DEF CountFailure
  <2>3. emailed' \in 0 .. MaxNow /\ flag' \in BOOLEAN /\ crossed' \in BOOLEAN
    BY <1>3, <2>2 DEF CountFailure, TypeOK
  <2>4. unlock' \in [Ids -> {"none", "open", "used"}]
    BY <1>3, <2>2 DEF CountFailure, TypeOK
  <2> QED
    BY <1>1, <1>3, <2>1, <2>3, <2>4 DEF CountFailure, factors, TypeOK
<1>4. CASE CommitSuccess(r) \/ CommitUnlock(r)
  <2>1. NoRow \in Row /\ NoRow.made = 0
    BY SignInAssumption DEF NoRow, Row
  <2>2. lock' \in [Ips -> Row]
    BY <1>4, <2>1 DEF CommitSuccess, CommitUnlock, Clear, TypeOK
  <2>3. crossed' = crossed /\ (emailed' = emailed \/ emailed' = 0)
    BY <1>4 DEF CommitSuccess, CommitUnlock
  <2>5. emailed' \in 0 .. MaxNow
    BY <2>3, SignInAssumption DEF TypeOK
  <2>6. flag' \in BOOLEAN
    BY <1>4 DEF CommitSuccess, CommitUnlock, TypeOK
  <2>4. /\ unlock' \in [Ids -> {"none", "open", "used"}]
        /\ attempt' \in [Ids -> {"none", "open", "expired", "success", "fail"}]
    BY <1>4 DEF CommitSuccess, CommitUnlock, factors, TypeOK
  <2> QED
    BY <1>1, <1>4, <2>2, <2>3, <2>4, <2>5, <2>6 DEF CommitSuccess, CommitUnlock, factors, TypeOK
<1> QED
  BY <1>2, <1>3, <1>4

LEMMA FactorTypes ==
    ASSUME TypeOK, NEW r \in Requests, (\E ok \in BOOLEAN : Verify(r, ok)) \/ VerifyRecovery(r)
    PROVE  TypeOK'
<1> DEFINE q == request[r]
<1>1. request' \in [Requests -> Read] /\ now' \in 1 .. MaxNow /\ calls' \in 0 .. MaxCalls
  BY DoneTypes DEF Verify, VerifyRecovery
<1>2. UNCHANGED <<lockout, crossed>>
  BY DEF Verify, VerifyRecovery
<1>3. q.attempt \in Ids /\ (VerifyRecovery(r) => q.code \in Codes)
  BY Shapes DEF Verify, VerifyRecovery
<1>4. attempt' \in [Ids -> {"none", "open", "expired", "success", "fail"}]
  BY <1>3 DEF Verify, VerifyRecovery, TypeOK
<1>5. code' \in [Codes -> {"unused", "used"}]
  BY <1>3 DEF Verify, VerifyRecovery, TypeOK
<1>6. sessions' \in [Ids -> Nat] /\ spent' \in [Codes -> Nat]
  BY <1>3 DEF Verify, VerifyRecovery, TypeOK
<1> QED
  BY <1>1, <1>2, <1>4, <1>5, <1>6 DEF TypeOK, lockout

LEMMA TypesStep == ASSUME TypeOK, [Next]_vars PROVE TypeOK'
<1>1. CASE Tick
  BY <1>1, SignInAssumption DEF Tick, TypeOK, lockout, factors
<1>2. ASSUME NEW n \in Ids, ExpireAttempt(n) PROVE TypeOK'
  BY <1>2 DEF ExpireAttempt, TypeOK, lockout
<1>3. CASE UNCHANGED vars
  BY <1>3 DEF vars, TypeOK
<1>4. ASSUME NEW r \in Requests,
             \/ \E i \in Ips : BeginLogin(r, i)
             \/ ReadCounter(r) \/ ResetCounter(r) \/ CountFailure(r)
             \/ RecordSuccess(r) \/ CommitSuccess(r)
             \/ ForceUnlock(r) \/ ClaimUnlock(r) \/ CommitUnlock(r)
             \/ \E n \in Ids : BeginUnlock(r, n) \/ BeginVerify(r, n)
             \/ \E ok \in BOOLEAN : Verify(r, ok)
             \/ \E n \in Ids, c \in Codes : BeginRecovery(r, n, c)
             \/ VerifyRecovery(r)
             \/ Fail(r)
      PROVE  TypeOK'
  BY <1>4, LoginTypes, BeginTypes, WriteTypes, FactorTypes
<1> QED
  BY <1>1, <1>2, <1>3, <1>4 DEF Next

-----------------------------------------------------------------------------
(* Fresh numbers *)

\* A step of one request, and what it may do to the attempts.
LEMMA FreshKept ==
    ASSUME IInv, NEW r \in Requests, calls <= calls', calls' \in 0 .. MaxCalls,
           \A o \in Requests \ {r} : request'[o] = request[o],
           Carries(r)' => \/ Carries(r) /\ request'[r].made = request[r].made
                          \/ calls' = calls + 1 /\ request'[r].made = calls + 1,
           \A n \in Ids : \/ attempt'[n] = attempt[n]
                          \/ attempt[n] # "none"
                          \/ Carries(r) /\ ~Carries(r)' /\ n = request[r].made
    PROVE  FreshInv'
<1>1. \A o \in Requests \ {r} : Carries(o)' <=> Carries(o)
  BY DEF Carries
<1>2. calls \in 0 .. MaxCalls /\ MaxCalls \in Nat
  BY SignInAssumption DEF IInv, TypeOK
<1>3. \A o \in Requests : Carries(o) => request[o].made \in Ids /\ request[o].made <= calls
  BY Shapes DEF IInv, FreshInv, Carries
<1>4. ASSUME NEW n \in Ids, n > calls PROVE attempt'[n] = "none"
  BY <1>2, <1>3, <1>4 DEF IInv, FreshInv, Ids
<1>5. \A n \in Ids : n > calls' => n > calls
  BY <1>2 DEF Ids
<1>6. ASSUME NEW o \in Requests \ {r}, Carries(o)'
      PROVE  request'[o].made <= calls' /\ attempt'[request'[o].made] = "none"
  <2> DEFINE n == request[o].made
  <2>1. Carries(o) /\ request'[o].made = n /\ n \in Ids /\ n <= calls /\ attempt[n] = "none"
    BY <1>1, <1>3, <1>6 DEF IInv, FreshInv
  <2>2. Carries(r) => n # request[r].made
    BY <2>1 DEF IInv, FreshInv
  <2>3. attempt'[n] = "none"
    BY <2>1, <2>2
  <2> QED
    BY <1>2, <2>1, <2>3 DEF Ids
<1>7. ASSUME Carries(r)'
      PROVE  /\ request'[r].made <= calls' /\ attempt'[request'[r].made] = "none"
             /\ \A o \in Requests \ {r} : Carries(o) => request[o].made # request'[r].made
  <2>1. CASE Carries(r) /\ request'[r].made = request[r].made
    <3>1. attempt[request[r].made] = "none" /\ request[r].made \in Ids /\ request[r].made <= calls
      BY <1>3, <2>1 DEF IInv, FreshInv
    <3>2. attempt'[request[r].made] = "none"
      BY <1>7, <3>1
    <3> QED
      BY <1>2, <2>1, <3>1, <3>2 DEF IInv, FreshInv, Ids
  <2>2. CASE calls' = calls + 1 /\ request'[r].made = calls + 1
    <3>1. calls + 1 \in Ids /\ calls + 1 > calls
      BY <1>2, <2>2 DEF Ids
    <3> QED
      BY <1>2, <1>3, <1>4, <2>2, <3>1 DEF Ids
  <2> QED
    BY <1>7, <2>1, <2>2
<1> QED
  BY <1>1, <1>4, <1>5, <1>6, <1>7 DEF IInv, FreshInv

\* The disjuncts of Next that are steps of one request.
Handler(r) ==
    \/ \E i \in Ips : BeginLogin(r, i)
    \/ ReadCounter(r) \/ ResetCounter(r) \/ CountFailure(r)
    \/ RecordSuccess(r) \/ CommitSuccess(r)
    \/ ForceUnlock(r) \/ ClaimUnlock(r) \/ CommitUnlock(r)
    \/ \E n \in Ids : BeginUnlock(r, n) \/ BeginVerify(r, n)
    \/ \E ok \in BOOLEAN : Verify(r, ok)
    \/ \E n \in Ids, c \in Codes : BeginRecovery(r, n, c)
    \/ VerifyRecovery(r)
    \/ Fail(r)

LEMMA OneRequest ==
    ASSUME IInv, NEW r \in Requests, Handler(r)
    PROVE  /\ TypeOK' /\ calls <= calls' /\ now' = now
           /\ \A o \in Requests \ {r} : request'[o] = request[o]
           /\ \E q \in Read : request' = [request EXCEPT ![r] = q]
<1>1. TypeOK'
  BY TypesStep DEF IInv, Next, Handler
<1>2. /\ calls <= calls' /\ now' = now
      /\ \E q : request' = [request EXCEPT ![r] = q]
  <2>1. calls \in Nat
    BY SignInAssumption DEF IInv, TypeOK
  <2>2. \E q : Begin(r, q) \/ Continue(r, q)
    BY DEF Handler, BeginLogin, ReadCounter, ResetCounter, CountFailure, RecordSuccess, CommitSuccess,
           ForceUnlock, ClaimUnlock, CommitUnlock, BeginUnlock, BeginVerify, Verify, BeginRecovery,
           VerifyRecovery, Fail, Done
  <2> QED
    BY <2>1, <2>2 DEF Begin, Continue
<1>3. request \in [Requests -> Read] /\ request' \in [Requests -> Read]
  BY <1>1 DEF IInv, TypeOK
<1> QED
  BY <1>1, <1>2, <1>3

LEMMA FreshHandler == ASSUME IInv, NEW r \in Requests, Handler(r) PROVE FreshInv'
<1>1. /\ calls <= calls' /\ calls' \in 0 .. MaxCalls
      /\ \A o \in Requests \ {r} : request'[o] = request[o]
      /\ DOMAIN request = Requests
  BY OneRequest DEF TypeOK, IInv
<1>2. CASE \E i \in Ips : BeginLogin(r, i)
  <2>1. request'[r].made = calls + 1 /\ calls' = calls + 1 /\ attempt' = attempt
    BY <1>1, <1>2 DEF BeginLogin, Begin, factors
  <2> QED
    BY <1>1, <2>1, FreshKept
<1>3. CASE ReadCounter(r) \/ RecordSuccess(r)
  <2>1. Carries(r) /\ request'[r].made = request[r].made /\ attempt' = attempt
    BY <1>1, <1>3 DEF ReadCounter, RecordSuccess, Continue, Carries, factors
  <2> QED
    BY <1>1, <2>1, FreshKept
<1>4. CASE \/ ForceUnlock(r) \/ ClaimUnlock(r)
           \/ \E n \in Ids : BeginUnlock(r, n) \/ BeginVerify(r, n)
           \/ \E n \in Ids, c \in Codes : BeginRecovery(r, n, c)
  <2>1. attempt' = attempt
    BY <1>4 DEF ForceUnlock, ClaimUnlock, BeginUnlock, BeginVerify, BeginRecovery, factors
  <2>2. ~Carries(r)'
    BY <1>1, <1>4 DEF ForceUnlock, ClaimUnlock, BeginUnlock, BeginVerify, BeginRecovery,
       Begin, Continue, Carries
  <2> QED
    BY <1>1, <2>1, <2>2, FreshKept
<1>5. CASE \/ ResetCounter(r) \/ CountFailure(r) \/ CommitSuccess(r) \/ CommitUnlock(r)
           \/ (\E ok \in BOOLEAN : Verify(r, ok)) \/ VerifyRecovery(r) \/ Fail(r)
  <2>1. Done(r)
    BY <1>5 DEF ResetCounter, CountFailure, CommitSuccess, CommitUnlock, Verify, VerifyRecovery, Fail
  <2>2. ~Carries(r)'
    BY <1>1, <2>1 DEF Done, Continue, Idle, Carries
  <2>3. \A n \in Ids : \/ attempt'[n] = attempt[n]
                       \/ attempt[n] # "none"
                       \/ Carries(r) /\ n = request[r].made
    <3>1. CASE CommitSuccess(r)
      <4>1. Carries(r)
        BY <3>1 DEF CommitSuccess, Carries
      <4>2. \A n \in Ids : n # request[r].made => attempt'[n] = attempt[n]
        BY <3>1 DEF CommitSuccess, IInv, TypeOK
      <4> QED
        BY <4>1, <4>2
    <3>2. CASE (\E ok \in BOOLEAN : Verify(r, ok)) \/ VerifyRecovery(r)
      <4>1. \A n \in Ids : attempt'[n] = attempt[n] \/ (n = request[r].attempt /\ Unclaimed(n))
        BY <3>2 DEF Verify, VerifyRecovery, IInv, TypeOK
      <4> QED
        BY <4>1 DEF Unclaimed
    <3>3. CASE ResetCounter(r) \/ CountFailure(r) \/ CommitUnlock(r) \/ Fail(r)
      BY <3>3 DEF ResetCounter, CountFailure, CommitUnlock, Fail, factors
    <3> QED
      BY <1>5, <3>1, <3>2, <3>3
  <2> QED
    BY <1>1, <2>2, <2>3, FreshKept
<1> QED
  BY <1>2, <1>3, <1>4, <1>5 DEF Handler

LEMMA FreshStep == ASSUME IInv, [Next]_vars PROVE FreshInv'
<1>1. CASE Tick \/ UNCHANGED vars
  BY <1>1 DEF Tick, vars, factors, IInv, FreshInv, Carries
<1>2. ASSUME NEW n \in Ids, ExpireAttempt(n) PROVE FreshInv'
  <2>1. UNCHANGED <<request, calls>> /\ \A m \in Ids : attempt[m] = "none" => attempt'[m] = "none"
    BY <1>2 DEF ExpireAttempt, IInv, TypeOK
  <2>2. \A r \in Requests : Carries(r) => request[r].made \in Ids
    BY Shapes DEF IInv, Carries
  <2> QED
    BY <2>1, <2>2 DEF IInv, FreshInv, Carries
<1> QED
  BY <1>1, <1>2, FreshHandler DEF Next, Handler

-----------------------------------------------------------------------------
(* The second factor *)

LEMMA FactorStep == ASSUME IInv, [Next]_vars PROVE SecondFactorOnce'
<1> USE DEF SecondFactorOnce
<1>0. /\ attempt \in [Ids -> {"none", "open", "expired", "success", "fail"}]
      /\ code \in [Codes -> {"unused", "used"}]
      /\ sessions \in [Ids -> Nat] /\ spent \in [Codes -> Nat]
      /\ SecondFactorOnce
  BY DEF IInv, TypeOK
<1>1. CASE UNCHANGED factors
  BY <1>0, <1>1 DEF factors
<1>2. ASSUME NEW n \in Ids, ExpireAttempt(n) PROVE SecondFactorOnce'
  BY <1>0, <1>2 DEF ExpireAttempt
<1>3. ASSUME NEW r \in Requests, CommitSuccess(r) PROVE SecondFactorOnce'
  <2>1. request[r].made \in Ids /\ attempt[request[r].made] = "none"
    BY <1>3, Shapes DEF CommitSuccess, IInv, FreshInv, Carries
  <2>2. UNCHANGED <<code, sessions, spent>> /\ \A n \in Ids : attempt'[n] = "success" <=> attempt[n] = "success"
    BY <1>0, <1>3, <2>1 DEF CommitSuccess
  <2> QED
    BY <1>0, <2>2
<1>4. ASSUME NEW r \in Requests, NEW ok \in BOOLEAN, Verify(r, ok) PROVE SecondFactorOnce'
  <2> DEFINE n == request[r].attempt
  <2>1. n \in Ids /\ attempt[n] # "success" /\ sessions[n] = 0
    BY <1>0, <1>4, Shapes DEF Verify, Unclaimed, IInv
  <2>2. /\ UNCHANGED <<code, spent>>
        /\ attempt' = [attempt EXCEPT ![n] = IF ok THEN "success" ELSE "fail"]
        /\ sessions' = [sessions EXCEPT ![n] = IF ok THEN sessions[n] + 1 ELSE sessions[n]]
    BY <1>4 DEF Verify
  <2> HIDE DEF n
  <2> QED
    BY <1>0, <2>1, <2>2
<1>5. ASSUME NEW r \in Requests, VerifyRecovery(r) PROVE SecondFactorOnce'
  <2> DEFINE n == request[r].attempt  c == request[r].code  ok == code[c] = "unused"
             opens == ok /\ Unclaimed(n)
  <2>1. n \in Ids /\ c \in Codes /\ (Unclaimed(n) => attempt[n] # "success" /\ sessions[n] = 0)
    BY <1>0, <1>5, Shapes DEF VerifyRecovery, Unclaimed, IInv
  <2>2. ok => spent[c] = 0
    BY <1>0, <2>1
  <2>3. /\ code' = [code EXCEPT ![c] = "used"]
        /\ attempt' = [attempt EXCEPT ![n] =
              IF Unclaimed(n) THEN (IF ok THEN "success" ELSE "fail") ELSE attempt[n]]
        /\ sessions' = [sessions EXCEPT ![n] = IF opens THEN sessions[n] + 1 ELSE sessions[n]]
        /\ spent' = [spent EXCEPT ![c] = IF opens THEN spent[c] + 1 ELSE spent[c]]
    BY <1>5 DEF VerifyRecovery
  <2> HIDE DEF n, c
  <2>4. \A m \in Ids : sessions'[m] = IF attempt'[m] = "success" THEN 1 ELSE 0
    BY <1>0, <2>1, <2>3
  <2>5. \A d \in Codes : spent'[d] <= 1 /\ (spent'[d] = 1 => code'[d] = "used")
    BY <1>0, <2>1, <2>2, <2>3
  <2> QED
    BY <2>4, <2>5
<1>6. ASSUME NEW r \in Requests, Handler(r), ~UNCHANGED factors
      PROVE  CommitSuccess(r) \/ (\E ok \in BOOLEAN : Verify(r, ok)) \/ VerifyRecovery(r)
  BY <1>6 DEF Handler, BeginLogin, ReadCounter, ResetCounter, CountFailure, RecordSuccess,
     ForceUnlock, ClaimUnlock, CommitUnlock, BeginUnlock, BeginVerify, BeginRecovery, Fail
<1>7. Tick \/ UNCHANGED vars => UNCHANGED factors
  BY DEF Tick, vars, factors
<1> QED
  BY <1>1, <1>2, <1>3, <1>4, <1>5, <1>6, <1>7 DEF Next, Handler

-----------------------------------------------------------------------------
(* The counter *)

LEMMA StaleSizes ==
    ASSUME NEW i, NEW r \in Requests
    PROVE  /\ Cardinality(Requests) \in Nat /\ Cardinality(Stale(i)) \in Nat /\ Cardinality(Stale(i)') \in Nat
           /\ Cardinality(Stale(i)') <= Cardinality(Requests)
           /\ Stale(i)' \subseteq Stale(i) => Cardinality(Stale(i)') <= Cardinality(Stale(i))
           /\ r \notin Stale(i)' => Cardinality(Stale(i)') <= Cardinality(Requests) - 1
           /\ r \in Stale(i) /\ r \notin Stale(i)' /\ Stale(i)' \subseteq Stale(i) =>
                 Cardinality(Stale(i)') <= Cardinality(Stale(i)) - 1
<1> DEFINE S == Stale(i)  T == Stale(i)'
<1>1. IsFiniteSet(Requests) /\ S \subseteq Requests /\ T \subseteq Requests
  BY SignInAssumption DEF Stale
<1> HIDE DEF S, T
<1>2. IsFiniteSet(S) /\ IsFiniteSet(T) /\ Cardinality(T) <= Cardinality(Requests)
  BY <1>1, FS_Subset
<1>3. Cardinality(Requests) \in Nat /\ Cardinality(S) \in Nat /\ Cardinality(T) \in Nat
  BY <1>1, <1>2, FS_CardinalityType
<1>4. T \subseteq S => Cardinality(T) <= Cardinality(S)
  BY <1>2, FS_Subset
<1>5. ASSUME NEW U, IsFiniteSet(U), T \subseteq U, r \in U, r \notin T
      PROVE  Cardinality(T) <= Cardinality(U) - 1
  <2>1. IsFiniteSet(U \ {r}) /\ Cardinality(U \ {r}) = Cardinality(U) - 1
    BY <1>5, FS_RemoveElement
  <2>2. T \in SUBSET (U \ {r})
    BY <1>5
  <2>3. Cardinality(T) <= Cardinality(U \ {r})
    BY <2>1, <2>2, FS_Subset
  <2> QED
    BY <2>1, <2>3
<1>6. r \notin T => Cardinality(T) <= Cardinality(Requests) - 1
  BY <1>1, <1>5
<1>7. r \in S /\ r \notin T /\ T \subseteq S => Cardinality(T) <= Cardinality(S) - 1
  BY <1>2, <1>5
<1> QED
  BY <1>2, <1>3, <1>4, <1>6, <1>7 DEF S, T

\* A step that counts nothing and reads no counter.
LEMMA CountKept ==
    ASSUME IInv, \A i \in Ips : lock'[i] = lock[i] \/ lock'[i] = NoRow,
           \A i \in Ips : Stale(i)' \subseteq Stale(i)
    PROVE  CountInv'
<1> SUFFICES ASSUME NEW i \in Ips, lock'[i].until = 0
             PROVE  lock'[i].count + Cardinality(Stale(i)') <= FailureThreshold - 1 + Cardinality(Requests)
  BY DEF CountInv
<1>1. lock[i].count \in Nat /\ FailureThreshold \in Nat \ {0}
  BY SignInAssumption DEF IInv, TypeOK, Row
<1>2. Stale(i)' \subseteq Stale(i)
  OBVIOUS
<1>3. CASE Requests = {}
  <2>1. Stale(i) = {} /\ Stale(i)' = {}
    BY <1>3 DEF Stale
  <2>2. Cardinality(Stale(i)) = Cardinality(Stale(i)') /\ Cardinality(Stale(i)') = 0 /\ Cardinality(Requests) = 0
    BY <1>3, <2>1, FS_EmptySet
  <2> QED
    BY <1>1, <2>2 DEF IInv, CountInv, NoRow
<1>4. CASE Requests # {}
  <2>1. PICK r \in Requests : TRUE
    BY <1>4
  <2>2. /\ Cardinality(Requests) \in Nat /\ Cardinality(Stale(i)) \in Nat /\ Cardinality(Stale(i)') \in Nat
        /\ Cardinality(Stale(i)') <= Cardinality(Requests)
        /\ Cardinality(Stale(i)') <= Cardinality(Stale(i))
    BY <1>2, StaleSizes
  <2>3. CASE lock'[i] = lock[i]
    <3>1. lock[i].count + Cardinality(Stale(i)) <= FailureThreshold - 1 + Cardinality(Requests)
      BY <2>3 DEF IInv, CountInv
    <3> QED
      BY <1>1, <2>2, <2>3, <3>1
  <2>4. CASE lock'[i] = NoRow
    BY <1>1, <2>2, <2>4 DEF NoRow
  <2> QED
    BY <2>3, <2>4
<1> QED
  BY <1>3, <1>4

LEMMA ReadCounterCount == ASSUME IInv, NEW r \in Requests, ReadCounter(r) PROVE CountInv'
<1> DEFINE i == request[r].ip
<1>1. /\ lock' = lock /\ i \in Ips /\ lock[i] \in Row
      /\ \A o \in Requests \ {r} : request'[o] = request[o]
      /\ request'[r].op = "count" /\ request'[r].ip = i /\ request'[r].row = lock[i]
  BY Shapes DEF ReadCounter, Continue, lockout, IInv, TypeOK
<1> SUFFICES ASSUME NEW j \in Ips, lock[j].until = 0
             PROVE  lock[j].count + Cardinality(Stale(j)') <= FailureThreshold - 1 + Cardinality(Requests)
  BY <1>1 DEF CountInv
<1>2. lock[j].count \in Nat /\ FailureThreshold \in Nat \ {0}
  BY SignInAssumption DEF IInv, TypeOK, Row
<1>3. /\ Cardinality(Requests) \in Nat /\ Cardinality(Stale(j)) \in Nat /\ Cardinality(Stale(j)') \in Nat
      /\ Cardinality(Stale(j)') <= Cardinality(Requests)
      /\ Stale(j)' \subseteq Stale(j) => Cardinality(Stale(j)') <= Cardinality(Stale(j))
  BY StaleSizes
<1>4. CASE j = i /\ lock[j].count < FailureThreshold
  BY <1>2, <1>3, <1>4
<1>5. CASE j # i \/ lock[j].count >= FailureThreshold
  <2>1. r \notin Stale(j)'
    BY <1>1, <1>2, <1>5 DEF Stale
  <2>2. Stale(j)' \subseteq Stale(j)
    BY <1>1, <2>1 DEF Stale
  <2>3. lock[j].count + Cardinality(Stale(j)) <= FailureThreshold - 1 + Cardinality(Requests)
    BY DEF IInv, CountInv
  <2> QED
    BY <1>2, <1>3, <2>2, <2>3
<1> QED
  BY <1>2, <1>4, <1>5

LEMMA WritesCount ==
    ASSUME IInv, NEW r \in Requests, ResetCounter(r) \/ CountFailure(r)
    PROVE  CountInv'
<1> DEFINE q == request[r]
<1>0. q.op = "count" /\ q.ip \in Ips /\ q.row \in Row
  BY Shapes DEF ResetCounter, CountFailure, IInv
<1> SUFFICES ASSUME NEW i \in Ips, i = q.ip PROVE CountInv'
  BY <1>0
<1>1. /\ \A o \in Requests \ {r} : request'[o] = request[o]
      /\ request'[r].op = "idle" /\ q.op = "count" /\ i \in Ips /\ q.row \in Row
  BY <1>0 DEF ResetCounter, CountFailure, Done, Continue, Idle, IInv, TypeOK
<1>2. \A j \in Ips : Stale(j)' \subseteq Stale(j) /\ r \notin Stale(j)'
  BY <1>1 DEF Stale
<1>3. \A j \in Ips \ {i} : lock'[j] = lock[j]
  BY LockAfter DEF ResetCounter, IInv, TypeOK
<1>4. /\ lock[i].count \in Nat /\ FailureThreshold \in Nat \ {0} /\ q.row.count \in Nat
      /\ Cardinality(Requests) \in Nat /\ Cardinality(Stale(i)) \in Nat /\ Cardinality(Stale(i)') \in Nat
      /\ Cardinality(Stale(i)') <= Cardinality(Stale(i))
      /\ Cardinality(Stale(i)') <= Cardinality(Requests) - 1
      /\ r \in Stale(i) => Cardinality(Stale(i)') <= Cardinality(Stale(i)) - 1
  <2>1. Stale(i)' \subseteq Stale(i) /\ r \notin Stale(i)'
    BY <1>1, <1>2
  <2>2. /\ Cardinality(Requests) \in Nat /\ Cardinality(Stale(i)) \in Nat /\ Cardinality(Stale(i)') \in Nat
        /\ Cardinality(Stale(i)') <= Cardinality(Stale(i))
        /\ Cardinality(Stale(i)') <= Cardinality(Requests) - 1
        /\ r \in Stale(i) => Cardinality(Stale(i)') <= Cardinality(Stale(i)) - 1
    BY <2>1, StaleSizes
  <2>3. lock[i] \in Row
    BY <1>1 DEF IInv, TypeOK
  <2>4. lock[i].count \in Nat /\ FailureThreshold \in Nat \ {0} /\ q.row.count \in Nat
    BY <1>1, <2>3, SignInAssumption DEF Row
  <2> QED
    BY <2>2, <2>4
<1>5. lock[i].until = 0 => lock[i].count + Cardinality(Stale(i)) <= FailureThreshold - 1 + Cardinality(Requests)
  BY <1>1 DEF IInv, CountInv
<1>6. lock'[i].until = 0 =>
          \/ lock'[i] = lock[i]
          \/ lock'[i].count = 1
          \/ lock'[i].count \in Nat /\ lock'[i].count < FailureThreshold
          \/ lock'[i].count = lock[i].count + 1 /\ lock[i].until = 0 /\ r \in Stale(i)
  <2>1. CASE ResetCounter(r)
    BY <1>1, <2>1 DEF ResetCounter, IInv, TypeOK
  <2>2. CASE CountFailure(r) /\ lock'[i].until = 0
    <3>1. /\ lock'[i].count = Counted(q).count /\ ~Crosses(ReadBack(q))
          /\ lock'[i].until = Counted(q).until
      BY <2>2, LockAfter DEF IInv
    <3>2. /\ Counted(q) \in Row
          /\ \/ Counted(q).count = 1
             \/ Counted(q).count = lock[i].count + 1 /\ Counted(q).until = lock[i].until
      BY <1>1, CountedRow DEF IInv
    <3>3. CASE q.row.made = Counted(q).made
      <4>1. q.row.count < FailureThreshold \/ q.row.until # 0
        BY <1>4, <3>1, <3>3 DEF ReadBack, Crosses
      <4>2. r \in Stale(i)
        BY <1>1, <4>1 DEF Stale
      <4> QED
        BY <2>2, <3>1, <3>2, <4>2
    <3>4. CASE q.row.made # Counted(q).made
      <4>1. Counted(q).count < FailureThreshold /\ Counted(q).count \in Nat
        BY <1>4, <2>2, <3>1, <3>2, <3>4 DEF ReadBack, Crosses, Row
      <4> QED
        BY <3>1, <4>1
    <3> QED
      BY <3>3, <3>4
  <2> QED
    BY <2>1, <2>2
<1>7. lock'[i].until = 0 =>
          lock'[i].count + Cardinality(Stale(i)') <= FailureThreshold - 1 + Cardinality(Requests)
  BY <1>4, <1>5, <1>6
<1>8. \A j \in Ips \ {i} : lock[j].until = 0 =>
          lock[j].count + Cardinality(Stale(j)') <= FailureThreshold - 1 + Cardinality(Requests)
  <2> SUFFICES ASSUME NEW j \in Ips \ {i}, lock[j].until = 0
               PROVE  lock[j].count + Cardinality(Stale(j)') <= FailureThreshold - 1 + Cardinality(Requests)
    OBVIOUS
  <2>1. lock[j].count + Cardinality(Stale(j)) <= FailureThreshold - 1 + Cardinality(Requests)
    BY DEF IInv, CountInv
  <2>2. /\ Cardinality(Stale(j)) \in Nat /\ Cardinality(Stale(j)') \in Nat
        /\ Cardinality(Stale(j)') <= Cardinality(Stale(j))
    BY <1>2, StaleSizes
  <2>3. lock[j].count \in Nat
    BY DEF IInv, TypeOK, Row
  <2> QED
    BY <1>4, <2>1, <2>2, <2>3
<1> QED
  BY <1>1, <1>3, <1>7, <1>8 DEF CountInv

LEMMA CountStep == ASSUME IInv, [Next]_vars PROVE CountInv'
<1>1. CASE Tick \/ UNCHANGED vars \/ \E n \in Ids : ExpireAttempt(n)
  <2>1. UNCHANGED <<lock, request>>
    BY <1>1 DEF Tick, vars, lockout, ExpireAttempt
  <2>2. \A i \in Ips : Stale(i)' \subseteq Stale(i)
    BY <2>1 DEF Stale
  <2> QED
    BY <2>1, <2>2, CountKept
<1>2. ASSUME NEW r \in Requests, Handler(r), ~ReadCounter(r), ~ResetCounter(r), ~CountFailure(r)
      PROVE  CountInv'
  <2>1. \A i \in Ips : lock'[i] = lock[i] \/ lock'[i] = NoRow
    BY <1>2 DEF Handler, BeginLogin, RecordSuccess, CommitSuccess, ForceUnlock, ClaimUnlock, CommitUnlock,
       BeginUnlock, BeginVerify, Verify, BeginRecovery, VerifyRecovery, Fail, Clear, lockout
  <2>2. request'[r].op # "count" /\ \A o \in Requests \ {r} : request'[o] = request[o]
    <3>1. \E q : q.op # "count" /\ (Begin(r, q) \/ Continue(r, q))
      BY <1>2 DEF Handler, BeginLogin, RecordSuccess, CommitSuccess, ForceUnlock, ClaimUnlock,
         CommitUnlock, BeginUnlock, BeginVerify, Verify, BeginRecovery, VerifyRecovery, Fail, Done, Idle
    <3>2. request \in [Requests -> Read]
      BY DEF IInv, TypeOK
    <3>3. request'[r].op # "count"
      BY <3>1, <3>2 DEF Begin, Continue
    <3> QED
      BY <1>2, <3>3, OneRequest
  <2>3. \A i \in Ips : Stale(i)' \subseteq Stale(i)
    BY <2>2 DEF Stale
  <2> QED
    BY <2>1, <2>3, CountKept
<1>3. \A r \in Requests : Handler(r) => CountInv'
  BY <1>2, ReadCounterCount, WritesCount
<1>4. Next => Tick \/ (\E n \in Ids : ExpireAttempt(n)) \/ \E r \in Requests : Handler(r)
  BY DEF Next, Handler
<1> QED
  BY <1>1, <1>3, <1>4

-----------------------------------------------------------------------------
(* Locks and what is told of them *)

\* A step that sets no lock and starts no sweep.
LEMMA AnnounceKept ==
    ASSUME IInv, UNCHANGED <<flag, emailed, unlock, crossed>>, now \in Nat, now' \in Nat, now <= now',
           \A i \in Ips : lock'[i] = lock[i] \/ lock'[i].until = 0
                          \/ (lock'[i].made = lock[i].made /\ lock'[i].until = lock[i].until),
           \A r \in Requests : Sweeps(r)' => Sweeps(r) /\ request'[r].rows = request[r].rows
    PROVE  AnnounceInv'
<1>1. \A i \in Ips : Locked(i)' => Locked(i) /\ lock'[i].made = lock[i].made
  <2> SUFFICES ASSUME NEW i \in Ips, Locked(i)' PROVE Locked(i) /\ lock'[i].made = lock[i].made
    OBVIOUS
  <2>1. lock'[i].until > now'
    BY DEF Locked
  <2>2. lock'[i].until = lock[i].until /\ lock'[i].made = lock[i].made
    BY <2>1
  <2>3. lock[i].until \in Nat
    BY DEF IInv, TypeOK, Row
  <2> QED
    BY <2>1, <2>2, <2>3 DEF Locked
<1> QED
  BY <1>1 DEF IInv, AnnounceInv

LEMMA ClearingRows ==
    ASSUME IInv, NEW r \in Requests, CommitSuccess(r) \/ CommitUnlock(r)
    PROVE  AnnounceInv'
<1> DEFINE q == request[r]
<1>1. /\ q.op = "clear" /\ Clear(q.rows) /\ crossed' = crossed
      /\ now' = now /\ now \in Nat
      /\ request'[r].op = "idle"
      /\ \A o \in Requests \ {r} : request'[o] = request[o]
  BY DEF CommitSuccess, CommitUnlock, Done, Continue, Idle, IInv, TypeOK
<1>2. \A i \in Ips : Locked(i)' => Locked(i) /\ lock'[i] = lock[i] /\ lock[i].made \notin q.rows
  BY <1>1 DEF Clear, Locked, NoRow
<1>3. \A o \in Requests : Sweeps(o)' => Sweeps(o) /\ request'[o].rows = request[o].rows
  BY <1>1 DEF Sweeps
<1>4. CASE CommitSuccess(r)
  <2>1. /\ flag' = (flag /\ ~q.calm) /\ UNCHANGED <<emailed, unlock>> /\ q.why = "success"
    BY <1>4 DEF CommitSuccess
  <2>2. q.calm \in BOOLEAN
    BY <1>1, <2>1, Shapes DEF IInv
  <2>3. ~crossed /\ q.calm => ~\E i \in Ips : Locked(i)'
    BY <1>1, <1>2, <2>1 DEF IInv, AnnounceInv, Sweeps
  <2> QED
    BY <1>1, <1>2, <1>3, <2>1, <2>2, <2>3 DEF IInv, AnnounceInv
<1>5. CASE CommitUnlock(r)
  <2>1. emailed' = 0 /\ q.why \in {"unlock", "force"}
    BY <1>5 DEF CommitUnlock
  <2>2. ~crossed => ~\E i \in Ips : Locked(i)'
    BY <1>1, <1>2, <2>1 DEF IInv, AnnounceInv, Sweeps
  <2> QED
    BY <1>1, <1>2, <1>3, <2>1, <2>2 DEF IInv, AnnounceInv
<1> QED
  BY <1>4, <1>5

LEMMA StartingSweeps ==
    ASSUME IInv, NEW r \in Requests, RecordSuccess(r) \/ ClaimUnlock(r) \/ ForceUnlock(r)
    PROVE  AnnounceInv'
<1>1. /\ UNCHANGED <<lock, flag, emailed, unlock, crossed>> /\ now' = now
      /\ \A o \in Requests \ {r} : request'[o] = request[o]
      /\ request[r].op # "clear"
  BY DEF RecordSuccess, ClaimUnlock, ForceUnlock, Begin, Continue, Idle, lockout, IInv, TypeOK
<1>2. \A i \in Ips : Locked(i)' <=> Locked(i)
  BY <1>1 DEF Locked
<1>3. Sweeps(r)' => \A i \in Ips : Locked(i) => lock[i].made \in request'[r].rows
  <2>1. CASE RecordSuccess(r)
    <3>1. request'[r].calm = Calm(request[r].ip) /\ request'[r].rows = {lock[request[r].ip].made}
          /\ request'[r].why = "success"
      BY <2>1 DEF RecordSuccess, Continue, IInv, TypeOK
    <3> QED
      BY <3>1 DEF Sweeps, Calm
  <2>2. CASE ClaimUnlock(r) \/ ForceUnlock(r)
    <3>1. request'[r].rows = {lock[i].made : i \in Ips}
      BY <2>2 DEF ClaimUnlock, ForceUnlock, Begin, Continue, IInv, TypeOK
    <3> QED
      BY <3>1
  <2> QED
    BY <2>1, <2>2
<1>4. \A o \in Requests \ {r} : (Sweeps(o)' <=> Sweeps(o)) /\ request'[o].rows = request[o].rows
  BY <1>1 DEF Sweeps
<1> QED
  BY <1>1, <1>2, <1>3, <1>4 DEF IInv, AnnounceInv

LEMMA Locking == ASSUME IInv, NEW r \in Requests, CountFailure(r) PROVE AnnounceInv'
<1> DEFINE q == request[r]  i == q.ip
<1>1. /\ q.op = "count" /\ i \in Ips /\ q.at \in 1 .. MaxNow /\ q.made \in Ids
      /\ now' = now /\ now \in Nat
      /\ request'[r].op = "idle" /\ \A o \in Requests \ {r} : request'[o] = request[o]
  BY Shapes DEF CountFailure, Done, Continue, Idle, IInv, TypeOK
<1>2. \A o \in Requests : Sweeps(o)' => Sweeps(o) /\ request'[o].rows = request[o].rows
  BY <1>1 DEF Sweeps
<1>3. CASE Crosses(ReadBack(q))
  <2>1. /\ flag' = TRUE
        /\ emailed' = IF Due(q) THEN q.at ELSE emailed
        /\ unlock' = IF Due(q) THEN [unlock EXCEPT ![q.made] = "open"] ELSE unlock
        /\ crossed' = (crossed \/ \E o \in Requests : request[o].op = "clear")
    BY <1>3 DEF CountFailure
  <2>2. unlock \in [Ids -> {"none", "open", "used"}]
    BY DEF IInv, TypeOK
  <2>3. CASE Due(q)
    <3>1. unlock'[q.made] = "open" /\ emailed' # 0
      BY <1>1, <2>1, <2>2, <2>3
    <3> QED
      BY <1>1, <1>2, <2>1, <3>1 DEF AnnounceInv, Sweeps
  <2>4. CASE ~Due(q)
    <3>1. emailed # 0 /\ emailed' = emailed /\ unlock' = unlock
      BY <2>1, <2>4 DEF Due
    <3> QED
      BY <1>1, <1>2, <2>1, <3>1 DEF IInv, AnnounceInv, Sweeps
  <2> QED
    BY <2>3, <2>4
<1>4. CASE ~Crosses(ReadBack(q))
  <2>1. UNCHANGED <<flag, emailed, unlock, crossed>>
    BY <1>4 DEF CountFailure, IInv, TypeOK
  <2>2. \A j \in Ips : lock'[j] = lock[j] \/ lock'[j].until = 0
                       \/ (lock'[j].made = lock[j].made /\ lock'[j].until = lock[j].until)
    <3>1. /\ \A j \in Ips \ {i} : lock'[j] = lock[j]
          /\ lock'[i].made = Counted(q).made /\ lock'[i].until = Counted(q).until
      BY <1>4, LockAfter DEF IInv
    <3>2. Counted(q).until = 0 \/ (Counted(q).until = lock[i].until /\ Counted(q).made = lock[i].made)
      BY <1>1, CountedRow DEF IInv
    <3> QED
      BY <3>1, <3>2
  <2> QED
    BY <1>1, <1>2, <2>1, <2>2, AnnounceKept
<1> QED
  BY <1>3, <1>4

LEMMA AnnounceStep == ASSUME IInv, [Next]_vars PROVE AnnounceInv'
<1>1. CASE Tick \/ UNCHANGED vars \/ \E n \in Ids : ExpireAttempt(n)
  <2>1. /\ UNCHANGED <<lock, flag, emailed, unlock, crossed, request>>
        /\ now \in Nat /\ now' \in Nat /\ now <= now'
    BY <1>1 DEF Tick, vars, lockout, ExpireAttempt, IInv, TypeOK
  <2>2. \A r \in Requests : Sweeps(r)' => Sweeps(r) /\ request'[r].rows = request[r].rows
    BY <2>1 DEF Sweeps
  <2> QED
    BY <2>1, <2>2, AnnounceKept
<1>2. ASSUME NEW r \in Requests, Handler(r), ~CountFailure(r), ~CommitSuccess(r), ~CommitUnlock(r),
             ~RecordSuccess(r), ~ClaimUnlock(r), ~ForceUnlock(r)
      PROVE  AnnounceInv'
  <2>1. /\ UNCHANGED <<flag, emailed, unlock, crossed>>
        /\ now' = now /\ now \in Nat
        /\ \A o \in Requests \ {r} : request'[o] = request[o]
    <3>1. UNCHANGED <<flag, emailed, unlock, crossed>>
      BY <1>2 DEF Handler, BeginLogin, ReadCounter, ResetCounter, BeginUnlock, BeginVerify,
         Verify, BeginRecovery, VerifyRecovery, Fail, lockout
    <3>2. now \in Nat
      BY DEF IInv, TypeOK
    <3> QED
      BY <1>2, <3>1, <3>2, OneRequest
  <2>2. request'[r].op # "clear"
    <3>1. request \in [Requests -> Read]
      BY DEF IInv, TypeOK
    <3> QED
      BY <1>2, <3>1 DEF Handler, BeginLogin, ReadCounter, ResetCounter, BeginUnlock, BeginVerify,
         Verify, BeginRecovery, VerifyRecovery, Fail, Begin, Continue, Done, Idle
  <2>3. \A i \in Ips : lock'[i] = lock[i] \/ lock'[i].until = 0
    <3>1. CASE ResetCounter(r)
      BY <3>1 DEF ResetCounter, IInv, TypeOK
    <3>2. CASE ~ResetCounter(r)
      BY <1>2, <3>2 DEF Handler, BeginLogin, ReadCounter, BeginUnlock, BeginVerify,
         Verify, BeginRecovery, VerifyRecovery, Fail, lockout
    <3> QED
      BY <3>1, <3>2
  <2>4. \A o \in Requests : Sweeps(o)' => Sweeps(o) /\ request'[o].rows = request[o].rows
    BY <2>1, <2>2 DEF Sweeps
  <2> QED
    BY <2>1, <2>3, <2>4, AnnounceKept
<1>3. \A r \in Requests : Handler(r) => AnnounceInv'
  BY <1>2, Locking, ClearingRows, StartingSweeps
<1>4. Next => Tick \/ (\E n \in Ids : ExpireAttempt(n)) \/ \E r \in Requests : Handler(r)
  BY DEF Next, Handler
<1> QED
  BY <1>1, <1>3, <1>4

-----------------------------------------------------------------------------
(* The theorems *)

LEMMA Initially == Init => IInv
<1> SUFFICES ASSUME Init PROVE IInv
  OBVIOUS
<1>1. TypeOK
  BY TypesStart
<1>2. FreshInv
  BY DEF Init, FreshInv, Carries, Idle
<1>3. SecondFactorOnce
  BY DEF Init, SecondFactorOnce
<1>4. CountInv
  <2>1. \A i \in Ips : Stale(i) = {} /\ lock[i].count = 0
    BY DEF Init, Stale, Idle, NoRow
  <2>2. Cardinality({}) = 0 /\ Cardinality(Requests) \in Nat
    BY FS_EmptySet, FS_CardinalityType, SignInAssumption
  <2>3. FailureThreshold \in Nat \ {0}
    BY SignInAssumption
  <2> SUFFICES ASSUME NEW i \in Ips
               PROVE  lock[i].count + Cardinality(Stale(i)) <= FailureThreshold - 1 + Cardinality(Requests)
    BY DEF CountInv
  <2>4. lock[i].count = 0 /\ Cardinality(Stale(i)) = 0
    BY <2>1, <2>2
  <2> QED
    BY <2>2, <2>3, <2>4
<1>5. AnnounceInv
  BY DEF Init, AnnounceInv, Sweeps, Idle, Locked, NoRow
<1> QED
  BY <1>1, <1>2, <1>3, <1>4, <1>5 DEF IInv

LEMMA Invariance == Spec => []IInv
<1>1. Init => IInv
  BY Initially
<1>2. IInv /\ [Next]_vars => IInv'
  BY TypesStep, FreshStep, FactorStep, CountStep, AnnounceStep DEF IInv
<1> QED
  BY <1>1, <1>2, PTL DEF Spec

\* Type correctness, rows in the sessions of requests included.
THEOREM TypeCorrect == Spec => []TypeOK
<1>1. IInv => TypeOK
  BY DEF IInv
<1> QED
  BY <1>1, Invariance, PTL

\* However submissions overlap, an MFA attempt and a recovery code open one
\* session at most.
THEOREM OneSession == Spec => []SecondFactorOnce
<1>1. IInv => SecondFactorOnce
  BY DEF IInv
<1> QED
  BY <1>1, Invariance, PTL

\* A counter that is not locked passes the threshold by less than the number
\* of requests that may overlap.
THEOREM BoundedFailures == Spec => []FailuresBounded
<1>1. IInv => FailuresBounded
  <2> SUFFICES ASSUME IInv, NEW i \in Ips, lock[i].until = 0
               PROVE  lock[i].count <= FailureThreshold + Cardinality(Requests) - 1
    BY DEF FailuresBounded
  <2>1. IsFiniteSet(Requests) /\ Stale(i) \in SUBSET Requests
    BY SignInAssumption DEF Stale
  <2>2. Cardinality(Requests) \in Nat /\ Cardinality(Stale(i)) \in Nat
    BY <2>1, FS_Subset, FS_CardinalityType
  <2>3. lock[i].count \in Nat /\ FailureThreshold \in Nat
    BY SignInAssumption DEF IInv, TypeOK, Row
  <2>4. lock[i].count + Cardinality(Stale(i)) <= FailureThreshold - 1 + Cardinality(Requests)
    BY DEF IInv, CountInv
  <2> QED
    BY <2>2, <2>3, <2>4
<1> QED
  BY <1>1, Invariance, PTL

\* While a lock holds the account is flagged and an unused unlock link is in
\* the mail, unless the lock was set beside a request that cleared rows.
THEOREM AnnouncedLock == Spec => []LockIsAnnounced
<1>1. IInv => LockIsAnnounced
  BY DEF IInv, AnnounceInv, LockIsAnnounced
<1> QED
  BY <1>1, Invariance, PTL
=============================================================================
