------------------------- MODULE CredentialsProofs -------------------------
(***************************************************************************)
(* Proofs about Credentials, for every set of providers, number of         *)
(* handlers in flight, number of calls and limit of wrong passwords.       *)
(***************************************************************************)
EXTENDS Credentials, TLAPS

\* What is known of a token: one that was not made has done nothing, it has
\* taken effect only if it is consumed, the last wrong password consumes it
\* before it does, and the link it gives is one.
TokenInv(n) ==
    /\ n > calls => token[n].kind = "none"
    /\ token[n].kind = "none" => uses[n] = 0
    /\ token[n].kind \in {"link", "switch"} => token[n].target \in Providers
    /\ token[n].failed = Strikes => token[n].consumed
    /\ token[n].kind # "email" =>
          /\ uses[n] <= 1
          /\ uses[n] = 1 => token[n].consumed /\ token[n].failed < Strikes

\* A handler holds a token of its kind, or the number of one it will make.
ReadInv(q) ==
    /\ q.op = "confirm" => token[q.token].kind = "link"
    /\ q.op = "reset"   => token[q.token].kind = "reset"
    /\ q.op = "swap"    => token[q.token].kind = "switch"
    /\ q.op = "consume" => token[q.token].kind = "email"
    /\ q.op = "send"    => q.made <= calls /\ token[q.made].kind \in {"none", "email"}

\* The account: activated once, and no request takes its link away while it
\* has no password, but for those a confirmed link has overtaken.
AccountInv ==
    /\ activations = IF account.activated THEN 1 ELSE 0
    /\ \A r \in Requests : request[r].op = "unlink" => account.password \/ stripped
    /\ LoginMethodAccounted

IInv ==
    /\ TypeOK
    /\ \A n \in Ids : TokenInv(n)
    /\ \A r \in Requests : ReadInv(request[r])
    /\ AccountInv

\* What a handler holds.
LEMMA ReadShape ==
    ASSUME TypeOK, NEW r \in Requests
    PROVE  /\ request[r].op \in {"confirm", "reset", "consume", "swap"} => request[r].token \in Ids
           /\ request[r].op = "send" => request[r].made \in Ids
           /\ request[r].op \in {"signin", "unlink"} => request[r].provider \in Providers
  BY DEF TypeOK, Read

LEMMA ReadTypes ==
    /\ Idle \in Read
    /\ [op |-> "activate"] \in Read /\ [op |-> "change"] \in Read
    /\ \A p \in Providers : [op |-> "signin", provider |-> p] \in Read
    /\ \A p \in Providers : [op |-> "unlink", provider |-> p] \in Read
    /\ \A n \in Ids : [op |-> "confirm", token |-> n] \in Read
    /\ \A n \in Ids : [op |-> "reset", token |-> n] \in Read
    /\ \A n \in Ids : [op |-> "consume", token |-> n] \in Read
    /\ \A n \in Ids : [op |-> "swap", token |-> n] \in Read
    /\ \A n \in Ids : [op |-> "send", made |-> n] \in Read
  BY DEF Read, Idle

LEMMA NewTokenType ==
    ASSUME TypeOK, NEW n \in Ids, NEW kind \in Kinds, NEW s \in Links, NEW t \in Links,
           NewToken(n, kind, s, t)
    PROVE  /\ token' \in [Ids -> Token]
           /\ token'[n].kind = kind /\ token'[n].target = t
           /\ ~token'[n].consumed /\ token'[n].failed = 0
           /\ \A m \in Ids \ {n} : token'[m] = token[m]
<1> DEFINE new == FreshToken(kind, s, t)
<1>1. new \in Token /\ new.kind = kind /\ new.target = t /\ ~new.consumed /\ new.failed = 0
  <2>1. 0 \in 0 .. Strikes
    BY CredentialsAssumption
  <2> QED
    BY <2>1 DEF FreshToken, Token
<1>2. token' = [token EXCEPT ![n] = new]
  BY DEF NewToken
<1> HIDE DEF new
<1> QED
  BY <1>1, <1>2 DEF TypeOK

LEMMA ClaimType ==
    ASSUME TypeOK, NEW n \in Ids, Claim(n)
    PROVE  /\ token' \in [Ids -> Token] /\ uses' \in [Ids -> Nat]
           /\ token'[n].consumed /\ uses'[n] = uses[n] + 1
           /\ \A m \in Ids \ {n} : token'[m] = token[m] /\ uses'[m] = uses[m]
           /\ \A m \in Ids : /\ token'[m].kind = token[m].kind
                             /\ token'[m].target = token[m].target
                             /\ token'[m].failed = token[m].failed
<1>1. token[n] \in Token
  BY DEF TypeOK
<1> DEFINE new == [token[n] EXCEPT !.consumed = TRUE]
<1>2. /\ new \in Token /\ new.consumed /\ new.kind = token[n].kind
      /\ new.target = token[n].target /\ new.failed = token[n].failed
  BY <1>1 DEF Token
<1>3. token' = [token EXCEPT ![n] = new]
  BY DEF Claim
<1>4. uses' = [uses EXCEPT ![n] = uses[n] + 1]
  BY DEF Claim
<1> HIDE DEF new
<1> QED
  BY <1>2, <1>3, <1>4 DEF TypeOK

LEMMA StrikeType ==
    ASSUME TypeOK, NEW n \in Ids, Strike(n), token[n].failed = Strikes => token[n].consumed
    PROVE  /\ token' \in [Ids -> Token]
           /\ \A m \in Ids : /\ token'[m].kind = token[m].kind
                             /\ token'[m].target = token[m].target
                             /\ token[m].consumed => token'[m] = token[m]
                             /\ token'[m].failed = Strikes => token'[m].consumed \/ token'[m] = token[m]
<1>1. CASE token[n].consumed
  BY <1>1 DEF Strike, TypeOK
<1>2. CASE ~token[n].consumed
  <2>1. token[n] \in Token
    BY DEF TypeOK
  <2> DEFINE f == token[n].failed + 1
             b == f >= Strikes
             new == [token[n] EXCEPT !.failed = f, !.consumed = b]
  <2>2. f \in 0 .. Strikes /\ b \in BOOLEAN /\ (f = Strikes => b)
    BY <1>2, <2>1, CredentialsAssumption DEF Token
  <2> HIDE DEF f, b
  <2>4. /\ new \in Token /\ new.kind = token[n].kind /\ new.target = token[n].target
        /\ new.failed = Strikes => new.consumed
    BY <2>1, <2>2 DEF Token
  <2> USE DEF f, b
  <2>3. token' = [token EXCEPT ![n] = new]
    BY <1>2 DEF Strike
  <2> HIDE DEF new
  <2> QED
    BY <1>2, <2>3, <2>4 DEF TypeOK
<1> QED
  BY <1>1, <1>2

-----------------------------------------------------------------------------
(* What steps have in common *)

\* A token keeps its kind, is new, or becomes the mail it was made for.
KindKept(n) ==
    \/ token'[n].kind = token[n].kind
    \/ n > calls
    \/ token[n].kind = "none" /\ token'[n].kind = "email"

LEMMA ReadKept ==
    ASSUME IInv, calls' \in {calls, calls + 1}, \A n \in Ids : KindKept(n),
           NEW q \in Read, ReadInv(q)
    PROVE  ReadInv(q)'
<1>1. calls \in Nat /\ calls <= calls'
  BY CredentialsAssumption DEF IInv, TypeOK
<1>2. ASSUME NEW n \in Ids, token[n].kind # "none"
      PROVE  token'[n].kind = token[n].kind
  BY <1>2 DEF IInv, TokenInv, KindKept
<1>3. ASSUME NEW n \in Ids, n <= calls, token[n].kind \in {"none", "email"}
      PROVE  n <= calls' /\ token'[n].kind \in {"none", "email"}
  BY <1>1, <1>3 DEF Ids, KindKept
<1>4. /\ q.op \in {"confirm", "reset", "swap", "consume"} => q.token \in Ids
      /\ q.op = "send" => q.made \in Ids
  BY DEF Read
<1> QED
  BY <1>2, <1>3, <1>4 DEF ReadInv

\* One handler goes on to q.
LEMMA RequestsKept ==
    ASSUME IInv, calls' \in {calls, calls + 1}, \A n \in Ids : KindKept(n),
           NEW r \in Requests, NEW q \in Read, request' = [request EXCEPT ![r] = q], ReadInv(q)'
    PROVE  /\ request' \in [Requests -> Read]
           /\ \A s \in Requests : ReadInv(request[s])'
<1>1. request' \in [Requests -> Read]
  BY DEF IInv, TypeOK
<1>2. ASSUME NEW s \in Requests
      PROVE  ReadInv(request[s])'
  <2>1. CASE s = r
    BY <2>1 DEF IInv, TypeOK
  <2>2. CASE s # r
    <3>1. request[s] \in Read /\ ReadInv(request[s]) /\ request'[s] = request[s]
      BY <2>2 DEF IInv, TypeOK
    <3> QED
      BY <3>1, ReadKept
  <2> QED
    BY <2>1, <2>2
<1> QED
  BY <1>1, <1>2

\* No handler moves.
LEMMA RequestsSame ==
    ASSUME IInv, calls' \in {calls, calls + 1}, \A n \in Ids : KindKept(n), UNCHANGED request
    PROVE  \A s \in Requests : ReadInv(request[s])'
<1> TAKE s \in Requests
<1>1. request[s] \in Read /\ ReadInv(request[s]) /\ request'[s] = request[s]
  BY DEF IInv, TypeOK
<1> QED
  BY <1>1, ReadKept

LEMMA TokensKept ==
    ASSUME IInv, calls' \in {calls, calls + 1}, UNCHANGED <<token, uses>>
    PROVE  /\ \A n \in Ids : TokenInv(n)'
           /\ \A n \in Ids : KindKept(n)
  BY CredentialsAssumption DEF IInv, TypeOK, TokenInv, KindKept, Ids

\* A handler that only reads holds q from now on.
LEMMA BeginStep ==
    ASSUME IInv, NEW r \in Requests, NEW q \in Read, Begin(r, q), UNCHANGED <<rows, history>>,
           ReadInv(q), q.op # "send", q.op = "unlink" => account.password
    PROVE  IInv'
<1>1. calls' \in {calls, calls + 1} /\ calls' \in 0 .. MaxCalls
  BY CredentialsAssumption DEF Begin, Call, IInv, TypeOK
<1>2. UNCHANGED <<token, uses>> /\ request' = [request EXCEPT ![r] = q]
  BY DEF Begin, rows, history
<1>3. (\A n \in Ids : TokenInv(n)') /\ (\A n \in Ids : KindKept(n))
  BY <1>1, <1>2, TokensKept
<1>4. ReadInv(q)'
  BY <1>2 DEF ReadInv
<1>5. request' \in [Requests -> Read] /\ \A s \in Requests : ReadInv(request[s])'
  BY <1>1, <1>2, <1>3, <1>4, RequestsKept
<1>6. TypeOK'
  BY <1>1, <1>2, <1>5 DEF IInv, TypeOK, rows, history
<1>7. AccountInv'
  BY <1>2 DEF IInv, TypeOK, AccountInv, LoginMethodAccounted, rows, history
<1> QED
  BY <1>3, <1>5, <1>6, <1>7 DEF IInv

\* A handler ends, and of the rows only the account has changed.
LEMMA DoneStep ==
    ASSUME IInv, NEW r \in Requests, Done(r), UNCHANGED <<token, uses>>,
           account' \in [password : BOOLEAN, link : Links, activated : BOOLEAN],
           invitation' \in {"open", "accepted", "withdrawn"}, enforced' \in Links,
           activations' \in Nat, stripped' \in BOOLEAN, AccountInv'
    PROVE  IInv'
<1>1. calls' = calls /\ request' = [request EXCEPT ![r] = Idle] /\ Idle \in Read
  BY ReadTypes DEF Done
<1>2. (\A n \in Ids : TokenInv(n)') /\ (\A n \in Ids : KindKept(n))
  BY <1>1, TokensKept
<1>3. ReadInv(Idle)'
  BY DEF ReadInv, Idle
<1>4. request' \in [Requests -> Read] /\ \A s \in Requests : ReadInv(request[s])'
  BY <1>1, <1>2, <1>3, RequestsKept
<1>5. TypeOK'
  BY <1>1, <1>4 DEF IInv, TypeOK
<1> QED
  BY <1>2, <1>4, <1>5 DEF IInv

\* One call adds a token.
LEMMA MintStep ==
    ASSUME IInv, NEW kind \in Kinds \ {"email"}, NEW s \in Links, NEW t \in Links, Mint(kind, s, t),
           kind \in {"link", "switch"} => t \in Providers
    PROVE  IInv'
<1>1. /\ calls' = calls + 1 /\ calls + 1 \in Ids /\ calls' \in 0 .. MaxCalls
      /\ NewToken(calls + 1, kind, s, t)
      /\ UNCHANGED <<account, invitation, enforced, request, history>>
  BY CredentialsAssumption DEF Mint, Call, Ids, IInv, TypeOK
<1>2. /\ token' \in [Ids -> Token]
      /\ token'[calls + 1].kind = kind /\ token'[calls + 1].target = t
      /\ ~token'[calls + 1].consumed /\ token'[calls + 1].failed = 0
      /\ \A m \in Ids \ {calls + 1} : token'[m] = token[m]
  BY <1>1, NewTokenType DEF IInv
<1>3. uses[calls + 1] = 0 /\ uses' = uses
  BY <1>1, CredentialsAssumption DEF IInv, TypeOK, TokenInv, history
<1>4. ASSUME NEW n \in Ids
      PROVE  TokenInv(n)'
  BY <1>1, <1>2, <1>3, CredentialsAssumption DEF IInv, TypeOK, TokenInv, Ids, Kinds
<1>5. ASSUME NEW n \in Ids
      PROVE  KindKept(n)
  BY <1>2, CredentialsAssumption DEF IInv, TypeOK, KindKept, Ids
<1>6. \A q \in Requests : ReadInv(request[q])'
  BY <1>1, <1>5, RequestsSame
<1>7. TypeOK'
  BY <1>1, <1>2, <1>3 DEF IInv, TypeOK, history
<1>8. AccountInv'
  BY <1>1 DEF IInv, AccountInv, LoginMethodAccounted, history
<1> QED
  BY <1>4, <1>6, <1>7, <1>8 DEF IInv

\* A handler ends that has written a token.
LEMMA TokenStep ==
    ASSUME IInv, NEW r \in Requests, Done(r), UNCHANGED <<invitation, enforced>>,
           token' \in [Ids -> Token], uses' \in [Ids -> Nat],
           \A n \in Ids : TokenInv(n)', \A n \in Ids : KindKept(n),
           account' \in [password : BOOLEAN, link : Links, activated : BOOLEAN],
           activations' \in Nat, stripped' \in BOOLEAN, AccountInv'
    PROVE  IInv'
<1>1. calls' = calls /\ request' = [request EXCEPT ![r] = Idle] /\ Idle \in Read
  BY ReadTypes DEF Done
<1>2. ReadInv(Idle)'
  BY DEF ReadInv, Idle
<1>3. request' \in [Requests -> Read] /\ \A s \in Requests : ReadInv(request[s])'
  BY <1>1, <1>2, RequestsKept
<1>4. TypeOK'
  BY <1>1, <1>3 DEF IInv, TypeOK
<1> QED
  BY <1>3, <1>4 DEF IInv

\* A claim keeps what is known of tokens; the token has not been used before.
LEMMA ClaimStep ==
    ASSUME IInv, NEW n \in Ids, Claim(n), token[n].kind # "none", UNCHANGED calls
    PROVE  /\ token' \in [Ids -> Token] /\ uses' \in [Ids -> Nat]
           /\ \A m \in Ids : TokenInv(m)'
           /\ \A m \in Ids : KindKept(m)
<1>1. /\ token' \in [Ids -> Token] /\ uses' \in [Ids -> Nat]
      /\ token'[n].consumed /\ uses'[n] = uses[n] + 1
      /\ \A m \in Ids \ {n} : token'[m] = token[m] /\ uses'[m] = uses[m]
      /\ \A m \in Ids : /\ token'[m].kind = token[m].kind
                        /\ token'[m].target = token[m].target
                        /\ token'[m].failed = token[m].failed
  BY ClaimType DEF IInv
<1>2. ~token[n].consumed
  BY DEF Claim
<1>3. ASSUME NEW m \in Ids
      PROVE  TokenInv(m)'
  <2>1. CASE m = n
    <3>1. token[n].failed \in 0 .. Strikes /\ token[n].failed # Strikes /\ uses[n] \in Nat
      BY <1>2 DEF IInv, TypeOK, TokenInv, Token
    <3>2. token[n].kind # "email" => uses[n] = 0
      BY <1>2, <3>1 DEF IInv, TokenInv
    <3> QED
      BY <1>1, <2>1, <3>1, <3>2, CredentialsAssumption DEF IInv, TokenInv
  <2>2. CASE m # n
    BY <1>1, <2>2 DEF IInv, TokenInv
  <2> QED
    BY <2>1, <2>2
<1> QED
  BY <1>1, <1>3 DEF KindKept

-----------------------------------------------------------------------------
(* The steps *)

LEMMA StartStep ==
    ASSUME IInv, NEW r \in Requests, Start(r)
    PROVE  IInv'
<1>1. CASE BeginSetPassword(r)
  <2> DEFINE q == [op |-> "activate"]
  <2>1. q \in Read /\ ReadInv(q) /\ q.op \notin {"send", "unlink"}
    BY ReadTypes DEF ReadInv
  <2>2. Begin(r, q) /\ UNCHANGED <<rows, history>>
    BY <1>1 DEF BeginSetPassword
  <2> QED
    BY <2>1, <2>2, BeginStep
<1>2. CASE BeginEmailReset(r)
  <2>0. PICK k \in Ids : k = calls + 1
    BY <1>2, CredentialsAssumption DEF BeginEmailReset, Begin, Call, Ids, IInv, TypeOK
  <2> DEFINE q == [op |-> "send", made |-> k]
  <2>1. /\ calls' = k /\ calls' \in {calls, calls + 1} /\ calls' \in 0 .. MaxCalls
        /\ request' = [request EXCEPT ![r] = q]
        /\ UNCHANGED <<account, invitation, enforced, uses, activations, stripped>>
    BY <1>2, <2>0, CredentialsAssumption DEF BeginEmailReset, Begin, Call, history, Ids, IInv, TypeOK
  <2>2. ASSUME NEW n \in Ids
        PROVE  /\ token'[n] \in Token /\ TokenInv(n)'
               /\ token'[n].kind = token[n].kind
    <3>1. token[n] \in Token /\ token'[n] = IF Usable(n, "email") THEN [token[n] EXCEPT !.consumed = TRUE] ELSE token[n]
      BY <1>2 DEF BeginEmailReset, IInv, TypeOK
    <3>2. CASE Usable(n, "email")
      <4>1. /\ token'[n] \in Token /\ token'[n].consumed
            /\ token'[n].kind = "email" /\ token[n].kind = "email"
        BY <3>1, <3>2 DEF Token, Usable
      <4>2. ~(n > calls')
        BY <2>0, <2>1, <4>1, CredentialsAssumption DEF IInv, TypeOK, TokenInv, Ids
      <4> QED
        BY <4>1, <4>2 DEF TokenInv
    <3>3. CASE ~Usable(n, "email")
      BY <2>1, <3>1, <3>3, CredentialsAssumption DEF IInv, TypeOK, TokenInv, Ids
    <3> QED
      BY <3>2, <3>3
  <2>3. token' \in [Ids -> Token]
    BY <1>2, <2>2 DEF BeginEmailReset
  <2>4. \A n \in Ids : KindKept(n)
    BY <2>2 DEF KindKept
  <2>5. q \in Read /\ ReadInv(q)'
    <3>1. token'[k].kind = "none"
      <4>1. k > calls
        BY <2>0, CredentialsAssumption DEF IInv, TypeOK
      <4>2. TokenInv(k)
        BY DEF IInv
      <4> QED
        BY <2>2, <4>1, <4>2 DEF TokenInv
    <3>2. k <= calls'
      BY <2>1 DEF Ids
    <3> QED
      BY <3>1, <3>2, ReadTypes DEF ReadInv
  <2> HIDE DEF q
  <2>6. request' \in [Requests -> Read] /\ \A s \in Requests : ReadInv(request[s])'
    BY <2>1, <2>4, <2>5, RequestsKept
  <2>7. TypeOK'
    BY <2>1, <2>3, <2>6 DEF IInv, TypeOK
  <2>8. AccountInv'
    BY <2>1 DEF IInv, TypeOK, AccountInv, LoginMethodAccounted, q
  <2> QED
    BY <2>2, <2>6, <2>7, <2>8 DEF IInv
<1>3. CASE BeginChange(r)
  <2> DEFINE q == [op |-> "change"]
  <2>1. q \in Read /\ ReadInv(q) /\ q.op \notin {"send", "unlink"}
    BY ReadTypes DEF ReadInv
  <2>2. Begin(r, q) /\ UNCHANGED <<rows, history>>
    BY <1>3 DEF BeginChange
  <2> QED
    BY <2>1, <2>2, BeginStep
<1>4. ASSUME NEW p \in Providers, BeginSignIn(r, p)
      PROVE  IInv'
  <2> DEFINE q == [op |-> "signin", provider |-> p]
  <2>1. q \in Read /\ ReadInv(q) /\ q.op \notin {"send", "unlink"}
    BY ReadTypes DEF ReadInv
  <2>2. Begin(r, q) /\ UNCHANGED <<rows, history>>
    BY <1>4 DEF BeginSignIn
  <2> QED
    BY <2>1, <2>2, BeginStep
<1>5. ASSUME NEW p \in Providers, BeginUnlink(r, p)
      PROVE  IInv'
  <2> DEFINE q == [op |-> "unlink", provider |-> p]
  <2>1. q \in Read /\ ReadInv(q) /\ q.op # "send" /\ account.password
    BY <1>5, ReadTypes DEF ReadInv, BeginUnlink, MayUnlink
  <2>2. Begin(r, q) /\ UNCHANGED <<rows, history>>
    BY <1>5 DEF BeginUnlink
  <2> QED
    BY <2>1, <2>2, BeginStep
<1>6. ASSUME NEW n \in Ids, BeginConfirm(r, n)
      PROVE  IInv'
  <2> DEFINE q == [op |-> "confirm", token |-> n]
  <2>1. q \in Read /\ ReadInv(q) /\ q.op \notin {"send", "unlink"}
    BY <1>6, ReadTypes DEF ReadInv, BeginConfirm, Usable
  <2>2. Begin(r, q) /\ UNCHANGED <<rows, history>>
    BY <1>6 DEF BeginConfirm
  <2> QED
    BY <2>1, <2>2, BeginStep
<1>7. ASSUME NEW n \in Ids, BeginReset(r, n)
      PROVE  IInv'
  <2> DEFINE q == [op |-> "reset", token |-> n]
  <2>1. q \in Read /\ ReadInv(q) /\ q.op \notin {"send", "unlink"}
    BY <1>7, ReadTypes DEF ReadInv, BeginReset, Usable
  <2>2. Begin(r, q) /\ UNCHANGED <<rows, history>>
    BY <1>7 DEF BeginReset
  <2> QED
    BY <2>1, <2>2, BeginStep
<1>8. ASSUME NEW n \in Ids, BeginConsume(r, n)
      PROVE  IInv'
  <2> DEFINE q == [op |-> "consume", token |-> n]
  <2>1. q \in Read /\ ReadInv(q) /\ q.op \notin {"send", "unlink"}
    BY <1>8, ReadTypes DEF ReadInv, BeginConsume, Usable
  <2>2. Begin(r, q) /\ UNCHANGED <<rows, history>>
    BY <1>8 DEF BeginConsume
  <2> QED
    BY <2>1, <2>2, BeginStep
<1>9. ASSUME NEW n \in Ids, BeginSwitch(r, n)
      PROVE  IInv'
  <2> DEFINE q == [op |-> "swap", token |-> n]
  <2>1. q \in Read /\ ReadInv(q) /\ q.op \notin {"send", "unlink"}
    BY <1>9, ReadTypes DEF ReadInv, BeginSwitch, Usable
  <2>2. Begin(r, q) /\ UNCHANGED <<rows, history>>
    BY <1>9 DEF BeginSwitch
  <2> QED
    BY <2>1, <2>2, BeginStep
<1> QED
  BY <1>1, <1>2, <1>3, <1>4, <1>5, <1>6, <1>7, <1>8, <1>9 DEF Start

\* A handler that held a token of its kind.
LEMMA HeldToken ==
    ASSUME IInv, NEW r \in Requests, request[r].op \in {"confirm", "reset", "swap", "consume"}
    PROVE  /\ request[r].token \in Ids /\ token[request[r].token] \in Token
           /\ token[request[r].token].kind # "none"
           /\ request[r].op = "confirm" => token[request[r].token].kind = "link"
           /\ request[r].op = "swap" => token[request[r].token].kind = "switch"
           /\ request[r].op = "consume" => token[request[r].token].kind = "email"
<1>1. request[r].token \in Ids
  BY ReadShape DEF IInv
<1>2. ReadInv(request[r])
  BY DEF IInv
<1> QED
  BY <1>1, <1>2 DEF IInv, TypeOK, ReadInv

LEMMA AccountStep ==
    ASSUME IInv, NEW r \in Requests,
           \/ SetPassword(r) \/ SignIn(r) \/ ChangePassword(r) \/ Unlink(r) \/ Fail(r)
    PROVE  IInv'
<1>1. CASE SetPassword(r)
  <2>1. /\ account' = [account EXCEPT !.activated = TRUE, !.password = TRUE]
        /\ Done(r) /\ activations' = activations + 1 /\ ~account.activated
        /\ UNCHANGED <<enforced, token, uses, stripped>>
        /\ invitation' = IF invitation = "open" THEN "accepted" ELSE invitation
    BY <1>1 DEF SetPassword, MayActivate
  <2>2. /\ account' \in [password : BOOLEAN, link : Links, activated : BOOLEAN]
        /\ account'.activated /\ account'.password
    BY <2>1 DEF IInv, TypeOK
  <2>3. AccountInv'
    BY <2>1, <2>2 DEF IInv, AccountInv, LoginMethodAccounted
  <2> QED
    BY <2>1, <2>2, <2>3, DoneStep DEF IInv, TypeOK
<1>2. CASE SignIn(r)
  <2> DEFINE p == request[r].provider
  <2>1. /\ account' = [account EXCEPT !.activated = TRUE, !.link = p]
        /\ Done(r) /\ activations' = activations + 1 /\ ~account.activated
        /\ UNCHANGED <<invitation, enforced, token, uses, stripped>>
        /\ request[r].op = "signin"
    BY <1>2 DEF SignIn, MayActivate
  <2>2. p \in Providers /\ p \in Links /\ p # NoProvider
    BY <2>1, ReadShape, CredentialsAssumption DEF IInv, Links
  <2>3. /\ account' \in [password : BOOLEAN, link : Links, activated : BOOLEAN]
        /\ account'.activated /\ account'.link # NoProvider /\ account'.password = account.password
    BY <2>1, <2>2 DEF IInv, TypeOK
  <2>4. request' = [request EXCEPT ![r] = Idle]
    BY <2>1 DEF Done
  <2>5. AccountInv'
    BY <2>1, <2>3, <2>4 DEF IInv, TypeOK, AccountInv, LoginMethodAccounted, Idle
  <2> QED
    BY <2>1, <2>3, <2>5, DoneStep DEF IInv, TypeOK
<1>3. CASE ChangePassword(r)
  <2>1. /\ account' = [account EXCEPT !.password = TRUE] /\ Done(r)
        /\ UNCHANGED <<invitation, enforced, token, uses, activations, stripped>>
    BY <1>3 DEF ChangePassword, history
  <2>2. /\ account' \in [password : BOOLEAN, link : Links, activated : BOOLEAN]
        /\ account'.password /\ account'.activated = account.activated
    BY <2>1 DEF IInv, TypeOK
  <2>3. AccountInv'
    BY <2>1, <2>2 DEF IInv, AccountInv, LoginMethodAccounted
  <2> QED
    BY <2>1, <2>2, <2>3, DoneStep DEF IInv, TypeOK
<1>4. CASE Unlink(r)
  <2>1. /\ request[r].op = "unlink" /\ Done(r)
        /\ account' \in {account, [account EXCEPT !.link = NoProvider]}
        /\ UNCHANGED <<invitation, enforced, token, uses, activations, stripped>>
    BY <1>4 DEF Unlink, history
  <2>2. /\ account' \in [password : BOOLEAN, link : Links, activated : BOOLEAN]
        /\ account'.password = account.password /\ account'.activated = account.activated
    BY <2>1 DEF IInv, TypeOK, Links
  <2>3. account.password \/ stripped
    BY <2>1 DEF IInv, AccountInv
  <2>4. AccountInv'
    BY <2>1, <2>2, <2>3 DEF IInv, AccountInv, LoginMethodAccounted
  <2> QED
    BY <2>1, <2>2, <2>4, DoneStep DEF IInv, TypeOK
<1>5. CASE Fail(r)
  <2>1. Done(r) /\ UNCHANGED <<account, invitation, enforced, token, uses, activations, stripped>>
    BY <1>5 DEF Fail, rows, history
  <2>2. request' = [request EXCEPT ![r] = Idle]
    BY <2>1 DEF Done
  <2>3. AccountInv'
    BY <2>1, <2>2 DEF IInv, TypeOK, AccountInv, LoginMethodAccounted, Idle
  <2> QED
    BY <2>1, <2>3, DoneStep DEF IInv, TypeOK
<1> QED
  BY <1>1, <1>2, <1>3, <1>4, <1>5

LEMMA UseStep ==
    ASSUME IInv, NEW r \in Requests,
           \/ ConfirmWrong(r) \/ ConfirmRight(r) \/ SubmitReset(r)
           \/ RejectSwitch(r) \/ CompleteSwitch(r)
    PROVE  IInv'
<1> DEFINE n == request[r].token
<1>1. CASE ConfirmWrong(r)
  <2>1. /\ request[r].op = "confirm" /\ Strike(n) /\ Done(r)
        /\ UNCHANGED <<account, invitation, enforced, uses, activations, stripped>>
    BY <1>1 DEF ConfirmWrong, history
  <2>2. n \in Ids /\ (token[n].failed = Strikes => token[n].consumed)
    BY <2>1, HeldToken DEF IInv, TokenInv
  <2>3. /\ token' \in [Ids -> Token]
        /\ \A m \in Ids : /\ token'[m].kind = token[m].kind
                          /\ token'[m].target = token[m].target
                          /\ token[m].consumed => token'[m] = token[m]
                          /\ token'[m].failed = Strikes => token'[m].consumed \/ token'[m] = token[m]
    BY <2>1, <2>2, StrikeType DEF IInv
  <2>4. /\ calls' = calls /\ request' = [request EXCEPT ![r] = Idle]
    BY <2>1 DEF Done
  <2>5. ASSUME NEW m \in Ids
        PROVE  TokenInv(m)'
    BY <2>1, <2>3, <2>4 DEF IInv, TokenInv
  <2>6. \A m \in Ids : KindKept(m)
    BY <2>3 DEF KindKept
  <2>7. AccountInv'
    BY <2>1, <2>4 DEF IInv, TypeOK, AccountInv, LoginMethodAccounted, Idle
  <2> QED
    BY <2>1, <2>3, <2>5, <2>6, <2>7, TokenStep DEF IInv, TypeOK
<1>2. CASE ConfirmRight(r)
  <2> DEFINE overlap == \E o \in Requests : request[o].op = "unlink"
  <2>1. /\ request[r].op = "confirm" /\ Claim(n) /\ Done(r)
        /\ account' = [account EXCEPT !.link = token[n].target, !.password = FALSE]
        /\ stripped' = (stripped \/ overlap)
        /\ UNCHANGED <<invitation, enforced, activations>>
    BY <1>2 DEF ConfirmRight
  <2>2. n \in Ids /\ token[n].kind = "link"
    BY <2>1, HeldToken
  <2>3. token[n].target \in Providers /\ token[n].target # NoProvider
    BY <2>2, CredentialsAssumption DEF IInv, TokenInv
  <2>4. /\ account' \in [password : BOOLEAN, link : Links, activated : BOOLEAN]
        /\ account'.activated = account.activated /\ account'.link = token[n].target
    BY <2>1, <2>3 DEF IInv, TypeOK, Links
  <2>5. /\ token' \in [Ids -> Token] /\ uses' \in [Ids -> Nat]
        /\ \A m \in Ids : TokenInv(m)'
        /\ \A m \in Ids : KindKept(m)
    BY <2>1, <2>2, ClaimStep DEF Done
  <2>6. AccountInv'
    <3>1. activations' = IF account'.activated THEN 1 ELSE 0
      BY <2>1, <2>4 DEF IInv, AccountInv
    <3>2. LoginMethodAccounted'
      BY <2>3, <2>4 DEF LoginMethodAccounted
    <3>3. ASSUME NEW s \in Requests, request'[s].op = "unlink"
          PROVE  stripped'
      BY <2>1, <3>3 DEF Done, Idle, IInv, TypeOK
    <3> QED
      BY <3>1, <3>2, <3>3 DEF AccountInv
  <2>7. stripped' \in BOOLEAN /\ activations' \in Nat
    BY <2>1 DEF IInv, TypeOK
  <2> QED
    BY <2>1, <2>4, <2>5, <2>6, <2>7, TokenStep
<1>3. CASE SubmitReset(r)
  <2>1. /\ request[r].op = "reset" /\ Claim(n) /\ Done(r)
        /\ account' = [account EXCEPT !.password = TRUE]
        /\ UNCHANGED <<invitation, enforced, activations, stripped>>
    BY <1>3 DEF SubmitReset
  <2>2. n \in Ids /\ token[n].kind # "none"
    BY <2>1, HeldToken
  <2>3. /\ account' \in [password : BOOLEAN, link : Links, activated : BOOLEAN]
        /\ account'.password /\ account'.activated = account.activated
    BY <2>1 DEF IInv, TypeOK
  <2>4. /\ token' \in [Ids -> Token] /\ uses' \in [Ids -> Nat]
        /\ \A m \in Ids : TokenInv(m)'
        /\ \A m \in Ids : KindKept(m)
    BY <2>1, <2>2, ClaimStep DEF Done
  <2>5. AccountInv'
    BY <2>1, <2>3 DEF IInv, AccountInv, LoginMethodAccounted
  <2> QED
    BY <2>1, <2>3, <2>4, <2>5, TokenStep DEF IInv, TypeOK
<1>4. CASE RejectSwitch(r)
  <2>1. /\ request[r].op = "swap" /\ Done(r)
        /\ token' = [token EXCEPT ![n].consumed = TRUE]
        /\ UNCHANGED <<account, invitation, enforced, uses, activations, stripped>>
    BY <1>4 DEF RejectSwitch, history
  <2>2. n \in Ids /\ token[n] \in Token
    BY <2>1, HeldToken
  <2> DEFINE new == [token[n] EXCEPT !.consumed = TRUE]
  <2>3. /\ new \in Token /\ new.consumed /\ new.kind = token[n].kind
        /\ new.target = token[n].target /\ new.failed = token[n].failed
    BY <2>2 DEF Token
  <2>4. token' = [token EXCEPT ![n] = new]
    BY <2>1
  <2> HIDE DEF new, n
  <2>5. calls' = calls /\ request' = [request EXCEPT ![r] = Idle]
    BY <2>1 DEF Done
  <2>6. token' \in [Ids -> Token]
    BY <2>2, <2>3, <2>4 DEF IInv, TypeOK
  <2>7. ASSUME NEW m \in Ids
        PROVE  TokenInv(m)' /\ KindKept(m)
    <3>1. \/ token'[m] = token[m]
          \/ /\ token'[m].consumed /\ token'[m].kind = token[m].kind
             /\ token'[m].target = token[m].target /\ token'[m].failed = token[m].failed
      BY <2>2, <2>3, <2>4 DEF IInv, TypeOK
    <3> QED
      BY <2>1, <2>5, <3>1 DEF IInv, TokenInv, KindKept
  <2>8. AccountInv'
    BY <2>1, <2>5 DEF IInv, TypeOK, AccountInv, LoginMethodAccounted, Idle
  <2> QED
    BY <2>1, <2>6, <2>7, <2>8, TokenStep DEF IInv, TypeOK
<1>5. CASE CompleteSwitch(r)
  <2>1. /\ request[r].op = "swap" /\ Claim(n) /\ Done(r)
        /\ account' = [account EXCEPT !.link = token[n].target]
        /\ UNCHANGED <<invitation, enforced, activations, stripped>>
    BY <1>5 DEF CompleteSwitch
  <2>2. n \in Ids /\ token[n].kind = "switch"
    BY <2>1, HeldToken
  <2>3. token[n].target \in Providers /\ token[n].target # NoProvider
    BY <2>2, CredentialsAssumption DEF IInv, TokenInv
  <2>4. /\ account' \in [password : BOOLEAN, link : Links, activated : BOOLEAN]
        /\ account'.activated = account.activated /\ account'.link = token[n].target
        /\ account'.password = account.password
    BY <2>1, <2>3 DEF IInv, TypeOK, Links
  <2>5. /\ token' \in [Ids -> Token] /\ uses' \in [Ids -> Nat]
        /\ \A m \in Ids : TokenInv(m)'
        /\ \A m \in Ids : KindKept(m)
    BY <2>1, <2>2, ClaimStep DEF Done
  <2>6. AccountInv'
    <3>1. request' = [request EXCEPT ![r] = Idle]
      BY <2>1 DEF Done
    <3> QED
      BY <2>1, <2>3, <2>4, <3>1 DEF IInv, TypeOK, AccountInv, LoginMethodAccounted, Idle
  <2> QED
    BY <2>1, <2>4, <2>5, <2>6, TokenStep DEF IInv, TypeOK
<1> QED
  BY <1>1, <1>2, <1>3, <1>4, <1>5

\* The tokens of the first generation.
LEMMA EmailStep ==
    ASSUME IInv, NEW r \in Requests, SendEmailReset(r) \/ ConsumeToken(r)
    PROVE  IInv'
<1>1. CASE SendEmailReset(r)
  <2> DEFINE n == request[r].made
  <2>1. /\ request[r].op = "send" /\ NewToken(n, "email", NoProvider, NoProvider) /\ Done(r)
        /\ UNCHANGED <<account, invitation, enforced, uses, activations, stripped>>
    BY <1>1 DEF SendEmailReset, history
  <2>2. n \in Ids /\ n <= calls /\ token[n].kind \in {"none", "email"}
    <3>1. ReadInv(request[r])
      BY DEF IInv
    <3> QED
      BY <2>1, <3>1, ReadShape DEF IInv, ReadInv
  <2>3. calls' = calls /\ request' = [request EXCEPT ![r] = Idle]
    BY <2>1 DEF Done
  <2>4. /\ token' \in [Ids -> Token]
        /\ token'[n].kind = "email" /\ token'[n].failed = 0
        /\ \A m \in Ids \ {n} : token'[m] = token[m]
    BY <2>1, <2>2, NewTokenType DEF IInv, Kinds, Links
  <2> HIDE DEF n
  <2>5. ASSUME NEW m \in Ids
        PROVE  TokenInv(m)' /\ KindKept(m)
    <3>1. CASE m = n
      <4>1. ~(n > calls')
        BY <2>2, <2>3, CredentialsAssumption DEF IInv, TypeOK, Ids
      <4>2. KindKept(m)
        BY <2>2, <2>4, <3>1 DEF KindKept
      <4> QED
        BY <2>4, <3>1, <4>1, <4>2, CredentialsAssumption DEF TokenInv
    <3>2. CASE m # n
      BY <2>1, <2>3, <2>4, <3>2 DEF IInv, TokenInv, KindKept
    <3> QED
      BY <3>1, <3>2
  <2>6. AccountInv'
    BY <2>1, <2>3 DEF IInv, TypeOK, AccountInv, LoginMethodAccounted, Idle
  <2> QED
    BY <2>1, <2>4, <2>5, <2>6, TokenStep DEF IInv, TypeOK
<1>2. CASE ConsumeToken(r)
  <2> DEFINE n == request[r].token
             q == [op |-> "change"]
  <2>1. /\ request[r].op = "consume"
        /\ token' = [token EXCEPT ![n].consumed = TRUE]
        /\ uses' = [uses EXCEPT ![n] = uses[n] + 1]
        /\ request' = [request EXCEPT ![r] = q]
        /\ UNCHANGED <<account, invitation, enforced, calls, activations, stripped>>
    BY <1>2 DEF ConsumeToken
  <2>2. n \in Ids /\ token[n] \in Token /\ token[n].kind = "email"
    BY <2>1, HeldToken
  <2> DEFINE new == [token[n] EXCEPT !.consumed = TRUE]
  <2>3. /\ new \in Token /\ new.consumed /\ new.kind = "email"
        /\ new.failed = token[n].failed
    BY <2>2 DEF Token
  <2>4. token' = [token EXCEPT ![n] = new]
    BY <2>1
  <2> HIDE DEF new, n
  <2>5. token' \in [Ids -> Token] /\ uses' \in [Ids -> Nat]
    <3>1. uses[n] + 1 \in Nat /\ uses \in [Ids -> Nat] /\ token \in [Ids -> Token]
      BY <2>2 DEF IInv, TypeOK
    <3> QED
      BY <2>1, <2>3, <2>4, <3>1
  <2>6. ASSUME NEW m \in Ids
        PROVE  TokenInv(m)' /\ KindKept(m)
    <3>1. CASE m = n
      <4>1. token'[m] = new /\ calls' = calls
        BY <2>1, <2>2, <2>4, <3>1 DEF IInv, TypeOK
      <4> QED
        BY <2>2, <2>3, <3>1, <4>1 DEF IInv, TokenInv, KindKept
    <3>2. CASE m # n
      <4>1. token'[m] = token[m] /\ uses'[m] = uses[m] /\ calls' = calls
        BY <2>1, <2>4, <3>2 DEF IInv, TypeOK
      <4> QED
        BY <4>1 DEF IInv, TokenInv, KindKept
    <3> QED
      BY <3>1, <3>2
  <2>7. q \in Read /\ ReadInv(q)'
    BY ReadTypes DEF ReadInv
  <2> HIDE DEF q
  <2>8. request' \in [Requests -> Read] /\ \A s \in Requests : ReadInv(request[s])'
    BY <2>1, <2>6, <2>7, RequestsKept
  <2>9. AccountInv'
    BY <2>1 DEF IInv, TypeOK, AccountInv, LoginMethodAccounted, q
  <2>10. TypeOK'
    BY <2>1, <2>5, <2>8 DEF IInv, TypeOK
  <2> QED
    BY <2>6, <2>8, <2>9, <2>10 DEF IInv
<1> QED
  BY <1>1, <1>2

\* Steps no handler in flight takes.
LEMMA ImmediateStep ==
    ASSUME IInv, Immediate
    PROVE  IInv'
<1>1. ASSUME NEW p \in Providers, MintLink(p)
      PROVE  IInv'
  BY <1>1, MintStep DEF MintLink, Kinds, Links
<1>2. ASSUME NEW p \in Providers, StartSwitch(p)
      PROVE  IInv'
  BY <1>2, MintStep DEF StartSwitch, Kinds, Links, IInv, TypeOK
<1>3. CASE SendReset \/ TotalRecovery
  BY <1>3, MintStep DEF SendReset, TotalRecovery, Kinds, Links
<1>4. ASSUME NEW p \in Providers, CompleteLink(p)
      PROVE  IInv'
  <2>1. /\ calls' \in {calls, calls + 1} /\ calls' \in 0 .. MaxCalls
        /\ account' = [account EXCEPT !.link = p]
        /\ UNCHANGED <<invitation, enforced, token, request, uses, activations, stripped>>
    BY <1>4, CredentialsAssumption DEF CompleteLink, Call, history, IInv, TypeOK
  <2>2. (\A n \in Ids : TokenInv(n)') /\ \A n \in Ids : KindKept(n)
    BY <2>1, TokensKept
  <2>3. \A s \in Requests : ReadInv(request[s])'
    BY <2>1, <2>2, RequestsSame
  <2>4. /\ account' \in [password : BOOLEAN, link : Links, activated : BOOLEAN]
        /\ account'.link # NoProvider /\ account'.password = account.password
        /\ account'.activated = account.activated
    BY <2>1, CredentialsAssumption DEF IInv, TypeOK, Links
  <2>5. TypeOK' /\ AccountInv'
    BY <2>1, <2>4 DEF IInv, TypeOK, AccountInv, LoginMethodAccounted
  <2> QED
    BY <2>2, <2>3, <2>5 DEF IInv
<1>5. ASSUME NEW p \in Links, Enforce(p)
      PROVE  IInv'
  <2>1. /\ calls' \in {calls, calls + 1} /\ calls' \in 0 .. MaxCalls /\ enforced' \in Links
        /\ UNCHANGED <<account, invitation, token, request, uses, activations, stripped>>
    BY <1>5, CredentialsAssumption DEF Enforce, Call, history, IInv, TypeOK
  <2>2. (\A n \in Ids : TokenInv(n)') /\ \A n \in Ids : KindKept(n)
    BY <2>1, TokensKept
  <2>3. \A s \in Requests : ReadInv(request[s])'
    BY <2>1, <2>2, RequestsSame
  <2>4. TypeOK' /\ AccountInv'
    BY <2>1 DEF IInv, TypeOK, AccountInv, LoginMethodAccounted
  <2> QED
    BY <2>2, <2>3, <2>4 DEF IInv
<1>6. ASSUME NEW n \in Ids, Expire(n)
      PROVE  IInv'
  <2>1. /\ token' = [token EXCEPT ![n].expired = TRUE] /\ token[n] \in Token
        /\ UNCHANGED <<account, invitation, enforced, request, calls, uses, activations, stripped>>
    BY <1>6 DEF Expire, history, IInv, TypeOK
  <2> DEFINE new == [token[n] EXCEPT !.expired = TRUE]
  <2>2. /\ new \in Token /\ new.consumed = token[n].consumed /\ new.kind = token[n].kind
        /\ new.target = token[n].target /\ new.failed = token[n].failed
    BY <2>1 DEF Token
  <2>3. token' = [token EXCEPT ![n] = new]
    BY <2>1
  <2> HIDE DEF new
  <2>4. token' \in [Ids -> Token]
    BY <2>2, <2>3 DEF IInv, TypeOK
  <2>5. ASSUME NEW m \in Ids
        PROVE  TokenInv(m)' /\ KindKept(m)
    <3>1. /\ token'[m].consumed = token[m].consumed /\ token'[m].kind = token[m].kind
          /\ token'[m].target = token[m].target /\ token'[m].failed = token[m].failed
      BY <2>2, <2>3 DEF IInv, TypeOK
    <3> QED
      BY <2>1, <3>1 DEF IInv, TokenInv, KindKept
  <2>6. \A s \in Requests : ReadInv(request[s])'
    BY <2>1, <2>5, RequestsSame
  <2>7. TypeOK' /\ AccountInv'
    BY <2>1, <2>4 DEF IInv, TypeOK, AccountInv, LoginMethodAccounted
  <2> QED
    BY <2>5, <2>6, <2>7 DEF IInv
<1>7. CASE ClaimInvitation \/ Withdraw
  <2>1. /\ calls' \in {calls, calls + 1} /\ calls' \in 0 .. MaxCalls
        /\ invitation' \in {"open", "accepted", "withdrawn"}
        /\ UNCHANGED <<account, enforced, token, request, uses, activations, stripped>>
    BY <1>7, CredentialsAssumption DEF ClaimInvitation, Withdraw, Call, history, IInv, TypeOK
  <2>2. (\A n \in Ids : TokenInv(n)') /\ \A n \in Ids : KindKept(n)
    BY <2>1, TokensKept
  <2>3. \A s \in Requests : ReadInv(request[s])'
    BY <2>1, <2>2, RequestsSame
  <2>4. TypeOK' /\ AccountInv'
    BY <2>1 DEF IInv, TypeOK, AccountInv, LoginMethodAccounted
  <2> QED
    BY <2>2, <2>3, <2>4 DEF IInv
<1> QED
  BY <1>1, <1>2, <1>3, <1>4, <1>5, <1>6, <1>7 DEF Immediate

-----------------------------------------------------------------------------
(* The theorems *)

LEMMA InitInv == Init => IInv
<1> SUFFICES ASSUME Init PROVE IInv
  OBVIOUS
<1>1. NoToken \in Token /\ NoToken.kind = "none" /\ NoToken.failed = 0
  BY CredentialsAssumption DEF NoToken, FreshToken, Token, Links
<1>2. TypeOK
  <2>1. account \in [password : BOOLEAN, link : Links, activated : BOOLEAN]
    BY DEF Init, Links
  <2>2. token \in [Ids -> Token] /\ uses \in [Ids -> Nat]
    BY <1>1 DEF Init
  <2>3. request \in [Requests -> Read]
    BY ReadTypes DEF Init
  <2>4. enforced \in Links /\ invitation \in {"open", "accepted", "withdrawn"}
    BY DEF Init, Links
  <2>5. calls \in 0 .. MaxCalls /\ activations \in Nat /\ stripped \in BOOLEAN
    <3>1. calls = 0 /\ activations = 0 /\ stripped = FALSE
      BY DEF Init
    <3>2. 0 \in 0 .. MaxCalls
      BY CredentialsAssumption
    <3> QED
      BY <3>1, <3>2
  <2> QED
    BY <2>1, <2>2, <2>3, <2>4, <2>5 DEF TypeOK
<1>3. \A n \in Ids : TokenInv(n)
  BY <1>1, CredentialsAssumption DEF Init, TokenInv
<1>4. \A r \in Requests : ReadInv(request[r])
  BY DEF Init, ReadInv, Idle
<1>5. AccountInv
  BY DEF Init, AccountInv, LoginMethodAccounted, Idle
<1> QED
  BY <1>2, <1>3, <1>4, <1>5 DEF IInv

LEMMA StutterStep == IInv /\ UNCHANGED vars => IInv'
<1> SUFFICES ASSUME IInv, UNCHANGED vars PROVE IInv'
  OBVIOUS
<1>1. (\A n \in Ids : TokenInv(n)') /\ \A n \in Ids : KindKept(n)
  BY TokensKept DEF vars
<1>2. \A s \in Requests : ReadInv(request[s])'
  BY <1>1, RequestsSame DEF vars
<1>3. TypeOK' /\ AccountInv'
  BY DEF vars, IInv, TypeOK, AccountInv, LoginMethodAccounted
<1> QED
  BY <1>1, <1>2, <1>3 DEF IInv

\* The inductive invariant holds for every set of providers, every number of
\* handlers, calls and wrong passwords.
THEOREM Invariance == Spec => []IInv
<1>1. Init => IInv
  BY InitInv
<1>2. IInv /\ [Next]_vars => IInv'
  <2> SUFFICES ASSUME IInv, [Next]_vars PROVE IInv'
    OBVIOUS
  <2>1. CASE Immediate
    BY <2>1, ImmediateStep
  <2>2. ASSUME NEW r \in Requests, Start(r)
        PROVE  IInv'
    BY <2>2, StartStep
  <2>3. ASSUME NEW r \in Requests, Finish(r)
        PROVE  IInv'
    BY <2>3, AccountStep, UseStep, EmailStep DEF Finish
  <2>4. CASE UNCHANGED vars
    BY <2>4, StutterStep
  <2> QED
    BY <2>1, <2>2, <2>3, <2>4 DEF Next
<1> QED
  BY <1>1, <1>2, PTL DEF Spec

\* Rows and requests keep their types.
THEOREM TypeCorrect == Spec => []TypeOK
<1>1. IInv => TypeOK
  BY DEF IInv
<1> QED
  BY <1>1, Invariance, PTL

\* A reset link, a confirmation and a switch of providers take effect once,
\* the last wrong password ends a confirmation for good, and one request
\* activates the account.
THEOREM ExclusiveClaims == Spec => []ClaimsExclusive
<1>1. IInv => ClaimsExclusive
  <2> SUFFICES ASSUME IInv PROVE ClaimsExclusive
    OBVIOUS
  <2>1. activations <= 1
    BY DEF IInv, AccountInv
  <2>2. ASSUME NEW n \in Ids, token[n].kind # "email"
        PROVE  uses[n] <= 1 /\ (token[n].failed = Strikes => uses[n] = 0)
    <3>1. uses[n] \in Nat /\ TokenInv(n)
      BY DEF IInv, TypeOK
    <3> QED
      BY <2>2, <3>1, CredentialsAssumption DEF TokenInv
  <2> QED
    BY <2>1, <2>2 DEF ClaimsExclusive
<1> QED
  BY <1>1, Invariance, PTL

\* An account that was activated keeps a way in, unless an unlink overlapped
\* the confirmed link that replaced the password.
THEOREM AccountedLogin == Spec => []LoginMethodAccounted
<1>1. IInv => LoginMethodAccounted
  BY DEF IInv, AccountInv
<1> QED
  BY <1>1, Invariance, PTL
=============================================================================
