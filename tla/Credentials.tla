----------------------------- MODULE Credentials -----------------------------
(***************************************************************************)
(* How an account is signed in to: its password, its one OIDC link, and    *)
(* the tokens that give or take them (activation invitation, password      *)
(* reset, link confirmation, provider switch), for one account whose team  *)
(* may enforce a provider.  Accounts do not share any of these rows.       *)
(*                                                                         *)
(* A handler reads in its Begin action and writes, in one transaction at   *)
(* READ COMMITTED, in a later one; tokens are claimed by a conditional     *)
(* UPDATE, which looks at consumed_at again.  The handlers that only add a *)
(* token nobody else can know yet are one step: their reads and their      *)
(* insert may be put side by side.  Calls that change nothing are left     *)
(* out, and so are other people's identities.                              *)
(***************************************************************************)
EXTENDS Naturals

CONSTANTS Providers,   \* OIDC providers
          NoProvider,  \* no link, or no enforcement
          Strikes,     \* FAILED_ATTEMPT_THRESHOLD
          Requests,    \* handlers in flight at once
          MaxCalls     \* bound: handler calls in a behaviour

ASSUME CredentialsAssumption ==
    NoProvider \notin Providers /\ Strikes \in Nat \ {0} /\ MaxCalls \in Nat

VARIABLES account,     \* user_account (password, activated) and user_account_oauth (link)
          invitation,  \* the activation invitation
          enforced,    \* team.enforced_provider
          token,       \* the token a call has made, if it made one
          request,     \* what each handler in flight has read
          calls,       \* handler calls so far
          uses,        \* history: how often a token took effect
          activations, \* history: how often the account was activated
          stripped     \* history: an unlink overlapped a confirmed link

rows    == <<account, invitation, enforced, token>>
history == <<uses, activations, stripped>>
vars    == <<account, invitation, enforced, token, request, calls,
             uses, activations, stripped>>

Links == Providers \cup {NoProvider}
Ids   == 1 .. MaxCalls
Kinds == {"reset", "link", "switch", "email"}
Token == [kind : Kinds \cup {"none"}, source : Links, target : Links,
          failed : 0 .. Strikes, expired : BOOLEAN, consumed : BOOLEAN]

FreshToken(kind, source, target) ==
    [kind |-> kind, source |-> source, target |-> target,
     failed |-> 0, expired |-> FALSE, consumed |-> FALSE]

NoToken == FreshToken("none", NoProvider, NoProvider)

Usable(n, kind) == token[n].kind = kind /\ ~token[n].expired /\ ~token[n].consumed

\* The link pages need a session, and a session begins with a sign-in: the
\* account was activated, or has a password or a link.
Known == account.activated \/ account.password \/ account.link # NoProvider

Idle == [op |-> "idle"]

Call == calls < MaxCalls /\ calls' = calls + 1

Begin(r, read) ==
    /\ request[r] = Idle
    /\ Call
    /\ request' = [request EXCEPT ![r] = read]

Done(r) == request' = [request EXCEPT ![r] = Idle] /\ UNCHANGED calls

NewToken(n, kind, source, target) ==
    token' = [token EXCEPT ![n] = FreshToken(kind, source, target)]

\* One call that adds a token.
Mint(kind, source, target) ==
    /\ Call
    /\ NewToken(calls + 1, kind, source, target)
    /\ UNCHANGED <<account, invitation, enforced, request, history>>

\* Mutant: the read of the token is all that is looked at.
ClaimRead(n) ==
    /\ token' = [token EXCEPT ![n].consumed = TRUE]
    /\ uses' = [uses EXCEPT ![n] = @ + 1]

\* The conditional UPDATE of consumed_at.
Claim(n) ==
    /\ ~token[n].consumed
    /\ token' = [token EXCEPT ![n].consumed = TRUE]
    /\ uses' = [uses EXCEPT ![n] = @ + 1]

Expire(n) ==
    /\ token[n].kind # "none" /\ ~token[n].expired /\ ~token[n].consumed
    /\ token' = [token EXCEPT ![n].expired = TRUE]
    /\ UNCHANGED <<account, invitation, enforced, request, calls, history>>

-----------------------------------------------------------------------------
(* Activation *)

\* set_password of the invitation page: refused when the team enforces a
\* provider, or the account has been activated or has a password.
BeginSetPassword(r) ==
    /\ invitation = "open" /\ enforced = NoProvider
    /\ ~account.activated /\ ~account.password
    /\ Begin(r, [op |-> "activate"])
    /\ UNCHANGED <<rows, history>>

\* claim_user_activation writes only where activated_at is still NULL.
MayActivate == ~account.activated

SetPassword(r) ==
    /\ request[r].op = "activate" /\ MayActivate
    /\ account' = [account EXCEPT !.activated = TRUE, !.password = TRUE]
    /\ invitation' = IF invitation = "open" THEN "accepted" ELSE invitation
    /\ activations' = activations + 1
    /\ Done(r)
    /\ UNCHANGED <<enforced, token, uses, stripped>>

\* An invitation is revoked or expires.
Withdraw ==
    /\ invitation = "open"
    /\ invitation' = "withdrawn"
    /\ UNCHANGED <<account, enforced, token, request, calls, history>>

-----------------------------------------------------------------------------
(* The OIDC callback *)

\* OidcIdentityResolver.resolve, no link and a password: the identity waits
\* for the password.
MintLink(p) ==
    /\ account.link = NoProvider /\ account.password
    /\ Mint("link", p, p)

\* A link of this provider, or neither link nor password, and the team
\* enforces another provider: start_provider_switch (and, for a link, the
\* profile's start_settings_provider_switch).
StartSwitch(p) ==
    /\ enforced \notin {NoProvider, p}
    /\ account.link = p \/ (account.link = NoProvider /\ ~account.password)
    /\ Mint("switch", p, enforced)

\* Neither link nor password, and no objection: the first sign-in.
BeginSignIn(r, p) ==
    /\ enforced \in {NoProvider, p}
    /\ account.link = NoProvider /\ ~account.password /\ ~account.activated
    /\ Begin(r, [op |-> "signin", provider |-> p])
    /\ UNCHANGED <<rows, history>>

\* A second link of the account would break a unique key.
SignIn(r) ==
    /\ request[r].op = "signin" /\ MayActivate /\ account.link = NoProvider
    /\ account' = [account EXCEPT !.activated = TRUE, !.link = request[r].provider]
    /\ activations' = activations + 1
    /\ Done(r)
    /\ UNCHANGED <<invitation, enforced, token, uses, stripped>>

\* _maybe_claim_invitation, after the sign-in has been committed.
ClaimInvitation ==
    /\ Call
    /\ account.activated /\ account.link # NoProvider /\ invitation = "open"
    /\ invitation' = "accepted"
    /\ UNCHANGED <<account, enforced, token, request, history>>

-----------------------------------------------------------------------------
(* Link confirmation *)

BeginConfirm(r, n) ==
    /\ Usable(n, "link") /\ token[n].failed < Strikes /\ account.password
    /\ Begin(r, [op |-> "confirm", token |-> n])
    /\ UNCHANGED <<rows, history>>

\* Mutant: a strike is counted on a consumed token too.
StrikeAny(n) ==
    token' = [token EXCEPT ![n].failed = @ + 1, ![n].consumed = @ \/ token[n].failed + 1 >= Strikes]

\* increment_failed_attempts: the third wrong password consumes the token.
Strike(n) ==
    token' = IF token[n].consumed THEN token
             ELSE [token EXCEPT ![n].failed = @ + 1,
                                ![n].consumed = token[n].failed + 1 >= Strikes]

ConfirmWrong(r) ==
    /\ request[r].op = "confirm"
    /\ Strike(request[r].token)
    /\ Done(r)
    /\ UNCHANGED <<account, invitation, enforced, history>>

\* The right password: the link replaces it.
ConfirmRight(r) ==
    LET q == request[r] IN
    /\ q.op = "confirm" /\ account.link = NoProvider
    /\ Claim(q.token)
    /\ account' = [account EXCEPT !.link = token[q.token].target, !.password = FALSE]
    /\ stripped' = (stripped \/ \E o \in Requests : request[o].op = "unlink")
    /\ Done(r)
    /\ UNCHANGED <<invitation, enforced, activations>>

-----------------------------------------------------------------------------
(* Passwords *)

\* send_reset for an account with a password; total_recovery of the
\* operator's panel for any.
SendReset     == account.password /\ Mint("reset", NoProvider, NoProvider)
TotalRecovery == Mint("reset", NoProvider, NoProvider)

BeginReset(r, n) ==
    /\ Usable(n, "reset")
    /\ Begin(r, [op |-> "reset", token |-> n])
    /\ UNCHANGED <<rows, history>>

SubmitReset(r) ==
    LET q == request[r] IN
    /\ q.op = "reset"
    /\ Claim(q.token)
    /\ account' = [account EXCEPT !.password = TRUE]
    /\ Done(r)
    /\ UNCHANGED <<invitation, enforced, activations, stripped>>

\* The first generation of the same: for any account, the tokens sent before
\* are marked and a new one is added in a second transaction; the use marks
\* the token as it was read, and sets the password in a second transaction.
BeginEmailReset(r) ==
    /\ Begin(r, [op |-> "send", made |-> calls + 1])
    /\ token' = [n \in Ids |-> IF Usable(n, "email") THEN [token[n] EXCEPT !.consumed = TRUE]
                               ELSE token[n]]
    /\ UNCHANGED <<account, invitation, enforced, history>>

SendEmailReset(r) ==
    /\ request[r].op = "send"
    /\ NewToken(request[r].made, "email", NoProvider, NoProvider)
    /\ Done(r)
    /\ UNCHANGED <<account, invitation, enforced, history>>

BeginConsume(r, n) ==
    /\ Usable(n, "email")
    /\ Begin(r, [op |-> "consume", token |-> n])
    /\ UNCHANGED <<rows, history>>

ConsumeToken(r) ==
    /\ request[r].op = "consume"
    /\ token' = [token EXCEPT ![request[r].token].consumed = TRUE]
    /\ uses' = [uses EXCEPT ![request[r].token] = @ + 1]
    /\ request' = [request EXCEPT ![r] = [op |-> "change"]]
    /\ UNCHANGED <<account, invitation, enforced, calls, activations, stripped>>

\* update_password, by one who has just proved the present one.
BeginChange(r) ==
    /\ account.password
    /\ Begin(r, [op |-> "change"])
    /\ UNCHANGED <<rows, history>>

ChangePassword(r) ==
    /\ request[r].op = "change"
    /\ account' = [account EXCEPT !.password = TRUE]
    /\ Done(r)
    /\ UNCHANGED <<invitation, enforced, token, history>>

-----------------------------------------------------------------------------
(* The link pages of the profile and the switch of providers *)

\* complete_link_oauth: the first link is made (that of another provider
\* stays, and the request fails).
CompleteLink(p) ==
    /\ Call /\ Known /\ account.link = NoProvider
    /\ account' = [account EXCEPT !.link = p]
    /\ UNCHANGED <<invitation, enforced, token, request, history>>

\* Mutant: the last login method may go.
MayUnlinkAlways == TRUE

\* can_unlink_oauth: there is a password (an account has one link at most).
MayUnlink == account.password

BeginUnlink(r, p) ==
    /\ Known /\ MayUnlink
    /\ Begin(r, [op |-> "unlink", provider |-> p])
    /\ UNCHANGED <<rows, history>>

Unlink(r) ==
    /\ request[r].op = "unlink"
    /\ account' = IF account.link = request[r].provider
                  THEN [account EXCEPT !.link = NoProvider] ELSE account
    /\ Done(r)
    /\ UNCHANGED <<invitation, enforced, token, history>>

\* The callback with a switch: an identity that does not match uses the token up.
BeginSwitch(r, n) ==
    /\ Usable(n, "switch")
    /\ Begin(r, [op |-> "swap", token |-> n])
    /\ UNCHANGED <<rows, history>>

RejectSwitch(r) ==
    /\ request[r].op = "swap"
    /\ token' = [token EXCEPT ![request[r].token].consumed = TRUE]
    /\ Done(r)
    /\ UNCHANGED <<account, invitation, enforced, history>>

\* The link of the source provider goes, the one of the target comes; a link
\* of any other provider stands in the way.
CompleteSwitch(r) ==
    LET q == request[r] IN
    /\ q.op = "swap" /\ account.link \in {NoProvider, token[q.token].source}
    /\ Claim(q.token)
    /\ account' = [account EXCEPT !.link = token[q.token].target]
    /\ Done(r)
    /\ UNCHANGED <<invitation, enforced, activations, stripped>>

\* The team's enforcement is set or lifted.
Enforce(p) ==
    /\ Call /\ p # enforced
    /\ enforced' = p
    /\ UNCHANGED <<account, invitation, token, request, history>>

-----------------------------------------------------------------------------
(* Specification *)

\* A claim that finds no row, a constraint, an error or a crash: nothing is
\* written.
Fail(r) ==
    /\ request[r] # Idle
    /\ Done(r)
    /\ UNCHANGED <<rows, history>>

\* An account as an invitation makes it.
Init ==
    /\ account = [password |-> FALSE, link |-> NoProvider, activated |-> FALSE]
    /\ invitation = "open" /\ enforced = NoProvider
    /\ token = [n \in Ids |-> NoToken]
    /\ request = [r \in Requests |-> Idle]
    /\ calls = 0
    /\ uses = [n \in Ids |-> 0] /\ activations = 0 /\ stripped = FALSE

\* Actions that carry no request.
Immediate ==
    \/ \E p \in Providers : MintLink(p) \/ StartSwitch(p) \/ CompleteLink(p)
    \/ \E p \in Links : Enforce(p)
    \/ \E n \in Ids : Expire(n)
    \/ ClaimInvitation \/ Withdraw \/ SendReset \/ TotalRecovery

Start(r) ==
    \/ BeginSetPassword(r) \/ BeginEmailReset(r) \/ BeginChange(r)
    \/ \E p \in Providers : BeginSignIn(r, p) \/ BeginUnlink(r, p)
    \/ \E n \in Ids : BeginConfirm(r, n) \/ BeginReset(r, n) \/ BeginConsume(r, n) \/ BeginSwitch(r, n)

Finish(r) ==
    \/ SetPassword(r) \/ SignIn(r)
    \/ ConfirmWrong(r) \/ ConfirmRight(r) \/ SubmitReset(r)
    \/ SendEmailReset(r) \/ ConsumeToken(r) \/ ChangePassword(r)
    \/ Unlink(r) \/ RejectSwitch(r) \/ CompleteSwitch(r)
    \/ Fail(r)

Next == Immediate \/ \E r \in Requests : Start(r) \/ Finish(r)

Spec == Init /\ [][Next]_vars

-----------------------------------------------------------------------------
(* Properties *)

Read == [op : {"idle", "activate", "change"}]
        \cup [op : {"signin", "unlink"}, provider : Providers]
        \cup [op : {"confirm", "reset", "consume", "swap"}, token : Ids]
        \cup [op : {"send"}, made : Ids]

TypeOK ==
    /\ account \in [password : BOOLEAN, link : Links, activated : BOOLEAN]
    /\ invitation \in {"open", "accepted", "withdrawn"}
    /\ enforced \in Links
    /\ token \in [Ids -> Token]
    /\ request \in [Requests -> Read]
    /\ calls \in 0 .. MaxCalls
    /\ uses \in [Ids -> Nat]
    /\ activations \in Nat
    /\ stripped \in BOOLEAN

\* claim_password_reset, claim_pending_link_consumed and
\* claim_pending_provider_switch_consumed: however requests with one token
\* overlap, with each other, with wrong passwords and with its expiry, the
\* token takes effect once, and not at all after the last wrong password it allows.
\* claim_user_activation: one request activates the account.  (The tokens of
\* the first generation make no such promise.)
ClaimsExclusive ==
    /\ activations <= 1
    /\ \A n \in Ids : token[n].kind # "email" =>
          uses[n] <= 1 /\ (token[n].failed = Strikes => uses[n] = 0)

\* can_unlink_oauth, link-confirm and the switch of providers: an account
\* that was activated keeps a password or a link, unless its link was removed
\* by a request that had seen the password a confirmed link replaced.
LoginMethodAccounted ==
    account.activated => account.password \/ account.link # NoProvider \/ stripped

\* activated_at is equivalent to 'has hashed_password OR has any
\* UserOauthAccount row'.
ActivationEquivalent ==
    account.activated <=> account.password \/ account.link # NoProvider
=============================================================================
