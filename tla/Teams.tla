------------------------------- MODULE Teams -------------------------------
(***************************************************************************)
(* Teams, their members, ownership and invitations: the tables team,       *)
(* team_member, team_invitation and user_account with the handlers of the  *)
(* team pages, the invitation pages and the operator's panel.              *)
(*                                                                         *)
(* A handler is one PostgreSQL transaction at READ COMMITTED: what it      *)
(* reads is committed, may be stale when it writes, and its writes appear  *)
(* together when it commits.  A handler whose checks are all made again by *)
(* a constraint at the commit (unique keys, foreign keys) is one step; the *)
(* others read in a Begin action, which keeps what was read, and write in  *)
(* a second one.  Two count or scan rows in between, in a statement with a *)
(* snapshot of its own.  A handler may fail at any moment: nothing of it   *)
(* is written.                                                             *)
(*                                                                         *)
(* An element of Users is an account row: an address provisioned again     *)
(* after its account was purged is another element.                        *)
(***************************************************************************)
EXTENDS Naturals, FiniteSets

CONSTANTS Users,       \* user_account rows that may exist
          Superusers,  \* those with is_superuser
          Authors,     \* those a RESTRICT foreign key refers to
          TeamIds,     \* team rows that may exist
          Founder,     \* the owner of a team in the initial state
          Crew,        \* the other members in the initial state
          Requests,    \* handlers in flight at once
          MaxCalls     \* bound: handler calls in a behaviour

ASSUME TeamsAssumption ==
    /\ Superusers \subseteq Users /\ Authors \subseteq Users
    /\ DOMAIN Founder \subseteq TeamIds
    /\ \A t \in DOMAIN Founder : Founder[t] \in Users
    /\ Crew \subseteq (DOMAIN Founder) \X Users
    /\ \A t \in DOMAIN Founder : <<t, Founder[t]>> \notin Crew
    /\ MaxCalls \in Nat

VARIABLES account,    \* user_account: state of each row
          team,       \* team: state of each row
          members,    \* team_member rows
          invites,    \* team_invitation rows
          request,    \* what each handler in flight has read
          calls,      \* handler calls so far
          contested,  \* history: teams with a transfer beside another change
          deposed,    \* history: teams whose owner row the operator or a cascade took
          spared,     \* history: accounts whose purge was not due or was missed
          removed,    \* history: memberships taken away
          leavers     \* history: accounts a membership was taken away from

tables  == <<account, team, members, invites>>
history == <<contested, deposed, spared, removed, leavers>>
vars    == <<account, team, members, invites, request, calls,
             contested, deposed, spared, removed, leavers>>

Roles  == {"MEMBER", "ADMIN"}
Member == [made : 0 .. MaxCalls, team : TeamIds, user : Users,
           role : Roles, owner : BOOLEAN]
Invite == [made : 1 .. MaxCalls, team : TeamIds, user : Users, role : Roles,
           kind : {"FIRST_TIME_ACTIVATION", "CROSS_TEAM_JOIN"},
           status : {"pending", "expired", "accepted"}]

Live(u)   == account[u] \in {"provisioned", "active"}
\* Mutant: only the owner is looked for.
JoinedOwner(t) == {m.user : m \in {x \in members : x.team = t /\ x.owner}}
Joined(t) == {m.user : m \in {x \in members : x.team = t}}
RowOf(t, u) == CHOOSE m \in members : m.team = t /\ m.user = u
Pending(t, u) == \E i \in invites : i.team = t /\ i.user = u /\ i.status = "pending"
Owners(t) == {m \in members : m.team = t /\ m.owner}

\* The row x was read from, as it is now.
Now(x) == {m \in members : m.made = x.made /\ m.team = x.team /\ m.user = x.user}
NowInvite(x) == {i \in invites : i.made = x.made}

-----------------------------------------------------------------------------
(* Requests *)

Idle == [op |-> "idle"]

\* A row or a request is known by the call that made it.
Call == calls < MaxCalls /\ calls' = calls + 1

Begin(r, read) ==
    /\ request[r] = Idle
    /\ Call
    /\ request' = [request EXCEPT ![r] = read]
    /\ UNCHANGED tables

Continue(r, read) ==
    /\ request' = [request EXCEPT ![r] = read]
    /\ UNCHANGED <<tables, calls>>

Done(r) == request' = [request EXCEPT ![r] = Idle] /\ UNCHANGED calls

NewMember(n, t, u, role, owner) ==
    [made |-> n, team |-> t, user |-> u, role |-> role, owner |-> owner]
\* An UPDATE leaves the row what it is known by.
Rewritten(m, role, owner) == NewMember(m.made, m.team, m.user, role, owner)

NewInvite(n, t, u, role, kind) ==
    [made |-> n, team |-> t, user |-> u, role |-> role, kind |-> kind, status |-> "pending"]

\* What the handlers that write members of a team overlap with.
OwnershipOps == {"transfer", "remove", "role"}
Contest(r, t, op) ==
    contested' = contested \cup
        {s \in {t} : \E q \in Requests \ {r} :
            /\ request[q].op \in OwnershipOps /\ request[q].team = s
            /\ "transfer" \in {op, request[q].op}}

-----------------------------------------------------------------------------
(* Teams and direct membership *)

\* create_team: the creator is its owner.
CreateTeam(t, u) ==
    /\ Call /\ team[t] = "none" /\ account[u] = "active"
    /\ team' = [team EXCEPT ![t] = "live"]
    /\ members' = members \cup {NewMember(calls + 1, t, u, "ADMIN", TRUE)}
    /\ UNCHANGED <<account, invites, request, history>>

\* add_member_to_team: an account that was never activated, new or not, is
\* also invited, unless an invitation is pending.
AddMember(t, u) ==
    /\ Call /\ team[t] = "live" /\ account[u] # "deleted" /\ u \notin Joined(t)
    /\ account' = [account EXCEPT ![u] = IF @ = "none" THEN "provisioned" ELSE @]
    /\ members' = members \cup {NewMember(calls + 1, t, u, "MEMBER", FALSE)}
    /\ invites' = invites \cup
            {i \in {NewInvite(calls + 1, t, u, "MEMBER", "FIRST_TIME_ACTIVATION")} :
                account[u] # "active" /\ ~Pending(t, u)}
    /\ UNCHANGED <<team, request, history>>

\* The operator's panel: add_member (an account that exists, no invitation)
\* and invite_member (an address without an account).
AdminAddMember(t, u, role) ==
    /\ Call /\ team[t] = "live" /\ Live(u) /\ u \notin Joined(t)
    /\ members' = members \cup {NewMember(calls + 1, t, u, role, FALSE)}
    /\ UNCHANGED <<account, team, invites, request, history>>

AdminInvite(t, u, role) ==
    /\ Call /\ team[t] = "live" /\ account[u] = "none"
    /\ account' = [account EXCEPT ![u] = "provisioned"]
    /\ members' = members \cup {NewMember(calls + 1, t, u, role, FALSE)}
    /\ invites' = invites \cup
            {NewInvite(calls + 1, t, u, role, "FIRST_TIME_ACTIVATION")}
    /\ UNCHANGED <<team, request, history>>

\* change_member_role: refused for the owner, as read.
BeginChangeRole(r, t, u, role) ==
    /\ u \in Joined(t)
    /\ ~RowOf(t, u).owner
    /\ Begin(r, [op |-> "role", team |-> t, row |-> RowOf(t, u), role |-> role])
    /\ Contest(r, t, "role")
    /\ UNCHANGED <<deposed, spared, removed, leavers>>

\* Only a role that differs from the one read is written.
ChangeRole(r) ==
    LET q == request[r] IN
    /\ q.op = "role"
    /\ q.row.role = q.role \/ Now(q.row) # {}
    /\ members' = IF q.row.role = q.role THEN members
                  ELSE (members \ Now(q.row)) \cup {Rewritten(m, q.role, m.owner) : m \in Now(q.row)}
    /\ Done(r)
    /\ UNCHANGED <<account, team, invites, history>>

-----------------------------------------------------------------------------
(* Ownership *)

\* transfer_ownership reads the new owner's row; the UPDATE of the others
\* takes the rows that are owners in its own snapshot, waits for their locks
\* and looks at each again; the new owner's row is written last, and only
\* where it differs from what was read.
BeginTransfer(r, t, u) ==
    /\ u \in Joined(t)
    /\ Begin(r, [op |-> "transfer", team |-> t, row |-> RowOf(t, u)])
    /\ Contest(r, t, "transfer")
    /\ UNCHANGED <<deposed, spared, removed, leavers>>

\* Mutant: no one is cleared.
OthersKept(q) == {}

OthersOwning(q) == Owners(q.team) \ Now(q.row)

ScanOwners(r) ==
    LET q == request[r] IN
    /\ q.op = "transfer" /\ "others" \notin DOMAIN q
    /\ Continue(r, [op |-> "transfer", team |-> q.team, row |-> q.row,
                    others |-> OthersOwning(q)])
    /\ UNCHANGED history

TransferOwnership(r) ==
    LET q == request[r]
        cleared == UNION {Now(m) : m \in q.others}
        dirty   == ~q.row.owner \/ q.row.role # "ADMIN"
        target  == IF dirty THEN Now(q.row) ELSE {}
    IN
    /\ q.op = "transfer" /\ "others" \in DOMAIN q
    /\ dirty => target # {}
    /\ members' = (members \ (cleared \cup target))
            \cup {Rewritten(m, m.role, FALSE) : m \in cleared}
            \cup {Rewritten(m, IF q.row.role = "ADMIN" THEN m.role ELSE "ADMIN",
                            IF q.row.owner THEN m.owner ELSE TRUE) : m \in target}
    /\ Done(r)
    /\ UNCHANGED <<account, team, invites, history>>

-----------------------------------------------------------------------------
(* Removal and the purge of accounts without a team *)

\* remove_member_from_team refuses the owner, as read; remove_member of the
\* operator's panel does not look.
BeginRemove(r, t, u, panel) ==
    /\ u \in Joined(t)
    /\ panel \/ ~RowOf(t, u).owner
    /\ Begin(r, [op |-> "remove", team |-> t, rows |-> {RowOf(t, u)}, users |-> {u},
                 panel |-> panel])
    /\ Contest(r, t, "remove")
    /\ UNCHANGED <<deposed, spared, removed, leavers>>

\* delete_team snapshots the members but the one who asks (the operator's
\* panel: all of them) before the cascade takes their rows.
BeginDeleteTeam(r, t, users) ==
    /\ team[t] = "live"
    /\ \/ users = Joined(t)
       \/ \E m \in Owners(t) : users = Joined(t) \ {m.user}
    /\ Begin(r, [op |-> "delete", team |-> t, rows |-> {}, users |-> users, panel |-> FALSE])
    /\ UNCHANGED history

\* What the request deletes: its row, or every row of the team.
Doomed(q) == IF q.op = "delete" THEN {m \in members : m.team = q.team}
             ELSE UNION {Now(m) : m \in q.rows}

\* Mutant: the count comes before the delete.
OrphansBefore(q) == {u \in q.users \ Superusers : Live(u) /\ ~\E m \in members : m.user = u}

\* delete_if_orphaned: an account whose last membership is gone, unless it
\* is a superuser; the count sees this transaction's deletes and no
\* uncommitted one of another.
Orphans(q) == {u \in q.users \ Superusers : Live(u) /\ ~\E m \in members \ Doomed(q) : m.user = u}

Counted == {"remove", "delete"}
CountMemberships(r) ==
    LET q == request[r] IN
    /\ q.op \in Counted /\ "orphans" \notin DOMAIN q
    /\ q.op = "remove" => Doomed(q) # {}
    /\ Continue(r, [op |-> q.op, team |-> q.team, rows |-> q.rows, users |-> q.users,
                    panel |-> q.panel, orphans |-> Orphans(q)])
    /\ spared' = spared \cup
            {u \in q.users : \E o \in Requests \ {r} :
                request[o].op \in Counted /\ "orphans" \in DOMAIN request[o] /\ u \in request[o].users}
    /\ UNCHANGED <<contested, deposed, removed, leavers>>

\* Deleting an account takes its memberships and invitations along.
Purge(users, doomed) ==
    LET cascade == {m \in members : m.user \in users} IN
    /\ account' = [u \in Users |-> IF u \in users THEN "deleted" ELSE account[u]]
    /\ members' = members \ (doomed \cup cascade)

\* The savepoint of delete_if_orphaned keeps an account that something
\* refers to.
PurgeOf(q) == {u \in q.orphans \ Authors : Live(u)}

RemoveMember(r) ==
    LET q == request[r]  doomed == Doomed(q)  purged == PurgeOf(q) IN
    /\ q.op = "remove" /\ "orphans" \in DOMAIN q
    /\ Purge(purged, doomed)
    /\ invites' = {i \in invites : i.user \notin purged}
    /\ deposed' = deposed \cup {m.team : m \in {x \in members : x.owner /\
                      \/ x \in doomed /\ q.panel
                      \/ x \notin doomed /\ x.user \in purged}}
    /\ removed' = removed \cup {<<m.team, m.user>> : m \in doomed}
    /\ leavers' = leavers \cup {m.user : m \in doomed}
    /\ Done(r)
    /\ UNCHANGED <<team, contested, spared>>

DeleteTeam(r) ==
    LET q == request[r]  doomed == Doomed(q)  purged == PurgeOf(q) IN
    /\ q.op = "delete" /\ "orphans" \in DOMAIN q /\ team[q.team] = "live"
    /\ Purge(purged, doomed)
    /\ team' = [team EXCEPT ![q.team] = "deleted"]
    /\ invites' = {i \in invites : i.user \notin purged /\ i.team # q.team}
    /\ deposed' = deposed \cup
            {m.team : m \in {x \in members \ doomed : x.owner /\ x.user \in purged}}
    /\ spared' = spared \cup ({m.user : m \in doomed} \ q.users)
    /\ leavers' = leavers \cup {m.user : m \in doomed}
    /\ Done(r)
    /\ UNCHANGED <<contested, removed>>

\* create_user of the operator's panel and of the API: an account with a
\* password and without a team.  Only activated_at stays NULL, and every
\* handler here asks for that or a password.
CreateUser(u) ==
    /\ Call /\ account[u] = "none"
    /\ account' = [account EXCEPT ![u] = "active"]
    /\ UNCHANGED <<team, members, invites, request, history>>

\* remove_account, delete_user: refused by a RESTRICT key.
RemoveAccount(u) ==
    /\ Call /\ Live(u) /\ u \notin Authors
    /\ Purge({u}, {})
    /\ invites' = {i \in invites : i.user # u}
    /\ deposed' = deposed \cup {m.team : m \in {x \in members : x.owner /\ x.user = u}}
    /\ UNCHANGED <<team, request, contested, spared, removed, leavers>>

-----------------------------------------------------------------------------
(* Invitations *)

\* create_invitation: membership and a pending invitation are looked for
\* first; _provision_invitee then reads the account again, and makes a
\* member of one that was never activated.
BeginInvite(r, t, u, role) ==
    /\ team[t] = "live" /\ u \notin Joined(t) /\ ~Pending(t, u)
    /\ Begin(r, [op |-> "invite", team |-> t, user |-> u, role |-> role, made |-> calls + 1])
    /\ UNCHANGED history

CreateInvitation(r) ==
    LET q == request[r] IN
    /\ q.op = "invite" /\ team[q.team] = "live"
    /\ \/ /\ account[q.user] = "active"
          /\ invites' = invites \cup
                  {NewInvite(q.made, q.team, q.user, q.role, "CROSS_TEAM_JOIN")}
          /\ UNCHANGED <<account, members>>
       \/ /\ account[q.user] \in {"none", "provisioned"} /\ q.user \notin Joined(q.team)
          /\ account' = [account EXCEPT ![q.user] = "provisioned"]
          /\ members' = members \cup {NewMember(q.made, q.team, q.user, q.role, FALSE)}
          /\ invites' = invites \cup
                  {NewInvite(q.made, q.team, q.user, q.role, "FIRST_TIME_ACTIVATION")}
    /\ Done(r)
    /\ UNCHANGED <<team, history>>

\* cancel_invitation and decline_invitation delete the row; a membership
\* made with it stays.
DeleteInvitation(i) ==
    /\ Call
    /\ invites' = invites \ {i}
    /\ UNCHANGED <<account, team, members, request, history>>

Expire(i) ==
    /\ i.status = "pending"
    /\ invites' = (invites \ {i}) \cup {[i EXCEPT !.status = "expired"]}
    /\ UNCHANGED <<account, team, members, request, calls, history>>

Accepted(x) == (invites \ NowInvite(x)) \cup {[i EXCEPT !.status = "accepted"] : i \in NowInvite(x)}

\* accept_invitation of a signed-in user: the row is read and checked, the
\* membership created (unique per team and user), the row marked.
BeginAccept(r, i) ==
    /\ i.status = "pending" /\ account[i.user] = "active"
    /\ Begin(r, [op |-> "accept", invite |-> i, made |-> calls + 1])
    /\ UNCHANGED history

AcceptInvitation(r) ==
    LET q == request[r] IN
    /\ q.op = "accept" /\ NowInvite(q.invite) # {}
    /\ q.invite.user \notin Joined(q.invite.team)
    /\ members' = members \cup
            {NewMember(q.made, q.invite.team, q.invite.user, q.invite.role, FALSE)}
    /\ invites' = Accepted(q.invite)
    /\ Done(r)
    /\ UNCHANGED <<account, team, history>>

\* set_password: invitation and account are read and checked, the account is
\* claimed if it is still not activated, then the invitation if it is still
\* there and not accepted.
BeginSetPassword(r, i) ==
    /\ i.status = "pending" /\ i.kind = "FIRST_TIME_ACTIVATION"
    /\ account[i.user] = "provisioned"
    /\ Begin(r, [op |-> "activate", invite |-> i])
    /\ UNCHANGED history

SetPassword(r) ==
    LET q == request[r] IN
    /\ q.op = "activate" /\ account[q.invite.user] = "provisioned"
    /\ account' = [account EXCEPT ![q.invite.user] = "active"]
    /\ invites' = Accepted(q.invite)
    /\ Done(r)
    /\ UNCHANGED <<team, members, history>>

\* An OIDC sign-in activates the account, commits, and then claims the
\* invitation whose page the browser came from, whatever its kind.
SignIn(u) ==
    /\ Call /\ account[u] = "provisioned"
    /\ account' = [account EXCEPT ![u] = "active"]
    /\ UNCHANGED <<team, members, invites, request, history>>

MaybeClaimInvitation(i) ==
    /\ Call /\ account[i.user] = "active" /\ i.status = "pending"
    /\ invites' = Accepted(i)
    /\ UNCHANGED <<account, team, members, request, history>>

-----------------------------------------------------------------------------
(* Specification *)

\* A constraint, an error or a crash: the transaction is rolled back.
Fail(r) ==
    /\ request[r] # Idle
    /\ Done(r)
    /\ UNCHANGED <<tables, history>>

Init ==
    /\ team = [t \in TeamIds |-> IF t \in DOMAIN Founder THEN "live" ELSE "none"]
    /\ members = {NewMember(0, t, Founder[t], "ADMIN", TRUE) : t \in DOMAIN Founder}
                 \cup {NewMember(0, c[1], c[2], "MEMBER", FALSE) : c \in Crew}
    /\ account = [u \in Users |-> IF \E m \in members : m.user = u THEN "active" ELSE "none"]
    /\ invites = {}
    /\ request = [r \in Requests |-> Idle]
    /\ calls = 0
    /\ contested = {} /\ deposed = {} /\ spared = {} /\ removed = {} /\ leavers = {}

Memberships ==
    \/ \E t \in TeamIds, u \in Users : CreateTeam(t, u) \/ AddMember(t, u)
    \/ \E t \in TeamIds, u \in Users, role \in Roles :
          AdminAddMember(t, u, role) \/ AdminInvite(t, u, role)
    \/ \E r \in Requests, t \in TeamIds, u \in Users, role \in Roles :
          BeginChangeRole(r, t, u, role)
    \/ \E r \in Requests, t \in TeamIds, u \in Users :
          BeginTransfer(r, t, u) \/ \E panel \in BOOLEAN : BeginRemove(r, t, u, panel)
    \/ \E r \in Requests, t \in TeamIds, users \in SUBSET Users : BeginDeleteTeam(r, t, users)
    \/ \E u \in Users : CreateUser(u) \/ RemoveAccount(u)
    \/ \E r \in Requests :
          \/ ChangeRole(r)
          \/ ScanOwners(r) \/ TransferOwnership(r)
          \/ CountMemberships(r) \/ RemoveMember(r) \/ DeleteTeam(r)

Invitations ==
    \/ \E r \in Requests, t \in TeamIds, u \in Users, role \in Roles : BeginInvite(r, t, u, role)
    \/ \E i \in invites : DeleteInvitation(i) \/ Expire(i) \/ MaybeClaimInvitation(i)
    \/ \E r \in Requests, i \in invites : BeginAccept(r, i) \/ BeginSetPassword(r, i)
    \/ \E u \in Users : SignIn(u)
    \/ \E r \in Requests : CreateInvitation(r) \/ AcceptInvitation(r) \/ SetPassword(r)

Next == Memberships \/ Invitations \/ \E r \in Requests : Fail(r)

Spec == Init /\ [][Next]_vars

-----------------------------------------------------------------------------
(* Properties *)

\* Rows have their types, a user is in a team once, and no row refers to a
\* team or an account that is gone.
TypeOK ==
    /\ account \in [Users -> {"none", "provisioned", "active", "deleted"}]
    /\ team \in [TeamIds -> {"none", "live", "deleted"}]
    /\ members \subseteq Member
    /\ invites \subseteq Invite
    /\ \A m, n \in members : m.team = n.team /\ m.user = n.user => m = n
    /\ \A x \in members \cup invites : team[x.team] = "live" /\ Live(x.user)

\* transfer_ownership, remove_member_from_team, change_member_role: a team
\* has exactly one owner, an admin, however its members join, leave, are
\* purged and change roles at the same time; the exceptions are the teams
\* whose owner the operator or a deleted account took away, and those where
\* a transfer ran beside another transfer, a removal or a change of role.
OwnershipAccounted ==
    \A t \in TeamIds \ (contested \cup deposed) :
        team[t] = "live" => \E m \in Owners(t) : Owners(t) = {m} /\ m.role = "ADMIN"

\* delete_if_orphaned: an account that lost its last membership is gone, or a
\* superuser, or kept by what it authored, or deleted its own team or joined
\* one while it was being deleted, or was removed by two requests at once,
\* each of which counted the membership the other was deleting.  (An account
\* made without a team by create_user lost none.)
OrphansAccounted ==
    \A u \in leavers : Live(u) =>
        \/ u \in Superusers \cup Authors \cup spared
        \/ \E m \in members : m.user = u

\* _maybe_claim_invitation says that the team membership row was made at
\* provisioning time, so that the user has the team either way: whoever
\* accepted an invitation is in the team until taken out of it.
AcceptedIsMember ==
    \A i \in invites : i.status = "accepted" =>
        i.user \in Joined(i.team) \/ <<i.team, i.user>> \in removed
=============================================================================
